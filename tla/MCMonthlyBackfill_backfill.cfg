SPECIFICATION MCSpec
CONSTANTS
  Jobs = 2
  Models = 1
  Observation = {"o1", "o2", "o3"}
  NoObservation = "none"
  JobOf <- cJobOf
  Eligible = {"o2", "o3"}
  Gap = {"o1"}
  Recovers = {"o2", "o3"}
  Repair <- cRepair
  Version = {"v1", "v2"}
  NoVersion = "none"
  Approved = "v1"
  Importer = {"child", "operator"}
  Child = "child"
CHECK_DEADLOCK FALSE
INVARIANTS BackfillTypeOK ImportedOnce CompleteIsImported IposFollow ReviewFirst
PROPERTIES ReportsHonest InitFetchesOnce
