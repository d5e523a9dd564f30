SPECIFICATION PlatformSpec
CONSTANTS
  User = {u1}
  NoUser = NoUser
  SystemUser = SystemUser
  JobUser = u1
  Trials = 3
  FailFast = TRUE
  MaxAttempt = 2
  MaxLost = 1
  Post = {"p1", "p2", "p3", "p4"}
  NoPost = NoPost
  PostUser <- cPostUser
  PostKey <- cPostKey
  NoKey = NoKey
  PostBody <- cPostBody
  Symbol = {"stk", "fut"}
  Price = {2, 4}
  Multiplier <- cMultiplier
  MarginPct <- cMarginPct
  InitialCash = 10
  Fee = 1
  Slip = 1
  LiquidationSlip = 1
  CallPct = 100
  LiquidationPct = 80
  WithRisk = TRUE
  OrderQty = {0, 1}
  SplitRatio <- cSplitRatio
  NetDividend = {1}
  MaxBars = 2
  Run = {"r1", "r2"}
  Files = 2
  Statements = 2
  Backend = {"postgres", "clickhouse"}
  MaxEdits = 1
  Thread = {t1, t2, t3}
  Client = {c1, c2, c3, c4}
  NoClient = NoClient
  MinSize = 1
  MaxSize = 2
  Trade = {f1, f2, f3}
  Gaps = Gaps
  TradeQty = {1, 2}
  TradePrice = {60, 120}
  NoPnl = NoPnl
  Import = {1, 2, 3}
  PickSymbol = {"s"}
  LastDay = 3
  MaxRunning = 2
  Given = {2}
  Calendar = {1, 2}
  Out = Out
  Blank = Blank
SYMMETRY TradeSymmetry
CHECK_DEADLOCK FALSE
INVARIANTS JournalExplained PlatformTypeOK ProgressFitsStatus ReportsFit KeysKept BooksBalance LedgerSound PoolSound PicksSound
PROPERTIES CallStopsExposure
