---------------------------- MODULE MCJobEvents ----------------------------
(***************************************************************************)
(* Instances of the event streams for TLC.                                  *)
(***************************************************************************)
EXTENDS JobEvents

CONSTANTS j1, u1

\* Every stream asks for the same job: they share its asyncio.Event.
OneJob == [s \in Stream |-> j1]

FairEventsSpec == EventsSpec /\ EventsFairness
=============================================================================
