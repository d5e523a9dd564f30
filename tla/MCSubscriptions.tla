-------------------------- MODULE MCSubscriptions --------------------------
(***************************************************************************)
(* Instances of Subscriptions for TLC: two orders of one buyer for one      *)
(* strategy, so that the check for an active subscription matters.          *)
(***************************************************************************)
EXTENDS Subscriptions, TLC

CONSTANTS u1, s1

OneBuyer == [o \in Order |-> u1]
OneStrategy == [o \in Order |-> s1]

Interchangeable == Permutations(Hook) \cup Permutations(Order) \cup Permutations(Ref)
=============================================================================
