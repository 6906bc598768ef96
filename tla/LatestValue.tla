---------------------------- MODULE LatestValue ----------------------------
(***************************************************************************)
(* What AudioTimingMailbox promises its two users: a register that holds   *)
(* the newest value.  The writer replaces it at once, the reader takes it  *)
(* at once, and takes each value at most once.  Values are serial numbers. *)
(***************************************************************************)
EXTENDS Naturals

CONSTANT MaxPublished   \* bound: how many values are put

VARIABLES latest,   \* the newest value put
          fresh,    \* it has not been taken
          taken     \* the last value taken

vars == <<latest, fresh, taken>>

Init == /\ latest = 0
        /\ fresh = FALSE
        /\ taken = 0

Put == /\ latest < MaxPublished
       /\ latest' = latest + 1
       /\ fresh' = TRUE
       /\ taken' = taken

Take == /\ fresh
        /\ taken' = latest
        /\ fresh' = FALSE
        /\ latest' = latest

Next == Put \/ Take

Spec == Init /\ [][Next]_vars

FairSpec == Spec /\ WF_vars(Take)
=============================================================================
