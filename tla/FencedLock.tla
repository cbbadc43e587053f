----------------------------- MODULE FencedLock -----------------------------
(***************************************************************************)
(* What a lease backend promises, without clocks, records or watchers:     *)
(* a lock that is granted to one holder at a time, under a number that     *)
(* grows with every grant.  A lock whose validity has lapsed may still be  *)
(* revived by the holder it was granted to, but only as long as nobody     *)
(* else was granted the lock in between.                                   *)
(***************************************************************************)
EXTENDS Naturals

CONSTANTS Holder,   \* who may hold the lock
          Nobody    \* no holder

VARIABLES owner,    \* the holder of the latest grant that was not given up
          grants,   \* how many grants were made: the latest fencing token
          status    \* "held", "lapsed" (may be revived or granted) or "free"

lockVars == <<owner, grants, status>>

Init ==
  /\ owner = Nobody
  /\ grants = 0
  /\ status = "free"

Grant(h) ==
  /\ status # "held"
  /\ owner' = h
  /\ grants' = grants + 1
  /\ status' = "held"

Lapse ==
  /\ status = "held"
  /\ status' = "lapsed"
  /\ UNCHANGED <<owner, grants>>

Revive ==
  /\ status = "lapsed"
  /\ status' = "held"
  /\ UNCHANGED <<owner, grants>>

Free ==
  /\ status # "free"
  /\ status' = "free"
  /\ owner' = Nobody
  /\ UNCHANGED grants

Next ==
  \/ \E h \in Holder : Grant(h)
  \/ Lapse
  \/ Revive
  \/ Free

Spec == Init /\ [][Next]_lockVars
=============================================================================
