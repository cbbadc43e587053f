------------------------------ MODULE MCLocks ------------------------------
(* The users of locks and tokens, one of them in each behaviour: the fencing *)
(* token guard, the distributed lock and the work coordinator.               *)
EXTENDS FencingGuard, DistributedLock, WorkCoordinator, TLC

CONSTANTS p1, p2
MCProcess == {p1, p2}
MCMaxTokens == p1 :> 2 @@ p2 :> 1
MCMaxPending == p1 :> 2 @@ p2 :> 1
MCPriority == 1 :> 1 @@ 2 :> 2

VARIABLE focus

\* Bound: commands of the coordinator reject in behaviours of their own, where
\* two are under way at once while there is one item.
Rejecting == untold # {} \/ \E k \in DOMAIN pipe : pipe[k].ans = Rejected

Init ==
  /\ focus \in {"guard", "lock", "work", "rejections"}
  /\ GuardInit /\ LockInit /\ CoordinatorInit

Next ==
  /\ UNCHANGED focus
  /\ \/ focus = "guard" /\ GuardNext /\ UNCHANGED <<lockVars, workVars>>
     \/ focus = "lock" /\ LockNext /\ UNCHANGED <<guardVars, workVars>>
     \/ /\ focus = "work" /\ CoordinatorNext /\ ~Rejecting'
        /\ UNCHANGED <<guardVars, lockVars>>
     \/ /\ focus = "rejections" /\ CoordinatorNext /\ (~Exists(2) \/ Len(pipe) <= 1)'
        /\ UNCHANGED <<guardVars, lockVars>>

Spec == Init /\ [][Next]_<<focus, guardVars, lockVars, workVars>> /\ CoordinatorFairness

TypeOK == GuardTypeOK /\ LockTypeOK /\ CoordinatorTypeOK
=============================================================================
