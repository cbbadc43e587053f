---------------------------- MODULE LeaseBackend ----------------------------
(***************************************************************************)
(* The lease store of src/src/hub/LeaseBackends.ts (EtcdLeaseBackend; the  *)
(* RedisLeaseBackend has the same bodies), for one lease key.              *)
(*                                                                         *)
(* The clock is abstracted to where it stands with respect to the stored   *)
(* lease's expiresAt: "live" (before it), "edge" (at it) or "past" (after  *)
(* it).  The operations do not agree on the edge: acquire treats the lease *)
(* as gone, renew and getLease treat it as valid.                          *)
(*                                                                         *)
(* An operation reports its result through its last parameter.             *)
(***************************************************************************)
EXTENDS Naturals

CONSTANTS Holder,     \* the instances that use the store
          Nobody,     \* the holder of no lease
          MaxToken    \* bound: how many leases are granted

ASSUME NobodyAssumption == Nobody \notin Holder
ASSUME MaxTokenAssumption == MaxToken \in Nat

VARIABLES lease,      \* the record stored under the key, or NoLease
          counter,    \* fencingCounters.get(key) ?? 0
          closed,     \* close() was called
          seen        \* token of the lease the watchers heard of last; 0: null

backendVars == <<lease, counter, closed, seen>>

NoLease == [holder |-> Nobody, token |-> 0, phase |-> "none"]

BackendTypeOK ==
  /\ lease \in [holder : Holder \cup {Nobody}, token : Nat,
                phase : {"none", "live", "edge", "past"}]
  /\ counter \in Nat
  /\ closed \in BOOLEAN
  /\ seen \in Nat

BackendInit ==
  /\ lease = NoLease
  /\ counter = 0
  /\ closed = FALSE
  /\ seen = 0

\* Mutation: acquire that does not look at expiresAt.
AcquirableHeld == ~closed

Acquirable == ~closed /\ lease.phase # "live"

\* Mutation: acquire that forgets to store the incremented counter.
AcquireUncounted(h, acquired) ==
  /\ acquired = Acquirable
  /\ \/ /\ Acquirable
        /\ counter < MaxToken
        /\ lease' = [holder |-> h, token |-> counter + 1, phase |-> "live"]
        /\ seen' = counter + 1
     \/ /\ ~Acquirable
        /\ UNCHANGED <<lease, seen>>
  /\ UNCHANGED <<counter, closed>>

Acquire(h, acquired) ==
  /\ acquired = Acquirable
  /\ \/ /\ Acquirable
        /\ counter < MaxToken
        /\ counter' = counter + 1
        /\ lease' = [holder |-> h, token |-> counter + 1, phase |-> "live"]
        /\ seen' = counter + 1
     \/ /\ ~Acquirable
        /\ UNCHANGED <<lease, counter, seen>>
  /\ UNCHANGED closed

Renewable(h) ==
  /\ ~closed
  /\ lease.holder = h
  /\ lease.phase \in {"live", "edge"}

ExpiredFor(h) ==
  /\ ~closed
  /\ lease.holder = h
  /\ lease.phase = "past"

Renew(h, renewed) ==
  /\ renewed = Renewable(h)
  /\ \/ /\ Renewable(h)
        /\ lease' = [lease EXCEPT !.phase = "live"]
        /\ seen' = lease.token
     \/ /\ ExpiredFor(h)
        /\ lease' = NoLease
        /\ seen' = 0
     \/ /\ ~Renewable(h)
        /\ ~ExpiredFor(h)
        /\ UNCHANGED <<lease, seen>>
  /\ UNCHANGED <<counter, closed>>

Releasable(h) == ~closed /\ lease.holder = h

Release(h, released) ==
  /\ released = Releasable(h)
  /\ \/ /\ Releasable(h)
        /\ lease' = NoLease
        /\ seen' = 0
     \/ /\ ~Releasable(h)
        /\ UNCHANGED <<lease, seen>>
  /\ UNCHANGED <<counter, closed>>

\* The lease getLease returns; as a side effect an expired one is deleted,
\* without telling the watchers.
GetLease(found) ==
  /\ found = IF closed \/ lease.phase = "past" THEN NoLease ELSE lease
  /\ lease' = IF ~closed /\ lease.phase = "past" THEN NoLease ELSE lease
  /\ UNCHANGED <<counter, closed, seen>>

Close ==
  /\ closed' = TRUE
  /\ UNCHANGED <<lease, counter, seen>>

\* Date.now() reaches expiresAt, then passes it.
Age ==
  /\ \/ lease.phase = "live" /\ lease' = [lease EXCEPT !.phase = "edge"]
     \/ lease.phase = "edge" /\ lease' = [lease EXCEPT !.phase = "past"]
  /\ UNCHANGED <<counter, closed, seen>>

BackendNext ==
  \/ \E h \in Holder, ok \in BOOLEAN :
        Acquire(h, ok) \/ Renew(h, ok) \/ Release(h, ok)
  \/ \E found \in {lease, NoLease} : GetLease(found)
  \/ Close
  \/ Age

BackendSpec == BackendInit /\ [][BackendNext]_backendVars

-----------------------------------------------------------------------------
\* The store implements the fenced lock: no grant while a lease is live, a
\* token per grant, and a renewal at the edge only ever revives the lease
\* of the latest grant.
Lock == INSTANCE FencedLock WITH
  owner  <- IF lease.phase \in {"live", "edge"} THEN lease.holder ELSE Nobody,
  grants <- counter,
  status <- CASE lease.phase = "live" -> "held"
              [] lease.phase = "edge" -> "lapsed"
              [] OTHER -> "free"

ImplementsFencedLock == Lock!Spec

\* A lease that is stored was granted last, so the counter has not moved
\* since: no operation ever keeps or revives a lease that was superseded.
\* The watchers heard of exactly that lease, and when nothing is stored they
\* either know it or still believe in the latest lease, whose expiry
\* getLease discovered without notifying them.
StoredLeaseIsLatest ==
  /\ lease # NoLease => /\ lease.holder # Nobody
                        /\ lease.token = counter /\ counter > 0
                        /\ seen = counter
  /\ lease = NoLease => seen \in {0, counter}
=============================================================================
