---------------------------- MODULE FencingGuard ----------------------------
(***************************************************************************)
(* FencingTokenGuard (src/src/hub/FencingTokenGuard.ts) over a             *)
(* LeaseBackend: clients present a token they were once granted with an    *)
(* operation that mutates state.  The guard asks the store for the lease,  *)
(* and compares when the answer arrives; the lease may move meanwhile.     *)
(***************************************************************************)
EXTENDS LeaseBackend

CONSTANT Client   \* operations in progress, each on behalf of some leader

VARIABLES request,   \* per client: the token presented, and the token found
          passed     \* history: the largest token that passed a check so far

guardVars == <<backendVars, request, passed>>

None == [token |-> 0, found |-> 0, newest |-> 0]

GuardTypeOK ==
  /\ BackendTypeOK
  /\ request \in [Client -> [token : Nat, found : Nat, newest : Nat]]
  /\ passed \in Nat

GuardInit ==
  /\ BackendInit
  /\ request = [c \in Client |-> None]
  /\ passed = 0

\* executeWithToken up to its await; newest records how far the tokens were
\* at that time.
ExecuteWithToken(c, token) ==
  /\ request[c] = None
  /\ \E found \in {lease, NoLease} :
       /\ GetLease(found)
       /\ request' = [request EXCEPT ![c] =
            [token |-> token, found |-> found.token, newest |-> passed]]
  /\ UNCHANGED passed

\* Mutant: any token up to the lease's is accepted.
AcceptsOlder(c) ==
  request[c].found # 0 /\ request[c].token <= request[c].found

Accepts(c) == request[c].found # 0 /\ request[c].found = request[c].token

\* The comparison, and operation() when it succeeds.
RunOperation(c) ==
  /\ request[c] # None
  /\ Accepts(c)
  /\ request' = [request EXCEPT ![c] = None]
  /\ passed' = IF request[c].token > passed THEN request[c].token ELSE passed
  /\ UNCHANGED backendVars

\* No lease, or a token that is not the lease's.
Reject(c) ==
  /\ request[c] # None
  /\ ~Accepts(c)
  /\ request' = [request EXCEPT ![c] = None]
  /\ UNCHANGED <<backendVars, passed>>

GuardNext ==
  \/ \E c \in Client : \/ \E token \in 1 .. counter : ExecuteWithToken(c, token)
                       \/ RunOperation(c)
                       \/ Reject(c)
  \/ BackendNext /\ UNCHANGED <<request, passed>>

-----------------------------------------------------------------------------
\* Once an operation with some token ran, a request that is made later never
\* runs with a smaller token: stale leaders are fenced off for good, up to
\* the requests whose check was already under way.
FencedAfterNewerRan ==
  [][\A c \in Client : RunOperation(c) => request[c].token >= request[c].newest]_guardVars
=============================================================================
