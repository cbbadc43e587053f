------------------------------ MODULE RateLimiters ------------------------------
(* The two rate limiters: the token bucket of src/cross-cutting and the hub's. *)
EXTENDS Naturals, Sequences, FiniteSets, FiniteSetsExt, SequencesExt

-----------------------------------------------------------------------------
(* The token bucket (src/cross-cutting/RateLimiter.ts). It is refilled by the   *)
(* first tryAcquire() after the window, which also serves who waits in the      *)
(* queue; other instances share the count over Redis. Fair shares are checked   *)
(* before the bucket. A request need not name an agent: its token is on nobody's *)
(* account. Answers beyond allowed or not, and the log, are left out.           *)
CONSTANTS
  Customer,    \* agents
  Nameless,    \* whoever asks without an agentId
  Ticket,      \* requests put in the queue
  OwnerOf,     \* their agents, if they name one
  Priority,    \* their priorities
  MaxTokens,   \* maxTokens
  WindowLen,   \* windowMs, in ticks
  MaxOutside   \* bound: calls of consumeExternal(), syncFromRedis(), cancelQueued(), refill() and reset()

ASSUME BucketAssumption ==
  /\ Nameless \notin Customer /\ OwnerOf \in [Ticket -> Customer \cup {Nameless}] /\ Priority \in [Ticket -> Nat]
  /\ {MaxTokens, WindowLen} \subseteq Nat \ {0} /\ MaxOutside \in Nat
  /\ IsFiniteSet(Customer) /\ IsFiniteSet(Ticket)

VARIABLES
  bucket,      \* tokens
  windowAge,   \* ticks since windowStart
  line,        \* queue
  usage,       \* agentUsage
  tickets,     \* per request: "new", "queued", "granted", "cancelled", "dropped" by reset()
  fair,        \* fairDistribution
  stored,      \* the tokens in Redis
  syncing,     \* a syncFromRedis() under way
  outside,     \* calls from outside so far
  granted      \* history: tokens given since the window began, per asker

bucketVars == <<bucket, windowAge, line, usage, tickets, fair, stored, syncing, outside, granted>>

Asker == Customer \cup {Nameless}
NoneOf(askers) == [c \in askers |-> 0]

BucketInit ==
  /\ bucket = MaxTokens /\ windowAge = 0 /\ line = <<>> /\ usage = NoneOf(Customer)
  /\ tickets = [t \in Ticket |-> "new"] /\ fair \in BOOLEAN /\ stored = MaxTokens /\ syncing = FALSE
  /\ outside = 0 /\ granted = NoneOf(Asker)

\* The bucket and whom it serves, as refill() and processQueue() leave them.
Now == [tokens |-> bucket, age |-> windowAge, line |-> line, usage |-> usage, given |-> granted]
Least(x, y) == IF x < y THEN x ELSE y
\* The first n of the line get one each.
Handed(account, list, n) ==
  [c \in DOMAIN account |-> account[c] + Cardinality({i \in 1 .. n : OwnerOf[list[i]] = c})]
ProcessQueue(s) ==
  LET n == Least(s.tokens, Len(s.line)) IN
  [s EXCEPT !.tokens = @ - n, !.line = SubSeq(@, n + 1, Len(@)),
            !.usage = Handed(@, s.line, n), !.given = Handed(@, s.line, n)]
Refilled(s) ==
  ProcessQueue([s EXCEPT !.tokens = MaxTokens, !.age = 0, !.usage = NoneOf(Customer), !.given = NoneOf(Asker)])
RefillIfNeeded(s) == IF s.age < WindowLen THEN s ELSE Refilled(s)

Becomes(s) ==
  /\ bucket' = s.tokens /\ windowAge' = s.age /\ line' = s.line /\ usage' = s.usage /\ granted' = s.given
  /\ tickets' = [t \in Ticket |-> IF t \in ToSet(line) \ ToSet(s.line) THEN "granted" ELSE tickets[t]]

\* An agent beyond its share is refused while less than half of the tokens are left.
BeyondShare(s, c) ==
  LET agents == Max({1, Cardinality({a \in Customer : s.usage[a] > 0})}) IN
  fair /\ c \in Customer /\ s.usage[c] >= MaxTokens \div agents /\ s.tokens * 2 < MaxTokens
OneMore(account, c) == IF c \in DOMAIN account THEN [account EXCEPT ![c] = @ + 1] ELSE account
TryAcquire(c) ==
  LET s == RefillIfNeeded(Now) IN
  /\ IF BeyondShare(s, c) \/ s.tokens = 0 THEN Becomes(s) /\ UNCHANGED stored
     ELSE /\ Becomes([s EXCEPT !.tokens = @ - 1, !.usage = OneMore(@, c), !.given = OneMore(@, c)])
          /\ stored' \in {stored, s.tokens - 1}
  /\ UNCHANGED <<fair, syncing, outside>>

\* Array.sort: the more urgent first, and in the order of enqueue() among equals.
ByUrgency(list) ==
  LET Ahead(i) == {j \in DOMAIN list : \/ Priority[list[j]] > Priority[list[i]]
                                       \/ Priority[list[j]] = Priority[list[i]] /\ j < i}
  IN [k \in DOMAIN list |-> list[CHOOSE i \in DOMAIN list : Cardinality(Ahead(i)) = k - 1]]

\* Nobody is served before the next refill, even if there are tokens.
Enqueue(t) ==
  /\ tickets[t] = "new" /\ tickets' = [tickets EXCEPT ![t] = "queued"]
  /\ line' = ByUrgency(Append(line, t))
  /\ UNCHANGED <<bucket, windowAge, usage, fair, stored, syncing, outside, granted>>

FromOutside == outside < MaxOutside /\ outside' = outside + 1 /\ UNCHANGED fair
Refill == FromOutside /\ Becomes(Refilled(Now)) /\ UNCHANGED <<stored, syncing>>
ProcessNow == FromOutside /\ Becomes(ProcessQueue(Now)) /\ UNCHANGED <<stored, syncing>>
ConsumeExternal(n) ==
  /\ FromOutside /\ bucket' = bucket - Least(n, bucket)
  /\ UNCHANGED <<windowAge, line, usage, tickets, stored, syncing, granted>>
CancelQueued(t) ==
  /\ FromOutside /\ tickets[t] = "queued"
  /\ line' = RemoveFirst(line, t) /\ tickets' = [tickets EXCEPT ![t] = "cancelled"]
  /\ UNCHANGED <<bucket, windowAge, usage, stored, syncing, granted>>
\* What it reads may be of an earlier window, and of before tokens were given.
SyncFromRedis ==
  /\ ~syncing /\ FromOutside /\ syncing' = TRUE
  /\ UNCHANGED <<bucket, windowAge, line, usage, tickets, stored, granted>>
Synced ==
  /\ syncing /\ syncing' = FALSE /\ bucket' \in {bucket, Least(bucket, stored)}
  /\ UNCHANGED <<windowAge, line, usage, tickets, fair, stored, outside, granted>>
\* Whoever waits in the queue is forgotten, with its promise.
BucketReset ==
  /\ FromOutside
  /\ bucket' = MaxTokens /\ windowAge' = 0 /\ line' = <<>> /\ usage' = NoneOf(Customer) /\ granted' = NoneOf(Asker)
  /\ tickets' = [t \in Ticket |-> IF tickets[t] = "queued" THEN "dropped" ELSE tickets[t]]
  /\ UNCHANGED <<stored, syncing>>

BucketTick ==
  /\ windowAge' = IF windowAge < WindowLen THEN windowAge + 1 ELSE windowAge
  /\ UNCHANGED <<bucket, line, usage, tickets, fair, stored, syncing, outside, granted>>

BucketNext ==
  \/ Refill \/ ProcessNow \/ SyncFromRedis \/ Synced \/ BucketReset \/ BucketTick
  \/ \E c \in Asker : TryAcquire(c)
  \/ \E t \in Ticket : Enqueue(t) \/ CancelQueued(t)
  \/ \E n \in 1 .. MaxTokens : ConsumeExternal(n)

BucketTypeOK ==
  /\ {bucket, stored} \subseteq 0 .. MaxTokens /\ windowAge \in 0 .. WindowLen
  /\ line \in BoundedSeq(Ticket, Cardinality(Ticket)) /\ usage \in [Customer -> 0 .. MaxTokens]
  /\ tickets \in [Ticket -> {"new", "queued", "granted", "cancelled", "dropped"}]
  /\ {fair, syncing} \subseteq BOOLEAN /\ outside \in 0 .. MaxOutside /\ granted \in [Asker -> 0 .. MaxTokens]

(* Who is queued is granted, cancelled or dropped by reset() at last, though  *)
(* only calls of others refill the bucket, Redis may empty it, and more       *)
(* urgent requests overtake.                                                  *)
QueuedAreAnswered == \A t \in Ticket : tickets[t] = "queued" ~> tickets[t] # "queued"
(* In no window more tokens are given than there are, whoever gave them and   *)
(* whoever asked, and an agent's account says what the agent was given.       *)
WindowBudget ==
  /\ MapThenSumSet(LAMBDA c : granted[c], Asker) + bucket <= MaxTokens
  /\ \A c \in Customer : usage[c] = granted[c]

-----------------------------------------------------------------------------
(* The hub's limits for one model and client (src/hub/RateLimiter.ts), and the *)
(* requests that keep to it: checkLimit() and requestStarted() before, the     *)
(* actual tokens and requestCompleted() after. What a request uses need not    *)
(* keep to its estimate. The windows of a minute and of a day are one, with    *)
(* the limits on its tokens and its requests; reasons and remaining amounts    *)
(* are left out.                                                               *)
CONSTANTS
  Inquirer,       \* requests
  Estimate,       \* estimatedTokens of each; zero by default
  Spent,          \* tokens: what a request may use, whatever its estimate
  TokenLimits,    \* limits that may be set: tpm
  RequestLimit,   \* rpm
  Concurrent,     \* concurrent
  WindowTicks,    \* the length of the window
  MaxResets0      \* bound: calls of resetUsage()

ASSUME LimiterAssumption ==
  /\ Inquirer # {} /\ IsFiniteSet(Inquirer)
  /\ Estimate \in [Inquirer -> Nat] /\ TokenLimits \subseteq Nat
  /\ Spent \subseteq Nat /\ Spent # {} /\ IsFiniteSet(Spent)
  /\ {RequestLimit, Concurrent, WindowTicks} \subseteq Nat \ {0} /\ MaxResets0 \in Nat

VARIABLES
  tpm,            \* the limit on tokens that is set
  asks,           \* per request: where it is
  window,         \* tracked requests: tokens and age in ticks
  concurrent,     \* concurrent
  usageResets,    \* calls of resetUsage() so far
  lowered         \* history: the highest limit under which a tracked or running request was let in

limiterVars == <<tpm, asks, window, concurrent, usageResets, lowered>>

NotTracked == [tokens |-> 0, age |-> WindowTicks + 1]
Sent == {r \in Inquirer : asks[r] = "sent"}
TokensOf(rs) == MapThenSumSet(LAMBDA r : window[r].tokens, rs)
\* Entries that are a window old still count.
InWindow == {r \in Inquirer : window[r].age <= WindowTicks}

LimiterInit ==
  /\ tpm \in TokenLimits /\ asks = [r \in Inquirer |-> "new"] /\ window = [r \in Inquirer |-> NotTracked]
  /\ concurrent = 0 /\ usageResets = 0 /\ lowered = 0

SetLimits(limit) == tpm' = limit /\ UNCHANGED <<asks, window, concurrent, usageResets, lowered>>

\* checkLimit. Mutant: the limit on concurrent requests is one too high.
BusyOver == concurrent > Concurrent
Busy == concurrent >= Concurrent
Allowed(r) ==
  /\ ~Busy
  /\ TokensOf(InWindow) + Estimate[r] <= tpm
  /\ Cardinality(InWindow) < RequestLimit

RequestStarted(r) ==
  /\ asks[r] = "new"
  /\ IF Allowed(r)
     THEN /\ asks' = [asks EXCEPT ![r] = "sent"] /\ concurrent' = concurrent + 1
          /\ lowered' = IF Sent \cup InWindow = {} \/ tpm > lowered THEN tpm ELSE lowered
     ELSE asks' = [asks EXCEPT ![r] = "refused"] /\ UNCHANGED <<concurrent, lowered>>
  /\ UNCHANGED <<tpm, window, usageResets>>

\* trackUsage() counts the request as one more under way, requestCompleted() takes
\* one off: what was started and tracked stays counted as running.
RequestCompleted(r) ==
  /\ asks[r] = "sent" /\ asks' = [asks EXCEPT ![r] = "over"]
  /\ \/ \E tokens \in Spent :
          window' = [window EXCEPT ![r] = [tokens |-> tokens, age |-> 0]] /\ concurrent' = concurrent
     \/ concurrent' = (IF concurrent = 0 THEN 0 ELSE concurrent - 1) /\ UNCHANGED window
  /\ UNCHANGED <<tpm, usageResets, lowered>>

\* resetUsage(), or requestCompleted() once more, by an operator.
ResetUsage ==
  /\ usageResets < MaxResets0 /\ usageResets' = usageResets + 1
  /\ window' = [r \in Inquirer |-> NotTracked] /\ concurrent' = 0
  /\ UNCHANGED <<tpm, asks, lowered>>
CompletedAgain ==
  /\ usageResets < MaxResets0 /\ usageResets' = usageResets + 1
  /\ concurrent' = IF concurrent = 0 THEN 0 ELSE concurrent - 1
  /\ UNCHANGED <<tpm, asks, window, lowered>>

\* Time passes; what left the window is cleaned up by the next look at it.
LimiterTick ==
  /\ window' = [r \in Inquirer |-> IF window[r].age < WindowTicks THEN [window[r] EXCEPT !.age = @ + 1] ELSE NotTracked]
  /\ UNCHANGED <<tpm, asks, concurrent, usageResets, lowered>>

LimiterNext ==
  \/ LimiterTick \/ ResetUsage \/ CompletedAgain
  \/ \E r \in Inquirer : RequestStarted(r) \/ RequestCompleted(r)
  \/ \E limit \in TokenLimits : SetLimits(limit)

LimiterTypeOK ==
  /\ tpm \in TokenLimits /\ asks \in [Inquirer -> {"new", "sent", "refused", "over"}]
  /\ window \in [Inquirer -> [tokens : Nat, age : 0 .. WindowTicks + 1]]
  /\ concurrent \in 0 .. Cardinality(Inquirer) /\ usageResets \in 0 .. MaxResets0

(* Tokens are counted when a request is over, not when it is let in, and may  *)
(* be more than were estimated. Still the window holds no more than the       *)
(* highest limit in force meanwhile and what as many requests as may run at   *)
(* once can use, unless the usage was reset under running requests.           *)
OverrunIsBounded == usageResets = 0 => TokensOf(InWindow) <= lowered + Concurrent * Max(Spent)
(* The count never falls below the requests under way, either.                *)
NeverUndercounts == usageResets = 0 => Cardinality(Sent) <= concurrent
=============================================================================
