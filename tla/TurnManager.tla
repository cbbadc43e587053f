----------------------------- MODULE TurnManager -----------------------------
(* A turn of the functional turn manager (src/core/TurnManager.ts) and its tool *)
(* executor: a request with a timeout, then the tools one after another, with   *)
(* hooks that may be missing and may throw; whoever throws may throw nothing at *)
(* all, and a result may not be one that can be written down. Beside it the     *)
(* controller on which loops wait between turns (src/core/InterruptionController.ts): one slot for  *)
(* a promise to resume. A call is its id; contents, names and times are left    *)
(* out.                                                                         *)
EXTENDS Naturals, Sequences, SequencesExt, Functions

CONSTANTS
  CallLists,   \* tool calls a response may ask for: sequences of ids
  Loop,        \* callers of waitForResume()
  NoLoop,      \* nobody waits
  MaxPauses    \* bound: pause() and reset() calls

ASSUME TurnAssumption ==
  /\ \A list \in CallLists : list \in Seq(ToSet(list))
  /\ NoLoop \notin Loop /\ MaxPauses \in Nat

VARIABLES
  hooks,      \* the hooks the turn manager is configured with
  doing,      \* what executeTurn() awaits
  asked,      \* toolCalls of the response
  place,      \* the call at work: its place in asked
  results,    \* the Map of results: pairs of id and outcome, in the order of their keys
  replies,    \* messages: the assistant's, and ids of tool messages with their outcomes
  failure,    \* result.error is set, if to null when the request or the error hook threw that
  worked,     \* history: places of calls whose tool returned success
  broke,      \* history: hooks that threw, with the place; where one, or a tool, threw null
              \* or undefined; and which of the results could not be written down
  mode,       \* the controller's state
  slot,       \* resumePromise: the caller that holds it
  loops,      \* per caller: "free", "waiting", or "forgotten" when its promise is lost
  pauses      \* history: pause() and reset() calls so far

turnVars == <<hooks, doing, asked, place, results, replies, failure, worked, broke>>
controllerVars == <<mode, slot, loops, pauses>>
Hook == {"onToolCall", "onToolResult", "onError"}

TurnInit ==
  /\ hooks \in SUBSET Hook /\ doing = "nothing" /\ asked = <<>> /\ place = 0 /\ results = <<>>
  /\ replies = <<>> /\ failure = FALSE /\ worked = {} /\ broke = {}
ControllerInit == mode = "running" /\ slot = NoLoop /\ loops = [l \in Loop |-> "free"] /\ pauses = 0

ExecuteTurn ==
  /\ doing = "nothing" /\ doing' = "request"
  /\ UNCHANGED <<hooks, asked, place, results, replies, failure, worked, broke>>

\* The hook, or what follows it when there is none.
Or(hook, next) == IF hook \in hooks THEN hook ELSE next
\* A Map keeps the place of a key that is set again.
Put(id, outcome) ==
  IF \E i \in DOMAIN results : results[i][1] = id
  THEN [i \in DOMAIN results |-> IF results[i][1] = id THEN <<id, outcome>> ELSE results[i]]
  ELSE Append(results, <<id, outcome>>)
\* The catch of executeTurn(), with the messages so far.
EndsInError(said) ==
  /\ failure' = TRUE /\ doing' = IF "onError" \in hooks THEN "requestError" ELSE "over"
  /\ replies' = said /\ UNCHANGED place
\* The turn ends with its tool messages, or at the first whose data JSON.stringify
\* throws at; what broke before is b.
TurnEnds(now, b) ==
  LET said == Append(replies, "assistant") IN
  \/ doing' = "over" /\ replies' = said \o now /\ broke' = b /\ UNCHANGED <<place, failure>>
  \/ \E i \in DOMAIN now :
       /\ now[i][2] = "data" /\ EndsInError(said \o SubSeq(now, 1, i - 1))
       /\ broke' = b \cup {<<"data", i>>}
\* The next call, or the end of the turn.
NextCall(list, now, p, b) ==
  IF p < Len(list)
  THEN place' = p + 1 /\ doing' = Or("onToolCall", "tool") /\ broke' = b /\ UNCHANGED <<replies, failure>>
  ELSE TurnEnds(now, b)

\* The assistant's message is in result.messages from here on.
RequestAnswered(list) ==
  /\ doing = "request" /\ asked' = list
  /\ NextCall(list, <<>>, 0, broke)
  /\ UNCHANGED <<hooks, results, worked>>
\* It throws, the timeout comes first and its answer is nobody's, or it has no usage.
RequestFails ==
  /\ doing = "request" /\ EndsInError(replies)
  /\ UNCHANGED <<hooks, asked, results, worked, broke>>

Settle(outcome) == results' = Put(asked[place], outcome)
\* The catch of executeTools(): the call failed, whatever its tool has done. It
\* throws itself when null or undefined was thrown, which ends the turn.
Caught(b) ==
  \/ /\ Settle("error")
     /\ IF "onError" \in hooks THEN doing' = "onError" /\ broke' = b /\ UNCHANGED <<place, replies, failure>>
        ELSE NextCall(asked, results', place, b)
  \/ /\ EndsInError(Append(replies, "assistant")) /\ broke' = b \cup {<<"null", place>>}
     /\ UNCHANGED results
ToolCallHookReturns == doing = "onToolCall" /\ doing' = "tool" /\ UNCHANGED <<hooks, asked, place, results, replies, failure, worked, broke>>
ToolReturns(good) ==
  /\ doing = "tool" /\ Settle(IF good THEN "data" ELSE "error")
  /\ worked' = IF good THEN worked \cup {place} ELSE worked
  /\ IF "onToolResult" \in hooks THEN doing' = "onToolResult" /\ UNCHANGED <<place, replies, failure, broke>>
     ELSE NextCall(asked, results', place, broke)
  /\ UNCHANGED <<hooks, asked>>
ToolThrows == doing = "tool" /\ Caught(broke) /\ UNCHANGED <<hooks, asked, worked>>
\* What onError returns is not looked at.
HookReturns ==
  /\ doing \in {"onToolResult", "onError"} /\ NextCall(asked, results, place, broke)
  /\ UNCHANGED <<hooks, asked, results, worked>>
HookThrows ==
  /\ doing \in {"onToolCall", "onToolResult"} /\ Caught(broke \cup {<<doing, place>>})
  /\ UNCHANGED <<hooks, asked, worked>>
\* It ends the turn; the results so far are not said.
ErrorHookThrows ==
  /\ doing = "onError" /\ EndsInError(Append(replies, "assistant")) /\ broke' = broke \cup {<<doing, place>>}
  /\ UNCHANGED <<hooks, asked, results, worked>>
RequestErrorHookOver ==
  /\ doing = "requestError" /\ doing' = "over"
  /\ UNCHANGED <<hooks, asked, place, results, replies, failure, worked, broke>>

TurnNext ==
  \/ ExecuteTurn \/ RequestFails \/ ToolThrows \/ ToolCallHookReturns
  \/ HookReturns \/ HookThrows \/ ErrorHookThrows \/ RequestErrorHookOver
  \/ \E list \in CallLists : RequestAnswered(list)
  \/ \E good \in BOOLEAN : ToolReturns(good)

Pausing == pauses < MaxPauses /\ pauses' = pauses + 1
PauseLoop == Pausing /\ mode = "running" /\ mode' = "paused" /\ UNCHANGED <<slot, loops>>
\* The holder of the slot, if any, goes on.
Settled == slot' = NoLoop /\ loops' = [l \in Loop |-> IF l = slot THEN "free" ELSE loops[l]]
ResumeLoop == mode = "paused" /\ mode' = "running" /\ Settled /\ UNCHANGED pauses
CancelLoop == mode # "cancelled" /\ mode' = "cancelled" /\ Settled /\ UNCHANGED pauses
\* The slot goes to the last who waits; a reset() empties it.
Forgets(l) == [loops EXCEPT ![l] = "forgotten"]
WaitForResume(l) ==
  /\ mode = "paused" /\ loops[l] = "free" /\ slot' = l
  /\ loops' = [IF slot = NoLoop THEN loops ELSE Forgets(slot) EXCEPT ![l] = "waiting"]
  /\ UNCHANGED <<mode, pauses>>
ResetController ==
  /\ Pausing /\ mode' = "running" /\ slot' = NoLoop
  /\ loops' = IF slot = NoLoop THEN loops ELSE Forgets(slot)
ControllerNext == PauseLoop \/ ResumeLoop \/ CancelLoop \/ ResetController \/ \E l \in Loop : WaitForResume(l)

TurnTypeOK ==
  /\ hooks \subseteq Hook /\ asked \in CallLists \cup {<<>>} /\ place \in 0 .. Len(asked)
  /\ doing \in {"nothing", "request", "tool", "requestError", "over"} \cup Hook
  /\ failure \in BOOLEAN /\ worked \subseteq DOMAIN asked /\ broke \subseteq (Hook \cup {"null", "data"}) \X Nat
  /\ Len(results) <= Len(asked) /\ Len(replies) <= Len(asked) + 1
  /\ mode \in {"running", "paused", "cancelled"} /\ slot \in Loop \cup {NoLoop}
  /\ loops \in [Loop -> {"free", "waiting", "forgotten"}] /\ pauses \in 0 .. MaxPauses

(* When a turn is over without an error, each of its calls is answered, in    *)
(* the order asked for. It ends in an error if and only if the error hook     *)
(* threw, a tool or a hook threw null or undefined, or a result could not be  *)
(* written down: then the calls before that one are answered, and otherwise   *)
(* none. A call whose tool has done its work is reported as failed only if    *)
(* the hook told of its result threw, or a call of the same id came later.    *)
TurnAnswersCalls ==
  /\ doing = "over" /\ asked # <<>> =>
       /\ failure <=> \E b \in broke : b[1] \in {"onError", "null", "data"}
       /\ failure => Len(replies) = 1 \/ <<"data", Len(replies)>> \in broke
       /\ IsInjective(asked) =>
            /\ \A i \in 1 .. Len(replies) - 1 : replies[i + 1][1] = asked[i]
            /\ failure \/ Len(replies) = Len(asked) + 1
  /\ \A i \in DOMAIN results : \A p \in worked :
       asked[p] = results[i][1] /\ results[i][2] = "error" =>
         <<"onToolResult", p>> \in broke \/ (\E q \in p + 1 .. place : asked[q] = asked[p])

(* Whoever waits is resumed or rejected by whatever ends the pause, unless    *)
(* another caller came after it or reset() dropped its promise: the one that  *)
(* still waits has the slot, and the loop is paused.                          *)
WaitersAreKnown ==
  /\ \A l \in Loop : loops[l] = "waiting" <=> slot = l
  /\ slot # NoLoop => mode = "paused"
=============================================================================
