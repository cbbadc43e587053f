----------------------------- MODULE AgentLoop ------------------------------
(* The agent loop of src/core: calls of runTurn() and run() that take the    *)
(* five default steps of the pipeline again and again over one conversation, *)
(* while the application compacts, snapshots, rewinds and clears it.         *)
(*                                                                           *)
(* A step of this specification runs from one await on the outside world (a  *)
(* plugin, the LLM, a tool, a timer) to the next; the awaits in between are  *)
(* resolved at once and merged.  The call-llm step may be registered with    *)
(* retries and a timeout, the other steps are registered without.            *)
EXTENDS MessageManager

CONSTANTS Turns,         \* calls of runTurn()
          Loops,         \* calls of run()
          MaxIterations, \* of each: maxIterations of runTurn(), maxTurns of run()
          Calls,         \* tool calls of a response that has some
          LLMRetries, LLMTimeout, LLMOnError, \* registration of call-llm
          MaxFaults,     \* bound on the attempts of call-llm that fail
          MaxOps,        \* bound on the operations of the application
          NoResponse

Runs == Turns \cup Loops

ASSUME LoopAssumption == /\ Turns \cap Loops = {}
                         /\ MaxIterations \in [Runs -> Nat \ {0}]
                         /\ Calls \in Nat \ {0}
ASSUME StepAssumption == /\ LLMRetries \in Nat
                         /\ LLMTimeout \in BOOLEAN
                         /\ LLMOnError \in {"throw", "skip", "continue"}
ASSUME BoundAssumption == MaxFaults \in Nat /\ MaxOps \in Nat

VARIABLES pc,        \* what each call waits for
          iteration,
          context,   \* of the iteration, and where its call-llm step is
          isRunning,
          ops, faults,
          disturbed, \* calls that ran while the application touched the conversation
          mixed      \* calls a late answer reached while their tools ran

vars == <<conversationVars, pc, iteration, context, isRunning, ops, faults, disturbed, mixed>>

\* A response, known by the attempt it answers, with or without tool calls.
Response(a, calls) == [attempt |-> a, calls |-> calls]

NoContext == [view |-> <<>>,           \* messages
              attempt |-> 0,
              late |-> {},             \* timed out attempts not answered yet
              response |-> NoResponse, \* llmResponse
              executed |-> NoResponse] \* the response whose tool calls run

Init ==
  /\ ConversationInit
  /\ pc = [r \in Runs |-> "idle"]
  /\ iteration = [r \in Runs |-> 0]
  /\ context = [r \in Runs |-> NoContext]
  /\ isRunning = FALSE
  /\ ops = 0
  /\ faults = 0
  /\ disturbed = {}
  /\ mixed = {}

Message(role, r, n, answers) ==
  [role |-> role, run |-> r, iteration |-> iteration[r], n |-> n, answers |-> answers]

UserMessage(r) == Message("user", r, 0, 0)
Assistant(r) == Message("assistant", r, 0, 0)
\* Filed under the id of call n of `resp`: the result of its call k, or (0) of
\* a call of another response.
ToolMessage(r, resp, n, ran, k) == Message("tool", r, n, IF ran = resp THEN k ELSE 0)

\* Mutant: filed under the id of the call before.
FiledUnderThePrevious(r, resp, ran) ==
  [n \in 1..Calls |-> ToolMessage(r, resp, n, ran, n - 1)]

ToolMessages(r, resp, ran) == [n \in 1..Calls |-> ToolMessage(r, resp, n, ran, n)]

Busy == {r \in Runs : pc[r] \notin {"idle", "done", "failed"}}

-----------------------------------------------------------------------------
(* The pipeline                                                              *)

\* runTurn() up to its beforeTurn plugins; run() up to its loop, with its
\* initial messages.
Call(r) ==
  /\ pc[r] = "idle"
  /\ \/ r \in Turns /\ AddMessages(<<>>)
     \/ r \in Loops /\ AddMessages(<<UserMessage(r)>>)
  /\ pc' = [pc EXCEPT ![r] = IF r \in Turns THEN "before" ELSE "next"]
  /\ isRunning' = (isRunning \/ r \in Loops)
  /\ UNCHANGED <<iteration, context, ops, faults, disturbed, mixed>>

\* The condition of the loops over iterations.
GoesOn(r) == iteration[r] < MaxIterations[r] /\ (r \in Loops => isRunning)

\* Mutant: the LLM is given the recent messages only.
RecentContextOnly(r) ==
  /\ pc[r] \in {"before", "next"}
  /\ GoesOn(r)
  /\ AddMessages(IF pc[r] = "before" THEN <<UserMessage(r)>> ELSE <<>>)
  /\ iteration' = [iteration EXCEPT ![r] = @ + 1]
  /\ context' = [context EXCEPT ![r] = [NoContext EXCEPT
                    !.view = LastOf(messages', RecentToKeep), !.attempt = 1]]
  /\ pc' = [pc EXCEPT ![r] = "llm"]
  /\ UNCHANGED <<isRunning, ops, faults, disturbed, mixed>>

\* A new context, add-user-message in the first iteration of a turn, and
\* call-llm up to its await.
BeginIteration(r) ==
  /\ pc[r] \in {"before", "next"}
  /\ GoesOn(r)
  /\ AddMessages(IF pc[r] = "before" THEN <<UserMessage(r)>> ELSE <<>>)
  /\ iteration' = [iteration EXCEPT ![r] = @ + 1]
  /\ context' = [context EXCEPT ![r] = [NoContext EXCEPT !.view = messages', !.attempt = 1]]
  /\ pc' = [pc EXCEPT ![r] = "llm"]
  /\ UNCHANGED <<isRunning, ops, faults, disturbed, mixed>>

\* The rest of the pipeline once call-llm has left `resp` in the context: the
\* tools are started, or the final response is recorded.  Without a response
\* add-assistant-response fails.
AfterLLM(r, resp, late) ==
  \/ /\ resp # NoResponse /\ resp.calls
     /\ pc' = [pc EXCEPT ![r] = "tools"]
     /\ context' = [context EXCEPT ![r].response = resp, ![r].executed = resp,
                                ![r].late = late]
     /\ UNCHANGED conversationVars
  \/ /\ resp # NoResponse /\ ~resp.calls
     /\ pc' = [pc EXCEPT ![r] = "after"]
     /\ context' = [context EXCEPT ![r] = NoContext]
     /\ AddMessages(<<Assistant(r)>>)
  \/ /\ resp = NoResponse
     /\ pc' = [pc EXCEPT ![r] = "error"]
     /\ context' = [context EXCEPT ![r] = NoContext]
     /\ UNCHANGED conversationVars

LLMAnswers(r) ==
  /\ pc[r] = "llm"
  /\ \E calls \in BOOLEAN :
       AfterLLM(r, Response(context[r].attempt, calls), context[r].late)
  /\ UNCHANGED <<iteration, isRunning, ops, faults, disturbed, mixed>>

\* Mutant: one attempt too many.
RetriesOnceMore(r, abandoned) ==
  /\ faults < MaxFaults
  /\ faults' = faults + 1
  /\ \/ /\ context[r].attempt <= LLMRetries + 1
        /\ context' = [context EXCEPT ![r].attempt = @ + 1, ![r].late = @ \cup abandoned]
        /\ UNCHANGED <<conversationVars, pc>>
     \/ /\ context[r].attempt > LLMRetries + 1
        /\ AfterLLM(r, context[r].response, context[r].late)

\* An attempt of call-llm failed, or is abandoned by the timeout of the step:
\* the next attempt with the same context, or the error mode.
AttemptFails(r, abandoned) ==
  /\ faults < MaxFaults
  /\ faults' = faults + 1
  /\ \/ /\ context[r].attempt <= LLMRetries
        /\ context' = [context EXCEPT ![r].attempt = @ + 1, ![r].late = @ \cup abandoned]
        /\ UNCHANGED <<conversationVars, pc>>
     \/ /\ context[r].attempt > LLMRetries
        /\ LLMOnError = "throw"
        /\ pc' = [pc EXCEPT ![r] = "error"]
        /\ context' = [context EXCEPT ![r] = NoContext]
        /\ UNCHANGED conversationVars
     \/ /\ context[r].attempt > LLMRetries
        /\ LLMOnError # "throw"
        /\ AfterLLM(r, context[r].response, context[r].late \cup abandoned)

LLMFails(r) ==
  /\ pc[r] = "llm"
  /\ AttemptFails(r, {})
  /\ UNCHANGED <<iteration, isRunning, ops, disturbed, mixed>>

LLMTimesOut(r) ==
  /\ LLMTimeout
  /\ pc[r] = "llm"
  /\ AttemptFails(r, {context[r].attempt})
  /\ UNCHANGED <<iteration, isRunning, ops, disturbed, mixed>>

\* An abandoned attempt is answered after all and writes into the context.
LateAnswer(r, a) ==
  /\ a \in context[r].late
  /\ \E calls \in BOOLEAN :
       context' = [context EXCEPT ![r].late = @ \ {a},
                                  ![r].response = Response(a, calls)]
  /\ mixed' = IF pc[r] = "tools" THEN mixed \cup {r} ELSE mixed
  /\ UNCHANGED <<conversationVars, pc, iteration, isRunning, ops, faults, disturbed>>

\* Mutant: the assistant message goes behind the results of its calls.
ResultsBeforeCalls(r) ==
  /\ pc[r] = "tools"
  /\ LET resp == context[r].response
         ran == context[r].executed
     IN AddMessages(ToolMessages(r, resp, ran) \o <<Assistant(r)>>)
  /\ pc' = [pc EXCEPT ![r] = "next"]
  /\ context' = [context EXCEPT ![r] = NoContext]
  /\ UNCHANGED <<iteration, isRunning, ops, faults, disturbed, mixed>>

\* The last tool has returned, thrown, or run into the 30 seconds of
\* ToolExecutor.  add-tool-results files the results under the ids of the calls
\* in the context's response; one without any is recorded and fails the step.
RecordResults(r) ==
  /\ pc[r] = "tools"
  /\ LET resp == context[r].response
         ran == context[r].executed
     IN \/ /\ resp.calls
           /\ AddMessages(<<Assistant(r)>> \o ToolMessages(r, resp, ran))
           /\ pc' = [pc EXCEPT ![r] = "next"]
        \/ /\ ~resp.calls
           /\ AddMessages(<<Assistant(r)>>)
           /\ pc' = [pc EXCEPT ![r] = "error"]
  /\ context' = [context EXCEPT ![r] = NoContext]
  /\ UNCHANGED <<iteration, isRunning, ops, faults, disturbed, mixed>>

\* The loop is over; a turn has its afterTurn plugins to call.
LastIteration(r) ==
  /\ pc[r] = "next"
  /\ ~GoesOn(r)
  /\ pc' = [pc EXCEPT ![r] = "after"]
  /\ UNCHANGED <<conversationVars, iteration, context, isRunning, ops, faults, disturbed, mixed>>

\* runTurn() or run() resolves; run() takes the flag with it, whoever set it.
Returns(r) ==
  /\ pc[r] = "after"
  /\ pc' = [pc EXCEPT ![r] = "done"]
  /\ iteration' = [iteration EXCEPT ![r] = 0]
  /\ isRunning' = (isRunning /\ r \in Turns)
  /\ disturbed' = disturbed \ {r}
  /\ UNCHANGED <<conversationVars, context, ops, faults, mixed>>

\* A plugin throws, or the pipeline did.
Throws(r) ==
  /\ pc[r] = "error" \/ (r \in Turns /\ pc[r] \in {"before", "after"})
  /\ pc' = [pc EXCEPT ![r] = "failed"]
  /\ iteration' = [iteration EXCEPT ![r] = 0]
  /\ isRunning' = (isRunning /\ r \in Turns)
  /\ disturbed' = disturbed \ {r}
  /\ UNCHANGED <<conversationVars, context, ops, faults, mixed>>

-----------------------------------------------------------------------------
(* The application                                                           *)

Operation(touches) ==
  /\ ops < MaxOps
  /\ ops' = ops + 1
  /\ disturbed' = IF touches THEN disturbed \cup Busy ELSE disturbed
  /\ UNCHANGED <<pc, iteration, context, isRunning, faults, mixed>>

Compact == Operation(TRUE) /\ Truncate
StartSummary == Operation(TRUE) /\ BeginSummary
Snapshot == Operation(FALSE) /\ TakeSnapshot
RewindTo(k) == Operation(TRUE) /\ Rewind(k)
Forget == Operation(TRUE) /\ Clear

SummaryArrives ==
  /\ \E ok \in BOOLEAN : EndSummary(ok)
  /\ disturbed' = disturbed \cup Busy
  /\ UNCHANGED <<pc, iteration, context, isRunning, ops, faults, mixed>>

\* shutdown(), up to the cleanup of steps and plugins.
Shutdown ==
  /\ isRunning
  /\ isRunning' = FALSE
  /\ UNCHANGED <<conversationVars, pc, iteration, context, ops, faults, disturbed, mixed>>

-----------------------------------------------------------------------------
LLMStep(r) == LLMAnswers(r) \/ LLMFails(r) \/ LLMTimesOut(r)

LoopStep(r) == BeginIteration(r) \/ RecordResults(r) \/ LastIteration(r)

End(r) == Returns(r) \/ Throws(r)

Next ==
  \/ \E r \in Runs : Call(r) \/ LoopStep(r) \/ LLMStep(r) \/ End(r)
  \/ \E r \in Runs : \E a \in context[r].late : LateAnswer(r, a)
  \/ Compact \/ StartSummary \/ SummaryArrives
  \/ Snapshot \/ \E k \in DOMAIN snapshots : RewindTo(k)
  \/ Forget
  \/ Shutdown

Spec == Init /\ [][Next]_vars

-----------------------------------------------------------------------------
(* Properties                                                                *)

Responses == [attempt : 1..LLMRetries + 1, calls : BOOLEAN]

Messages == {SystemPrompt, Summary} \cup
            [role : {"user", "assistant", "tool"}, run : Runs, iteration : Nat,
             n : 0..Calls, answers : 0..Calls]

TypeOK ==
  /\ messages \in Seq(Messages)
  /\ snapshots \in Seq(Seq(Messages)) /\ Len(snapshots) <= MaxSnapshots
  /\ summarizing \in [running : BOOLEAN, system : Seq(Messages), toKeep : Seq(Messages)]
  /\ pc \in [Runs -> {"idle", "before", "next", "llm", "tools", "after", "error",
                      "done", "failed"}]
  /\ iteration \in [Runs -> Nat] /\ \A r \in Runs : iteration[r] <= MaxIterations[r]
  /\ context \in [Runs -> [view : Seq(Messages), attempt : 0..LLMRetries + 1,
                           late : SUBSET (1..LLMRetries + 1),
                           response : Responses \cup {NoResponse},
                           executed : Responses \cup {NoResponse}]]
  /\ isRunning \in BOOLEAN
  /\ ops \in 0..MaxOps /\ faults \in 0..MaxFaults
  /\ disturbed \subseteq Runs /\ mixed \subseteq Runs

\* Every tool message a run put into the conversation has the result of the
\* very call whose id it carries (ExecuteToolsStep, AddToolResultsStep), in
\* whatever order tools end and turns interleave, unless an abandoned LLM call
\* was answered while the tools ran.
ResultsAnswerCalls ==
  \A i \in DOMAIN messages :
    messages[i].role = "tool" /\ messages[i].run \notin mixed =>
      messages[i].answers = messages[i].n

\* Turns, compactions and rewinds in any order cut the conversation only at
\* its head: a tool result that is not the first thing said still stands
\* directly behind its assistant message or behind the result before it.
OnlyTheHeadIsCut ==
  \A i \in DOMAIN messages :
    messages[i].role = "tool" /\ i > 1 =>
      LET before == messages[i - 1] IN
        \/ before.role = "system"
        \/ /\ before.run = messages[i].run /\ before.iteration = messages[i].iteration
           /\ \/ before.role = "assistant" /\ messages[i].n = 1
              \/ before.role = "tool" /\ before.n + 1 = messages[i].n

\* From its second iteration on a run invokes the LLM with all results of the
\* iteration before (AddToolResultsStep, AgentLoop.runTurn), whatever other runs
\* add, unless the application changed the conversation while it ran.
UndisturbedSeesResults ==
  \A r \in Runs \ disturbed :
    pc[r] = "llm" /\ iteration[r] > 1 =>
      \A n \in 1..Calls : \E m \in Range(context[r].view) :
        /\ m.role = "tool" /\ m.n = n
        /\ m.run = r /\ m.iteration = iteration[r] - 1

\* "should not lose the most recent message during compaction"
\* (core/__tests__/MessageManager.context.test.ts:135): when compress() or
\* autoCompact() is through, the last thing said is what it was before.
CompactionKeepsTheLast ==
  [][(Compact \/ SummaryArrives) /\ NonSystem # <<>> =>
       Last(NonSystem') = Last(NonSystem)]_vars
=============================================================================
