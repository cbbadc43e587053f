--------------------------- MODULE WorkflowRegistry ---------------------------
(* The registry of workflow steps (src/cross-cutting/WorkflowRegistry.ts) and   *)
(* an execute() over it. execute() iterates over the very array the other calls *)
(* sort and splice while a step is awaited; only reset() replaces the array.    *)
(* Executions do not meet, so one is followed; a clone() is another registry.   *)
(* The log of changes and what steps do to the context are left out.            *)
EXTENDS Naturals, Sequences, FiniteSets, SequencesExt

CONSTANTS
  StepName,  \* names of steps; several steps may have one name
  Urgency,   \* priorities steps are added with
  MaxSteps   \* bound: steps ever added

ASSUME RegistryAssumption == Urgency \subseteq Nat /\ MaxSteps \in Nat

VARIABLES
  steps,    \* steps: records of their place among all ever added, name and priority
  stepNo,   \* history: steps added so far
  edition,  \* version
  walk      \* the execution: what it does, the array it iterates over once reset()
            \* took it away, the place in it, and as history the steps run in their
            \* order, those there all along, and the removals and additions meanwhile

registryVars == <<steps, stepNo, edition, walk>>
Step == [no : 1 .. MaxSteps, name : StepName, priority : Nat]

RegistryInit ==
  /\ steps = <<>> /\ stepNo = 0 /\ edition = 0
  /\ walk = [doing |-> "nothing", apart |-> FALSE, array |-> <<>>, at |-> 0,
             ran |-> <<>>, members |-> {}, gone |-> 0, come |-> 0]

\* Array.sort by priority is stable.
ByPriority(list) ==
  LET Ahead(i) == {j \in DOMAIN list : \/ list[j].priority < list[i].priority
                                       \/ list[j].priority = list[i].priority /\ j < i}
  IN [k \in DOMAIN list |-> list[CHOOSE i \in DOMAIN list : Cardinality(Ahead(i)) = k - 1]]

Numbers(list) == {list[i].no : i \in DOMAIN list}
\* The array becomes list, by `gone` removals and `come` additions.
Edit(list, gone, come) ==
  /\ steps' = list /\ stepNo' = stepNo + come /\ edition' = edition + 1
  /\ walk' = IF walk.apart \/ walk.doing # "step" THEN walk
             ELSE [walk EXCEPT !.members = @ \cap Numbers(list), !.gone = @ + gone, !.come = @ + come]

NewStep(name, priority) == [no |-> stepNo + 1, name |-> name, priority |-> priority]
AddStep(name, priority) ==
  stepNo < MaxSteps /\ Edit(ByPriority(Append(steps, NewStep(name, priority))), 0, 1)

\* findIndex: the first step of that name, if there is one.
Named(name) == {i \in DOMAIN steps : steps[i].name = name}
First(name) == CHOOSE i \in Named(name) : \A j \in Named(name) : i <= j
RemoveStep(name) == Named(name) # {} /\ Edit(RemoveAt(steps, First(name)), 1, 0)
ReplaceStep(name, new, priority) ==
  /\ Named(name) # {} /\ stepNo < MaxSteps
  /\ Edit(ByPriority([steps EXCEPT ![First(name)] = NewStep(new, priority)]), 1, 1)
InsertBetween(after, before, name) ==
  /\ Named(after) # {} /\ Named(before) # {}
  /\ AddStep(name, (steps[First(after)].priority + steps[First(before)].priority) \div 2)

ResetRegistry ==
  /\ steps # <<>> /\ steps' = <<>> /\ edition' = 0 /\ UNCHANGED stepNo
  /\ walk' = IF walk.doing = "step" /\ ~walk.apart
             THEN [walk EXCEPT !.apart = TRUE, !.array = steps] ELSE walk

\* The array iterator looks at the place after the last one, in the array as it is.
Advance(w) ==
  LET array == IF w.apart THEN w.array ELSE steps IN
  IF w.at >= Len(array) THEN [w EXCEPT !.doing = "done", !.array = <<>>]
  ELSE [w EXCEPT !.doing = "step", !.at = @ + 1, !.ran = Append(@, array[w.at + 1].no)]
ExecuteSteps ==
  /\ walk.doing = "nothing"
  /\ walk' = Advance([walk EXCEPT !.members = Numbers(steps)])
  /\ UNCHANGED <<steps, stepNo, edition>>
StepReturns == walk.doing = "step" /\ walk' = Advance(walk) /\ UNCHANGED <<steps, stepNo, edition>>
\* It throws, or clears shouldContinue.
StepEndsWalk ==
  /\ walk.doing = "step" /\ walk' = [walk EXCEPT !.doing = "ended", !.array = <<>>]
  /\ UNCHANGED <<steps, stepNo, edition>>

RegistryNext ==
  \/ \E name \in StepName, p \in Urgency : AddStep(name, p)
  \/ \E name \in StepName : RemoveStep(name)
  \/ \E name, new \in StepName, p \in Urgency : ReplaceStep(name, new, p)
  \/ \E after, before, name \in StepName : InsertBetween(after, before, name)
  \/ ResetRegistry \/ ExecuteSteps \/ StepReturns \/ StepEndsWalk

RegistryTypeOK ==
  /\ steps \in Seq(Step) /\ stepNo \in 0 .. MaxSteps /\ edition \in Nat
  /\ walk.doing \in {"nothing", "step", "done", "ended"} /\ walk.apart \in BOOLEAN
  /\ walk.array \in Seq(Step) /\ {walk.at, walk.gone, walk.come} \subseteq Nat
  /\ walk.members \subseteq 1 .. MaxSteps /\ walk.ran \in Seq(1 .. MaxSteps)

(* An execution runs each step that is there all along, and runs none twice:  *)
(* a removal meanwhile costs it at most one step, an addition repeats at most *)
(* one; without either it goes by the array, which is in order of priority.   *)
EachStepOnce ==
  /\ \A i, j \in DOMAIN steps : i < j => steps[i].priority <= steps[j].priority
  /\ Len(walk.ran) <= Cardinality(ToSet(walk.ran)) + walk.come
  /\ walk.doing = "done" => Cardinality(walk.members \ ToSet(walk.ran)) <= walk.gone
  /\ walk.doing = "step" /\ walk.gone + walk.come = 0 =>
       LET array == IF walk.apart THEN walk.array ELSE steps IN
       walk.ran = [i \in 1 .. walk.at |-> array[i].no]
=============================================================================
