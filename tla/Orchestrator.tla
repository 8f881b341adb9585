----------------------------- MODULE Orchestrator -----------------------------
(***************************************************************************)
(* One evaluate call of crates/tirds-agents: take the snapshot, spawn one  *)
(* task per specialist, await the tasks in the configured order, ask the   *)
(* synthesizer, build the decision.  Each specialist task and the          *)
(* synthesis run the claude CLI as a child process under a timeout; the    *)
(* timeout drops the future that waits, not the child.                     *)
(***************************************************************************)
EXTENDS Integers, AgentJson

CONSTANTS
  Agents,             \* number of enabled specialists
  Prompted,           \* those whose domain has a system prompt
  SpecialistTimeout,  \* specialist_timeout_seconds
  TotalTimeout,       \* total_timeout_seconds
  Responses,          \* JSON objects a specialist's claude process may answer with
  Answers,            \* JSON objects the synthesizer's may answer with
  MaxTime             \* bound on the clock

ASSUME OrchestratorAssumption ==
  /\ Agents \in Nat
  /\ Prompted \subseteq 1..Agents
  /\ SpecialistTimeout \in Nat /\ TotalTimeout \in Nat /\ MaxTime \in Nat
  /\ Missing \notin Answers

Synthesizer == 0

NoAnswer == Missing

VARIABLES
  now,       \* the clock; the call starts at 0
  pc,        \* where evaluate is
  task,      \* per specialist the state of its task
  deadline,  \* per specialist, and for the synthesizer, when its timeout ends
  child,     \* the claude process of each, none before it is started
  awaited,   \* the handle evaluate awaits
  reports,   \* agent_reports
  responses, \* agent_responses: the specialists that answered
  elapsed,   \* total_elapsed, measured before the synthesis
  target,    \* the decision has a price_target_decay
  obeyed,    \* the specialists that answered what their prompt asks for (history)
  answer     \* the synthesizer's JSON object, NoAnswer before it (history)

callVars == <<awaited, reports, responses, elapsed, target, obeyed, answer>>
vars == <<now, pc, task, deadline, child, callVars>>

Specialists == 1..Agents
Invokers == 0..Agents
Finished == {"answered", "failed", "panicked"}

TypeOK ==
  /\ now \in Nat
  /\ pc \in {"start", "collect", "synthesis", "decided", "refused"}
  /\ task \in [Specialists -> {"unborn", "spawned", "invoking"} \cup Finished]
  /\ deadline \in [Invokers -> Nat]
  /\ child \in [Invokers -> {"none", "running", "exited"}]
  /\ awaited \in 1..(Agents + 1)
  /\ reports \in Seq([agent : Specialists, ok : BOOLEAN])
  /\ responses \in Seq(Specialists)
  /\ elapsed \in Nat
  /\ target \in BOOLEAN
  /\ obeyed \subseteq Specialists
  /\ pc = "decided" => answer # NoAnswer

Init ==
  /\ now = 0
  /\ pc = "start"
  /\ task = [a \in Specialists |-> "unborn"]
  /\ deadline = [i \in Invokers |-> 0]
  /\ child = [i \in Invokers |-> "none"]
  /\ awaited = 1
  /\ reports = <<>>
  /\ responses = <<>>
  /\ elapsed = 0
  /\ target = FALSE
  /\ obeyed = {}
  /\ answer = NoAnswer

-------------------------------------------------------------------------------
(* The ? on build_domain_snapshot. *)
SnapshotFails ==
  /\ pc = "start"
  /\ pc' = "refused"
  /\ UNCHANGED <<now, task, deadline, child, callVars>>

(* The snapshot is there: one task is spawned per specialist. *)
FanOut ==
  /\ pc = "start"
  /\ pc' = "collect"
  /\ task' = [a \in Specialists |-> "spawned"]
  /\ UNCHANGED <<now, deadline, child, callVars>>

-------------------------------------------------------------------------------
(* A specialist's task: ClaudeSpecialist::evaluate and invoke_claude. *)

FinishTask(a, outcome) == task' = [task EXCEPT ![a] = outcome]

(* No system prompt for the domain, or the CLI cannot be spawned. *)
CannotInvoke(a) ==
  /\ task[a] = "spawned"
  /\ FinishTask(a, "failed")
  /\ UNCHANGED <<now, pc, deadline, child, callVars>>

(* Variants of AgentTimeout: the two timeouts of the configuration swapped; *)
(* what the one leaves of the other.                                        *)
SwappedTimeout == TotalTimeout

RemainingTimeout == SpecialistTimeout - TotalTimeout

AgentTimeout == SpecialistTimeout

Invoke(a) ==
  /\ task[a] = "spawned"
  /\ a \in Prompted
  /\ task' = [task EXCEPT ![a] = "invoking"]
  /\ child' = [child EXCEPT ![a] = "running"]
  /\ deadline' = [deadline EXCEPT ![a] = now + AgentTimeout]
  /\ UNCHANGED <<now, pc, callVars>>

(* The CLI exits with a JSON object somewhere in its output. *)
CliAnswers(a) ==
  /\ task[a] = "invoking"
  /\ child' = [child EXCEPT ![a] = "exited"]
  /\ \E r \in Responses :
       /\ FinishTask(a, IF ResponseDecodes(r) THEN "answered" ELSE "failed")
       /\ obeyed' = IF r \in AskedResponse THEN obeyed \cup {a} ELSE obeyed
  /\ UNCHANGED <<now, pc, deadline, awaited, reports, responses, elapsed, target, answer>>

(* The CLI exits with an error status, an empty output or one without JSON. *)
CliFails(a) ==
  /\ task[a] = "invoking"
  /\ child' = [child EXCEPT ![a] = "exited"]
  /\ FinishTask(a, "failed")
  /\ UNCHANGED <<now, pc, deadline, callVars>>

(* Variants of AgentTimesOut: the CLI is awaited for as long as it takes;  *)
(* it is given up at any time.                                             *)
NeverTimesOut(a) == FALSE /\ UNCHANGED vars

TimesOutEarly(a) ==
  /\ task[a] = "invoking"
  /\ FinishTask(a, "failed")
  /\ UNCHANGED <<now, pc, deadline, child, callVars>>

AgentTimesOut(a) ==
  /\ task[a] = "invoking"
  /\ now >= deadline[a]
  /\ FinishTask(a, "failed")
  /\ UNCHANGED <<now, pc, deadline, child, callVars>>

(* A task of a SpecialistAgent may also panic, with its child left behind. *)
Panics(a) ==
  /\ task[a] \in {"spawned", "invoking"}
  /\ FinishTask(a, "panicked")
  /\ UNCHANGED <<now, pc, deadline, child, callVars>>

(* A child nobody waits for any more ends on its own. *)
OrphanExits(i) ==
  /\ child[i] = "running"
  /\ IF i = Synthesizer THEN pc # "synthesis" ELSE task[i] # "invoking"
  /\ child' = [child EXCEPT ![i] = "exited"]
  /\ UNCHANGED <<now, pc, task, deadline, callVars>>

TaskStep(a) == CannotInvoke(a) \/ Invoke(a) \/ AgentTimesOut(a)

-------------------------------------------------------------------------------
(* Variant of NextFinished: whichever task is finished first. *)
AnyFinished(a) ==
  /\ task[a] \in Finished
  /\ \A n \in DOMAIN reports : reports[n].agent # a

(* The handles are awaited in the order of the specialists. *)
NextFinished(a) == a = awaited /\ task[a] \in Finished

(* Variant of Report: only successful specialists are reported. *)
ReportSuccess(a) ==
  IF task[a] = "answered" THEN Append(reports, [agent |-> a, ok |-> TRUE]) ELSE reports

(* A report for a task that returned, even an error; none for a panic. *)
Report(a) ==
  IF task[a] = "panicked"
  THEN reports
  ELSE Append(reports, [agent |-> a, ok |-> task[a] = "answered"])

Collect ==
  /\ pc = "collect"
  /\ \E a \in Specialists :
       /\ NextFinished(a)
       /\ reports' = Report(a)
       /\ responses' = IF task[a] = "answered" THEN Append(responses, a) ELSE responses
  /\ awaited' = awaited + 1
  /\ UNCHANGED <<now, pc, task, deadline, child, elapsed, target, obeyed, answer>>

(* All handles are collected: run the synthesizer under its own timeout. *)
Synthesize ==
  /\ pc = "collect"
  /\ awaited = Agents + 1
  /\ pc' = "synthesis"
  /\ elapsed' = now
  /\ child' = [child EXCEPT ![Synthesizer] = "running"]
  /\ deadline' = [deadline EXCEPT ![Synthesizer] = now + TotalTimeout]
  /\ UNCHANGED <<now, task, awaited, reports, responses, target, obeyed, answer>>

(* The CLI exits with a JSON object, from which build_trade_decision makes *)
(* a decision or an error; an unusable price_target_decay is dropped.      *)
SynthesisAnswers ==
  /\ pc = "synthesis"
  /\ child' = [child EXCEPT ![Synthesizer] = "exited"]
  /\ \E json \in Answers :
       /\ answer' = json
       /\ pc' = IF DecisionBuilds(json) THEN "decided" ELSE "refused"
       /\ target' = (DecisionBuilds(json) /\ HasTarget(json))
  /\ UNCHANGED <<now, task, deadline, awaited, reports, responses, elapsed, obeyed>>

(* The CLI cannot run or fails, or there is no JSON object in its output. *)
SynthesisFails ==
  /\ pc = "synthesis"
  /\ pc' = "refused"
  /\ child' = [child EXCEPT ![Synthesizer] = "exited"]
  /\ UNCHANGED <<now, task, deadline, callVars>>

SynthesisTimesOut ==
  /\ pc = "synthesis"
  /\ now >= deadline[Synthesizer]
  /\ pc' = "refused"
  /\ UNCHANGED <<now, task, deadline, child, callVars>>

CallStep == FanOut \/ Collect \/ Synthesize \/ SynthesisTimesOut

(* Time passes, but not while a task is ready to run or a timeout is due. *)
Ready ==
  \/ \E a \in Specialists : task[a] = "spawned"
  \/ \E a \in Specialists : task[a] = "invoking" /\ now >= deadline[a]
  \/ pc = "start"
  \/ pc = "collect" /\ \E a \in Specialists : NextFinished(a)
  \/ pc = "collect" /\ awaited = Agents + 1
  \/ pc = "synthesis" /\ now >= deadline[Synthesizer]

Tick ==
  /\ now < MaxTime
  /\ ~Ready
  /\ now' = now + 1
  /\ UNCHANGED <<pc, task, deadline, child, callVars>>

Next ==
  \/ SnapshotFails \/ CallStep \/ SynthesisAnswers \/ SynthesisFails
  \/ \E a \in Specialists : TaskStep(a) \/ CliAnswers(a) \/ CliFails(a) \/ Panics(a)
  \/ \E i \in Invokers : OrphanExits(i)
  \/ Tick

Spec == Init /\ [][Next]_vars

(* The runtime polls what is ready and time passes.  Nothing is assumed of *)
(* the CLI: it may never answer.                                           *)
Fairness ==
  /\ WF_vars(CallStep)
  /\ \A a \in Specialists : WF_vars(TaskStep(a))
  /\ WF_vars(Tick)

FairSpec == Spec /\ Fairness

-------------------------------------------------------------------------------
Returned == pc \in {"decided", "refused"}

Verdict(a) ==
  CASE task[a] \in {"unborn", "spawned", "invoking"} -> "pending"
    [] task[a] = "panicked" -> "lost"
    [] OTHER -> task[a]

(* What a caller of evaluate gets to see of the call. *)
Verdicts == [a \in Specialists |-> Verdict(a)]
Phase == IF Returned THEN pc ELSE "open"
Published == IF pc = "decided" THEN reports ELSE <<>>

Abstract == INSTANCE Evaluation
  WITH verdict <- Verdicts, phase <- Phase, reports <- Published

(* evaluate keeps the promise of Evaluation: whatever order the tasks end  *)
(* in and however they end, the decision reports exactly the specialists   *)
(* that returned, in the configured order, and no specialist's failure     *)
(* fails the evaluation.                                                   *)
EvaluationSpec == Abstract!EvaluationSpec

(* evaluate returns within the specialists' timeout plus the synthesizer's, *)
(* for any number of specialists: they wait in parallel, not in turn.       *)
EvaluateIsBounded == ~Returned => now <= SpecialistTimeout + TotalTimeout

(* The processing time of a decision is at most the specialists' timeout,  *)
(* and the synthesizer hears of the specialists that answered, in order.   *)
SynthesisInput ==
  pc \in {"synthesis", "decided"} =>
    /\ elapsed <= SpecialistTimeout
    /\ \A n \in DOMAIN responses : \A m \in 1..(n - 1) : responses[m] < responses[n]
    /\ {responses[n] : n \in DOMAIN responses} = {a \in Specialists : task[a] = "answered"}

(* A claude process is left running only by a timeout that has elapsed or  *)
(* by a panic: an answer, however late it races the timeout, leaves none.  *)
OrphansOutlivedTheirTimeout ==
  /\ \A a \in Specialists :
       (child[a] = "running" /\ task[a] # "invoking") =>
         task[a] = "panicked" \/ (task[a] = "failed" /\ now >= deadline[a])
  /\ (child[Synthesizer] = "running" /\ pc # "synthesis") =>
       pc = "refused" /\ now >= deadline[Synthesizer]

(* An answer as its prompt asks for it always counts: a specialist's becomes *)
(* a response, and the synthesizer's is refused only for a part other than   *)
(* price_target_decay that is not as asked, whatever price_target_decay is.  *)
AskedAnswersCount ==
  /\ \A a \in obeyed : task[a] = "answered"
  /\ (pc = "refused" /\ answer # NoAnswer) =>
       \E part \in DOMAIN AskedAnswer : answer[part] \notin AskedAnswer[part]

(* evaluate returns, even if no claude process ever answers. *)
EvaluateReturns == <>Returned

(* total_timeout_seconds bounds the entire evaluation pipeline. *)
TotalTimeoutIsTotal == ~Returned => now <= TotalTimeout
===============================================================================
