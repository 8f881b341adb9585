-------------------------- MODULE OrchestratorProofs --------------------------
(***************************************************************************)
(* Proofs about Orchestrator for any number of specialists, any timeouts   *)
(* and any answers of their claude processes.                              *)
(***************************************************************************)
EXTENDS Orchestrator, TLAPS

-------------------------------------------------------------------------------
(* What the prompts ask for is what the decoders take.                     *)

LEMMA WiderLists ==
  ASSUME NEW S, NEW T, S \subseteq T
  PROVE  Vec(S) \subseteq Vec(T)
<1>1. Seq(S) \subseteq Seq(T)
  OBVIOUS
<1> QED BY <1>1 DEF Vec

LEMMA AskedResponseDecodes ==
  ASSUME NEW r \in AskedResponse
  PROVE  ResponseDecodes(r)
<1>1. Vec({"text"}) \subseteq Vec(Text)
  BY WiderLists DEF Text
<1> QED
  BY <1>1 DEF AskedResponse, AgentResponse, ResponseDecodes, Uuid, Text, Decimal, AnyValue

LEMMA AskedAnswerBuilds ==
  ASSUME NEW json, ~DecisionBuilds(json)
  PROVE  \E part \in DOMAIN AskedAnswer : json[part] \notin AskedAnswer[part]
<1>1. AskedConfidence \subseteq ConfidenceScore /\ AskedDecay \subseteq DecayProfile
  BY DEF AskedConfidence, ConfidenceScore, AskedDecay, DecayProfile, DecayModel, Decimal, Text
<1>2. AskedAnswer.leg_assessments \subseteq Vec(LegAssessment)
  <2>1. [favorability : {"numeral"}, suggested_price : {"null", "numeral"}, reasoning : {"text"}]
          \subseteq PriceAssessment
    BY DEF PriceAssessment, Opt, Decimal, Text
  <2>2. [side : {"text"}, confidence : AskedConfidence,
         price_assessment : [favorability : {"numeral"}, suggested_price : {"null", "numeral"},
                             reasoning : {"text"}]] \subseteq LegAssessment
    BY <1>1, <2>1 DEF LegAssessment, Text
  <2> QED BY <2>2, WiderLists DEF AskedAnswer
<1>3. AskedAnswer.information_relevance \subseteq InformationRelevance
  <2>1. [source_name : {"text"}, relevance : {"numeral"}, freshness_seconds : {"whole"}]
          \subseteq SourceContribution
    BY DEF SourceContribution, Decimal, Text, Int64
  <2>2. Vec([source_name : {"text"}, relevance : {"numeral"}, freshness_seconds : {"whole"}])
          \subseteq Vec(SourceContribution)
    BY <2>1, WiderLists
  <2> QED BY <2>2 DEF AskedAnswer, InformationRelevance, Decimal
<1>4. AskedAnswer.trade_intelligence \subseteq TradeIntelligence
  <2>1. Vec({"text"}) \subseteq Vec(Text)
    BY WiderLists DEF Text
  <2> QED BY <2>1 DEF AskedAnswer, TradeIntelligence, Decimal
<1>5. AskedAnswer.timeline \subseteq Vec(TimelinePoint)
  <2>1. [offset_hours : {"whole"}, projected_confidence : {"numeral"},
         projected_price_target : {"null", "numeral"}, note : {"null", "text"}]
          \subseteq TimelinePoint
    BY DEF TimelinePoint, UInt32, Opt, Decimal, Text
  <2> QED BY <2>1, WiderLists DEF AskedAnswer
<1>6. /\ AskedAnswer.overall_confidence \subseteq ConfidenceScore
      /\ AskedAnswer.confidence_decay \subseteq DecayProfile
  BY <1>1 DEF AskedAnswer
<1>7. DOMAIN AskedAnswer = {"overall_confidence", "leg_assessments", "information_relevance",
                            "confidence_decay", "trade_intelligence", "timeline"}
  BY DEF AskedAnswer
<1> SUFFICES ASSUME \A part \in DOMAIN AskedAnswer : json[part] \in AskedAnswer[part]
             PROVE  FALSE
  OBVIOUS
<1>8. RequiredPartsDecode(json)
  BY <1>2, <1>3, <1>4, <1>5, <1>6, <1>7 DEF RequiredPartsDecode
<1> QED BY <1>8 DEF DecisionBuilds

-------------------------------------------------------------------------------
(* The steps that end a specialist's task: its process has exited, or it   *)
(* was never started, or nobody waits for it any more.                     *)
TaskEnds(a) ==
  /\ task[a] \in {"spawned", "invoking"}
  /\ \E outcome \in Finished :
       /\ task' = [task EXCEPT ![a] = outcome]
       /\ \/ child' = [child EXCEPT ![a] = "exited"]
          \/ child' = child /\ outcome = "panicked"
          \/ child' = child /\ outcome = "failed" /\ (task[a] = "spawned" \/ now >= deadline[a])
       /\ obeyed' = obeyed \/ (obeyed' = obeyed \cup {a} /\ outcome = "answered")
  /\ UNCHANGED <<now, pc, deadline, awaited, reports, responses, elapsed, target, answer>>

LEMMA TaskEndings ==
  ASSUME NEW a \in Specialists,
         CannotInvoke(a) \/ AgentTimesOut(a) \/ CliAnswers(a) \/ CliFails(a) \/ Panics(a)
  PROVE  TaskEnds(a)
<1> USE DEF TaskEnds, FinishTask, Finished, callVars
<1>1. CASE CannotInvoke(a) \/ AgentTimesOut(a)
  BY <1>1 DEF CannotInvoke, AgentTimesOut
<1>2. CASE CliAnswers(a)
  <2>1. PICK r \in Responses :
          /\ FinishTask(a, IF ResponseDecodes(r) THEN "answered" ELSE "failed")
          /\ obeyed' = IF r \in AskedResponse THEN obeyed \cup {a} ELSE obeyed
    BY <1>2 DEF CliAnswers
  <2>2. r \in AskedResponse => ResponseDecodes(r)
    BY AskedResponseDecodes
  <2> QED BY <1>2, <2>1, <2>2 DEF CliAnswers
<1>3. CASE CliFails(a) \/ Panics(a)
  BY <1>3 DEF CliFails, Panics
<1> QED BY <1>1, <1>2, <1>3

SynthesisEnds == SynthesisAnswers \/ SynthesisFails \/ SynthesisTimesOut

LEMMA OrchestratorSteps ==
  ASSUME [Next]_vars
  PROVE  \/ SnapshotFails \/ FanOut \/ Collect \/ Synthesize \/ SynthesisEnds
         \/ \E a \in Specialists : Invoke(a) \/ TaskEnds(a)
         \/ \E i \in Invokers : OrphanExits(i)
         \/ Tick
         \/ UNCHANGED vars
BY TaskEndings DEF Next, CallStep, TaskStep, SynthesisEnds

-------------------------------------------------------------------------------
(* Types.                                                                  *)

LEMMA AppendToSeq ==
  ASSUME NEW S, NEW s \in Seq(S), NEW e \in S, NEW t, t = s \/ t = Append(s, e)
  PROVE  t \in Seq(S)
OBVIOUS

LEMMA Appended ==
  ASSUME NEW S, NEW s \in Seq(S), NEW e \in S
  PROVE  /\ DOMAIN s = 1..Len(s) /\ Len(s) \in Nat
         /\ DOMAIN Append(s, e) = 1..(Len(s) + 1)
         /\ Append(s, e)[Len(s) + 1] = e
         /\ \A n \in DOMAIN s : Append(s, e)[n] = s[n] /\ s[n] \in S
OBVIOUS

LEMMA InitTypes == Init => TypeOK
BY OrchestratorAssumption DEF Init, TypeOK, Specialists, Invokers, Finished

LEMMA NextTypes ==
  ASSUME TypeOK, [Next]_vars
  PROVE  TypeOK'
<1> USE OrchestratorAssumption DEF TypeOK, callVars
<1>1. CASE SnapshotFails
  BY <1>1 DEF SnapshotFails
<1>2. CASE FanOut
  BY <1>2 DEF FanOut
<1>3. CASE Collect
  <2>1. PICK a \in Specialists :
          /\ NextFinished(a) /\ reports' = Report(a)
          /\ responses' = IF task[a] = "answered" THEN Append(responses, a) ELSE responses
    BY <1>3 DEF Collect
  <2>2. a = awaited /\ task[a] \in Finished
    BY <2>1 DEF NextFinished
  <2>3. awaited' \in 1..(Agents + 1)
    BY <1>3, <2>2 DEF Collect, Specialists
  <2> DEFINE entry == [agent |-> a, ok |-> task[a] = "answered"]
  <2>4. entry \in [agent : Specialists, ok : BOOLEAN]
    <3>1. (task[a] = "answered") \in BOOLEAN
      BY Zenon
    <3> QED BY <3>1
  <2>5. reports' = reports \/ reports' = Append(reports, entry)
    <3>1. reports' = IF task[a] = "panicked" THEN reports ELSE Append(reports, entry)
      BY <2>1, Zenon DEF Report
    <3> HIDE DEF entry
    <3> QED BY <3>1
  <2> HIDE DEF entry
  <2>6. reports' \in Seq([agent : Specialists, ok : BOOLEAN])
    <3>1. reports \in Seq([agent : Specialists, ok : BOOLEAN])
      OBVIOUS
    <3> QED BY <2>4, <2>5, <3>1, AppendToSeq, Zenon
  <2>7. responses' \in Seq(Specialists)
    BY <2>1
  <2> QED BY <1>3, <2>3, <2>6, <2>7 DEF Collect
<1>4. CASE Synthesize
  <2>1. now + TotalTimeout \in Nat
    OBVIOUS
  <2>2. deadline' \in [Invokers -> Nat] /\ child' \in [Invokers -> {"none", "running", "exited"}]
    BY <1>4, <2>1 DEF Synthesize
  <2> QED BY <1>4, <2>2 DEF Synthesize
<1>5. CASE SynthesisEnds
  <2>1. child' \in [Invokers -> {"none", "running", "exited"}]
    BY <1>5 DEF SynthesisEnds, SynthesisAnswers, SynthesisFails, SynthesisTimesOut
  <2>2. pc' \in {"decided", "refused"} /\ (pc' = "decided" => answer' # NoAnswer)
    BY <1>5 DEF SynthesisEnds, SynthesisAnswers, SynthesisFails, SynthesisTimesOut, NoAnswer
  <2>3. target' \in BOOLEAN
    BY <1>5 DEF SynthesisEnds, SynthesisAnswers, SynthesisFails, SynthesisTimesOut
  <2>4. UNCHANGED <<now, task, deadline, awaited, reports, responses, elapsed, obeyed>>
    BY <1>5 DEF SynthesisEnds, SynthesisAnswers, SynthesisFails, SynthesisTimesOut
  <2> QED BY <2>1, <2>2, <2>3, <2>4
<1>6. ASSUME NEW a \in Specialists, Invoke(a)
      PROVE  TypeOK'
  <2>1. now + AgentTimeout \in Nat
    BY DEF AgentTimeout
  <2>2. deadline' \in [Invokers -> Nat] /\ child' \in [Invokers -> {"none", "running", "exited"}]
    BY <1>6, <2>1 DEF Invoke
  <2>3. task' \in [Specialists -> {"unborn", "spawned", "invoking"} \cup Finished]
    BY <1>6 DEF Invoke
  <2> QED BY <1>6, <2>2, <2>3 DEF Invoke
<1>7. ASSUME NEW a \in Specialists, TaskEnds(a)
      PROVE  TypeOK'
  <2>1. task' \in [Specialists -> {"unborn", "spawned", "invoking"} \cup Finished]
    BY <1>7 DEF TaskEnds
  <2>2. child' \in [Invokers -> {"none", "running", "exited"}] /\ obeyed' \subseteq Specialists
    BY <1>7 DEF TaskEnds
  <2> QED BY <1>7, <2>1, <2>2 DEF TaskEnds
<1>8. ASSUME NEW i \in Invokers, OrphanExits(i)
      PROVE  TypeOK'
  BY <1>8 DEF OrphanExits
<1>9. CASE Tick
  BY <1>9 DEF Tick
<1>10. CASE UNCHANGED vars
  BY <1>10 DEF vars
<1> QED
  BY <1>1, <1>2, <1>3, <1>4, <1>5, <1>6, <1>7, <1>8, <1>9, <1>10, OrchestratorSteps

(* The state of an evaluate call always has its type, whatever JSON the    *)
(* claude processes answer: a response is kept only if it decodes, and a   *)
(* decision only if it can be built.                                       *)
THEOREM OrchestratorTypeCorrect == Spec => []TypeOK
BY InitTypes, NextTypes, PTL DEF Spec

-------------------------------------------------------------------------------
(* Where the call is and how far the tasks are.                            *)

ProgressInv ==
  /\ pc = "start" => awaited = 1 /\ \A a \in Specialists : task[a] = "unborn"
  /\ pc = "collect" => \A a \in Specialists : task[a] # "unborn"
  /\ \A a \in Specialists : task[a] \in {"spawned", "invoking"} => pc = "collect"
  /\ \A a \in Specialists : a < awaited => task[a] \in Finished
  /\ pc \in {"synthesis", "decided"} => awaited = Agents + 1
  /\ answer # NoAnswer => Returned

(* A task is invoking from the instant of the call on, and the handles are *)
(* all collected when the last of the timeouts has passed.                 *)
TimeInv ==
  /\ pc = "start" => now = 0
  /\ pc = "collect" => now <= SpecialistTimeout
  /\ \A a \in Specialists : task[a] = "spawned" => now = 0
  /\ \A a \in Specialists : task[a] = "invoking" => deadline[a] = SpecialistTimeout
  /\ pc \in {"synthesis", "decided"} => elapsed <= SpecialistTimeout
  /\ pc = "synthesis" =>
       deadline[Synthesizer] = elapsed + TotalTimeout /\ now <= deadline[Synthesizer]

(* The children, and the answers that were as asked.                       *)
ChildInv == OrphansOutlivedTheirTimeout /\ AskedAnswersCount

LEMMA NextProgressInv ==
  ASSUME TypeOK, ProgressInv, [Next]_vars
  PROVE  ProgressInv'
<1> USE DEF ProgressInv, Returned
<1>0. Agents \in Nat /\ awaited \in 1..(Agents + 1)
  BY OrchestratorAssumption DEF TypeOK
<1>1. CASE SnapshotFails
  BY <1>1 DEF SnapshotFails, callVars
<1>2. CASE FanOut
  <2>1. \A a \in Specialists : task'[a] = "spawned"
    BY <1>2 DEF FanOut
  <2> QED BY <1>0, <1>2, <2>1 DEF FanOut, callVars, Specialists
<1>3. CASE Collect
  <2>1. task[awaited] \in Finished /\ awaited' = awaited + 1 /\ UNCHANGED <<pc, task, answer>>
        /\ pc = "collect"
    BY <1>3 DEF Collect, NextFinished
  <2>2. \A a \in Specialists : a < awaited' => a < awaited \/ a = awaited
    BY <1>0, <2>1 DEF Specialists
  <2> QED BY <2>1, <2>2
<1>4. CASE Synthesize
  <2>1. \A a \in Specialists : task[a] \in Finished
    BY <1>0, <1>4 DEF Synthesize, Specialists
  <2> QED BY <1>4, <2>1 DEF Synthesize, Finished
<1>5. CASE SynthesisEnds
  <2>1. pc = "synthesis" /\ pc' \in {"decided", "refused"} /\ UNCHANGED <<task, awaited>>
    BY <1>5 DEF SynthesisEnds, SynthesisAnswers, SynthesisFails, SynthesisTimesOut, callVars
  <2> QED BY <2>1
<1>6. ASSUME NEW a \in Specialists, Invoke(a)
      PROVE  ProgressInv'
  BY <1>6 DEF Invoke, callVars, TypeOK, Finished
<1>7. ASSUME NEW a \in Specialists, TaskEnds(a)
      PROVE  ProgressInv'
  BY <1>7 DEF TaskEnds, TypeOK, Finished
<1>8. CASE Tick \/ (\E i \in Invokers : OrphanExits(i)) \/ UNCHANGED vars
  BY <1>8 DEF Tick, OrphanExits, vars, callVars
<1> QED
  BY <1>1, <1>2, <1>3, <1>4, <1>5, <1>6, <1>7, <1>8, OrchestratorSteps

LEMMA NextTimeInv ==
  ASSUME TypeOK, ProgressInv, TimeInv, [Next]_vars
  PROVE  TimeInv'
<1> USE DEF TimeInv
<1>0. /\ Agents \in Nat /\ awaited \in 1..(Agents + 1) /\ now \in Nat
      /\ SpecialistTimeout \in Nat /\ TotalTimeout \in Nat
  BY OrchestratorAssumption DEF TypeOK
<1>1. CASE SnapshotFails \/ FanOut \/ Collect
  <2>1. /\ UNCHANGED <<now, deadline, elapsed>> /\ pc' \in {"refused", "collect"}
        /\ pc' = "collect" => pc \in {"start", "collect"}
    BY <1>1 DEF SnapshotFails, FanOut, Collect, callVars
  <2>2. \A a \in Specialists : task'[a] = task[a] \/ (task'[a] = "spawned" /\ pc = "start")
    BY <1>1 DEF SnapshotFails, FanOut, Collect, callVars
  <2> QED BY <1>0, <2>1, <2>2
<1>2. CASE Synthesize
  <2>1. /\ pc = "collect" /\ pc' = "synthesis" /\ elapsed' = now /\ UNCHANGED <<now, task>>
        /\ deadline' = [deadline EXCEPT ![Synthesizer] = now + TotalTimeout]
    BY <1>2 DEF Synthesize
  <2>2. /\ deadline'[Synthesizer] = now + TotalTimeout
        /\ \A a \in Specialists : deadline'[a] = deadline[a]
    BY <1>0, <2>1 DEF TypeOK, Invokers, Specialists, Synthesizer
  <2> QED BY <1>0, <2>1, <2>2
<1>3. CASE SynthesisEnds
  <2>1. pc = "synthesis" /\ pc' \in {"decided", "refused"} /\ UNCHANGED <<now, task, deadline, elapsed>>
    BY <1>3 DEF SynthesisEnds, SynthesisAnswers, SynthesisFails, SynthesisTimesOut, callVars
  <2> QED BY <2>1
<1>4. ASSUME NEW a \in Specialists, Invoke(a)
      PROVE  TimeInv'
  <2>1. /\ task[a] = "spawned" /\ UNCHANGED <<now, pc, elapsed>>
        /\ task' = [task EXCEPT ![a] = "invoking"]
        /\ deadline' = [deadline EXCEPT ![a] = now + SpecialistTimeout]
    BY <1>4 DEF Invoke, AgentTimeout, callVars
  <2>2. now = 0 /\ a \in Invokers /\ a # Synthesizer
    BY <1>0, <2>1 DEF Invokers, Specialists, Synthesizer
  <2>3. deadline'[a] = SpecialistTimeout /\ deadline'[Synthesizer] = deadline[Synthesizer]
    BY <1>0, <2>1, <2>2 DEF TypeOK, Invokers, Synthesizer
  <2>4. \A b \in Specialists : b # a => deadline'[b] = deadline[b] /\ task'[b] = task[b]
    BY <1>0, <2>1 DEF TypeOK, Invokers, Specialists
  <2>5. task'[a] = "invoking"
    BY <2>1 DEF TypeOK
  <2> QED BY <2>1, <2>3, <2>4, <2>5
<1>5. ASSUME NEW a \in Specialists, TaskEnds(a)
      PROVE  TimeInv'
  <2>1. UNCHANGED <<now, pc, deadline, elapsed>>
    BY <1>5 DEF TaskEnds
  <2>2. \A b \in Specialists : task'[b] \in Finished \/ task'[b] = task[b]
    BY <1>5 DEF TaskEnds, TypeOK
  <2> QED BY <2>1, <2>2 DEF Finished
<1>6. CASE Tick
  <2>1. ~Ready /\ now' = now + 1 /\ UNCHANGED <<pc, task, deadline, elapsed>>
    BY <1>6 DEF Tick, callVars
  <2>2. pc # "start" /\ \A a \in Specialists : task[a] # "spawned"
    BY <2>1 DEF Ready
  <2>3. pc = "synthesis" => now < deadline[Synthesizer]
    BY <1>0, <2>1 DEF Ready, TypeOK, Invokers, Synthesizer
  <2>4. ASSUME pc = "collect" PROVE now < SpecialistTimeout
    <3>1. awaited \in Specialists /\ task[awaited] \notin Finished
      BY <1>0, <2>1, <2>4 DEF Ready, NextFinished, Specialists
    <3>2. task[awaited] = "invoking"
      BY <2>2, <2>4, <3>1 DEF ProgressInv, TypeOK
    <3>3. ~(now >= deadline[awaited]) /\ deadline[awaited] = SpecialistTimeout
      BY <2>1, <3>1, <3>2 DEF Ready
    <3> QED BY <1>0, <3>3
  <2>5. deadline[Synthesizer] \in Nat
    BY <1>0 DEF TypeOK, Invokers, Synthesizer
  <2> QED BY <1>0, <2>1, <2>2, <2>3, <2>4, <2>5
<1>7. CASE (\E i \in Invokers : OrphanExits(i)) \/ UNCHANGED vars
  BY <1>7 DEF OrphanExits, vars, callVars
<1> QED
  BY <1>1, <1>2, <1>3, <1>4, <1>5, <1>6, <1>7, OrchestratorSteps

LEMMA NextChildInv ==
  ASSUME TypeOK, ProgressInv, ChildInv, [Next]_vars
  PROVE  ChildInv'
<1> USE DEF ChildInv, OrphansOutlivedTheirTimeout, AskedAnswersCount, ProgressInv, Returned
<1>0. /\ \A a \in Specialists : a \in Invokers /\ a # Synthesizer
      /\ Synthesizer \in Invokers /\ now \in Nat
  BY OrchestratorAssumption DEF Specialists, Invokers, Synthesizer, TypeOK
<1>1. CASE SnapshotFails
  BY <1>1 DEF SnapshotFails, callVars
<1>2. CASE FanOut
  <2>1. \A a \in Specialists : task'[a] = "spawned" /\ task[a] = "unborn"
    BY <1>2 DEF FanOut
  <2>2. \A a \in Specialists : child[a] # "running"
    BY <2>1
  <2>3. UNCHANGED <<now, deadline, child, obeyed, answer>> /\ pc = "start" /\ pc' = "collect"
    BY <1>2 DEF FanOut, callVars
  <2>4. obeyed = {}
    BY <2>1 DEF TypeOK
  <2> QED BY <2>1, <2>2, <2>3, <2>4
<1>3. CASE Collect
  BY <1>3 DEF Collect
<1>4. CASE Synthesize
  <2>1. \A a \in Specialists : child'[a] = child[a] /\ deadline'[a] = deadline[a]
    BY <1>0, <1>4 DEF Synthesize, TypeOK
  <2>2. UNCHANGED <<now, task, obeyed, answer>> /\ pc = "collect" /\ pc' = "synthesis"
    BY <1>4 DEF Synthesize
  <2> QED BY <2>1, <2>2
<1>5. CASE SynthesisAnswers
  <2>1. PICK json \in Answers :
          answer' = json /\ pc' = IF DecisionBuilds(json) THEN "decided" ELSE "refused"
    BY <1>5 DEF SynthesisAnswers
  <2>2. pc' = "refused" => \E part \in DOMAIN AskedAnswer : answer'[part] \notin AskedAnswer[part]
    BY <2>1, AskedAnswerBuilds
  <2>3. /\ child'[Synthesizer] = "exited"
        /\ \A a \in Specialists : child'[a] = child[a]
        /\ UNCHANGED <<now, task, deadline, obeyed>>
    BY <1>0, <1>5 DEF SynthesisAnswers, TypeOK
  <2>4. AskedAnswersCount'
    BY <2>2, <2>3 DEF AskedAnswer
  <2> QED BY <2>3, <2>4
<1>6. CASE SynthesisFails
  <2>1. /\ child'[Synthesizer] = "exited"
        /\ \A a \in Specialists : child'[a] = child[a]
    BY <1>0, <1>6 DEF SynthesisFails, TypeOK
  <2> QED BY <1>6, <2>1 DEF SynthesisFails, callVars
<1>7. CASE SynthesisTimesOut
  BY <1>7 DEF SynthesisTimesOut, callVars
<1>8. ASSUME NEW a \in Specialists, Invoke(a)
      PROVE  ChildInv'
  <2>1. /\ task'[a] = "invoking"
        /\ \A b \in Specialists : b # a =>
             child'[b] = child[b] /\ deadline'[b] = deadline[b] /\ task'[b] = task[b]
        /\ child'[Synthesizer] = child[Synthesizer]
        /\ deadline'[Synthesizer] = deadline[Synthesizer]
    BY <1>0, <1>8 DEF Invoke, TypeOK
  <2>2. task[a] = "spawned" /\ UNCHANGED <<now, pc, obeyed, answer>>
    BY <1>8 DEF Invoke, callVars
  <2>3. \A b \in obeyed : b \in Specialists /\ b # a
    BY <2>2 DEF TypeOK
  <2> QED BY <2>1, <2>2, <2>3
<1>9. ASSUME NEW a \in Specialists, TaskEnds(a)
      PROVE  ChildInv'
  <2>1. PICK outcome \in Finished :
          /\ task' = [task EXCEPT ![a] = outcome]
          /\ \/ child' = [child EXCEPT ![a] = "exited"]
             \/ child' = child /\ outcome = "panicked"
             \/ child' = child /\ outcome = "failed" /\ (task[a] = "spawned" \/ now >= deadline[a])
          /\ obeyed' = obeyed \/ (obeyed' = obeyed \cup {a} /\ outcome = "answered")
    BY <1>9 DEF TaskEnds
  <2>2. task[a] \in {"spawned", "invoking"} /\ UNCHANGED <<now, pc, deadline, answer>>
    BY <1>9 DEF TaskEnds
  <2>3. /\ task'[a] = outcome /\ child'[Synthesizer] = child[Synthesizer]
        /\ \A b \in Specialists : b # a => child'[b] = child[b] /\ task'[b] = task[b]
    BY <1>0, <2>1 DEF TypeOK
  <2>4. child'[a] = "running" => outcome = "panicked" \/ (outcome = "failed" /\ now >= deadline[a])
    BY <1>0, <2>1, <2>2 DEF TypeOK
  <2>5. OrphansOutlivedTheirTimeout'
    BY <2>2, <2>3, <2>4
  <2>6. \A b \in obeyed' : task'[b] = "answered"
    BY <2>1, <2>2, <2>3 DEF TypeOK
  <2>7. AskedAnswersCount'
    BY <2>2, <2>6 DEF AskedAnswer
  <2> QED BY <2>5, <2>7
<1>10. ASSUME NEW i \in Invokers, OrphanExits(i)
       PROVE  ChildInv'
  <2>1. \A j \in Invokers : child'[j] = "running" => child[j] = "running"
    BY <1>10 DEF OrphanExits, TypeOK
  <2> QED BY <1>0, <1>10, <2>1 DEF OrphanExits, callVars
<1>11. CASE Tick
  <2>1. now' = now + 1 /\ UNCHANGED <<pc, task, deadline, child, obeyed, answer>>
    BY <1>11 DEF Tick, callVars
  <2>2. \A i \in Invokers : now >= deadline[i] => now' >= deadline[i]
    BY <1>0, <2>1 DEF TypeOK
  <2> QED BY <1>0, <2>1, <2>2
<1>12. CASE UNCHANGED vars
  BY <1>12 DEF vars, callVars
<1> QED
  BY <1>1, <1>2, <1>3, <1>4, <1>5, <1>6, <1>7, <1>8, <1>9, <1>10, <1>11, <1>12, OrchestratorSteps
  DEF SynthesisEnds

(* The invariants of the call taken together.                              *)
CallInv == TypeOK /\ ProgressInv /\ TimeInv /\ ChildInv

(* In every reachable state of the call the tasks before the awaited       *)
(* handle have finished, no time limit has passed unnoticed, and a child   *)
(* is an orphan only after its timeout.                                    *)
THEOREM CallInvHolds == Spec => []CallInv
<1>1. Init => CallInv
  <2>1. ASSUME Init PROVE ProgressInv /\ TimeInv /\ ChildInv
    <3>1. /\ now = 0 /\ pc = "start" /\ awaited = 1 /\ obeyed = {} /\ answer = NoAnswer
          /\ \A a \in Specialists : task[a] = "unborn"
          /\ \A i \in Invokers : child[i] = "none"
      BY <2>1 DEF Init
    <3>2. Specialists \subseteq Invokers /\ Synthesizer \in Invokers
      BY OrchestratorAssumption DEF Specialists, Invokers, Synthesizer
    <3>3. ProgressInv /\ TimeInv
      BY <3>1 DEF ProgressInv, TimeInv, Specialists
    <3>4. ChildInv
      BY <3>1, <3>2 DEF ChildInv, OrphansOutlivedTheirTimeout, AskedAnswersCount
    <3> QED BY <3>3, <3>4
  <2> QED BY <2>1, InitTypes DEF CallInv
<1>2. CallInv /\ [Next]_vars => CallInv'
  BY NextTypes, NextProgressInv, NextTimeInv, NextChildInv DEF CallInv
<1> QED BY <1>1, <1>2, PTL DEF Spec

(* evaluate returns within the specialists' timeout plus the synthesizer's,*)
(* for any number of specialists.                                          *)
THEOREM EvaluateStaysBounded == Spec => []EvaluateIsBounded
<1>1. CallInv => EvaluateIsBounded
  <2> SUFFICES ASSUME CallInv, ~Returned
               PROVE  now <= SpecialistTimeout + TotalTimeout
    BY DEF EvaluateIsBounded
  <2> USE DEF CallInv
  <2>1. now \in Nat /\ elapsed \in Nat /\ SpecialistTimeout \in Nat /\ TotalTimeout \in Nat
    BY OrchestratorAssumption DEF TypeOK
  <2>2. pc \in {"start", "collect", "synthesis"}
    BY DEF TypeOK, Returned
  <2> QED BY <2>1, <2>2 DEF TimeInv
<1> QED BY <1>1, CallInvHolds, PTL

(* A claude process is left running only by a timeout that has elapsed or  *)
(* by a panic.                                                             *)
THEOREM OrphansAreLate == Spec => []OrphansOutlivedTheirTimeout
<1>1. CallInv => OrphansOutlivedTheirTimeout
  BY DEF CallInv, ChildInv
<1> QED BY <1>1, CallInvHolds, PTL

(* An answer as its prompt asks for it always counts.                      *)
THEOREM AskedAnswersAlwaysCount == Spec => []AskedAnswersCount
<1>1. CallInv => AskedAnswersCount
  BY DEF CallInv, ChildInv
<1> QED BY <1>1, CallInvHolds, PTL

-------------------------------------------------------------------------------
(* What is collected of the tasks whose handles have been awaited.         *)

ReportsInv ==
  /\ \A n \in DOMAIN reports :
       /\ reports[n].agent < awaited /\ task[reports[n].agent] # "panicked"
       /\ reports[n].ok = (task[reports[n].agent] = "answered")
       /\ \A m \in 1..(n - 1) : reports[m].agent < reports[n].agent
  /\ \A a \in Specialists : (a < awaited /\ task[a] # "panicked") =>
       \E n \in DOMAIN reports : reports[n].agent = a

ResponsesInv ==
  /\ \A n \in DOMAIN responses :
       /\ responses[n] < awaited /\ task[responses[n]] = "answered"
       /\ \A m \in 1..(n - 1) : responses[m] < responses[n]
  /\ \A a \in Specialists : (a < awaited /\ task[a] = "answered") =>
       \E n \in DOMAIN responses : responses[n] = a

LEMMA CollectedStays ==
  ASSUME CallInv, [Next]_vars, ~Collect
  PROVE  /\ UNCHANGED <<awaited, reports, responses>>
         /\ \A a \in Specialists : a < awaited => task'[a] = task[a]
<1> USE DEF CallInv, ProgressInv, callVars
<1>1. CASE FanOut
  <2>1. \A a \in Specialists : ~(a < awaited)
    BY <1>1 DEF FanOut, Specialists
  <2> QED BY <1>1, <2>1 DEF FanOut
<1>2. ASSUME NEW a \in Specialists, Invoke(a) \/ TaskEnds(a)
      PROVE  /\ UNCHANGED <<awaited, reports, responses>>
             /\ \A b \in Specialists : b < awaited => task'[b] = task[b]
  <2>1. ~(a < awaited)
    BY <1>2 DEF Invoke, TaskEnds, Finished
  <2> QED BY <1>2, <2>1 DEF Invoke, TaskEnds, TypeOK
<1>3. CASE SnapshotFails \/ Synthesize \/ SynthesisEnds \/ (\E i \in Invokers : OrphanExits(i))
           \/ Tick \/ UNCHANGED vars
  BY <1>3 DEF SnapshotFails, Synthesize, SynthesisEnds, SynthesisAnswers, SynthesisFails,
              SynthesisTimesOut, OrphanExits, Tick, vars
<1> QED BY <1>1, <1>2, <1>3, OrchestratorSteps

LEMMA CollectStep ==
  ASSUME CallInv, Collect
  PROVE  /\ awaited \in Specialists /\ awaited' = awaited + 1 /\ task' = task
         /\ reports' = Report(awaited)
         /\ responses' = IF task[awaited] = "answered" THEN Append(responses, awaited) ELSE responses
BY DEF Collect, NextFinished

LEMMA NextResponsesInv ==
  ASSUME CallInv, ResponsesInv, [Next]_vars
  PROVE  ResponsesInv'
<1>0. responses \in Seq(Specialists) /\ awaited \in Int /\ Specialists \subseteq Int
  BY OrchestratorAssumption DEF CallInv, TypeOK, Specialists
<1>1. CASE Collect /\ task[awaited] = "answered"
  <2>1. /\ responses' = Append(responses, awaited) /\ awaited' = awaited + 1 /\ task' = task
        /\ awaited \in Specialists
    BY <1>1, CollectStep
  <2> DEFINE last == Len(responses) + 1
  <2>2. /\ DOMAIN responses = 1..Len(responses) /\ Len(responses) \in Nat
        /\ DOMAIN responses' = 1..last
        /\ responses'[last] = awaited
        /\ \A n \in DOMAIN responses : responses'[n] = responses[n] /\ responses[n] \in Specialists
    BY <1>0, <2>1, Appended
  <2>3. ASSUME NEW n \in DOMAIN responses'
        PROVE  /\ responses'[n] < awaited' /\ task'[responses'[n]] = "answered"
               /\ \A m \in 1..(n - 1) : responses'[m] < responses'[n]
    <3>1. CASE n = last
      BY <1>0, <1>1, <2>1, <2>2, <3>1 DEF ResponsesInv
    <3>2. CASE n \in DOMAIN responses
      <4>1. \A m \in 1..(n - 1) : m \in DOMAIN responses
        BY <2>2, <3>2
      <4>2. /\ responses[n] < awaited /\ task[responses[n]] = "answered"
            /\ \A m \in 1..(n - 1) : responses[m] < responses[n]
        BY <3>2 DEF ResponsesInv
      <4>3. /\ responses'[n] = responses[n] /\ responses[n] \in Int
            /\ \A m \in 1..(n - 1) : responses'[m] = responses[m]
        BY <1>0, <2>2, <3>2, <4>1
      <4> QED BY <1>0, <2>1, <4>2, <4>3
    <3> QED BY <2>2, <3>1, <3>2
  <2>4. ASSUME NEW a \in Specialists, a < awaited', task'[a] = "answered"
        PROVE  \E n \in DOMAIN responses' : responses'[n] = a
    <3>1. CASE a = awaited
      BY <2>2, <3>1
    <3>2. CASE a < awaited
      <4>1. PICK n \in DOMAIN responses : responses[n] = a
        BY <2>1, <2>4, <3>2 DEF ResponsesInv
      <4> QED BY <2>2, <4>1
    <3> QED BY <1>0, <2>1, <2>4, <3>1, <3>2
  <2> QED BY <2>3, <2>4 DEF ResponsesInv
<1>2. CASE Collect /\ task[awaited] # "answered"
  <2>1. responses' = responses /\ awaited' = awaited + 1 /\ task' = task
    BY <1>2, CollectStep
  <2>2. \A a \in Specialists : a < awaited' /\ task'[a] = "answered" => a < awaited
    BY <1>0, <1>2, <2>1
  <2>3. \A n \in DOMAIN responses : responses[n] \in Specialists
    BY <1>0
  <2>4. \A n \in DOMAIN responses : responses[n] < awaited'
    <3>1. \A n \in DOMAIN responses : responses[n] \in Int /\ responses[n] < awaited
      BY <1>0, <2>3 DEF ResponsesInv
    <3> QED BY <1>0, <2>1, <3>1
  <2> QED BY <2>1, <2>2, <2>4 DEF ResponsesInv
<1>3. CASE ~Collect
  <2>1. /\ UNCHANGED <<awaited, responses>>
        /\ \A a \in Specialists : a < awaited => task'[a] = task[a]
    BY <1>3, CollectedStays
  <2>2. \A n \in DOMAIN responses : responses[n] \in Specialists
    BY <1>0
  <2> QED BY <2>1, <2>2 DEF ResponsesInv
<1> QED BY <1>1, <1>2, <1>3

(* The processing time is at most the specialists' timeout, and the        *)
(* synthesizer hears of exactly the specialists that answered, in order.   *)
THEOREM SynthesisInputIsRight == Spec => []SynthesisInput
<1>1. Init => ResponsesInv
  BY OrchestratorAssumption DEF Init, ResponsesInv, Specialists
<1>2. ASSUME CallInv, ResponsesInv
      PROVE  SynthesisInput
  <2> SUFFICES ASSUME pc \in {"synthesis", "decided"}
               PROVE  /\ elapsed <= SpecialistTimeout
                      /\ \A n \in DOMAIN responses :
                           \A m \in 1..(n - 1) : responses[m] < responses[n]
                      /\ {responses[n] : n \in DOMAIN responses}
                           = {a \in Specialists : task[a] = "answered"}
    BY DEF SynthesisInput
  <2>1. \A a \in Specialists : a < awaited
    BY <1>2, OrchestratorAssumption DEF CallInv, ProgressInv, Specialists
  <2>2. \A n \in DOMAIN responses : responses[n] \in Specialists
    BY <1>2 DEF CallInv, TypeOK
  <2> QED BY <1>2, <2>1, <2>2 DEF CallInv, TimeInv, ResponsesInv
<1> QED BY <1>1, <1>2, CallInvHolds, NextResponsesInv, PTL DEF Spec

LEMMA NextReportsInv ==
  ASSUME CallInv, ReportsInv, [Next]_vars
  PROVE  ReportsInv'
<1> DEFINE Entries == [agent : Specialists, ok : BOOLEAN]
<1>0. reports \in Seq(Entries) /\ awaited \in Int /\ Specialists \subseteq Int
  BY OrchestratorAssumption DEF CallInv, TypeOK, Specialists
<1>00. \A e \in Entries : e.agent \in Specialists
  OBVIOUS
<1> HIDE DEF Entries
<1>1. CASE Collect /\ task[awaited] # "panicked"
  <2> DEFINE entry == [agent |-> awaited, ok |-> task[awaited] = "answered"]
             last == Len(reports) + 1
  <2>1. /\ reports' = Append(reports, entry) /\ awaited' = awaited + 1 /\ task' = task
        /\ awaited \in Specialists
    BY <1>1, CollectStep, Zenon DEF Report
  <2>2. entry \in Entries /\ entry.agent = awaited /\ entry.ok = (task[awaited] = "answered")
    <3>1. (task[awaited] = "answered") \in BOOLEAN
      BY Zenon
    <3> QED BY <2>1, <3>1 DEF Entries
  <2> HIDE DEF entry
  <2>3. /\ DOMAIN reports = 1..Len(reports) /\ Len(reports) \in Nat
        /\ DOMAIN reports' = 1..last
        /\ reports'[last] = entry
        /\ \A n \in DOMAIN reports : reports'[n] = reports[n] /\ reports[n] \in Entries
    BY <1>0, <2>1, <2>2, Appended
  <2>4. ASSUME NEW n \in DOMAIN reports'
        PROVE  /\ reports'[n].agent < awaited' /\ task'[reports'[n].agent] # "panicked"
               /\ \A m \in 1..(n - 1) : reports'[m].agent < reports'[n].agent
    <3>1. \A m \in DOMAIN reports :
            reports[m].agent < awaited /\ reports'[m] = reports[m] /\ reports[m].agent \in Int
      BY <1>0, <1>00, <2>3 DEF ReportsInv
    <3>2. CASE n = last
      BY <1>0, <1>1, <2>1, <2>2, <2>3, <3>1, <3>2
    <3>3. CASE n \in DOMAIN reports
      <4>1. \A m \in 1..(n - 1) : m \in DOMAIN reports
        BY <2>3, <3>3
      <4>2. /\ task[reports[n].agent] # "panicked"
            /\ \A m \in 1..(n - 1) : reports[m].agent < reports[n].agent
        BY <3>3 DEF ReportsInv
      <4> QED BY <1>0, <2>1, <3>1, <3>3, <4>1, <4>2
    <3> QED BY <2>3, <3>2, <3>3
  <2>5. ASSUME NEW n \in DOMAIN reports'
        PROVE  reports'[n].ok = (task'[reports'[n].agent] = "answered")
    <3>1. CASE n = last
      BY <2>1, <2>2, <2>3, <3>1, Zenon
    <3>2. CASE n \in DOMAIN reports
      BY <2>1, <2>3, <3>2, Zenon DEF ReportsInv
    <3> QED BY <2>3, <3>1, <3>2
  <2>6. ASSUME NEW a \in Specialists, a < awaited', task'[a] # "panicked"
        PROVE  \E n \in DOMAIN reports' : reports'[n].agent = a
    <3>1. CASE a = awaited
      BY <2>2, <2>3, <3>1
    <3>2. CASE a < awaited
      <4>1. PICK n \in DOMAIN reports : reports[n].agent = a
        BY <2>1, <2>6, <3>2 DEF ReportsInv
      <4> QED BY <2>3, <4>1
    <3> QED BY <1>0, <2>1, <2>6, <3>1, <3>2
  <2> QED BY <2>4, <2>5, <2>6, Zenon DEF ReportsInv
<1>2. CASE Collect /\ task[awaited] = "panicked"
  <2>1. reports' = reports /\ awaited' = awaited + 1 /\ task' = task
    BY <1>2, CollectStep DEF Report
  <2>2. \A a \in Specialists : a < awaited' /\ task'[a] # "panicked" => a < awaited
    BY <1>0, <1>2, <2>1
  <2>3. \A n \in DOMAIN reports : reports[n].agent < awaited'
    <3>1. \A n \in DOMAIN reports : reports[n].agent \in Int
      <4>1. \A n \in DOMAIN reports : reports[n] \in Entries
        BY <1>0
      <4> QED BY <1>0, <1>00, <4>1
    <3>2. \A n \in DOMAIN reports : reports[n].agent < awaited
      BY DEF ReportsInv
    <3> QED BY <1>0, <2>1, <3>1, <3>2
  <2> QED BY <2>1, <2>2, <2>3, Zenon DEF ReportsInv
<1>3. CASE ~Collect
  <2>1. /\ UNCHANGED <<awaited, reports>>
        /\ \A a \in Specialists : a < awaited => task'[a] = task[a]
    BY <1>3, CollectedStays
  <2>2. \A n \in DOMAIN reports : task'[reports[n].agent] = task[reports[n].agent]
    <3>1. \A n \in DOMAIN reports : reports[n].agent \in Specialists
      BY <1>0, <1>00
    <3> QED BY <2>1, <3>1 DEF ReportsInv
  <2> QED BY <2>1, <2>2, Zenon DEF ReportsInv
<1> QED BY <1>1, <1>2, <1>3

-------------------------------------------------------------------------------
(* The call keeps the promise of Evaluation, step by step.                 *)

LEMMA VerdictOf ==
  ASSUME NEW a, task[a] \in {"unborn", "spawned", "invoking"} \cup Finished
  PROVE  /\ Verdict(a) = "pending" <=> task[a] \notin Finished
         /\ Verdict(a) = "lost" <=> task[a] = "panicked"
         /\ Verdict(a) = "answered" <=> task[a] = "answered"
         /\ task[a] \in Finished => Verdict(a) \in {"answered", "failed", "lost"}
BY DEF Verdict, Finished

(* The same of the state after a step.                                     *)
LEMMA NextVerdictOf ==
  ASSUME NEW a, task'[a] \in {"unborn", "spawned", "invoking"} \cup Finished
  PROVE  /\ Verdict(a)' = "pending" <=> task'[a] \notin Finished
         /\ Verdict(a)' = "lost" <=> task'[a] = "panicked"
         /\ Verdict(a)' = "answered" <=> task'[a] = "answered"
         /\ task'[a] \in Finished => Verdict(a)' \in {"answered", "failed", "lost"}
BY DEF Verdict, Finished

LEMMA InitRefines ==
  ASSUME Init
  PROVE  Abstract!EvaluationInit
<1>1. \A a \in Specialists : Verdict(a) = "pending"
  BY DEF Init, Verdict
<1>2. Verdicts = [a \in 1..Agents |-> "pending"]
  BY <1>1 DEF Verdicts, Specialists
<1>3. Phase = "open" /\ Published = <<>>
  BY DEF Init, Phase, Published, Returned
<1> QED BY <1>2, <1>3 DEF Abstract!EvaluationInit

LEMMA SameVerdicts ==
  ASSUME CallInv, CallInv',
         \A a \in Specialists : task'[a] = task[a] \/ {task[a], task'[a]} \cap Finished = {}
  PROVE  Verdicts' = Verdicts
<1>1. ASSUME NEW a \in Specialists PROVE Verdict(a)' = Verdict(a)
  <2>1. /\ task[a] \in {"unborn", "spawned", "invoking"} \cup Finished
        /\ task'[a] \in {"unborn", "spawned", "invoking"} \cup Finished
    BY DEF CallInv, TypeOK
  <2>2. CASE task'[a] = task[a]
    BY <2>2 DEF Verdict
  <2>3. CASE {task[a], task'[a]} \cap Finished = {}
    BY <2>1, <2>3, VerdictOf, NextVerdictOf
  <2> QED BY <2>2, <2>3
<1> QED BY <1>1 DEF Verdicts, Specialists

(* A step that publishes nothing and gives no verdict.                     *)
LEMMA Stutters ==
  ASSUME CallInv, CallInv', [Next]_vars,
         ~SnapshotFails, ~SynthesisEnds, ~ \E a \in Specialists : TaskEnds(a)
  PROVE  UNCHANGED Abstract!evaluationVars
<1>1. Verdicts' = Verdicts
  <2>1. ASSUME NEW a \in Specialists
        PROVE  task'[a] = task[a] \/ {task[a], task'[a]} \cap Finished = {}
    <3>1. CASE FanOut
      BY <3>1 DEF FanOut, CallInv, ProgressInv, Finished
    <3>2. ASSUME NEW b \in Specialists, Invoke(b)
          PROVE  task'[a] = task[a] \/ {task[a], task'[a]} \cap Finished = {}
      BY <3>2 DEF Invoke, CallInv, TypeOK, Finished
    <3>3. CASE Collect \/ Synthesize \/ (\E i \in Invokers : OrphanExits(i)) \/ Tick \/ UNCHANGED vars
      BY <3>3 DEF Collect, Synthesize, OrphanExits, Tick, vars
    <3> QED BY <3>1, <3>2, <3>3, OrchestratorSteps
  <2> QED BY <2>1, SameVerdicts
<1>2. Phase' = Phase /\ Published' = Published
  <2>1. CASE FanOut \/ Collect \/ Synthesize
    BY <2>1 DEF FanOut, Collect, Synthesize, Phase, Published, Returned
  <2>2. CASE (\E a \in Specialists : Invoke(a)) \/ (\E i \in Invokers : OrphanExits(i))
             \/ Tick \/ UNCHANGED vars
    BY <2>2 DEF Invoke, OrphanExits, Tick, vars, callVars, Phase, Published, Returned
  <2> QED BY <2>1, <2>2, OrchestratorSteps
<1> QED BY <1>1, <1>2 DEF Abstract!evaluationVars

LEMMA VerdictRefines ==
  ASSUME CallInv, CallInv', NEW a \in Specialists, TaskEnds(a)
  PROVE  Abstract!GiveVerdict(a)
<1>1. PICK outcome \in Finished : task' = [task EXCEPT ![a] = outcome]
  BY DEF TaskEnds
<1>2. /\ task'[a] = outcome /\ task[a] \notin Finished
      /\ \A b \in Specialists : b # a => task'[b] = task[b]
  BY <1>1 DEF TaskEnds, CallInv, TypeOK, Finished
<1>3. Verdict(a) = "pending" /\ Verdict(a)' \in {"answered", "failed", "lost"}
  <2>1. /\ task[a] \in {"unborn", "spawned", "invoking"} \cup Finished
        /\ task'[a] \in {"unborn", "spawned", "invoking"} \cup Finished
    BY DEF CallInv, TypeOK
  <2> QED BY <1>2, <2>1, VerdictOf, NextVerdictOf
<1>4. \A b \in Specialists : b # a => Verdict(b)' = Verdict(b)
  BY <1>2 DEF Verdict
<1>5. Verdicts[a] = "pending" /\ Verdicts' = [Verdicts EXCEPT ![a] = Verdict(a)']
  BY <1>3, <1>4 DEF Verdicts, Specialists
<1>6. Phase = "open" /\ UNCHANGED <<Phase, Published>>
  BY DEF TaskEnds, CallInv, ProgressInv, Phase, Published, Returned
<1> QED BY <1>3, <1>5, <1>6 DEF Abstract!GiveVerdict

LEMMA RefusalRefines ==
  ASSUME CallInv, CallInv', SnapshotFails \/ SynthesisEnds, pc' = "refused"
  PROVE  Abstract!Refuse
<1>1. /\ task' = task /\ pc \in {"start", "synthesis"} /\ (pc = "start" <=> SnapshotFails)
  BY DEF SnapshotFails, SynthesisEnds, SynthesisAnswers, SynthesisFails, SynthesisTimesOut, callVars
<1>2. Verdicts' = Verdicts
  BY <1>1, SameVerdicts
<1>3. Phase = "open" /\ Phase' = "refused" /\ Published' = Published
  BY <1>1 DEF Phase, Published, Returned
<1>4. \A a \in Specialists : task[a] \in {"unborn", "spawned", "invoking"} \cup Finished
  BY DEF CallInv, TypeOK
<1>5. CASE pc = "start"
  <2>1. \A a \in Specialists : Verdict(a) = "pending"
    BY <1>4, <1>5, VerdictOf DEF CallInv, ProgressInv, Finished
  <2>2. \A a \in 1..Agents : Verdicts[a] = "pending"
    BY <2>1 DEF Verdicts, Specialists
  <2> QED BY <1>2, <1>3, <2>2 DEF Abstract!Refuse
<1>6. CASE pc = "synthesis"
  <2>1. \A a \in Specialists : a < awaited
    BY <1>6, OrchestratorAssumption DEF CallInv, ProgressInv, Specialists
  <2>2. \A a \in Specialists : Verdict(a) # "pending"
    BY <1>4, <2>1, VerdictOf DEF CallInv, ProgressInv
  <2>3. \A a \in 1..Agents : Verdicts[a] # "pending"
    BY <2>2 DEF Verdicts, Specialists
  <2> QED BY <1>2, <1>3, <2>3 DEF Abstract!Refuse
<1> QED BY <1>1, <1>5, <1>6

LEMMA DecisionRefines ==
  ASSUME CallInv, CallInv', ReportsInv, SynthesisEnds, pc' = "decided"
  PROVE  Abstract!Decide
<1>1. pc = "synthesis" /\ task' = task /\ reports' = reports
  BY DEF SynthesisEnds, SynthesisAnswers, SynthesisFails, SynthesisTimesOut
<1>2. Verdicts' = Verdicts
  BY <1>1, SameVerdicts
<1>3. Phase = "open" /\ Phase' = "decided" /\ Published' = reports
  BY <1>1 DEF Phase, Published, Returned
<1>4. \A a \in Specialists : task[a] \in {"unborn", "spawned", "invoking"} \cup Finished
  BY DEF CallInv, TypeOK
<1>5. \A a \in Specialists : a < awaited
  BY <1>1, OrchestratorAssumption DEF CallInv, ProgressInv, Specialists
<1>6. \A a \in Specialists :
        /\ Verdicts[a] # "pending"
        /\ Verdicts[a] = "lost" <=> task[a] = "panicked"
        /\ Verdicts[a] = "answered" <=> task[a] = "answered"
  BY <1>4, <1>5, VerdictOf DEF Verdicts, CallInv, ProgressInv
<1>7. \A n \in DOMAIN reports : reports[n].agent \in Specialists
  <2> DEFINE Entries == [agent : Specialists, ok : BOOLEAN]
  <2>1. reports \in Seq(Entries)
    BY DEF CallInv, TypeOK
  <2>2. \A e \in Entries : e.agent \in Specialists
    OBVIOUS
  <2> HIDE DEF Entries
  <2>3. \A n \in DOMAIN reports : reports[n] \in Entries
    BY <2>1
  <2> QED BY <2>2, <2>3
<1>8. \A n \in DOMAIN reports : reports[n].ok = (Verdicts[reports[n].agent] = "answered")
  BY <1>6, <1>7, Zenon DEF ReportsInv
<1>9. {reports[n].agent : n \in DOMAIN reports} = {a \in 1..Agents : Verdicts[a] # "lost"}
  BY <1>5, <1>6, <1>7 DEF ReportsInv, Specialists
<1>10. \A n \in DOMAIN reports : \A m \in 1..(n - 1) : reports[m].agent < reports[n].agent
  BY DEF ReportsInv
<1>11. Abstract!Tells(Published')
  BY <1>3, <1>8, <1>9, <1>10, Zenon DEF Abstract!Tells
<1>12. \A a \in 1..Agents : Verdicts[a] # "pending"
  BY <1>6 DEF Specialists
<1> QED BY <1>2, <1>3, <1>11, <1>12 DEF Abstract!Decide

(* Whatever order the tasks end in and however they end, the decision      *)
(* reports exactly the specialists that returned, in the configured order, *)
(* and no specialist's failure fails the evaluation.                       *)
THEOREM EvaluateImplementsEvaluation == Spec => EvaluationSpec
<1>1. ASSUME CallInv, CallInv', ReportsInv, [Next]_vars
      PROVE  [Abstract!EvaluationNext]_Abstract!evaluationVars
  <2>1. CASE SnapshotFails \/ SynthesisEnds
    <3>1. pc' \in {"decided", "refused"} /\ (pc' = "decided" => SynthesisEnds)
      BY <2>1 DEF SnapshotFails, SynthesisEnds, SynthesisAnswers, SynthesisFails, SynthesisTimesOut
    <3> QED BY <1>1, <2>1, <3>1, RefusalRefines, DecisionRefines DEF Abstract!EvaluationNext
  <2>2. CASE \E a \in Specialists : TaskEnds(a)
    BY <1>1, <2>2, VerdictRefines DEF Abstract!EvaluationNext, Specialists
  <2>3. CASE ~SnapshotFails /\ ~SynthesisEnds /\ ~ \E a \in Specialists : TaskEnds(a)
    BY <1>1, <2>3, Stutters
  <2> QED BY <2>1, <2>2, <2>3
<1>2. Init => ReportsInv
  BY OrchestratorAssumption DEF Init, ReportsInv, Specialists
<1>3. Init => Abstract!EvaluationInit
  BY InitRefines
<1> QED
  BY <1>1, <1>2, <1>3, CallInvHolds, NextReportsInv, PTL
  DEF Spec, EvaluationSpec, Abstract!EvaluationSpec
===============================================================================
