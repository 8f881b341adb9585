------------------------------ MODULE Evaluation ------------------------------
(***************************************************************************)
(* What an evaluation of a trade proposal promises: the specialists reach  *)
(* their verdicts independently, in any order; none of them can make the   *)
(* evaluation fail; a decision is made only when all have a verdict, and   *)
(* its reports tell, in the configured order, of every specialist that     *)
(* answered or failed, a panicked one being left out.                      *)
(***************************************************************************)
EXTENDS Naturals, Sequences

CONSTANT Agents  \* the enabled specialists are 1..Agents, in the config's order

VARIABLES
  verdict,  \* per specialist: pending, answered, failed or lost
  phase,    \* open, decided or refused
  reports   \* the agent_reports of the decision

evaluationVars == <<verdict, phase, reports>>

(* A sequence of reports tells of exactly the specialists not lost, in order. *)
Tells(seq) ==
  /\ \A n \in DOMAIN seq : seq[n].ok = (verdict[seq[n].agent] = "answered")
  /\ \A n \in DOMAIN seq : \A m \in 1..(n - 1) : seq[m].agent < seq[n].agent
  /\ {seq[n].agent : n \in DOMAIN seq} = {a \in 1..Agents : verdict[a] # "lost"}

EvaluationInit ==
  /\ verdict = [a \in 1..Agents |-> "pending"]
  /\ phase = "open"
  /\ reports = <<>>

GiveVerdict(a) ==
  /\ phase = "open"
  /\ verdict[a] = "pending"
  /\ \E v \in {"answered", "failed", "lost"} : verdict' = [verdict EXCEPT ![a] = v]
  /\ UNCHANGED <<phase, reports>>

Decide ==
  /\ phase = "open"
  /\ \A a \in 1..Agents : verdict[a] # "pending"
  /\ phase' = "decided"
  /\ Tells(reports')
  /\ UNCHANGED verdict

(* No evaluation fails half-way: before any specialist was asked, or after *)
(* all have answered.                                                      *)
Refuse ==
  /\ phase = "open"
  /\ \/ \A a \in 1..Agents : verdict[a] = "pending"
     \/ \A a \in 1..Agents : verdict[a] # "pending"
  /\ phase' = "refused"
  /\ UNCHANGED <<verdict, reports>>

EvaluationNext == Decide \/ Refuse \/ \E a \in 1..Agents : GiveVerdict(a)

EvaluationSpec == EvaluationInit /\ [][EvaluationNext]_evaluationVars
===============================================================================
