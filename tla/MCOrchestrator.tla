---------------------------- MODULE MCOrchestrator ----------------------------
(***************************************************************************)
(* Instances of Orchestrator for TLC.  The JSON objects differ in one      *)
(* place, at any depth, from one that is as its prompt asks.  The timeouts *)
(* are the defaults in units of 45 seconds, or of 15.                      *)
(***************************************************************************)
EXTENDS Orchestrator, Configuration

mcSpecialistTimeout == InUnits(AgentsConfig.specialist_timeout, 45)
mcTotalTimeout == InUnits(AgentsConfig.total_timeout, 45)
mcSpecialistTimeout15 == InUnits(AgentsConfig.specialist_timeout, 15)
mcTotalTimeout15 == InUnits(AgentsConfig.total_timeout, 15)

mcAllPrompted == 1..Agents
mcOneUnprompted == 1..(Agents - 1)

(* The objects that differ from sample in one field at most. *)
OneOff(sample, alternatives) ==
  UNION {{[sample EXCEPT ![f] = v] : v \in alternatives[f]} : f \in DOMAIN alternatives}

Lists(items) == {[items |-> <<>>]} \cup {[items |-> <<i>>] : i \in items} \cup NoObject

mcConfidence == [score |-> "numeral", reasoning |-> "text"]
mcPrice == [favorability |-> "numeral", suggested_price |-> "null", reasoning |-> "text"]
mcLeg == [side |-> "text", confidence |-> mcConfidence, price_assessment |-> mcPrice]
mcContribution ==
  [source_name |-> "text", relevance |-> "numeral", freshness_seconds |-> "whole"]
mcDecay == [daily_rate |-> "numeral", model |-> "linear"]
mcPoint == [offset_hours |-> "whole", projected_confidence |-> "numeral",
            projected_price_target |-> "numeral", note |-> "null"]
mcAnswer ==
  [overall_confidence |-> mcConfidence,
   leg_assessments |-> [items |-> <<mcLeg>>],
   information_relevance |->
     [score |-> "numeral", source_contributions |-> [items |-> <<mcContribution>>]],
   confidence_decay |-> mcDecay,
   price_target_decay |-> mcDecay,
   trade_intelligence |-> [smartness_score |-> "numeral", assessments |-> [items |-> <<"text">>]],
   timeline |-> [items |-> <<mcPoint>>]]
mcResponse ==
  [request_id |-> "uuid", agent_name |-> "text", domain |-> "text",
   confidence |-> "numeral", reasoning |-> "text", analysis |-> "text",
   data_sources_consulted |-> [items |-> <<"text">>]]

Any(sample) == [f \in DOMAIN sample |-> Scalars]
Confidences == OneOff(mcConfidence, Any(mcConfidence)) \cup NoObject
Prices == OneOff(mcPrice, Any(mcPrice)) \cup NoObject
Legs ==
  OneOff(mcLeg, [side |-> Scalars, confidence |-> Confidences, price_assessment |-> Prices])
    \cup NoObject
Decays == OneOff(mcDecay, Any(mcDecay)) \cup NoObject
Relevances ==
  OneOff([score |-> "numeral", source_contributions |-> [items |-> <<mcContribution>>]],
         [score |-> Scalars,
          source_contributions |-> Lists(OneOff(mcContribution, Any(mcContribution)))])
    \cup NoObject
Intelligences ==
  OneOff([smartness_score |-> "numeral", assessments |-> [items |-> <<"text">>]],
         [smartness_score |-> Scalars, assessments |-> Lists(Scalars)])
    \cup NoObject

mcAnswers ==
  OneOff(mcAnswer,
    [overall_confidence |-> Confidences,
     leg_assessments |-> Lists(Legs),
     information_relevance |-> Relevances,
     confidence_decay |-> Decays,
     price_target_decay |-> Decays,
     trade_intelligence |-> Intelligences,
     timeline |-> Lists(OneOff(mcPoint, Any(mcPoint)))])

mcResponses ==
  OneOff(mcResponse,
    [Any(mcResponse) EXCEPT !.data_sources_consulted = Lists(Scalars \ {"absent"})])

mcAsAsked == {mcAnswer}
mcAsAskedResponse == {mcResponse}
===============================================================================
