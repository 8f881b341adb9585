------------------------------- MODULE AgentJson -------------------------------
(***************************************************************************)
(* The JSON the claude processes answer with: what the types of            *)
(* crates/tirds-models decode, and what the prompts ask for.               *)
(*                                                                         *)
(* A type is the set of the JSON values it decodes from.  A JSON object is *)
(* a record of the fields the types know; a field that is not there is     *)
(* "absent" or Missing.  A scalar is what the decoders tell apart of it.   *)
(***************************************************************************)
EXTENDS Sequences

Scalars == {"whole", "huge", "negative", "fraction",  \* numbers; huge: from 2^32
            "numeral", "uuid", "linear", "text",      \* strings
            "null", "absent"}

(* In place of an object or a list: nothing, null or a scalar. *)
Missing == [is |-> "absent"]
NoObject == {Missing, [is |-> "null"], [is |-> "scalar"]}

(* rust_decimal decodes numbers and strings that spell one. *)
Decimal == {"whole", "huge", "negative", "fraction", "numeral"}
Text == {"numeral", "uuid", "linear", "text"}
Int64 == {"whole", "huge", "negative"}
UInt32 == {"whole"}
Uuid == {"uuid"}
AnyValue == Scalars \ {"absent"}

Opt(T) == T \cup {"null", "absent"}
Vec(T) == [items : Seq(T)]

-------------------------------------------------------------------------------
ConfidenceScore == [score : Decimal, reasoning : Text]

PriceAssessment ==
  [favorability : Decimal, suggested_price : Opt(Decimal), reasoning : Text]

LegAssessment ==
  [side : Text, confidence : ConfidenceScore, price_assessment : PriceAssessment]

SourceContribution ==
  [source_name : Text, relevance : Decimal, freshness_seconds : Int64]

InformationRelevance ==
  [score : Decimal, source_contributions : Vec(SourceContribution)]

(* "linear" stands for both names of the enum. *)
DecayModel == {"linear"}

DecayProfile == [daily_rate : Decimal, model : DecayModel]

TradeIntelligence == [smartness_score : Decimal, assessments : Vec(Text)]

TimelinePoint ==
  [offset_hours : UInt32, projected_confidence : Decimal,
   projected_price_target : Opt(Decimal), note : Opt(Text)]

AgentResponse ==
  [request_id : Uuid, agent_name : Text, domain : Text, confidence : Decimal,
   reasoning : Text, analysis : AnyValue, data_sources_consulted : Vec(Text)]

(* parse_agent_response, of the object extract_json found. *)
ResponseDecodes(response) == response \in AgentResponse

(* build_trade_decision: the parts it requires of the synthesizer's object. *)
RequiredPartsDecode(answer) ==
  /\ answer.overall_confidence \in ConfidenceScore
  /\ answer.leg_assessments \in Vec(LegAssessment)
  /\ answer.information_relevance \in InformationRelevance
  /\ answer.confidence_decay \in DecayProfile
  /\ answer.trade_intelligence \in TradeIntelligence
  /\ answer.timeline \in Vec(TimelinePoint)

(* The price target's decay: None unless the field is there and decodes. *)
HasTarget(answer) == answer.price_target_decay \in DecayProfile

(* Variant of DecisionBuilds: a target that does not decode is an error *)
(* like any other field.                                                *)
DecisionBuildsStrictly(answer) ==
  /\ RequiredPartsDecode(answer)
  /\ HasTarget(answer) \/ answer.price_target_decay \in {Missing, [is |-> "null"]}

DecisionBuilds(answer) == RequiredPartsDecode(answer)

-------------------------------------------------------------------------------
(* What the prompts ask for. *)

(* response_schema. *)
AskedResponse ==
  [request_id : {"uuid"}, agent_name : {"text"}, domain : {"text"},
   confidence : {"numeral"}, reasoning : {"text"}, analysis : AnyValue \ {"null"},
   data_sources_consulted : Vec({"text"})]

AskedConfidence == [score : {"numeral"}, reasoning : {"text"}]

AskedDecay == [daily_rate : {"numeral"}, model : {"linear"}]

(* synthesizer_system_prompt: every part but price_target_decay. *)
AskedAnswer ==
  [overall_confidence |-> AskedConfidence,
   leg_assessments |->
     Vec([side : {"text"}, confidence : AskedConfidence,
          price_assessment : [favorability : {"numeral"},
                              suggested_price : {"null", "numeral"},
                              reasoning : {"text"}]]),
   information_relevance |->
     [score : {"numeral"},
      source_contributions : Vec([source_name : {"text"}, relevance : {"numeral"},
                                  freshness_seconds : {"whole"}])],
   confidence_decay |-> AskedDecay,
   trade_intelligence |-> [smartness_score : {"numeral"}, assessments : Vec({"text"})],
   timeline |->
     Vec([offset_hours : {"whole"}, projected_confidence : {"numeral"},
          projected_price_target : {"null", "numeral"}, note : {"null", "text"}])]
===============================================================================
