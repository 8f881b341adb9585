\* Three specialists, one of them without a system prompt; their claude
\* processes and the synthesizer's may never answer.
CONSTANTS
  Agents = 3
  Prompted <- mcOneUnprompted
  SpecialistTimeout <- mcSpecialistTimeout
  TotalTimeout <- mcTotalTimeout
  Responses <- mcResponses
  Answers <- mcAnswers
  MaxTime = 5
SPECIFICATION FairSpec
INVARIANTS
  TypeOK
  EvaluateIsBounded
  SynthesisInput
  OrphansOutlivedTheirTimeout
  AskedAnswersCount
PROPERTIES
  EvaluationSpec
  EvaluateReturns
CHECK_DEADLOCK FALSE
