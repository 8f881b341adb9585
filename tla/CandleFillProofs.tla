--------------------------- MODULE CandleFillProofs ---------------------------
(***************************************************************************)
(* Proofs about CandleFill: its type invariant, that a call which ends     *)
(* well leaves no hole, and that a file is written once.  They hold for    *)
(* any number of days, any holidays and any window.                        *)
(***************************************************************************)
EXTENDS CandleFill, TLAPS

(* While a call is under way, a day to be written has no file yet, and is  *)
(* in the queue once.                                                      *)
MissingHasNoFile == pc = "fetch" => \A d \in missing : stored[d] = 0
QueueHasNoFile == \A f \in queue : stored[f.day] = 0
QueueIsFunctional == \A f, g \in queue : f.day = g.day => f = g
QueueIsWritten == pc # "write" => queue = {}

(* What the last answered call has to write is written or in the queue.    *)
SettledOrQueued ==
  \A d \in settled : stored[d] > 0 \/ \E f \in queue : f.day = d

IInv ==
  /\ TypeOK
  /\ MissingHasNoFile
  /\ QueueHasNoFile
  /\ QueueIsFunctional
  /\ QueueIsWritten
  /\ SettledOrQueued

(* The provider has between none and all of a day's candles.               *)
LEMMA MarketBounded ==
  ASSUME traded \in 0..FullDay, NEW d
  PROVE  Market(d) \in 0..FullDay
BY FillAssumption DEF Market

(* What is to be written: one entry per missing day that has candles.      *)
LEMMA WrittenDays ==
  ASSUME TypeOK, NEW days \in SUBSET Days
  PROVE  /\ ToWrite(days) \subseteq [day : Days, candles : 1..FullDay]
         /\ \A f \in ToWrite(days) : f.day \in missing
         /\ \A f, g \in ToWrite(days) : f.day = g.day => f = g
         /\ \A d \in days \cap missing : Market(d) > 0 => \E f \in ToWrite(days) : f.day = d
<1>1. \A d \in days : Market(d) \in 0..FullDay
  BY MarketBounded DEF TypeOK
<1>2. ToWrite(days) \subseteq [day : Days, candles : 1..FullDay]
  BY <1>1, FillAssumption DEF ToWrite
<1>3. \A f \in ToWrite(days) : f.day \in missing
  BY DEF ToWrite
<1>4. \A f, g \in ToWrite(days) : f.day = g.day => f = g
  BY DEF ToWrite
<1>5. ASSUME NEW d \in days \cap missing, Market(d) > 0
      PROVE  \E f \in ToWrite(days) : f.day = d
  <2>1. [day |-> d, candles |-> Market(d)] \in ToWrite(days)
    BY <1>5 DEF ToWrite
  <2> QED  BY <2>1
<1> QED  BY <1>2, <1>3, <1>4, <1>5

LEMMA InitInv == Init => IInv
BY FillAssumption
   DEF Init, IInv, TypeOK, Days, MissingHasNoFile, QueueHasNoFile, QueueIsFunctional,
       QueueIsWritten, SettledOrQueued

LEMMA StepInv == IInv /\ [Next]_vars => IInv'
<1> SUFFICES ASSUME IInv, [Next]_vars PROVE IInv'
  OBVIOUS
<1> USE DEF IInv
<1>1. CASE StartFill
  <2>1. missing' \subseteq Days /\ \A d \in missing' : stored[d] = 0
    BY <1>1 DEF StartFill, Window
  <2> QED
    BY <1>1, <2>1 DEF StartFill, TypeOK, MissingHasNoFile, QueueHasNoFile, QueueIsFunctional,
                      QueueIsWritten, SettledOrQueued
<1>2. CASE ProviderAnswers
  <2>1. FetchRange \in SUBSET Days /\ missing \subseteq FetchRange
    BY DEF FetchRange, TypeOK, Days
  <2>2. /\ queue' \subseteq [day : Days, candles : 1..FullDay]
        /\ \A f \in queue' : f.day \in missing
        /\ \A f, g \in queue' : f.day = g.day => f = g
        /\ \A d \in missing : Market(d) > 0 => \E f \in queue' : f.day = d
    BY <1>2, <2>1, WrittenDays DEF ProviderAnswers
  <2>3. TypeOK'
    BY <1>2, <2>2 DEF ProviderAnswers, TypeOK
  <2>4. QueueHasNoFile'
    BY <1>2, <2>2 DEF ProviderAnswers, MissingHasNoFile, QueueHasNoFile
  <2>5. SettledOrQueued'
    BY <1>2, <2>2 DEF ProviderAnswers, SettledOrQueued
  <2> QED
    BY <1>2, <2>2, <2>3, <2>4, <2>5
       DEF ProviderAnswers, MissingHasNoFile, QueueIsFunctional, QueueIsWritten
<1>3. CASE ProviderFails
  BY <1>3 DEF ProviderFails, TypeOK, MissingHasNoFile, QueueHasNoFile, QueueIsFunctional,
              QueueIsWritten, SettledOrQueued
<1>4. CASE WriteDay
  <2>1. PICK f \in queue : /\ stored' = [stored EXCEPT ![f.day] = f.candles]
                           /\ queue' = queue \ {f}
    BY <1>4 DEF WriteDay
  <2>2. f.day \in Days /\ f.candles \in 1..FullDay
    BY DEF TypeOK
  <2>3. stored'[f.day] = f.candles /\ \A d \in Days \ {f.day} : stored'[d] = stored[d]
    BY <2>1, <2>2 DEF TypeOK
  <2>4. TypeOK'
    BY <1>4, <2>1, <2>2 DEF WriteDay, TypeOK
  <2>5. QueueHasNoFile'
    BY <2>1, <2>3 DEF QueueHasNoFile, QueueIsFunctional, TypeOK
  <2>6. SettledOrQueued'
    <3>1. SUFFICES ASSUME NEW d \in settled
                   PROVE  stored'[d] > 0 \/ \E g \in queue' : g.day = d
      BY <1>4 DEF WriteDay, SettledOrQueued
    <3>2. CASE d = f.day
      BY <2>2, <2>3, <3>2
    <3>3. CASE d # f.day
      BY <2>1, <2>3, <3>3 DEF SettledOrQueued, TypeOK
    <3> QED  BY <3>2, <3>3
  <2> QED
    BY <1>4, <2>1, <2>4, <2>5, <2>6
       DEF WriteDay, MissingHasNoFile, QueueIsFunctional, QueueIsWritten
<1>5. CASE WriteFails
  BY <1>5 DEF WriteFails, TypeOK, MissingHasNoFile, QueueHasNoFile, QueueIsFunctional,
              QueueIsWritten, SettledOrQueued
<1>6. CASE FillEnds
  BY <1>6 DEF FillEnds, TypeOK, MissingHasNoFile, QueueHasNoFile, QueueIsFunctional,
              QueueIsWritten, SettledOrQueued
<1>7. CASE Trade
  BY <1>7, FillAssumption
     DEF Trade, TypeOK, MissingHasNoFile, QueueHasNoFile, QueueIsFunctional,
         QueueIsWritten, SettledOrQueued
<1>8. CASE DayEnds
  BY <1>8, FillAssumption
     DEF DayEnds, TypeOK, Days, MissingHasNoFile, QueueHasNoFile, QueueIsFunctional,
         QueueIsWritten, SettledOrQueued
<1>9. CASE UNCHANGED vars
  BY <1>9 DEF vars, TypeOK, MissingHasNoFile, QueueHasNoFile, QueueIsFunctional,
              QueueIsWritten, SettledOrQueued
<1> QED
  BY <1>1, <1>2, <1>3, <1>4, <1>5, <1>6, <1>7, <1>8, <1>9 DEF Next

(* The inductive invariant holds in every reachable state.                 *)
THEOREM FillInvariant == Spec => []IInv
BY InitInv, StepInv, PTL DEF Spec

(* The state always has its type.                                          *)
THEOREM FillTypeCorrect == Spec => []TypeOK
BY FillInvariant, PTL DEF IInv

(* A call that ended well has left no hole: its queue was emptied by       *)
(* writing, and everything in it came from the whole range of missing days.*)
THEOREM NoHolesLeft == Spec => []NoHoles
<1>1. IInv => NoHoles
  BY DEF IInv, NoHoles, SettledOrQueued, QueueIsWritten
<1> QED  BY <1>1, FillInvariant, PTL

(* A file is written once: only WriteDay touches files, and the days in    *)
(* the queue have none.                                                    *)
THEOREM FilesArePermanent == Spec => FilesStay
<1> DEFINE Kept == \A d \in Days : stored[d] > 0 => stored'[d] = stored[d]
<1>1. IInv /\ [Next]_vars => [Kept]_vars
  <2> SUFFICES ASSUME IInv, [Next]_vars PROVE Kept
    OBVIOUS
  <2>1. CASE WriteDay
    <3>1. PICK f \in queue : stored' = [stored EXCEPT ![f.day] = f.candles]
      BY <2>1 DEF WriteDay
    <3>2. stored[f.day] = 0
      BY DEF IInv, QueueHasNoFile
    <3> QED  BY <3>1, <3>2 DEF IInv, TypeOK
  <2>2. CASE ~WriteDay
    <3>1. stored' = stored
      BY <2>2 DEF Next, vars, StartFill, ProviderAnswers, ProviderFails, WriteFails, FillEnds,
                  Trade, DayEnds
    <3> QED  BY <3>1
  <2> QED  BY <2>1, <2>2
<1>2. Spec => [][Kept]_vars
  BY <1>1, FillInvariant, PTL DEF Spec
<1> QED  BY <1>2 DEF FilesStay
===============================================================================
