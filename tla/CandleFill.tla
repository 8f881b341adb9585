------------------------------ MODULE CandleFill ------------------------------
(***************************************************************************)
(* fill_missing_data of the loader for one symbol, called once per refresh *)
(* cycle, against a provider whose data grows during the day and a candle  *)
(* store with one file per day.  RefreshLoop sees all of this as one step. *)
(*                                                                         *)
(* The candles of a day are their number, FullDay once the day is over.    *)
(***************************************************************************)
EXTENDS Integers

CONSTANTS
  LastDay,   \* bound on the days
  Holidays,  \* weekdays without any trade
  FullDay,   \* candles of a whole day
  Lookback   \* market_data.lookback_days

ASSUME FillAssumption ==
  /\ LastDay \in Nat \ {0} /\ FullDay \in Nat \ {0} /\ Lookback \in Nat
  /\ Holidays \subseteq 1..LastDay

VARIABLES
  today,   \* the current day
  traded,  \* candles of today so far
  stored,  \* per day the candles in its file, 0 for no file
  pc,      \* where the call is
  missing, \* missing_dates, taken before the fetch is awaited
  queue,   \* what is fetched and still to be written
  settled  \* the last call wrote all it had fetched, for this window (history)

vars == <<today, traded, stored, pc, missing, queue, settled>>

Days == 1..LastDay

TypeOK ==
  /\ today \in Days
  /\ traded \in 0..FullDay
  /\ stored \in [Days -> 0..FullDay]
  /\ pc \in {"idle", "fetch", "write"}
  /\ missing \subseteq Days
  /\ queue \subseteq [day : Days, candles : 1..FullDay]
  /\ settled \subseteq Days

Init ==
  /\ today = 1
  /\ traded = 0
  /\ stored = [d \in Days |-> 0]
  /\ pc = "idle"
  /\ missing = {}
  /\ queue = {}
  /\ settled = {}

-------------------------------------------------------------------------------
(* What the provider has. *)
Market(d) ==
  IF d \in Holidays \/ d > today THEN 0 ELSE IF d = today THEN traded ELSE FullDay

Window == {d \in Days : today - Lookback <= d /\ d <= today}

(* missing_dates counts the days without a file; none: the call is over. *)
StartFill ==
  /\ pc = "idle"
  /\ missing' = {d \in Window : stored[d] = 0}
  /\ missing' # {}
  /\ pc' = "fetch"
  /\ UNCHANGED <<today, traded, stored, queue, settled>>

(* Variant of FetchRange: the range ends before the last missing day. *)
RangeWithoutEnd == {d \in Days : \E a, b \in missing : a <= d /\ d < b}

(* One contiguous range covers all missing days. *)
FetchRange == {d \in Days : \E a, b \in missing : a <= d /\ d <= b}

(* Variants of ToWrite: days that have a file already are written again;   *)
(* days without candles are written.                                       *)
WriteAll(days) == {[day |-> d, candles |-> Market(d)] : d \in {x \in days : Market(x) > 0}}

WriteEmpty(days) == {[day |-> d, candles |-> Market(d)] : d \in days \cap missing}

(* Only missing days that have candles are written. *)
ToWrite(days) ==
  {[day |-> d, candles |-> Market(d)] : d \in {x \in days \cap missing : Market(x) > 0}}

ProviderAnswers ==
  /\ pc = "fetch"
  /\ queue' = ToWrite(FetchRange)
  /\ pc' = "write"
  /\ settled' = {d \in missing : Market(d) > 0}
  /\ UNCHANGED <<today, traded, stored, missing>>

ProviderFails ==
  /\ pc = "fetch"
  /\ pc' = "idle"
  /\ UNCHANGED <<today, traded, stored, missing, queue, settled>>

WriteDay ==
  /\ pc = "write"
  /\ \E f \in queue :
       /\ stored' = [stored EXCEPT ![f.day] = f.candles]
       /\ queue' = queue \ {f}
  /\ UNCHANGED <<today, traded, pc, missing, settled>>

(* The ? on write_day: the days not written yet are dropped. *)
WriteFails ==
  /\ pc = "write"
  /\ queue # {}
  /\ queue' = {}
  /\ pc' = "idle"
  /\ settled' = {}
  /\ UNCHANGED <<today, traded, stored, missing>>

FillEnds ==
  /\ pc = "write"
  /\ queue = {}
  /\ pc' = "idle"
  /\ UNCHANGED <<today, traded, stored, missing, queue, settled>>

(* A candle of today comes out; the day ends, with all its candles. *)
Trade ==
  /\ today \notin Holidays
  /\ traded < FullDay
  /\ traded' = traded + 1
  /\ UNCHANGED <<today, stored, pc, missing, queue, settled>>

DayEnds ==
  /\ today < LastDay
  /\ today' = today + 1
  /\ traded' = 0
  /\ UNCHANGED <<stored, pc, missing, queue, settled>>

Next ==
  \/ StartFill \/ ProviderAnswers \/ ProviderFails
  \/ WriteDay \/ WriteFails \/ FillEnds
  \/ Trade \/ DayEnds

Spec == Init /\ [][Next]_vars

-------------------------------------------------------------------------------
(* A call that ends well leaves no hole: every missing day of its window   *)
(* that had candles when the provider was asked has a file, however many   *)
(* stored days and holidays lie between the missing ones.                  *)
NoHoles == pc = "idle" => \A d \in settled : stored[d] > 0

(* A file is written once: what indicators were computed from stays.       *)
FilesStay == [][\A d \in Days : stored[d] > 0 => stored'[d] = stored[d]]_vars

(* A day that is over and has a file has all its candles in it. *)
HistoryIsComplete == \A d \in Days : (d < today /\ stored[d] > 0) => stored[d] = FullDay
===============================================================================
