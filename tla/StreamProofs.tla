----------------------------- MODULE StreamProofs -----------------------------
(***************************************************************************)
(* Proofs about what the stream task of LoaderDaemon leaves in the table.  *)
(***************************************************************************)
EXTENDS LoaderProofs

-------------------------------------------------------------------------------
(* The channel holds the last messages published, in order: those before   *)
(* Gone have been received, dropped, or published before the subscription. *)

Gone == sent - Len(chan)

ChannelInv ==
  /\ Len(chan) <= sent
  /\ \A n \in DOMAIN chan : chan[n].seq = Gone + n
  /\ \A k \in SharedKeys : latest[k] <= sent
  /\ spc \in {"starting", "started"} => chan = <<>> /\ \A k \in SharedKeys : latest[k] = 0

LEMMA ChannelType ==
  ASSUME TypeInv
  PROVE  /\ chan \in Seq(Message)
         /\ Len(chan) \in Nat /\ Len(chan) <= Capacity /\ DOMAIN chan = 1..Len(chan)
         /\ sent \in Nat /\ Gone \in Int
         /\ Capacity \in Nat /\ Capacity > 0 /\ StreamTTL \in Nat
         /\ \A k \in SharedKeys : latest[k] \in Nat
BY StreamAssumption DEF TypeInv, TypeOK, StreamTypeOK, Gone

(* A new message is the last; a full channel drops its first for it.       *)
LEMMA Retained ==
  ASSUME TypeInv, NEW m
  PROVE  \E dropped \in {0, 1} :
           /\ dropped = 1 => Len(chan) = Capacity
           /\ Len(Retain(m)) = Len(chan) + 1 - dropped
           /\ DOMAIN Retain(m) = 1..Len(Retain(m))
           /\ Retain(m)[Len(chan) + 1 - dropped] = m
           /\ \A n \in 1..(Len(chan) - dropped) : Retain(m)[n] = chan[n + dropped]
<1>1. /\ chan \in Seq(Message) /\ Len(chan) \in Nat /\ Len(chan) <= Capacity
      /\ Capacity \in Nat /\ Capacity > 0
  BY ChannelType
<1>2. CASE Len(chan) < Capacity
  <2>1. Retain(m) = Append(chan, m)
    BY <1>2 DEF Retain
  <2>2. /\ Len(Retain(m)) = Len(chan) + 1 /\ DOMAIN Retain(m) = 1..(Len(chan) + 1)
        /\ Retain(m)[Len(chan) + 1] = m
        /\ \A n \in 1..Len(chan) : Retain(m)[n] = chan[n]
    BY <1>1, <2>1
  <2> QED BY <1>1, <2>2
<1>3. CASE Len(chan) = Capacity
  <2>1. Retain(m) = Append(Tail(chan), m)
    BY <1>1, <1>3 DEF Retain
  <2>2. /\ Tail(chan) \in Seq(Message) /\ Len(Tail(chan)) = Len(chan) - 1
        /\ \A n \in 1..(Len(chan) - 1) : Tail(chan)[n] = chan[n + 1]
    BY <1>1, <1>3
  <2>3. /\ Len(Retain(m)) = Len(chan) /\ DOMAIN Retain(m) = 1..Len(chan)
        /\ Retain(m)[Len(chan)] = m
        /\ \A n \in 1..(Len(chan) - 1) : Retain(m)[n] = Tail(chan)[n]
    BY <1>1, <1>3, <2>1, <2>2
  <2> QED BY <1>1, <1>3, <2>2, <2>3
<1> QED BY <1>1, <1>2, <1>3

(* Taking the first message.                                               *)
LEMMA Received ==
  ASSUME TypeInv, ChannelInv, chan # <<>>, chan' = Tail(chan), sent' = sent
  PROVE  /\ Gone' = Gone + 1
         /\ DOMAIN chan' = 1..(Len(chan) - 1)
         /\ \A n \in 1..(Len(chan) - 1) : chan'[n] = chan[n + 1]
         /\ NextMessage = chan[1] /\ NextMessage \in Message /\ NextMessage.seq = Gone + 1
<1>1. chan \in Seq(Message) /\ Len(chan) \in Nat /\ DOMAIN chan = 1..Len(chan) /\ sent \in Nat
  BY ChannelType
<1>2. Len(chan) > 0
  BY <1>1
<1>3. /\ Len(chan') = Len(chan) - 1 /\ DOMAIN chan' = 1..(Len(chan) - 1)
      /\ \A n \in 1..(Len(chan) - 1) : chan'[n] = chan[n + 1]
  BY <1>1, <1>2
<1>4. NextMessage = chan[1] /\ NextMessage \in Message
  BY <1>1, <1>2 DEF NextMessage
<1> QED BY <1>1, <1>2, <1>3, <1>4 DEF Gone, ChannelInv

LEMMA OtherStepsOfStream ==
  ASSUME [Next]_vars, ~StreamTask(StreamNext), ~CrashAndRestart
  PROVE  UNCHANGED streamVars
BY DEF Next, RefreshTask, CleanupTask, CtrlC, Return, Tick, vars

LEMMA PublishChannel ==
  ASSUME TypeInv, ChannelInv, NEW kind \in Kinds \cup EconSeries, NEW tickers \in SUBSET Tickers,
         Publish(kind, tickers)
  PROVE  ChannelInv'
<1> DEFINE m == [seq |-> sent + 1, kind |-> kind, tickers |-> tickers]
<1>1. /\ Len(chan) \in Nat /\ DOMAIN chan = 1..Len(chan) /\ sent \in Nat
      /\ sent' = sent + 1 /\ spc' = spc /\ spc \in {"started", "running"}
  BY ChannelType DEF Publish
<1>2. m.seq = sent + 1
  OBVIOUS
<1> HIDE DEF m
<1>3. CASE spc = "started"
  <2>1. chan = <<>> /\ UNCHANGED <<chan, latest>>
    BY <1>3 DEF Publish, ChannelInv
  <2> QED BY <1>1, <1>3, <2>1 DEF ChannelInv, Gone
<1>4. CASE spc = "running"
  <2>1. chan' = Retain(m)
    BY <1>4 DEF Publish, m
  <2>2. PICK dropped \in {0, 1} :
          /\ Len(chan') = Len(chan) + 1 - dropped
          /\ DOMAIN chan' = 1..Len(chan')
          /\ chan'[Len(chan) + 1 - dropped] = m
          /\ \A n \in 1..(Len(chan) - dropped) : chan'[n] = chan[n + dropped]
    BY <2>1, Retained
  <2>3. Gone' = Gone + dropped /\ Len(chan') <= sent'
    BY <1>1, <2>2 DEF Gone, ChannelInv
  <2>4. ASSUME NEW n \in DOMAIN chan'
        PROVE  chan'[n].seq = Gone' + n
    <3>1. CASE n = Len(chan) + 1 - dropped
      BY <1>1, <1>2, <2>2, <2>3, <3>1 DEF Gone
    <3>2. CASE n # Len(chan) + 1 - dropped
      <4>1. n \in 1..(Len(chan) - dropped) /\ n + dropped \in DOMAIN chan
        BY <1>1, <2>2, <2>4, <3>2
      <4>2. chan[n + dropped].seq = Gone + (n + dropped)
        BY <4>1 DEF ChannelInv
      <4> QED BY <1>1, <2>2, <2>3, <4>1, <4>2 DEF Gone
    <3> QED BY <3>1, <3>2
  <2>5. ASSUME NEW k \in SharedKeys
        PROVE  latest'[k] <= sent'
    <3>1. latest'[k] \in {m.seq, latest[k]}
      BY <1>4 DEF Publish, m
    <3>2. latest[k] \in Nat /\ latest[k] <= sent
      BY ChannelType DEF ChannelInv
    <3> QED BY <1>1, <1>2, <3>1, <3>2
  <2> QED BY <1>1, <1>4, <2>3, <2>4, <2>5 DEF ChannelInv
<1> QED BY <1>1, <1>3, <1>4

LEMMA NextChannelInv ==
  ASSUME TypeInv, ChannelInv, [Next]_vars
  PROVE  ChannelInv'
<1>1. CASE StreamTask(StreamNext)
  <2>1. CASE Receive \/ ReceiveAndFail
    <3>1. /\ chan # <<>> /\ chan' = Tail(chan) /\ UNCHANGED <<sent, latest, spc>> /\ spc = "running"
      BY <2>1 DEF Receive, ReceiveAndFail
    <3>2. /\ Gone' = Gone + 1 /\ DOMAIN chan' = 1..(Len(chan) - 1)
          /\ \A n \in 1..(Len(chan) - 1) : chan'[n] = chan[n + 1]
      BY <3>1, Received
    <3>3. Len(chan) \in Nat /\ DOMAIN chan = 1..Len(chan) /\ sent \in Nat /\ Gone \in Int
      BY ChannelType
    <3>4. ASSUME NEW n \in DOMAIN chan'
          PROVE  chan'[n].seq = Gone' + n
      <4>1. n \in Int /\ n + 1 \in DOMAIN chan /\ chan'[n] = chan[n + 1]
        BY <3>2, <3>3
      <4>2. chan[n + 1].seq = Gone + (n + 1)
        BY <4>1 DEF ChannelInv
      <4> QED BY <3>2, <3>3, <4>1, <4>2
    <3>5. Len(chan') = Len(chan) - 1
      BY <3>1, ChannelType
    <3>6. Len(chan') <= sent'
      BY <3>1, <3>3, <3>5 DEF ChannelInv
    <3> QED BY <3>1, <3>4, <3>6 DEF ChannelInv
  <2>2. CASE \E kind \in Kinds \cup EconSeries, tickers \in SUBSET Tickers : Publish(kind, tickers)
    BY <2>2, PublishChannel
  <2>3. CASE Shutdown
    <3>1. chan' = <<>> /\ spc' = "stopped" /\ UNCHANGED <<sent, latest>>
      BY <2>3 DEF Shutdown
    <3> QED BY <3>1, ChannelType DEF ChannelInv
  <2>4. CASE StartSources \/ StartFails \/ Subscribe \/ ReceiveLagged \/ StreamStops
    <3>1. /\ UNCHANGED <<chan, sent, latest>>
          /\ spc' \in {"starting", "started"} => spc \in {"starting", "started"}
      BY <2>4 DEF StartSources, StartFails, Subscribe, ReceiveLagged, StreamStops
    <3> QED BY <3>1 DEF ChannelInv, Gone
  <2> QED BY <1>1, <2>1, <2>2, <2>3, <2>4 DEF StreamTask, StreamNext, StreamStep
<1>2. CASE CrashAndRestart
  <2>1. chan' = <<>> /\ sent' = sent /\ \A k \in SharedKeys : latest'[k] = 0
    BY <1>2 DEF CrashAndRestart
  <2> QED BY <2>1, ChannelType DEF ChannelInv
<1>3. CASE ~StreamTask(StreamNext) /\ ~CrashAndRestart
  <2>1. UNCHANGED <<chan, sent, latest, spc>>
    BY <1>3, OtherStepsOfStream DEF streamVars
  <2> QED BY <2>1 DEF ChannelInv, Gone
<1> QED BY <1>1, <1>2, <1>3

(* The channel always holds the last messages sent, in order and with      *)
(* none missing between them, however many it has dropped.                 *)
THEOREM ChannelInvHolds == Spec => []ChannelInv
<1>1. Init => ChannelInv
  BY DEF Init, StreamInit, ChannelInv, Gone
<1> QED BY <1>1, TypesHold, NextChannelInv, PTL DEF Spec

(* Messages only ever leave the channel at its front.                      *)
LEMMA GoneGrows ==
  ASSUME TypeInv, ChannelInv, [Next]_vars
  PROVE  Gone \in Int /\ Gone' \in Int /\ Gone' >= Gone
<1>1. Len(chan) \in Nat /\ sent \in Nat /\ Gone \in Int /\ Gone <= sent
  BY ChannelType DEF Gone
<1>2. CASE StreamTask(StreamNext)
  <2>1. CASE Receive \/ ReceiveAndFail
    <3>1. chan # <<>> /\ chan' = Tail(chan) /\ sent' = sent
      BY <2>1 DEF Receive, ReceiveAndFail
    <3> QED BY <1>1, <3>1, Received
  <2>2. CASE \E kind \in Kinds \cup EconSeries, tickers \in SUBSET Tickers : Publish(kind, tickers)
    <3>1. PICK kind \in Kinds \cup EconSeries, tickers \in SUBSET Tickers : Publish(kind, tickers)
      BY <2>2
    <3>2. sent' = sent + 1 /\ (chan' = chan \/ \E m : chan' = Retain(m))
      BY <3>1 DEF Publish
    <3>3. Len(chan') \in Nat /\ Len(chan') <= Len(chan) + 1
      BY <1>1, <3>2, Retained
    <3> QED BY <1>1, <3>2, <3>3 DEF Gone
  <2>3. CASE Shutdown
    <3>1. chan' = <<>> /\ sent' = sent
      BY <2>3 DEF Shutdown
    <3> QED BY <1>1, <3>1 DEF Gone
  <2>4. CASE StartSources \/ StartFails \/ Subscribe \/ ReceiveLagged \/ StreamStops
    <3>1. UNCHANGED <<chan, sent>>
      BY <2>4 DEF StartSources, StartFails, Subscribe, ReceiveLagged, StreamStops
    <3> QED BY <1>1, <3>1 DEF Gone
  <2> QED BY <1>2, <2>1, <2>2, <2>3, <2>4 DEF StreamTask, StreamNext, StreamStep
<1>3. CASE CrashAndRestart
  <2>1. chan' = <<>> /\ sent' = sent
    BY <1>3 DEF CrashAndRestart
  <2> QED BY <1>1, <2>1 DEF Gone
<1>4. CASE ~StreamTask(StreamNext) /\ ~CrashAndRestart
  <2>1. UNCHANGED <<chan, sent>>
    BY <1>4, OtherStepsOfStream DEF streamVars
  <2> QED BY <1>1, <2>1 DEF Gone
<1> QED BY <1>2, <1>3, <1>4

-------------------------------------------------------------------------------
(* The rows of the stream never go back to an earlier message.             *)

(* Every row comes from a message that has left the channel.               *)
RowsInv == \A r \in table : r.key \in StreamKeys => r.gen <= Gone

LEMMA BatchIsNotOfStream ==
  ASSUME BatchInv, NEW r \in batch
  PROVE  r.key \notin StreamKeys
<1>1. PICK kinds, gen, expires :
        /\ kinds \in SUBSET RefreshKinds
        /\ batch = RowsAt(kinds, Head(todo), gen, expires)
  BY BatchRows
<1>2. r.key[1] \in RefreshKinds
  BY <1>1, RowsAtFields
<1> QED BY <1>2, StreamPrefix

(* Where the stream's rows come from: they were there, or the message at   *)
(* the head of the channel names their key.                                *)
LEMMA StreamRowSteps ==
  ASSUME CycleInv, ChannelInv, [Next]_vars, NEW q \in table', q.key \in StreamKeys
  PROVE  \/ q \in table /\ (WritesMessage => q.key \notin KeysOf(RowsOfMessage(NextMessage)))
         \/ /\ WritesMessage
            /\ q \in RowsOfMessage(NextMessage)
            /\ q.gen = Gone + 1 /\ Gone' = Gone + 1
<1>1. CASE WritesMessage
  <2>1. chan # <<>> /\ table' = UpsertBatch(table, RowsOfMessage(NextMessage))
    BY <1>1 DEF WritesMessage
  <2>2. chan' = Tail(chan) /\ sent' = sent
    BY <1>1 DEF WritesMessage, StreamTask, Receive
  <2>3. NextMessage \in Message /\ NextMessage.seq = Gone + 1 /\ Gone' = Gone + 1
    BY <2>1, <2>2, Received DEF CycleInv
  <2>4. CASE q \in RowsOfMessage(NextMessage)
    BY <1>1, <2>3, <2>4, MessageRows
  <2> QED BY <2>1, <2>4 DEF UpsertBatch
<1>2. CASE ~WritesMessage
  <2>1. CASE table' = UpsertBatch(table, batch)
    BY <1>2, <2>1, BatchIsNotOfStream DEF UpsertBatch, CycleInv
  <2>2. CASE table' = table \/ table' = ExpireStale(table, now)
    BY <1>2, <2>2 DEF ExpireStale
  <2> QED BY <1>2, <2>1, <2>2, TableSteps DEF WritesBatch
<1> QED BY <1>1, <1>2

LEMMA NextRowsInv ==
  ASSUME CycleInv, ChannelInv, RowsInv, [Next]_vars
  PROVE  RowsInv'
<1> SUFFICES ASSUME NEW q \in table', q.key \in StreamKeys
             PROVE  q.gen <= Gone'
  BY DEF RowsInv
<1>1. Gone \in Int /\ Gone' \in Int /\ Gone' >= Gone
  BY GoneGrows DEF CycleInv
<1>2. CASE q \in table
  <2>1. q.gen \in Nat /\ q.gen <= Gone
    BY <1>2, TableRowType DEF RowsInv, CycleInv
  <2> QED BY <1>1, <2>1
<1>3. CASE q.gen = Gone + 1 /\ Gone' = Gone + 1
  BY <1>1, <1>3
<1> QED BY <1>2, <1>3, StreamRowSteps

(* What is known of the table, the channel and the rows in every state.    *)
StreamInv == CycleInv /\ KeysInv /\ ChannelInv /\ RowsInv

(* Every row of the stream is of a message that has left the channel: the  *)
(* task upserts only what it has received.                                 *)
THEOREM StreamInvHolds == Spec => []StreamInv
<1>1. Init => RowsInv
  BY DEF Init, BaseInit, RowsInv
<1> QED
  BY <1>1, CycleInvHolds, KeysAreUnique, ChannelInvHolds, NextRowsInv, PTL DEF Spec, StreamInv

(* A key's row never goes back to an earlier message: no step of any task  *)
(* leaves a row of the stream older than the one it found under that key.  *)
THEOREM StreamOnlyGoesForward == Spec => StreamGoesForward
<1>1. ASSUME StreamInv, [Next]_vars, NEW r \in table, NEW q \in table',
             r.key = q.key, r.key \in StreamKeys
      PROVE  q.gen >= r.gen
  <2>1. r.gen \in Nat /\ r.gen <= Gone
    BY <1>1, TableRowType DEF StreamInv, CycleInv, RowsInv
  <2>2. CASE q \in table
    <3>1. q = r
      BY <1>1, <2>2 DEF StreamInv, KeysInv
    <3> QED BY <2>1, <3>1
  <2>3. CASE q.gen = Gone + 1
    <3>1. Gone \in Int
      BY <1>1, ChannelType DEF StreamInv, CycleInv
    <3> QED BY <2>1, <2>3, <3>1
  <2> QED BY <1>1, <2>2, <2>3, StreamRowSteps DEF StreamInv
<1>2. StreamInv /\ [Next]_vars
        => [\A r \in table, q \in table' :
              (r.key = q.key /\ r.key \in StreamKeys) => q.gen >= r.gen]_<<baseVars, streamVars>>
  BY <1>1
<1> QED BY <1>2, StreamInvHolds, PTL DEF Spec, StreamGoesForward

-------------------------------------------------------------------------------
(* The last message published for a key is the last one that reaches its   *)
(* row.                                                                    *)

(* No message retained for k comes after the last one published for it.    *)
NoneAfterLatest(k) ==
  \A n \in DOMAIN chan : k \in KeysOfMessage(chan[n]) => chan[n].seq <= latest[k]

(* The last one is retained until it leaves the channel.                   *)
LatestRetained(k) ==
  latest[k] > Gone => \E n \in DOMAIN chan : chan[n].seq = latest[k] /\ k \in KeysOfMessage(chan[n])

HistoryInv == \A k \in SharedKeys : NoneAfterLatest(k) /\ LatestRetained(k)

(* The last message was received: fewer than Capacity messages followed,   *)
(* so that lag cannot have dropped it.                                     *)
Arrived(k) == 0 < latest[k] /\ latest[k] <= Gone /\ latest[k] + Capacity > sent

ShowsLatest(k) ==
  /\ \A r \in table : r.key = k => r.gen = latest[k]
  /\ now < StreamTTL => \E r \in table : r.key = k /\ r.expires >= StreamTTL

ShownInv ==
  spc = "running" => \A k \in SharedKeys \ unwritten : Arrived(k) => ShowsLatest(k)

LEMMA PublishHistory ==
  ASSUME TypeInv, ChannelInv, HistoryInv, NEW kind \in Kinds \cup EconSeries,
         NEW tickers \in SUBSET Tickers, Publish(kind, tickers)
  PROVE  HistoryInv'
<1> DEFINE m == [seq |-> sent + 1, kind |-> kind, tickers |-> tickers]
<1>1. /\ Len(chan) \in Nat /\ DOMAIN chan = 1..Len(chan) /\ sent \in Nat
      /\ Gone \in Int /\ \A k \in SharedKeys : latest[k] \in Nat
      /\ sent' = sent + 1 /\ spc \in {"started", "running"}
  BY ChannelType DEF Publish
<1>2. m.seq = sent + 1
  OBVIOUS
<1>3. CASE spc = "started"
  <2>1. chan = <<>> /\ UNCHANGED <<chan, latest>> /\ \A k \in SharedKeys : latest[k] = 0
    BY <1>3 DEF Publish, ChannelInv
  <2>2. DOMAIN chan' = {} /\ Gone' = sent + 1
    BY <1>1, <2>1 DEF Gone
  <2> QED BY <1>1, <2>1, <2>2 DEF HistoryInv, NoneAfterLatest, LatestRetained
<1>4. CASE spc = "running"
  <2>1. /\ chan' = Retain(m)
        /\ latest' = [k \in SharedKeys |-> IF k \in KeysOfMessage(m) THEN m.seq ELSE latest[k]]
    BY <1>4 DEF Publish
  <2> HIDE DEF m
  <2>2. PICK dropped \in {0, 1} :
          /\ Len(chan') = Len(chan) + 1 - dropped
          /\ dropped = 1 => Len(chan) = Capacity
          /\ DOMAIN chan' = 1..Len(chan')
          /\ chan'[Len(chan) + 1 - dropped] = m
          /\ \A n \in 1..(Len(chan) - dropped) : chan'[n] = chan[n + dropped]
    BY <2>1, Retained
  <2>3. Gone' = Gone + dropped
    BY <1>1, <2>2 DEF Gone
  <2>4. Len(chan) + 1 - dropped \in DOMAIN chan'
    BY <1>1, <2>2, ChannelType
  <2>5. ASSUME NEW k \in SharedKeys
        PROVE  NoneAfterLatest(k)' /\ LatestRetained(k)'
    <3>1. CASE k \in KeysOfMessage(m)
      <4>1. latest'[k] = sent + 1
        BY <2>1, <3>1, <1>2
      <4>2. ASSUME NEW n \in DOMAIN chan' PROVE chan'[n].seq <= sent + 1
        <5>1. ChannelInv'
          BY PublishChannel
        <5>2. chan'[n].seq = Gone' + n /\ Gone' + n <= sent'
          BY <1>1, <2>2, <5>1 DEF ChannelInv, Gone
        <5> QED BY <1>1, <5>2
      <4>3. LatestRetained(k)'
        BY <4>1, <2>2, <2>4, <1>2, <3>1 DEF LatestRetained, KeysOfMessage
      <4> QED BY <4>1, <4>2, <4>3 DEF NoneAfterLatest
    <3>2. CASE k \notin KeysOfMessage(m)
      <4>1. latest'[k] = latest[k] /\ latest[k] \in Nat
        BY <1>1, <2>1, <3>2
      <4>2. ASSUME NEW n \in DOMAIN chan', k \in KeysOfMessage(chan'[n])
            PROVE  chan'[n].seq <= latest'[k]
        <5>1. n \in 1..(Len(chan) - dropped) /\ n + dropped \in DOMAIN chan
          BY <1>1, <2>2, <3>2, <4>2
        <5>2. chan'[n] = chan[n + dropped]
          BY <2>2, <5>1
        <5> QED BY <4>1, <4>2, <5>1, <5>2 DEF HistoryInv, NoneAfterLatest
      <4>3. NoneAfterLatest(k)'
        BY <4>2 DEF NoneAfterLatest, KeysOfMessage
      <4>4. ASSUME latest'[k] > Gone'
            PROVE  \E n \in DOMAIN chan' :
                     chan'[n].seq = latest'[k] /\ k \in KeysOfMessage(chan'[n])
        <5>1. latest[k] > Gone
          BY <1>1, <2>3, <4>1, <4>4
        <5>2. PICK n \in DOMAIN chan : chan[n].seq = latest[k] /\ k \in KeysOfMessage(chan[n])
          BY <5>1 DEF HistoryInv, LatestRetained
        <5>3. n \in Int /\ Gone + n > Gone + dropped
          BY <1>1, <2>3, <4>1, <4>4, <5>2 DEF ChannelInv
        <5>4. n - dropped \in 1..(Len(chan) - dropped) /\ (n - dropped) + dropped = n
          BY <1>1, <2>2, <5>3, <5>2
        <5>5. n - dropped \in DOMAIN chan' /\ chan'[n - dropped] = chan[n]
          BY <1>1, <2>2, <5>4
        <5> QED BY <4>1, <5>2, <5>5
      <4>5. LatestRetained(k)'
        BY <4>4 DEF LatestRetained, KeysOfMessage
      <4> QED BY <4>3, <4>5
    <3> QED BY <3>1, <3>2
  <2> QED BY <2>5 DEF HistoryInv
<1> QED BY <1>1, <1>3, <1>4

LEMMA SameHistory ==
  ASSUME HistoryInv, UNCHANGED <<chan, sent, latest>>
  PROVE  HistoryInv'
<1> SUFFICES ASSUME NEW k \in SharedKeys PROVE NoneAfterLatest(k)' /\ LatestRetained(k)'
  BY DEF HistoryInv
<1>1. NoneAfterLatest(k)' <=> NoneAfterLatest(k)
  BY DEF NoneAfterLatest, KeysOfMessage
<1>2. LatestRetained(k)' <=> LatestRetained(k)
  BY DEF LatestRetained, KeysOfMessage, Gone
<1> QED BY <1>1, <1>2 DEF HistoryInv

LEMMA NextHistoryInv ==
  ASSUME TypeInv, ChannelInv, HistoryInv, [Next]_vars
  PROVE  HistoryInv'
<1>1. /\ Len(chan) \in Nat /\ DOMAIN chan = 1..Len(chan) /\ sent \in Nat /\ Gone \in Int
      /\ \A k \in SharedKeys : latest[k] \in Nat /\ latest[k] <= sent
  BY ChannelType DEF ChannelInv
<1>2. CASE StreamTask(StreamNext)
  <2>1. CASE Receive \/ ReceiveAndFail
    <3>1. chan # <<>> /\ chan' = Tail(chan) /\ UNCHANGED <<sent, latest>>
      BY <2>1 DEF Receive, ReceiveAndFail
    <3>2. /\ Gone' = Gone + 1 /\ DOMAIN chan' = 1..(Len(chan) - 1)
          /\ \A n \in 1..(Len(chan) - 1) : chan'[n] = chan[n + 1]
      BY <3>1, Received
    <3>3. ASSUME NEW k \in SharedKeys PROVE NoneAfterLatest(k)'
      <4>1. ASSUME NEW n \in DOMAIN chan', k \in KeysOfMessage(chan'[n])
            PROVE  chan'[n].seq <= latest'[k]
        <5>1. n + 1 \in DOMAIN chan /\ chan'[n] = chan[n + 1]
          BY <1>1, <3>2
        <5> QED BY <3>1, <4>1, <5>1 DEF HistoryInv, NoneAfterLatest
      <4> QED BY <4>1 DEF NoneAfterLatest, KeysOfMessage
    <3>4. ASSUME NEW k \in SharedKeys PROVE LatestRetained(k)'
      <4>1. ASSUME latest'[k] > Gone'
            PROVE  \E n \in DOMAIN chan' :
                     chan'[n].seq = latest'[k] /\ k \in KeysOfMessage(chan'[n])
        <5>1. latest[k] > Gone
          BY <1>1, <3>1, <3>2, <4>1
        <5>2. PICK n \in DOMAIN chan : chan[n].seq = latest[k] /\ k \in KeysOfMessage(chan[n])
          BY <5>1 DEF HistoryInv, LatestRetained
        <5>3. n \in Int /\ Gone + n > Gone + 1
          BY <1>1, <3>1, <3>2, <4>1, <5>2 DEF ChannelInv
        <5>4. n - 1 \in 1..(Len(chan) - 1) /\ (n - 1) + 1 = n
          BY <1>1, <5>2, <5>3
        <5>5. n - 1 \in DOMAIN chan' /\ chan'[n - 1] = chan[n]
          BY <3>2, <5>4
        <5> QED BY <3>1, <5>2, <5>5
      <4> QED BY <4>1 DEF LatestRetained, KeysOfMessage
    <3> QED BY <3>3, <3>4 DEF HistoryInv
  <2>2. CASE \E kind \in Kinds \cup EconSeries, tickers \in SUBSET Tickers : Publish(kind, tickers)
    BY <2>2, PublishHistory
  <2>3. CASE Shutdown
    <3>1. chan' = <<>> /\ UNCHANGED <<sent, latest>>
      BY <2>3 DEF Shutdown
    <3>2. DOMAIN chan' = {} /\ Gone' = sent
      BY <1>1, <3>1 DEF Gone
    <3> QED BY <1>1, <3>1, <3>2 DEF HistoryInv, NoneAfterLatest, LatestRetained
  <2>4. CASE StartSources \/ StartFails \/ Subscribe \/ ReceiveLagged \/ StreamStops
    <3>1. UNCHANGED <<chan, sent, latest>>
      BY <2>4 DEF StartSources, StartFails, Subscribe, ReceiveLagged, StreamStops
    <3> QED BY <3>1, SameHistory
  <2> QED BY <1>2, <2>1, <2>2, <2>3, <2>4 DEF StreamTask, StreamNext, StreamStep
<1>3. CASE CrashAndRestart
  <2>1. chan' = <<>> /\ sent' = sent /\ \A k \in SharedKeys : latest'[k] = 0
    BY <1>3 DEF CrashAndRestart
  <2>2. DOMAIN chan' = {} /\ Gone' = sent
    BY <1>1, <2>1 DEF Gone
  <2> QED BY <1>1, <2>1, <2>2 DEF HistoryInv, NoneAfterLatest, LatestRetained
<1>4. CASE ~StreamTask(StreamNext) /\ ~CrashAndRestart
  <2>1. UNCHANGED <<chan, sent, latest>>
    BY <1>4, OtherStepsOfStream DEF streamVars
  <2> QED BY <2>1, SameHistory
<1> QED BY <1>2, <1>3, <1>4

(* A step of another task, or one that leaves the channel and the rows of  *)
(* k alone, leaves what k shows.                                           *)
LEMMA StillShows ==
  ASSUME CycleInv, ChannelInv, [Next]_vars, ~WritesMessage, NEW k \in SharedKeys, ShowsLatest(k),
         latest'[k] = latest[k]
  PROVE  ShowsLatest(k)'
<1>1. k \in StreamKeys
  BY DEF StreamKeys
<1>2. now \in Nat /\ now' \in Nat /\ now' >= now
  BY RefreshType, StreamType, CleanupType
  DEF CycleInv, TypeInv, TypeOK, Next, RefreshTask, StreamTask, CleanupTask, CrashAndRestart, CtrlC,
      Return, Tick, vars, baseVars
<1>3. \A r \in table' : r.key = k => r.gen = latest'[k]
  BY <1>1, StreamRowSteps DEF ShowsLatest
<1>4. ASSUME now' < StreamTTL
      PROVE  \E r \in table' : r.key = k /\ r.expires >= StreamTTL
  <2>1. PICK r \in table : r.key = k /\ r.expires >= StreamTTL
    BY <1>2, <1>4, StreamAssumption DEF ShowsLatest
  <2>2. ~(r.expires < now)
    <3>1. r.expires \in Nat
      BY TableRowType DEF CycleInv
    <3> QED BY <1>2, <1>4, <2>1, <3>1, StreamAssumption
  <2>3. CASE table' = UpsertBatch(table, batch)
    <3>1. r.key \notin KeysOf(batch)
      BY <1>1, <2>1, BatchIsNotOfStream DEF KeysOf, CycleInv
    <3> QED BY <2>1, <2>3, <3>1 DEF UpsertBatch
  <2>4. CASE table' = table \/ table' = ExpireStale(table, now)
    BY <2>1, <2>2, <2>4 DEF ExpireStale
  <2> QED BY <2>3, <2>4, TableSteps DEF WritesBatch
<1> QED BY <1>3, <1>4 DEF ShowsLatest

(* The message at the head of the channel: the last for k, or one that     *)
(* does not name k when the last has arrived.                              *)
LEMMA HeadForKey ==
  ASSUME TypeInv, ChannelInv, HistoryInv, NEW k \in SharedKeys,
         chan # <<>>, chan' = Tail(chan), UNCHANGED <<sent, latest>>, Arrived(k)'
  PROVE  \/ latest[k] = Gone + 1 /\ k \in KeysOfMessage(NextMessage)
         \/ Arrived(k) /\ k \notin KeysOfMessage(NextMessage)
<1>1. /\ Len(chan) \in Nat /\ DOMAIN chan = 1..Len(chan) /\ sent \in Nat /\ Gone \in Int
      /\ latest[k] \in Nat
  BY ChannelType
<1>2. Gone' = Gone + 1 /\ NextMessage = chan[1] /\ NextMessage.seq = Gone + 1
  BY Received
<1>3. /\ 0 < latest[k] /\ latest[k] <= Gone + 1 /\ latest[k] + Capacity > sent
  BY <1>2 DEF Arrived
<1>4. CASE latest[k] = Gone + 1
  <2>1. PICK n \in DOMAIN chan : chan[n].seq = latest[k] /\ k \in KeysOfMessage(chan[n])
    BY <1>1, <1>4 DEF HistoryInv, LatestRetained
  <2>2. n = 1
    BY <1>1, <1>4, <2>1 DEF ChannelInv
  <2> QED BY <1>2, <1>4, <2>1, <2>2
<1>5. CASE latest[k] <= Gone
  <2>1. 1 \in DOMAIN chan
    <3>1. chan \in Seq(Message)
      BY ChannelType
    <3> QED BY <3>1
  <2>2. k \notin KeysOfMessage(NextMessage)
    <3>1. k \in KeysOfMessage(chan[1]) => chan[1].seq <= latest[k]
      BY <2>1 DEF HistoryInv, NoneAfterLatest
    <3> QED BY <1>1, <1>2, <1>5, <3>1
  <2> QED BY <1>3, <1>5, <2>2 DEF Arrived
<1> QED BY <1>1, <1>3, <1>4, <1>5

LEMMA NextShownInv ==
  ASSUME StreamInv, HistoryInv, ShownInv, [Next]_vars
  PROVE  ShownInv'
<1> SUFFICES ASSUME spc' = "running", NEW k \in SharedKeys, k \notin unwritten', Arrived(k)'
             PROVE  ShowsLatest(k)'
  BY DEF ShownInv
<1> USE DEF StreamInv
<1>1. /\ Len(chan) \in Nat /\ sent \in Nat /\ Gone \in Int /\ latest[k] \in Nat
      /\ Capacity \in Nat
  BY ChannelType DEF CycleInv
<1>2. CASE StreamTask(Receive)
  <2>1. /\ spc = "running" /\ chan # <<>> /\ chan' = Tail(chan) /\ UNCHANGED <<sent, latest, now>>
        /\ table' = UpsertBatch(table, RowsOfMessage(NextMessage))
        /\ unwritten' = unwritten \ KeysOfMessage(NextMessage)
    BY <1>2 DEF StreamTask, Receive
  <2>2. NextMessage \in Message /\ NextMessage.seq = Gone + 1
    BY <2>1, Received DEF CycleInv
  <2>3. CASE latest[k] = Gone + 1 /\ k \in KeysOfMessage(NextMessage)
    <3> DEFINE row == [key |-> k, symbol |-> IF k[2] \in Tickers THEN k[2] ELSE "NULL",
                       gen |-> NextMessage.seq, expires |-> now + StreamTTL]
    <3>1. PICK q \in RowsOfMessage(NextMessage) : q.key = k
      <4>1. row \in RowsOfMessage(NextMessage) /\ row.key = k
        BY <2>3 DEF RowsOfMessage
      <4> QED BY <4>1
    <3>2. q.gen = latest[k] /\ q.expires = now + StreamTTL
      BY <2>2, <2>3, MessageRows
    <3>3. \A r \in table' : r.key = k => r = q
      BY <2>1, <2>2, <3>1, MessageRows DEF UpsertBatch, KeysOf
    <3>4. q \in table' /\ q.expires >= StreamTTL
      BY <2>1, <3>1, <3>2, StreamAssumption DEF UpsertBatch, CycleInv, TypeInv, TypeOK
    <3> QED BY <2>1, <3>1, <3>2, <3>3, <3>4 DEF ShowsLatest
  <2>4. CASE Arrived(k) /\ k \notin KeysOfMessage(NextMessage)
    <3>1. ShowsLatest(k)
      BY <2>1, <2>4 DEF ShownInv
    <3>2. k \notin KeysOf(RowsOfMessage(NextMessage))
      BY <2>4 DEF KeysOf, RowsOfMessage
    <3>3. \A r : r.key = k => (r \in table' <=> r \in table)
      BY <2>1, <3>2 DEF UpsertBatch, KeysOf
    <3> QED BY <2>1, <3>1, <3>3 DEF ShowsLatest
  <2> QED BY <2>1, <2>3, <2>4, HeadForKey DEF CycleInv
<1>3. CASE StreamTask(ReceiveAndFail)
  <2>1. /\ spc = "running" /\ chan # <<>> /\ chan' = Tail(chan)
        /\ UNCHANGED <<sent, latest, now, table>>
        /\ unwritten' = unwritten \cup KeysOfMessage(NextMessage)
    BY <1>3 DEF StreamTask, ReceiveAndFail, baseVars
  <2>2. Arrived(k) /\ k \notin unwritten
    BY <2>1, HeadForKey DEF CycleInv
  <2>3. ShowsLatest(k)
    BY <2>1, <2>2 DEF ShownInv
  <2> QED BY <2>1, <2>3 DEF ShowsLatest
<1>4. CASE \E kind \in Kinds \cup EconSeries, tickers \in SUBSET Tickers :
             StreamTask(Publish(kind, tickers))
  <2>1. PICK kind \in Kinds \cup EconSeries, tickers \in SUBSET Tickers :
               StreamTask(Publish(kind, tickers))
    BY <1>4
  <2> DEFINE m == [seq |-> sent + 1, kind |-> kind, tickers |-> tickers]
  <2>2. /\ spc = "running" /\ sent' = sent + 1 /\ chan' = Retain(m)
        /\ latest'[k] = IF k \in KeysOfMessage(m) THEN sent + 1 ELSE latest[k]
        /\ UNCHANGED <<now, table, unwritten>>
    BY <2>1 DEF StreamTask, Publish, baseVars
  <2> HIDE DEF m
  <2>3. PICK dropped \in {0, 1} :
          /\ Len(chan') = Len(chan) + 1 - dropped
          /\ dropped = 1 => Len(chan) = Capacity
    BY <2>2, Retained DEF CycleInv
  <2>4. Gone' = Gone + dropped /\ sent' - Gone' = Len(chan) + 1 - dropped
    BY <1>1, <2>2, <2>3 DEF Gone
  <2>5. Len(chan) + 1 - dropped > 0
    BY <1>1, <2>3, StreamAssumption
  <2>6. latest'[k] = latest[k]
    BY <1>1, <2>2, <2>4, <2>5 DEF Arrived
  <2>7. latest[k] > 0 /\ latest[k] <= Gone + dropped /\ latest[k] + Capacity > sent + 1
    BY <2>2, <2>4, <2>6 DEF Arrived
  <2>8. dropped = 0
    BY <1>1, <2>3, <2>7 DEF Gone
  <2>9. ShowsLatest(k)
    BY <1>1, <2>2, <2>7, <2>8 DEF ShownInv, Arrived
  <2> QED BY <2>2, <2>6, <2>9 DEF ShowsLatest
<1>5. CASE StreamTask(Subscribe)
  <2>1. latest[k] = 0 /\ latest' = latest
    BY <1>5 DEF StreamTask, Subscribe, ChannelInv
  <2> QED BY <2>1 DEF Arrived
<1>6. CASE StreamTask(ReceiveLagged) \/ (~StreamTask(StreamNext) /\ ~CrashAndRestart)
  <2>1. UNCHANGED <<spc, chan, sent, latest, unwritten>> /\ ~WritesMessage
    BY <1>6, OtherStepsOfStream
    DEF StreamTask, ReceiveLagged, streamVars, WritesMessage, StreamNext, StreamStep, Receive
  <2>2. ShowsLatest(k)
    BY <2>1 DEF ShownInv, Arrived, Gone
  <2> QED BY <2>1, <2>2, StillShows
<1>7. CASE StreamTask(StartSources \/ StartFails \/ StreamStops \/ Shutdown) \/ CrashAndRestart
  BY <1>7 DEF StreamTask, StartSources, StartFails, StreamStops, Shutdown, CrashAndRestart
<1> QED
  BY <1>2, <1>3, <1>4, <1>5, <1>6, <1>7 DEF StreamTask, StreamNext, StreamStep

(* Once the channel is drained, every key shows the last message published *)
(* for it, unless Capacity messages followed or its write failed.          *)
THEOREM TheLatestMessageWins == Spec => []LatestMessageWins
<1>1. Init => HistoryInv /\ ShownInv
  BY DEF Init, StreamInit, HistoryInv, NoneAfterLatest, LatestRetained, ShownInv, Gone
<1>2. ASSUME StreamInv, ShownInv
      PROVE  LatestMessageWins
  <2> SUFFICES ASSUME spc = "running", chan = <<>>, NEW k \in SharedKeys \ unwritten,
                      latest[k] > 0, latest[k] + Capacity > sent
               PROVE  /\ \A r \in {r \in table : r.key = k} : r.gen = latest[k]
                      /\ now < StreamTTL => {r \in table : r.key = k} # {}
    BY DEF LatestMessageWins
  <2>1. latest[k] \in Nat /\ latest[k] <= sent /\ Gone = sent
    BY <1>2, ChannelType DEF StreamInv, CycleInv, ChannelInv, Gone
  <2>2. ShowsLatest(k)
    BY <1>2, <2>1 DEF ShownInv, Arrived
  <2> QED BY <2>2 DEF ShowsLatest
<1>3. StreamInv /\ HistoryInv /\ [Next]_vars => HistoryInv'
  BY NextHistoryInv DEF StreamInv, CycleInv
<1>4. StreamInv /\ HistoryInv /\ ShownInv /\ [Next]_vars => ShownInv'
  BY NextShownInv
<1> QED BY <1>1, <1>2, <1>3, <1>4, StreamInvHolds, PTL DEF Spec
===============================================================================
