------------------------------ MODULE StreamLoop ------------------------------
(***************************************************************************)
(* The stream task of the loader: start the sources, subscribe to their    *)
(* broadcast channel, and upsert the rows of every message received, until *)
(* the token or the end of the channel.                                    *)
(*                                                                         *)
(* The channel is tokio's broadcast channel as a single receiver sees it:  *)
(* a full channel drops its oldest message, and the receiver is told so    *)
(* before it gets the next one.  A message is its kind, the tickers it     *)
(* names and its place in the order of publication.  It becomes one row    *)
(* per ticker; one that names no ticker gets a row of its own, and         *)
(* economic data one row per series, whatever tickers it names.            *)
(***************************************************************************)
EXTENDS LoaderBase

CONSTANTS
  StreamEnabled,  \* stream.enabled
  Kinds,          \* the kinds of message about tickers: news, social, ...
  EconSeries,     \* the kinds of message that are an economic data series
  Tickers,        \* the tickers messages name
  Capacity,       \* capacity of the broadcast channel
  StreamTTL,      \* stream.ttl_seconds
  MaxMessages     \* bound on the number of messages published

ASSUME StreamAssumption ==
  /\ StreamEnabled \in BOOLEAN
  /\ Capacity \in Nat \ {0}
  /\ StreamTTL \in Nat
  /\ MaxMessages \in Nat

VARIABLES
  spc,      \* where the task is
  chan,     \* the messages retained for the receiver
  lagged,   \* messages have been dropped and the receiver not told yet
  sent,     \* number of messages published (history)
  latest,   \* per key the last message published to it (history)
  unwritten \* keys whose last received message could not be written (history)

streamVars == <<spc, chan, lagged, sent, latest, unwritten>>

Message == [seq : 1..MaxMessages, kind : Kinds \cup EconSeries, tickers : SUBSET Tickers]
SharedKeys == (Kinds \X Tickers) \cup ({"ref:econ"} \X EconSeries)
StreamKeys == SharedKeys \cup (Kinds \X {"_general"} \X (1..MaxMessages))
StreamRow == [key : StreamKeys, symbol : Tickers \cup {"NULL"},
              gen : 1..MaxMessages, expires : Nat]

StreamTypeOK ==
  /\ spc \in {"starting", "started", "running", "closing", "stopped"}
  /\ chan \in Seq(Message)
  /\ Len(chan) <= Capacity
  /\ lagged \in BOOLEAN
  /\ sent \in 0..MaxMessages
  /\ latest \in [SharedKeys -> 0..MaxMessages]
  /\ unwritten \subseteq StreamKeys

StreamInit ==
  /\ spc = IF StreamEnabled THEN "starting" ELSE "stopped"
  /\ chan = <<>>
  /\ lagged = FALSE
  /\ sent = 0
  /\ latest = [k \in SharedKeys |-> 0]
  /\ unwritten = {}

-------------------------------------------------------------------------------
(* manager.start_all, then manager.subscribe.  A source that cannot start  *)
(* ends the task.                                                          *)
StartSources ==
  /\ spc = "starting"
  /\ spc' = "started"
  /\ UNCHANGED <<baseVars, chan, lagged, sent, latest, unwritten>>

StartFails ==
  /\ spc = "starting"
  /\ spc' = "stopped"
  /\ UNCHANGED <<baseVars, chan, lagged, sent, latest, unwritten>>

Subscribe ==
  /\ spc = "started"
  /\ spc' = "running"
  /\ UNCHANGED <<baseVars, chan, lagged, sent, latest, unwritten>>

Retain(m) == IF Len(chan) < Capacity THEN Append(chan, m) ELSE Append(Tail(chan), m)

(* The keys of stream_message_to_cache_rows. *)
KeysOfMessage(m) ==
  CASE m.kind \in EconSeries -> {<<"ref:econ", m.kind>>}
    [] m.kind \in Kinds /\ m.tickers = {} -> {<<m.kind, "_general", m.seq>>}
    [] OTHER -> {<<m.kind, t>> : t \in m.tickers}

(* Variant of RowsOfMessage: the symbol is what follows the kind in the key. *)
SymbolFromKey(m) ==
  {[key |-> k, symbol |-> k[2], gen |-> m.seq, expires |-> now + StreamTTL] : k \in KeysOfMessage(m)}

RowsOfMessage(m) ==
  {[key |-> k, symbol |-> IF k[2] \in Tickers THEN k[2] ELSE "NULL",
    gen |-> m.seq, expires |-> now + StreamTTL] : k \in KeysOfMessage(m)}

(* A source publishes a message.  Before the subscription nobody gets it. *)
Publish(kind, tickers) ==
  LET m == [seq |-> sent + 1, kind |-> kind, tickers |-> tickers]
  IN  /\ spc \in {"started", "running"}
      /\ sent < MaxMessages
      /\ sent' = sent + 1
      /\ IF spc = "started"
         THEN UNCHANGED <<chan, lagged, latest>>
         ELSE /\ chan' = Retain(m)
              /\ lagged' = (lagged \/ Len(chan) = Capacity)
              /\ latest' = [k \in SharedKeys |->
                             IF k \in KeysOfMessage(m) THEN m.seq ELSE latest[k]]
      /\ UNCHANGED <<baseVars, spc, unwritten>>

NextMessage == Head(chan)

(* recv returned a message: write its rows; the error of the write is logged. *)
Receive ==
  /\ spc = "running"
  /\ ~lagged
  /\ chan # <<>>
  /\ table' = UpsertBatch(table, RowsOfMessage(NextMessage))
  /\ chan' = Tail(chan)
  /\ unwritten' = unwritten \ KeysOfMessage(NextMessage)
  /\ UNCHANGED <<now, cancelled, spc, lagged, sent, latest>>

(* Variant of ReceiveAndFail: the message is queued again for another try. *)
RequeueAndFail ==
  /\ spc = "running"
  /\ ~lagged
  /\ chan # <<>>
  /\ chan' = Append(Tail(chan), NextMessage)
  /\ UNCHANGED <<baseVars, spc, lagged, sent, latest, unwritten>>

ReceiveAndFail ==
  /\ spc = "running"
  /\ ~lagged
  /\ chan # <<>>
  /\ chan' = Tail(chan)
  /\ unwritten' = unwritten \cup KeysOfMessage(NextMessage)
  /\ UNCHANGED <<baseVars, spc, lagged, sent, latest>>

(* Variant of ReceiveLagged: subscribe again, past what is retained. *)
SubscribeAgain ==
  /\ spc = "running"
  /\ lagged
  /\ lagged' = FALSE
  /\ chan' = <<>>
  /\ UNCHANGED <<baseVars, spc, sent, latest, unwritten>>

(* recv returned Lagged: logged, and the loop goes on with what is retained. *)
ReceiveLagged ==
  /\ spc = "running"
  /\ lagged
  /\ lagged' = FALSE
  /\ UNCHANGED <<baseVars, spc, chan, sent, latest, unwritten>>

StreamStops ==
  /\ spc = "running"
  /\ cancelled
  /\ spc' = "closing"
  /\ UNCHANGED <<baseVars, chan, lagged, sent, latest, unwritten>>

(* manager.shutdown, and the end of the task; nothing is received any more. *)
Shutdown ==
  /\ spc = "closing"
  /\ spc' = "stopped"
  /\ chan' = <<>>
  /\ lagged' = FALSE
  /\ UNCHANGED <<baseVars, sent, latest, unwritten>>

StreamStep ==
  \/ StartSources \/ StartFails \/ Subscribe
  \/ Receive \/ ReceiveAndFail \/ ReceiveLagged
  \/ Shutdown

StreamNext ==
  \/ StreamStep
  \/ StreamStops
  \/ \E kind \in Kinds \cup EconSeries, tickers \in SUBSET Tickers : Publish(kind, tickers)

(* A triggered token is served before time passes. *)
StreamCanWait == ~(spc = "running" /\ cancelled)

-------------------------------------------------------------------------------
(* Once the channel is drained, every key shows the last message that was  *)
(* published for it, unless Capacity messages have been published since or *)
(* the write of it failed: what lag drops is only ever older than what is  *)
(* kept, and receiving goes on after it.                                   *)
LatestMessageWins ==
  (spc = "running" /\ chan = <<>>) =>
    \A k \in SharedKeys \ unwritten :
      (latest[k] > 0 /\ latest[k] + Capacity > sent) =>
        LET rows == {r \in table : r.key = k}
        IN  /\ \A r \in rows : r.gen = latest[k]
            /\ now < StreamTTL => rows # {}

(* A key's row never goes back to an earlier message. *)
StreamGoesForward ==
  [][\A r \in table, q \in table' :
       (r.key = q.key /\ r.key \in StreamKeys) => q.gen >= r.gen]_<<baseVars, streamVars>>
===============================================================================
