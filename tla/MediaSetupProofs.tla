--------------------------- MODULE MediaSetupProofs ---------------------------
(***************************************************************************)
(* The client's coordinator, for any number of joins and any length of the *)
(* event queue: nothing of a stream outlives stop(), and the keys are      *)
(* confirmed once, in order, before a stream.  Then the two coordinators   *)
(* together: what the client has heard is a beginning of what the host     *)
(* said, and the host has heard a beginning of what the client said.       *)
(***************************************************************************)
EXTENDS MediaSetup, SequenceTheorems, TLAPS

BothKeys == <<"KeyExchange", "SessionKeyReady">>
Queued(q, m) == \E i \in DOMAIN q : q[i] = m
QueuedOnce(q, m) == \A i, j \in DOMAIN q : q[i] = m /\ q[j] = m => i = j
OnlyWorkers(q) == \A i \in DOMAIN q : q[i] \in {"Failed", "Streaming"}
Live == client \in {"dialling", "connected"}

\* A stop on the way to a join.
Rejoins == qt \in {"stop", "join"} /\ then # "leave"

\* A message the host sends: each at most once, and the stream after the
\* client has confirmed the keys.
InTurn(m) == ~Queued(arrived, m) /\ (m = "StreamStart" => sent = BothKeys)

ClientTypes ==
  /\ qt \in Stopping \cup {"idle"} /\ then \in {"leave", "lan", "internet"}
  /\ events \in Seq(Events) /\ arrived \in Seq(Messages)
  /\ client \in {"none", "undialled", "dialling", "connected", "ended"}
  /\ streamingUi \in BOOLEAN /\ ecdh \in BOOLEAN /\ channel \in BOOLEAN
  /\ streamer \in BOOLEAN /\ crypto \in BOOLEAN /\ running \in BOOLEAN /\ transport \in BOOLEAN
  /\ worker \in {"none", "spawned", "starting", "started", "exited"}
  /\ sent \in {<<>>, <<"KeyExchange">>, BothKeys}

\* A session under way is one the window shows and whose end is not queued; a
\* stop on the way to a join finds none, and only a worker's last words.
SessionShown ==
  /\ Live => streamingUi /\ ~Queued(events, "Closed") /\ ~Queued(events, "Disconnected")
  /\ Rejoins => ~Live /\ OnlyWorkers(events)

\* A session that is dialled has said nothing; one that is connected begins
\* its key exchange once and hears the host's key once.
KeysInTurn ==
  /\ ecdh => client \in {"connected", "ended"}
  /\ client = "dialling" =>
       sent = <<>> /\ arrived = <<>> /\ ~ecdh /\ ~channel /\ ~streamer /\ OnlyWorkers(events)
  /\ client = "connected" =>
       /\ QueuedOnce(events, "Connected") /\ (Queued(events, "Connected") => ~ecdh)
       /\ QueuedOnce(events, "KeyExchange")
       /\ Queued(events, "KeyExchange") => Queued(arrived, "KeyExchange") /\ sent # BothKeys
       /\ ~Queued(arrived, "KeyExchange") => sent # BothKeys
       /\ ~ecdh <=> sent = <<>>
       /\ sent = BothKeys => channel

\* What a stream is made of: the keys of the session it belongs to.
StreamKeyed ==
  client # "none" => /\ Queued(events, "StreamStart") => channel
                     /\ streamer => crypto

ClientInv == ClientTypes /\ NothingOutlivesStop /\ SessionShown /\ KeysInTurn /\ StreamKeyed

\* The queue without its head.
LEMMA HeadGoes ==
  ASSUME NEW S, NEW q \in Seq(S), q # <<>>
  PROVE  /\ Tail(q) \in Seq(S) /\ Head(q) \in S /\ Queued(q, Head(q))
         /\ \A m : Queued(Tail(q), m) => Queued(q, m)
         /\ \A m : QueuedOnce(q, m) => QueuedOnce(Tail(q), m)
         /\ QueuedOnce(q, Head(q)) => ~Queued(Tail(q), Head(q))
         /\ OnlyWorkers(q) => OnlyWorkers(Tail(q))
<1>1. /\ Tail(q) \in Seq(S) /\ Head(q) \in S /\ Len(q) \in Nat /\ Len(q) > 0
      /\ DOMAIN q = 1 .. Len(q) /\ DOMAIN Tail(q) = 1 .. (Len(q) - 1) /\ Head(q) = q[1]
      /\ \A i \in 1 .. (Len(q) - 1) : Tail(q)[i] = q[i + 1]
  BY HeadTailProperties, LenProperties, EmptySeq
<1>2. \A i \in DOMAIN Tail(q) : i \in Nat /\ i + 1 \in DOMAIN q /\ i + 1 # 1 /\ Tail(q)[i] = q[i + 1]
  BY <1>1
<1>3. 1 \in DOMAIN q
  BY <1>1
<1>4. Queued(q, Head(q))
  BY Zenon, <1>1, <1>3 DEF Queued
<1>5. \A m : Queued(Tail(q), m) => Queued(q, m)
  BY Zenon, <1>2 DEF Queued
<1>6. \A m : QueuedOnce(q, m) => QueuedOnce(Tail(q), m)
  <2> SUFFICES ASSUME NEW m, QueuedOnce(q, m), NEW i \in DOMAIN Tail(q), NEW j \in DOMAIN Tail(q),
                      Tail(q)[i] = m, Tail(q)[j] = m
               PROVE  i = j
    BY Zenon DEF QueuedOnce
  <2>1. i + 1 = j + 1
    BY Zenon, <1>2 DEF QueuedOnce
  <2> QED BY <1>2, <2>1
<1>7. QueuedOnce(q, Head(q)) => ~Queued(Tail(q), Head(q))
  BY Zenon, <1>1, <1>2, <1>3 DEF QueuedOnce, Queued
<1>8. OnlyWorkers(q) => OnlyWorkers(Tail(q))
  BY Zenon, <1>2 DEF OnlyWorkers
<1> QED BY Zenon, <1>1, <1>4, <1>5, <1>6, <1>7, <1>8

\* The queue with one more event.
LEMMA EventComes ==
  ASSUME NEW S, NEW q \in Seq(S), NEW e \in S
  PROVE  /\ Append(q, e) \in Seq(S)
         /\ \A m : Queued(Append(q, e), m) <=> Queued(q, m) \/ m = e
         /\ \A m : QueuedOnce(q, m) /\ (m # e \/ ~Queued(q, m)) => QueuedOnce(Append(q, e), m)
         /\ OnlyWorkers(q) /\ e \in {"Failed", "Streaming"} => OnlyWorkers(Append(q, e))
<1> DEFINE n == Len(q)
<1>1. /\ Append(q, e) \in Seq(S) /\ n \in Nat /\ DOMAIN q = 1 .. n /\ DOMAIN Append(q, e) = 1 .. n + 1
      /\ \A i \in 1 .. n : Append(q, e)[i] = q[i]
      /\ Append(q, e)[n + 1] = e
  BY AppendProperties, LenProperties
<1> HIDE DEF n
<1>2. \A i \in DOMAIN Append(q, e) : (i \in DOMAIN q /\ Append(q, e)[i] = q[i]) \/ (i = n + 1 /\ Append(q, e)[i] = e)
  BY <1>1
<1>3. (n + 1) \in DOMAIN Append(q, e) /\ DOMAIN q \subseteq DOMAIN Append(q, e)
  BY <1>1
<1>4. \A m : Queued(Append(q, e), m) <=> Queued(q, m) \/ m = e
  BY Zenon, <1>1, <1>2, <1>3 DEF Queued
<1>5. \A m : QueuedOnce(q, m) /\ (m # e \/ ~Queued(q, m)) => QueuedOnce(Append(q, e), m)
  BY Zenon, <1>2 DEF Queued, QueuedOnce
<1>6. OnlyWorkers(q) /\ e \in {"Failed", "Streaming"} => OnlyWorkers(Append(q, e))
  BY Zenon, <1>2 DEF OnlyWorkers
<1> QED BY Zenon, <1>1, <1>4, <1>5, <1>6

\* An empty queue.
LEMMA NothingQueued ==
  <<>> \in Seq(Events) /\ <<>> \in Seq(Messages) /\ OnlyWorkers(<<>>) /\ \A m : ~Queued(<<>>, m) /\ QueuedOnce(<<>>, m)
BY EmptySeq DEF OnlyWorkers, Queued, QueuedOnce

\* What the worker says last, and the end of a session, are no keys.
LEMMA WorkersSayNoKeys ==
  ASSUME NEW q, OnlyWorkers(q)
  PROVE  \A m \in Events \ {"Failed", "Streaming"} : ~Queued(q, m) /\ QueuedOnce(q, m)
BY Zenon DEF OnlyWorkers, Queued, QueuedOnce

\* Closing a live session queues Closed, and closing another queues nothing.
LEMMA ClosingQueued ==
  ASSUME NEW q \in Seq(Events)
  PROVE  q \o Closing = (IF Live THEN Append(q, "Closed") ELSE q)
<1>1. CASE Live
  BY <1>1, AppendIsConcat DEF Live, Closing
<1>2. CASE ~Live
  BY Zenon, <1>2, ConcatEmptySeq DEF Live, Closing
<1> QED BY Zenon, <1>1, <1>2

\* A step that leaves the session and its keys alone: it takes an event from
\* the queue, adds a worker's last words, or neither.
LEMMA SessionRests ==
  ASSUME ClientInv, UNCHANGED <<client, sent, arrived, ecdh, channel, streamer, crypto>>,
         \/ UNCHANGED events
         \/ events # <<>> /\ events' = Tail(events)
         \/ \E e \in {"Failed", "Streaming"} : events' = Append(events, e),
         UNCHANGED streamingUi \/ ~Live,
         Rejoins' => Rejoins \/ (~streamingUi /\ events = <<>> /\ UNCHANGED events)
  PROVE  events' \in Seq(Events) /\ SessionShown' /\ KeysInTurn' /\ StreamKeyed'
<1>0. ClientTypes /\ SessionShown /\ KeysInTurn /\ StreamKeyed /\ events \in Seq(Events)
  BY Zenon DEF ClientInv, ClientTypes
<1>1. /\ events' \in Seq(Events)
      /\ \A m \in Events \ {"Failed", "Streaming"} :
           /\ Queued(events', m) => Queued(events, m)
           /\ QueuedOnce(events, m) => QueuedOnce(events', m)
      /\ OnlyWorkers(events) => OnlyWorkers(events')
  <2>1. CASE UNCHANGED events
    BY Zenon, <1>0, <2>1
  <2>2. CASE events # <<>> /\ events' = Tail(events)
    BY Zenon, <1>0, <2>2, HeadGoes
  <2>3. ASSUME NEW e \in {"Failed", "Streaming"}, events' = Append(events, e)
        PROVE  /\ events' \in Seq(Events)
               /\ \A m \in Events \ {"Failed", "Streaming"} :
                    /\ Queued(events', m) => Queued(events, m)
                    /\ QueuedOnce(events, m) => QueuedOnce(events', m)
               /\ OnlyWorkers(events) => OnlyWorkers(events')
    <3>1. e \in Events
      BY Zenon DEF Events
    <3> QED BY Zenon, <1>0, <2>3, <3>1, EventComes
  <2> QED BY Zenon, <2>1, <2>2, <2>3
<1>2. {"Connected", "KeyExchange", "StreamStart", "Closed", "Disconnected"} \subseteq Events \ {"Failed", "Streaming"}
  BY Zenon DEF Events, Messages
<1>3. Live' <=> Live
  BY Zenon DEF Live
<1>4. SessionShown'
  <2>1. Live' => streamingUi' /\ ~Queued(events', "Closed") /\ ~Queued(events', "Disconnected")
    BY Zenon, <1>0, <1>1, <1>2, <1>3 DEF SessionShown
  <2>2. ASSUME Rejoins' PROVE ~Live' /\ OnlyWorkers(events')
    <3>1. CASE Rejoins
      BY Zenon, <1>0, <1>1, <1>3, <3>1 DEF SessionShown
    <3>2. CASE ~streamingUi /\ events = <<>> /\ UNCHANGED events
      BY Zenon, <1>0, <1>3, <3>2, NothingQueued DEF SessionShown
    <3> QED BY Zenon, <2>2, <3>1, <3>2
  <2> QED BY Zenon, <2>1, <2>2 DEF SessionShown
<1>5. KeysInTurn'
  BY Zenon, <1>0, <1>1, <1>2 DEF KeysInTurn
<1>6. StreamKeyed'
  BY Zenon, <1>0, <1>1, <1>2 DEF StreamKeyed
<1> QED BY Zenon, <1>1, <1>4, <1>5, <1>6

\* The types but the queue's, and what outlives a stop, for such a step.
LEMMA ClientRests ==
  ASSUME ClientInv, UNCHANGED <<client, sent, arrived, ecdh, channel, streamer, crypto>>,
         \/ UNCHANGED events
         \/ events # <<>> /\ events' = Tail(events)
         \/ \E e \in {"Failed", "Streaming"} : events' = Append(events, e),
         UNCHANGED streamingUi \/ ~Live, streamingUi' \in BOOLEAN,
         Rejoins' => Rejoins \/ (~streamingUi /\ events = <<>> /\ UNCHANGED events),
         qt' \in Stopping \cup {"idle"}, then' \in {"leave", "lan", "internet"},
         running' \in BOOLEAN, transport' \in BOOLEAN,
         worker' \in {"none", "spawned", "starting", "started", "exited"},
         streamer \/ (UNCHANGED <<transport, worker>> /\ (running' => running))
  PROVE  ClientInv'
<1>1. events' \in Seq(Events) /\ SessionShown' /\ KeysInTurn' /\ StreamKeyed'
  BY Zenon, SessionRests
<1>2. ClientTypes'
  BY Zenon, <1>1 DEF ClientInv, ClientTypes
<1>3. NothingOutlivesStop'
  BY Zenon DEF ClientInv, NothingOutlivesStop
<1> QED BY Zenon, <1>1, <1>2, <1>3 DEF ClientInv

\* The first test of ClientStreamer::stop.
LEMMA StreamerStopKeeps ==
  ASSUME ClientTypes, NEW busy, NEW quiet, StreamerStop(busy, quiet)
  PROVE  qt' \in {busy, quiet} /\ running' \in BOOLEAN /\ (running' => running)
BY Zenon DEF StreamerStop, ClientTypes

\* The steps around the session: the user, the timer, the streamer's teardown.
LEMMA ClientStops ==
  ASSUME ClientInv, StreamerTearsDown \/ (\E mode \in {"lan", "internet"} : Join(mode)) \/ Leave \/ OnStreamStartWatchdog
  PROVE  ClientInv'
<1>0. ClientTypes
  BY Zenon DEF ClientInv
<1>1. CASE StreamerTearsDown
  <2>1. /\ UNCHANGED <<client, sent, arrived, ecdh, channel, streamer, crypto, events, streamingUi, then, running, worker>>
        /\ transport' = FALSE /\ qt' \in {"join", "idle"}
    BY Zenon, <1>1 DEF StreamerTearsDown, keyVars, linkVars
  <2>2. Rejoins' => Rejoins
    BY Zenon, <1>1, <2>1 DEF StreamerTearsDown, Rejoins
  <2>3. ClientTypes'
    <3>1. transport' \in BOOLEAN
      BY Zenon, <2>1
    <3>2. qt' \in Stopping \cup {"idle"}
      BY Zenon, <2>1 DEF Stopping
    <3> QED BY <1>0, <2>1, <3>1, <3>2 DEF ClientTypes
  <2>4. NothingOutlivesStop'
    BY Zenon, <2>1 DEF ClientInv, NothingOutlivesStop
  <2> QED BY Zenon, <2>1, <2>2, <2>3, <2>4, SessionRests DEF ClientInv
<1>2. ASSUME NEW mode \in {"lan", "internet"}, Join(mode) PROVE ClientInv'
  <2>1. /\ UNCHANGED <<client, sent, arrived, ecdh, channel, streamer, crypto, events, streamingUi, transport, worker>>
        /\ ~streamingUi /\ events = <<>> /\ then' = mode /\ StreamerStop("stop", "join")
    BY Zenon, <1>2 DEF Join, BeginStop, keyVars, linkVars
  <2>2. qt' \in {"stop", "join"} /\ running' \in BOOLEAN /\ (running' => running)
    BY Zenon, <1>0, <2>1, StreamerStopKeeps
  <2> QED BY Zenon, <1>0, <2>1, <2>2, ClientRests DEF ClientTypes, Stopping
<1>3. ASSUME BeginStop("leave"),
             UNCHANGED <<events, streamingUi, ecdh, channel, streamer, crypto, transport, worker, client, sent, arrived>>
      PROVE  ClientInv'
  <2>1. then' = "leave" /\ StreamerStop("stop", "join")
    BY Zenon, <1>3 DEF BeginStop
  <2>2. qt' \in {"stop", "join"} /\ running' \in BOOLEAN /\ (running' => running)
    BY Zenon, <1>0, <2>1, StreamerStopKeeps
  <2>3. ~Rejoins'
    BY Zenon, <2>1 DEF Rejoins
  <2> QED BY Zenon, <1>0, <1>3, <2>1, <2>2, <2>3, ClientRests DEF ClientTypes, Stopping
<1>4. CASE Leave
  BY Zenon, <1>3, <1>4 DEF Leave, keyVars, linkVars
<1>5. CASE OnStreamStartWatchdog
  <2>1. UNCHANGED <<events, streamingUi, ecdh, channel, streamer, crypto, transport, worker, client, sent, arrived>>
    BY Zenon, <1>5 DEF OnStreamStartWatchdog, keyVars, linkVars
  <2>2. CASE UNCHANGED <<qt, then, running>>
    <3>1. Rejoins' => Rejoins
      BY Zenon, <2>2 DEF Rejoins
    <3> QED BY Zenon, <1>0, <2>1, <2>2, <3>1, ClientRests DEF ClientTypes
  <2> QED BY Zenon, <1>3, <1>5, <2>1, <2>2 DEF OnStreamStartWatchdog
<1> QED BY Zenon, <1>1, <1>2, <1>4, <1>5

\* An event is at the head of the queue of an idle Qt thread.
LEMMA HandlesHead ==
  ASSUME ClientInv, NEW e, Handling(e)
  PROVE  events \in Seq(Events) /\ events # <<>> /\ Head(events) = e /\ Queued(events, e) /\ qt = "idle" /\ ~Rejoins
<1>1. events \in Seq(Events) /\ events # <<>> /\ Head(events) = e /\ qt = "idle"
  BY Zenon DEF Handling, ClientInv, ClientTypes
<1> QED BY Zenon, <1>1, HeadGoes DEF Rejoins

\* Events that only move the window, the timer and the streamer.
LEMMA ClientHandles ==
  ASSUME ClientInv, OnDisconnected \/ OnClosed \/ OnSessionKeyReady \/ OnStreamStop \/ OnStreaming \/ OnFailed
  PROVE  ClientInv'
<1>0. ClientTypes
  BY Zenon DEF ClientInv
<1>1. ASSUME NEW e \in {"Closed", "Disconnected"}, Handling(e) PROVE ~Live
  BY Zenon, <1>1, HandlesHead DEF ClientInv, SessionShown
<1>2. ASSUME NEW e, Handling(e), Done, UNCHANGED streamingUi \/ ~Live, streamingUi' \in BOOLEAN,
             UNCHANGED <<client, sent, arrived, ecdh, channel, streamer, crypto, then, transport, worker>>,
             UNCHANGED <<qt, running>> \/ StreamerStop("quiet", "idle")
      PROVE  ClientInv'
  <2>1. events # <<>> /\ events' = Tail(events) /\ qt = "idle"
    BY Zenon, <1>2, HandlesHead DEF Done
  <2>2. qt' \in {"quiet", "idle"} /\ running' \in BOOLEAN /\ (running' => running)
    <3>1. CASE UNCHANGED <<qt, running>>
      BY Zenon, <1>0, <2>1, <3>1 DEF ClientTypes
    <3>2. CASE StreamerStop("quiet", "idle")
      BY Zenon, <1>0, <3>2, StreamerStopKeeps
    <3> QED BY Zenon, <1>2, <3>1, <3>2
  <2>3. ~Rejoins'
    BY Zenon, <2>2 DEF Rejoins
  <2>4. /\ qt' \in Stopping \cup {"idle"} /\ then' \in {"leave", "lan", "internet"} /\ transport' \in BOOLEAN
        /\ worker' \in {"none", "spawned", "starting", "started", "exited"}
    BY Zenon, <1>0, <1>2, <2>2 DEF ClientTypes, Stopping
  <2> QED BY Zenon, <1>2, <2>1, <2>2, <2>3, <2>4, ClientRests
<1>3. streamingUi \in BOOLEAN /\ FALSE \in BOOLEAN
  BY Zenon, <1>0 DEF ClientTypes
<1>4. CASE OnDisconnected
  <2>1. /\ Handling("Disconnected") /\ Done /\ streamingUi' = FALSE /\ StreamerStop("quiet", "idle")
        /\ UNCHANGED <<client, sent, arrived, ecdh, channel, streamer, crypto, then, transport, worker>>
    BY Zenon, <1>4 DEF OnDisconnected, keyVars, linkVars
  <2>2. ~Live
    BY Zenon, <1>1, <2>1
  <2> QED BY Zenon, <1>2, <1>3, <2>1, <2>2
<1>5. CASE OnClosed
  <2>1. /\ Handling("Closed") /\ Done /\ streamingUi' = FALSE /\ UNCHANGED <<qt, running>>
        /\ UNCHANGED <<client, sent, arrived, ecdh, channel, streamer, crypto, then, transport, worker>>
    BY Zenon, <1>5 DEF OnClosed, keyVars, mediaVars, linkVars
  <2>2. ~Live
    BY Zenon, <1>1, <2>1
  <2> QED BY Zenon, <1>2, <1>3, <2>1, <2>2
<1>6. CASE OnSessionKeyReady
  BY Zenon, <1>2, <1>3, <1>6 DEF OnSessionKeyReady, mediaVars, linkVars
<1>7. CASE OnStreamStop
  BY Zenon, <1>2, <1>3, <1>7 DEF OnStreamStop, keyVars, linkVars
<1>8. CASE OnStreaming
  BY Zenon, <1>2, <1>3, <1>8 DEF OnStreaming, keyVars, mediaVars, linkVars
<1>9. CASE OnFailed
  BY Zenon, <1>2, <1>3, <1>9 DEF OnFailed, keyVars, mediaVars, linkVars
<1> QED BY Zenon, <1>4, <1>5, <1>6, <1>7, <1>8, <1>9

\* The worker.
LEMMA ClientWorks ==
  ASSUME ClientInv, Worker
  PROVE  ClientInv'
<1>0. ClientTypes /\ NothingOutlivesStop
  BY Zenon DEF ClientInv
<1>1. streamer
  BY Zenon, <1>0 DEF Worker, WorkerStarts, WorkerSucceeds, WorkerFails, WorkerReports, NothingOutlivesStop
<1>2. UNCHANGED <<client, sent, arrived, ecdh, channel, streamer, crypto, streamingUi, qt, then>>
  BY Zenon DEF Worker, WorkerStarts, WorkerSucceeds, WorkerFails, WorkerReports, WorkerRest, keyVars, linkVars
<1>3. \/ UNCHANGED events
      \/ \E e \in {"Failed", "Streaming"} : events' = Append(events, e)
  BY Zenon DEF Worker, WorkerStarts, WorkerSucceeds, WorkerFails, WorkerReports
<1>4. worker' \in {"none", "spawned", "starting", "started", "exited"}
  BY Zenon DEF Worker, WorkerStarts, WorkerSucceeds, WorkerFails, WorkerReports
<1>5. (running' = running \/ running' = TRUE \/ running' = FALSE) /\ (transport' = transport \/ transport' = TRUE)
  BY Zenon DEF Worker, WorkerStarts, WorkerSucceeds, WorkerFails, WorkerReports
<1>6. running' \in BOOLEAN /\ transport' \in BOOLEAN
  BY Zenon, <1>0, <1>5 DEF ClientTypes
<1>7. Rejoins' => Rejoins
  BY Zenon, <1>2 DEF Rejoins
<1>8. streamingUi' \in BOOLEAN /\ qt' \in Stopping \cup {"idle"} /\ then' \in {"leave", "lan", "internet"}
  BY Zenon, <1>0, <1>2 DEF ClientTypes
<1> QED BY Zenon, <1>1, <1>2, <1>3, <1>4, <1>6, <1>7, <1>8, ClientRests

\* What the client has said, step by step.
LEMMA KeysSaid ==
  /\ <<>> # BothKeys /\ <<"KeyExchange">> # BothKeys /\ <<>> # <<"KeyExchange">>
  /\ Append(<<>>, "KeyExchange") = <<"KeyExchange">> /\ Append(<<"KeyExchange">>, "SessionKeyReady") = BothKeys
<1>1. Len(<<>>) = 0 /\ Len(<<"KeyExchange">>) = 1 /\ Len(BothKeys) = 2
  BY Zenon DEF BothKeys
<1>2. Append(<<>>, "KeyExchange") = <<"KeyExchange">>
  OBVIOUS
<1>3. Append(<<"KeyExchange">>, "SessionKeyReady") = BothKeys
  <2> DEFINE a == Append(<<"KeyExchange">>, "SessionKeyReady")
  <2>1. <<"KeyExchange">> \in Seq(Messages) /\ "SessionKeyReady" \in Messages /\ BothKeys \in Seq(Messages)
    BY DEF Messages, BothKeys
  <2>2. a \in Seq(Messages) /\ Len(a) = 2 /\ a[1] = "KeyExchange" /\ a[2] = "SessionKeyReady"
    BY <1>1, <2>1, AppendProperties
  <2>3. BothKeys[1] = "KeyExchange" /\ BothKeys[2] = "SessionKeyReady"
    BY Zenon DEF BothKeys
  <2> HIDE DEF a
  <2>4. \A i \in 1 .. Len(a) : a[i] = BothKeys[i]
    BY <2>2, <2>3
  <2>5. a = BothKeys
    BY Zenon, <1>1, <2>1, <2>2, <2>4, SeqEqual
  <2> QED BY Zenon, <2>5 DEF a
<1> QED BY <1>1, <1>2, <1>3

\* The client's invariant holds before the first join.
LEMMA ClientStarts ==
  ASSUME ClientInit
  PROVE  ClientInv
<1>1. /\ qt = "idle" /\ then = "leave" /\ events = <<>> /\ client = "none" /\ arrived = <<>> /\ sent = <<>>
      /\ worker = "none" /\ ~streamer /\ ~running /\ ~transport /\ ~ecdh
  BY Zenon DEF ClientInit
<1>2. /\ streamingUi \in BOOLEAN /\ ecdh \in BOOLEAN /\ channel \in BOOLEAN /\ streamer \in BOOLEAN
      /\ crypto \in BOOLEAN /\ running \in BOOLEAN /\ transport \in BOOLEAN
  BY Zenon DEF ClientInit
<1>3. ClientTypes
  BY Zenon, <1>1, <1>2, NothingQueued DEF ClientTypes
<1> QED BY Zenon, <1>1, <1>3 DEF ClientInv, NothingOutlivesStop, SessionShown, KeysInTurn, StreamKeyed, Live, Rejoins

\* stop() from the join on, and the session that its caller begins.
LEMMA ClientFinishes ==
  ASSUME ClientInv, FinishStop
  PROVE  ClientInv'
<1>0. ClientTypes /\ SessionShown /\ events \in Seq(Events)
  BY Zenon DEF ClientInv, ClientTypes
<1>1. /\ qt = "join" /\ qt' = "idle" /\ worker \in {"none", "exited"}
      /\ worker' = (IF worker = "exited" THEN "none" ELSE worker)
      /\ events' = events \o Closing /\ sent' = <<>> /\ arrived' = <<>> /\ then' = then
  BY Zenon DEF FinishStop, WorkerJoined
<1>2. ~streamer' /\ ~running' /\ ~transport' /\ ~crypto' /\ ~ecdh' /\ ~channel'
  BY Zenon DEF FinishStop, KeysForgotten
<1>3. /\ streamer' \in BOOLEAN /\ running' \in BOOLEAN /\ transport' \in BOOLEAN /\ crypto' \in BOOLEAN
      /\ ecdh' \in BOOLEAN /\ channel' \in BOOLEAN
  BY Zenon DEF FinishStop, KeysForgotten
<1>4. /\ client' \in {"none", "dialling", "undialled"}
      /\ client' = "dialling" => then = "lan"
      /\ client' # "none" => then # "leave"
  BY Zenon DEF FinishStop
<1>5. streamingUi' \in BOOLEAN /\ (client' = "dialling" => streamingUi')
  <2>1. streamingUi' = TRUE \/ streamingUi' = FALSE \/ streamingUi' = streamingUi
    BY Zenon DEF FinishStop
  <2>2. client' = "dialling" => streamingUi' = TRUE
    BY Zenon DEF FinishStop
  <2> QED BY Zenon, <1>0, <2>1, <2>2 DEF ClientTypes
<1>6. events' \in Seq(Events)
  <2>1. "Closed" \in Events
    BY Zenon DEF Events
  <2>2. Append(events, "Closed") \in Seq(Events)
    BY Zenon, <1>0, <2>1, EventComes
  <2>3. events' = (IF Live THEN Append(events, "Closed") ELSE events)
    BY Zenon, <1>0, <1>1, ClosingQueued
  <2> QED BY Zenon, <1>0, <2>2, <2>3
<1>7. ASSUME client' # "none" PROVE OnlyWorkers(events')
  <2>1. Rejoins
    BY Zenon, <1>1, <1>4, <1>7 DEF Rejoins
  <2>2. events' = events /\ OnlyWorkers(events)
    BY Zenon, <1>0, <1>1, <2>1, ClosingQueued DEF SessionShown
  <2> QED BY Zenon, <2>2
<1>8. ClientTypes'
  BY Zenon, <1>0, <1>1, <1>3, <1>4, <1>5, <1>6, NothingQueued DEF ClientTypes
<1>9. NothingOutlivesStop'
  BY Zenon, <1>1, <1>2 DEF NothingOutlivesStop
<1>10. SessionShown'
  <2>1. ~Rejoins'
    BY Zenon, <1>1 DEF Rejoins
  <2>2. Live' => client' = "dialling"
    BY Zenon, <1>4 DEF Live
  <2>3. client' = "dialling" => ~Queued(events', "Closed") /\ ~Queued(events', "Disconnected")
    BY Zenon, <1>7, WorkersSayNoKeys DEF Events
  <2> QED BY Zenon, <1>5, <2>1, <2>2, <2>3 DEF SessionShown
<1>11. KeysInTurn'
  BY Zenon, <1>1, <1>2, <1>4, <1>7 DEF KeysInTurn
<1>12. StreamKeyed'
  <2>1. client' # "none" => ~Queued(events', "StreamStart")
    BY Zenon, <1>7, WorkersSayNoKeys DEF Events, Messages
  <2> QED BY Zenon, <1>2, <2>1 DEF StreamKeyed
<1> QED BY Zenon, <1>8, <1>9, <1>10, <1>11, <1>12 DEF ClientInv

\* What the io thread and the handlers of the session's events have in common.
LEMMA StreamRests ==
  ASSUME ClientInv, UNCHANGED <<qt, then, streamingUi, streamer, crypto, running, transport, worker>>,
         events' \in Seq(Events), arrived' \in Seq(Messages),
         client' \in {"none", "undialled", "dialling", "connected", "ended"},
         ecdh' \in BOOLEAN, channel' \in BOOLEAN, sent' \in {<<>>, <<"KeyExchange">>, BothKeys}
  PROVE  ClientTypes' /\ NothingOutlivesStop' /\ (Rejoins' <=> Rejoins)
BY Zenon DEF ClientInv, ClientTypes, NothingOutlivesStop, Rejoins

\* The session's io thread: connected, ended, a message.
LEMMA ClientIsConnected ==
  ASSUME ClientInv, SessionConnects
  PROVE  ClientInv'
<1>0. ClientTypes /\ SessionShown /\ KeysInTurn /\ StreamKeyed /\ events \in Seq(Events) /\ "Connected" \in Events
  BY Zenon DEF ClientInv, ClientTypes, Events
<1>1. /\ client = "dialling" /\ client' = "connected" /\ events' = Append(events, "Connected")
      /\ UNCHANGED <<qt, then, streamingUi, streamer, crypto, running, transport, worker, ecdh, channel, sent, arrived>>
  BY Zenon DEF SessionConnects, keyVars, mediaVars
<1>2. sent = <<>> /\ arrived = <<>> /\ ~ecdh /\ ~channel /\ ~streamer /\ OnlyWorkers(events)
  BY Zenon, <1>0, <1>1 DEF KeysInTurn
<1>3. /\ events' \in Seq(Events)
      /\ \A m : Queued(events', m) <=> Queued(events, m) \/ m = "Connected"
      /\ \A m : QueuedOnce(events, m) /\ (m # "Connected" \/ ~Queued(events, m)) => QueuedOnce(events', m)
  BY Zenon, <1>0, <1>1, EventComes
<1>4. \A m \in {"Connected", "KeyExchange", "StreamStart", "Closed", "Disconnected"} :
        ~Queued(events, m) /\ QueuedOnce(events, m)
  BY Zenon, <1>2, WorkersSayNoKeys DEF Events, Messages
<1>5. ClientTypes' /\ NothingOutlivesStop' /\ (Rejoins' <=> Rejoins)
  BY Zenon, <1>0, <1>1, <1>3, StreamRests DEF ClientTypes
<1>6. SessionShown'
  BY Zenon, <1>0, <1>1, <1>3, <1>4, <1>5 DEF SessionShown, Live
<1>7. KeysInTurn'
  BY Zenon, <1>1, <1>2, <1>3, <1>4, KeysSaid, NothingQueued DEF KeysInTurn
<1>8. StreamKeyed'
  BY Zenon, <1>1, <1>2, <1>3, <1>4 DEF StreamKeyed
<1> QED BY Zenon, <1>5, <1>6, <1>7, <1>8 DEF ClientInv

\* The session ends at the client.
LEMMA ClientIsEnded ==
  ASSUME ClientInv, SessionEnds
  PROVE  ClientInv'
<1>0. ClientTypes /\ SessionShown /\ StreamKeyed /\ events \in Seq(Events) /\ "Disconnected" \in Events
  BY Zenon DEF ClientInv, ClientTypes, Events
<1>1. /\ client \in {"dialling", "connected"} /\ client' = "ended" /\ events' = Append(events, "Disconnected")
      /\ UNCHANGED <<qt, then, streamingUi, streamer, crypto, running, transport, worker, ecdh, channel, sent, arrived>>
  BY Zenon DEF SessionEnds, keyVars, mediaVars
<1>2. events' \in Seq(Events) /\ \A m : Queued(events', m) <=> Queued(events, m) \/ m = "Disconnected"
  BY Zenon, <1>0, <1>1, EventComes
<1>3. ClientTypes' /\ NothingOutlivesStop' /\ (Rejoins' <=> Rejoins)
  BY Zenon, <1>0, <1>1, <1>2, StreamRests DEF ClientTypes
<1>4. SessionShown'
  BY Zenon, <1>0, <1>1, <1>3 DEF SessionShown, Live
<1>5. KeysInTurn'
  BY Zenon, <1>1 DEF KeysInTurn
<1>6. StreamKeyed'
  BY Zenon, <1>0, <1>1, <1>2 DEF StreamKeyed
<1> QED BY Zenon, <1>3, <1>4, <1>5, <1>6 DEF ClientInv

\* A message of the host arrives, in the order the host sends them.
LEMMA ClientHears ==
  ASSUME ClientInv, NEW m \in Messages, InTurn(m), Arrive(m)
  PROVE  ClientInv'
<1>0. /\ ClientTypes /\ SessionShown /\ KeysInTurn /\ StreamKeyed
      /\ events \in Seq(Events) /\ arrived \in Seq(Messages) /\ m \in Events
  BY Zenon DEF ClientInv, ClientTypes, Events
<1>1. /\ client = "connected" /\ client' = client /\ events' = Append(events, m) /\ arrived' = Append(arrived, m)
      /\ UNCHANGED <<qt, then, streamingUi, streamer, crypto, running, transport, worker, ecdh, channel, sent>>
  BY Zenon DEF Arrive, keyVars, mediaVars
<1>2. /\ events' \in Seq(Events)
      /\ \A k : Queued(events', k) <=> Queued(events, k) \/ k = m
      /\ \A k : QueuedOnce(events, k) /\ (k # m \/ ~Queued(events, k)) => QueuedOnce(events', k)
  BY Zenon, <1>0, <1>1, EventComes
<1>3. arrived' \in Seq(Messages) /\ \A k : Queued(arrived', k) <=> Queued(arrived, k) \/ k = m
  BY Zenon, <1>0, <1>1, EventComes
<1>4. ClientTypes' /\ NothingOutlivesStop' /\ (Rejoins' <=> Rejoins)
  BY Zenon, <1>0, <1>1, <1>2, <1>3, StreamRests DEF ClientTypes
<1>5. ~Queued(arrived, m) /\ (m = "StreamStart" => sent = BothKeys) /\ m \notin {"Connected", "Closed", "Disconnected"}
  BY Zenon DEF InTurn, Messages
<1>6. SessionShown'
  <2>1. Live /\ ~Rejoins
    BY Zenon, <1>0, <1>1 DEF SessionShown, Live
  <2> QED BY Zenon, <1>0, <1>1, <1>2, <1>4, <1>5, <2>1 DEF SessionShown, Live
<1>7. KeysInTurn'
  BY Zenon, <1>0, <1>1, <1>2, <1>3, <1>5 DEF KeysInTurn
<1>8. StreamKeyed'
  BY Zenon, <1>0, <1>1, <1>2, <1>5 DEF StreamKeyed, KeysInTurn
<1> QED BY Zenon, <1>4, <1>6, <1>7, <1>8 DEF ClientInv

\* A handler that ends the session: client_->disconnect().
LEMMA ClientDisconnects ==
  ASSUME ClientInv, NEW e, Handling(e), Disconnect, sent' = sent, arrived' = arrived, ecdh' = ecdh,
         channel' \in BOOLEAN, channel => channel',
         UNCHANGED <<qt, then, streamingUi, streamer, crypto, running, transport, worker>>, client = "connected" \/ client = "ended"
  PROVE  ClientInv'
<1>0. ClientTypes /\ StreamKeyed /\ "Closed" \in Events
  BY Zenon DEF ClientInv, Events
<1>1. events \in Seq(Events) /\ events # <<>> /\ qt = "idle"
  BY Zenon, HandlesHead
<1>2. Tail(events) \in Seq(Events) /\ \A m : Queued(Tail(events), m) => Queued(events, m)
  BY Zenon, <1>1, HeadGoes
<1>3. events' = (IF Live THEN Append(Tail(events), "Closed") ELSE Tail(events)) /\ client' = "ended"
  BY Zenon, <1>2, ClosingQueued DEF Disconnect
<1>4. Append(Tail(events), "Closed") \in Seq(Events)
      /\ \A m : Queued(Append(Tail(events), "Closed"), m) => Queued(Tail(events), m) \/ m = "Closed"
  BY ZenonT(30), <1>0, <1>2, EventComes
<1>5. events' \in Seq(Events) /\ \A m : Queued(events', m) => Queued(events, m) \/ m = "Closed"
  <2>1. CASE Live
    BY Zenon, <1>2, <1>3, <1>4, <2>1
  <2>2. CASE ~Live
    BY Zenon, <1>2, <1>3, <2>2
  <2> QED BY Zenon, <2>1, <2>2
<1>6. ClientTypes' /\ NothingOutlivesStop' /\ (Rejoins' <=> Rejoins)
  BY Zenon, <1>0, <1>3, <1>5, StreamRests DEF ClientTypes
<1>7. SessionShown'
  BY Zenon, <1>1, <1>3, <1>6 DEF SessionShown, Live, Rejoins
<1>8. KeysInTurn'
  BY Zenon, <1>3 DEF KeysInTurn
<1>9. StreamKeyed'
  BY Zenon, <1>0, <1>3, <1>5 DEF StreamKeyed
<1> QED BY Zenon, <1>6, <1>7, <1>8, <1>9 DEF ClientInv

\* beginKeyExchange.
LEMMA ClientBeginsKeys ==
  ASSUME ClientInv, OnConnected
  PROVE  ClientInv'
<1>0. ClientTypes /\ SessionShown /\ KeysInTurn /\ StreamKeyed
  BY Zenon DEF ClientInv
<1>1. /\ Handling("Connected")
      /\ UNCHANGED <<qt, then, streamingUi, streamer, crypto, running, transport, worker, channel, arrived>>
  BY Zenon DEF OnConnected, mediaVars
<1>2. /\ events \in Seq(Events) /\ events # <<>> /\ Head(events) = "Connected" /\ Queued(events, "Connected")
      /\ qt = "idle" /\ ~Rejoins
  BY Zenon, <1>1, HandlesHead
<1>3. CASE ecdh \/ client # "connected"
  <2>1. Done /\ UNCHANGED <<ecdh, sent, client>>
    BY Zenon, <1>3 DEF OnConnected
  <2>2. events' = Tail(events)
    BY Zenon, <2>1 DEF Done
  <2>3. ~Rejoins'
    BY Zenon, <1>1, <1>2 DEF Rejoins
  <2>4. qt' \in Stopping \cup {"idle"} /\ then' \in {"leave", "lan", "internet"} /\ running' \in BOOLEAN
        /\ transport' \in BOOLEAN /\ worker' \in {"none", "spawned", "starting", "started", "exited"}
        /\ streamingUi' \in BOOLEAN
    BY Zenon, <1>0, <1>1 DEF ClientTypes
  <2> QED BY Zenon, <1>1, <1>2, <2>1, <2>2, <2>3, <2>4, ClientRests
<1>4. CASE ~ecdh /\ client = "connected" /\ told' = TRUE /\ Disconnect /\ UNCHANGED <<ecdh, sent>>
  BY Zenon, <1>0, <1>1, <1>4, ClientDisconnects DEF ClientTypes
<1>5. CASE /\ ~ecdh /\ client = "connected" /\ ecdh' = TRUE /\ sent' = Append(sent, "KeyExchange") /\ Done
           /\ UNCHANGED client
  <2>1. events' = Tail(events)
    BY Zenon, <1>5 DEF Done
  <2>2. /\ events' \in Seq(Events) /\ ~Queued(events', "Connected")
        /\ \A m : Queued(events', m) => Queued(events, m)
        /\ \A m : QueuedOnce(events, m) => QueuedOnce(events', m)
    BY Zenon, <1>0, <1>2, <1>5, <2>1, HeadGoes DEF KeysInTurn
  <2>3. sent = <<>> /\ sent' = <<"KeyExchange">>
    BY Zenon, <1>0, <1>5, KeysSaid DEF KeysInTurn
  <2>4. ecdh' \in BOOLEAN
    BY Zenon, <1>5
  <2>5. ClientTypes' /\ NothingOutlivesStop' /\ (Rejoins' <=> Rejoins)
    BY Zenon, <1>0, <1>1, <1>5, <2>2, <2>3, <2>4, StreamRests DEF ClientTypes
  <2>6. SessionShown'
    BY Zenon, <1>0, <1>1, <1>2, <1>5, <2>2, <2>5 DEF SessionShown, Live
  <2>7. KeysInTurn'
    BY Zenon, <1>0, <1>1, <1>5, <2>2, <2>3, KeysSaid DEF KeysInTurn
  <2>8. StreamKeyed'
    BY Zenon, <1>0, <1>1, <1>5, <2>2 DEF StreamKeyed
  <2> QED BY Zenon, <2>5, <2>6, <2>7, <2>8 DEF ClientInv
<1> QED BY Zenon, <1>3, <1>4, <1>5 DEF OnConnected

\* The host's key.
LEMMA ClientTakesKey ==
  ASSUME ClientInv, OnKeyExchange
  PROVE  ClientInv'
<1>0. ClientTypes /\ SessionShown /\ KeysInTurn /\ StreamKeyed
  BY Zenon DEF ClientInv
<1>1. /\ Handling("KeyExchange")
      /\ UNCHANGED <<qt, then, streamingUi, streamer, crypto, running, transport, worker, ecdh, arrived>>
  BY Zenon DEF OnKeyExchange, mediaVars
<1>2. /\ events \in Seq(Events) /\ events # <<>> /\ Head(events) = "KeyExchange" /\ Queued(events, "KeyExchange")
      /\ qt = "idle" /\ ~Rejoins
  BY Zenon, <1>1, HandlesHead
<1>3. CASE ~ecdh
  <2>1. Done /\ UNCHANGED <<channel, sent, client>>
    BY Zenon, <1>3 DEF OnKeyExchange
  <2>2. events' = Tail(events)
    BY Zenon, <2>1 DEF Done
  <2>3. ~Rejoins'
    BY Zenon, <1>1, <1>2 DEF Rejoins
  <2>4. qt' \in Stopping \cup {"idle"} /\ then' \in {"leave", "lan", "internet"} /\ running' \in BOOLEAN
        /\ transport' \in BOOLEAN /\ worker' \in {"none", "spawned", "starting", "started", "exited"}
        /\ streamingUi' \in BOOLEAN
    BY Zenon, <1>0, <1>1 DEF ClientTypes
  <2> QED BY Zenon, <1>1, <1>2, <2>1, <2>2, <2>3, <2>4, ClientRests
<1>4. CASE ecdh /\ channel' = TRUE /\ Disconnect /\ UNCHANGED sent
  <2>1. channel' \in BOOLEAN /\ (channel => channel')
    BY Zenon, <1>4
  <2>2. client = "connected" \/ client = "ended"
    BY Zenon, <1>0, <1>4 DEF KeysInTurn
  <2> QED BY Zenon, <1>1, <1>4, <2>1, <2>2, ClientDisconnects
<1>5. CASE /\ ecdh /\ channel' = TRUE /\ Done /\ UNCHANGED client
           /\ sent' = IF client = "connected" THEN Append(sent, "SessionKeyReady") ELSE sent
  <2>1. events' = Tail(events)
    BY Zenon, <1>5 DEF Done
  <2>2. /\ events' \in Seq(Events)
        /\ \A m : Queued(events', m) => Queued(events, m)
        /\ \A m : QueuedOnce(events, m) => QueuedOnce(events', m)
        /\ OnlyWorkers(events) => OnlyWorkers(events')
        /\ client = "connected" => ~Queued(events', "KeyExchange")
    BY Zenon, <1>0, <1>2, <2>1, HeadGoes DEF KeysInTurn
  <2>3. client = "connected" => sent = <<"KeyExchange">> /\ sent' = BothKeys
    BY Zenon, <1>0, <1>2, <1>5, KeysSaid DEF KeysInTurn, ClientTypes
  <2>4. channel' \in BOOLEAN
    BY Zenon, <1>5
  <2>5. sent' \in {<<>>, <<"KeyExchange">>, BothKeys}
    BY Zenon, <1>0, <1>5, <2>3 DEF ClientTypes
  <2>6. ClientTypes' /\ NothingOutlivesStop' /\ (Rejoins' <=> Rejoins)
    BY Zenon, <1>0, <1>1, <1>5, <2>2, <2>4, <2>5, StreamRests DEF ClientTypes
  <2>7. SessionShown'
    BY Zenon, <1>0, <1>1, <1>2, <1>5, <2>2, <2>6 DEF SessionShown, Live
  <2>8. KeysInTurn'
    <3>1. client # "dialling" /\ client \in {"connected", "ended"}
      BY Zenon, <1>0, <1>5 DEF KeysInTurn
    <3>2. client' = "connected" =>
            /\ Queued(arrived', "KeyExchange") /\ sent' # <<>> /\ ~Queued(events', "KeyExchange")
            /\ ~Queued(events', "Connected") /\ QueuedOnce(events', "Connected") /\ QueuedOnce(events', "KeyExchange")
      BY Zenon, <1>0, <1>1, <1>2, <1>5, <2>2, <2>3, KeysSaid DEF KeysInTurn
    <3>3. ecdh'
      BY Zenon, <1>1, <1>5
    <3>4. channel'
      BY Zenon, <1>5
    <3> QED BY Zenon, <1>5, <3>1, <3>2, <3>3, <3>4 DEF KeysInTurn
  <2>9. StreamKeyed'
    <3>1. channel'
      BY Zenon, <1>5
    <3> QED BY Zenon, <1>0, <1>1, <1>5, <3>1 DEF StreamKeyed
  <2> QED BY Zenon, <2>6, <2>7, <2>8, <2>9 DEF ClientInv
<1> QED BY Zenon, <1>3, <1>4, <1>5 DEF OnKeyExchange

\* startStream.
LEMMA ClientStartsStream ==
  ASSUME ClientInv, OnStreamStart
  PROVE  ClientInv'
<1>0. ClientTypes /\ SessionShown /\ KeysInTurn /\ StreamKeyed /\ NothingOutlivesStop
  BY Zenon DEF ClientInv
<1>1. /\ Handling("StreamStart") /\ Done
      /\ UNCHANGED <<qt, then, streamingUi, ecdh, channel, running, transport, client, sent, arrived>>
  BY Zenon DEF OnStreamStart, linkVars
<1>2. /\ events \in Seq(Events) /\ events # <<>> /\ Head(events) = "StreamStart" /\ Queued(events, "StreamStart")
      /\ qt = "idle" /\ ~Rejoins /\ events' = Tail(events)
  BY Zenon, <1>1, HandlesHead DEF Done
<1>3. ~Rejoins'
  BY Zenon, <1>1, <1>2 DEF Rejoins
<1>4. CASE streamer
  <2>1. UNCHANGED <<streamer, crypto, worker>>
    BY Zenon, <1>4 DEF OnStreamStart
  <2>2. qt' \in Stopping \cup {"idle"} /\ then' \in {"leave", "lan", "internet"} /\ running' \in BOOLEAN
        /\ transport' \in BOOLEAN /\ worker' \in {"none", "spawned", "starting", "started", "exited"}
        /\ streamingUi' \in BOOLEAN
    BY Zenon, <1>0, <1>1, <2>1 DEF ClientTypes
  <2> QED BY Zenon, <1>1, <1>2, <1>3, <2>1, <2>2, ClientRests
<1>5. CASE ~streamer
  <2>1. streamer' = TRUE /\ crypto' = channel /\ worker' = "spawned"
    BY Zenon, <1>5 DEF OnStreamStart
  <2>2. /\ events' \in Seq(Events)
        /\ \A m : Queued(events', m) => Queued(events, m)
        /\ \A m : QueuedOnce(events, m) => QueuedOnce(events', m)
    BY Zenon, <1>2, HeadGoes
  <2>3. client # "dialling"
    BY Zenon, <1>0, <1>2, WorkersSayNoKeys DEF KeysInTurn, Events, Messages
  <2>4. streamer' /\ streamer' \in BOOLEAN
    BY Zenon, <2>1
  <2>5. ClientTypes'
    BY <1>0, <1>1, <2>1, <2>2, <2>4 DEF ClientTypes
  <2>6. NothingOutlivesStop'
    BY Zenon, <2>4 DEF NothingOutlivesStop
  <2>7. SessionShown'
    BY Zenon, <1>0, <1>1, <1>3, <2>2 DEF SessionShown, Live
  <2>8. KeysInTurn'
    BY Zenon, <1>0, <1>1, <2>2, <2>3 DEF KeysInTurn
  <2>9. StreamKeyed'
    BY Zenon, <1>0, <1>1, <1>2, <2>1 DEF StreamKeyed
  <2> QED BY Zenon, <2>5, <2>6, <2>7, <2>8, <2>9 DEF ClientInv
<1> QED BY Zenon, <1>4, <1>5

\* Whatever the client's own threads, its user and its session do.
LEMMA ClientSteps ==
  ASSUME ClientInv, QtThread \/ User \/ OnStreamStartWatchdog \/ Worker \/ Session
  PROVE  ClientInv'
<1>1. CASE QtThread
  BY Zenon, <1>1, ClientBeginsKeys, ClientHandles, ClientTakesKey, ClientStartsStream, ClientStops, ClientFinishes
     DEF QtThread, HandleEvent
<1>2. CASE User
  BY Zenon, <1>2, ClientStops DEF User
<1>3. CASE OnStreamStartWatchdog
  BY Zenon, <1>3, ClientStops
<1>4. CASE Worker
  BY Zenon, <1>4, ClientWorks
<1>5. CASE Session
  BY Zenon, <1>5, ClientIsConnected, ClientIsEnded DEF Session
<1> QED BY Zenon, <1>1, <1>2, <1>3, <1>4, <1>5

\* A step that touches nothing of the client keeps ClientInv.
LEMMA ClientStutters ==
  ASSUME ClientInv, UNCHANGED <<qt, then, events, client, streamingUi, ecdh, channel, streamer, crypto, running,
                                transport, worker, sent, arrived>>
  PROVE  ClientInv'
<1>1. Rejoins' => Rejoins
  BY Zenon DEF Rejoins
<1>2. /\ qt' \in Stopping \cup {"idle"} /\ then' \in {"leave", "lan", "internet"} /\ running' \in BOOLEAN
      /\ transport' \in BOOLEAN /\ worker' \in {"none", "spawned", "starting", "started", "exited"}
      /\ streamingUi' \in BOOLEAN
  BY Zenon DEF ClientInv, ClientTypes
<1> QED BY Zenon, <1>1, <1>2, ClientRests

\* What the host may say is in turn.
LEMMA HostSaysInTurn ==
  ASSUME ClientInv, NEW m \in Messages, HostSays(m)
  PROVE  InTurn(m)
<1>1. ~Queued(arrived, m)
  BY Zenon DEF HostSays, Range, Queued
<1>2. m = "StreamStart" => "SessionKeyReady" \in Range(sent)
  BY Zenon DEF HostSays
<1>3. "SessionKeyReady" \in Range(sent) => sent = BothKeys
  <2>1. sent \in {<<>>, <<"KeyExchange">>, BothKeys}
    BY Zenon DEF ClientInv, ClientTypes
  <2>2. "SessionKeyReady" \notin Range(<<>>) /\ "SessionKeyReady" \notin Range(<<"KeyExchange">>)
    BY DEF Range
  <2> QED BY Zenon, <2>1, <2>2
<1> QED BY Zenon, <1>1, <1>2, <1>3 DEF InTurn

\* Every step of the client keeps its invariant.
LEMMA ClientKeeps ==
  ASSUME ClientInv, ClientNext
  PROVE  ClientInv'
<1>1. ASSUME NEW m \in Messages, HostSays(m), Arrive(m) PROVE ClientInv'
  BY Zenon, <1>1, HostSaysInTurn, ClientHears
<1> QED BY Zenon, <1>1, ClientSteps DEF ClientNext

\* The invariant implies what is promised of stop() and of the keys.
LEMMA ClientIsSafe ==
  ClientInv => NothingOutlivesStop /\ ConfirmsInOrder
BY Zenon DEF ClientInv, ClientTypes, ConfirmsInOrder, BothKeys

\* Whenever a client's stop() is over nothing of the stream it interrupted is
\* left, and the client confirms the keys once, after its own key, in whatever
\* order the user, the window's events, the worker and the session come
\* (ClientCoordinator::stop, the key exchange handlers), for any number of
\* joins and any length of the event queue.
THEOREM ClientIsOrderly == ClientSpec => [](NothingOutlivesStop /\ ConfirmsInOrder)
<1>1. ClientInv /\ [ClientNext]_clientVars => ClientInv'
  BY Zenon, ClientKeeps, ClientStutters DEF clientVars, keyVars, mediaVars, linkVars
<1> QED BY <1>1, ClientIsSafe, ClientStarts, PTL DEF ClientSpec

\* The client's own steps but the last of stop() end a session or none, take
\* nothing back that was said, and hear nothing.
LEMMA ClientOnlyAdds ==
  ASSUME ClientInv, QtThread \/ User \/ OnStreamStartWatchdog \/ Worker, ~FinishStop
  PROVE  /\ UNCHANGED <<joins, arrived>>
         /\ client' = client \/ (client \in {"connected", "ended"} /\ client' = "ended")
         /\ sent' = sent \/ (client = "connected" /\ Len(sent) <= Len(sent'))
<1>0. sent \in {<<>>, <<"KeyExchange">>, BothKeys} /\ (ecdh => client \in {"connected", "ended"})
  BY Zenon DEF ClientInv, ClientTypes, KeysInTurn
<1>1. Len(<<>>) = 0 /\ Len(<<"KeyExchange">>) = 1 /\ Len(BothKeys) = 2
  BY Zenon DEF BothKeys
<1>2. ASSUME NEW m \in {"KeyExchange", "SessionKeyReady"} PROVE Len(sent) <= Len(Append(sent, m))
  <2> DEFINE Keys == {"KeyExchange", "SessionKeyReady"}
  <2>a. <<>> \in Seq(Keys)
    OBVIOUS
  <2>b. <<"KeyExchange">> \in Seq(Keys)
    OBVIOUS
  <2>c. BothKeys \in Seq(Keys)
    BY DEF BothKeys
  <2>1. sent \in Seq(Keys)
    BY Zenon, <1>0, <2>a, <2>b, <2>c
  <2> QED BY <2>1, AppendProperties, LenProperties
<1>3. ASSUME UNCHANGED linkVars, UNCHANGED <<qt, then>> \/ qt' \notin {"stop", "join"} \/ Rejoins
      PROVE  /\ UNCHANGED <<joins, arrived>> /\ client' = client /\ sent' = sent
             /\ Rejoins' => Rejoins
  BY Zenon, <1>3 DEF linkVars, Rejoins
<1>4. CASE OnConnected
  <2>1. UNCHANGED <<joins, arrived, qt, then>>
    BY Zenon, <1>4 DEF OnConnected
  <2>2. client' = client \/ (client = "connected" /\ client' = "ended")
    BY Zenon, <1>4 DEF OnConnected, Disconnect
  <2>3. sent' = sent \/ (client = "connected" /\ sent' = Append(sent, "KeyExchange"))
    BY Zenon, <1>4 DEF OnConnected
  <2> QED BY Zenon, <1>2, <2>1, <2>2, <2>3 DEF Rejoins
<1>5. CASE OnKeyExchange
  <2>1. UNCHANGED <<joins, arrived, qt, then>>
    BY Zenon, <1>5 DEF OnKeyExchange
  <2>2. client' = client \/ (client \in {"connected", "ended"} /\ client' = "ended")
    BY Zenon, <1>0, <1>5 DEF OnKeyExchange, Disconnect
  <2>3. sent' = sent \/ (client = "connected" /\ sent' = Append(sent, "SessionKeyReady"))
    BY Zenon, <1>5 DEF OnKeyExchange
  <2> QED BY Zenon, <1>2, <2>1, <2>2, <2>3 DEF Rejoins
<1>6. CASE OnDisconnected \/ OnClosed \/ OnSessionKeyReady \/ OnStreamStart \/ OnStreamStop \/ OnStreaming \/ OnFailed
  <2>1. UNCHANGED linkVars
    BY Zenon, <1>6 DEF OnDisconnected, OnClosed, OnSessionKeyReady, OnStreamStart, OnStreamStop, OnStreaming, OnFailed
  <2>2. UNCHANGED <<qt, then>> \/ qt' \notin {"stop", "join"}
    BY Zenon, <1>6 DEF OnDisconnected, OnClosed, OnSessionKeyReady, OnStreamStart, OnStreamStop, OnStreaming, OnFailed, StreamerStop
  <2> QED BY Zenon, <1>3, <2>1, <2>2
<1>7. CASE StreamerTearsDown
  BY Zenon, <1>7 DEF StreamerTearsDown, linkVars, Rejoins
<1>8. ASSUME NEW mode, Join(mode) PROVE UNCHANGED linkVars /\ joins < MaxJoins
  BY Zenon, <1>8 DEF Join
<1>9. CASE Leave \/ OnStreamStartWatchdog
  <2>1. UNCHANGED linkVars /\ (then' = "leave" \/ UNCHANGED <<qt, then>>)
    BY Zenon, <1>9 DEF Leave, OnStreamStartWatchdog, BeginStop
  <2> QED BY Zenon, <2>1 DEF linkVars, Rejoins
<1>10. CASE Worker
  <2>1. UNCHANGED linkVars /\ UNCHANGED <<qt, then>>
    BY Zenon, <1>10 DEF Worker, WorkerStarts, WorkerSucceeds, WorkerFails, WorkerReports, WorkerRest
  <2> QED BY Zenon, <1>3, <2>1
<1> QED BY Zenon, <1>4, <1>5, <1>6, <1>7, <1>8, <1>9, <1>10 DEF QtThread, HandleEvent, User, linkVars

\* What the session's other side knows of the client.
LEMMA ClientTellsInTurn ==
  ASSUME ClientInv
  PROVE  /\ sent \in {<<>>, <<"KeyExchange">>, BothKeys} /\ arrived \in Seq(Messages)
         /\ client = "dialling" => sent = <<>> /\ arrived = <<>>
         /\ Rejoins => ~Live
         /\ client # "none" /\ transport => crypto
<1>1. sent \in {<<>>, <<"KeyExchange">>, BothKeys} /\ arrived \in Seq(Messages)
  BY Zenon DEF ClientInv, ClientTypes
<1>2. client = "dialling" => sent = <<>> /\ arrived = <<>>
  BY Zenon DEF ClientInv, KeysInTurn
<1>3. client # "none" /\ transport => crypto
  BY Zenon DEF ClientInv, StreamKeyed, NothingOutlivesStop
<1>4. Rejoins => ~Live
  BY Zenon DEF ClientInv, SessionShown
<1> QED BY Zenon, <1>1, <1>2, <1>3, <1>4

\* Only join() sets out for a join.
LEMMA ClientStartsNoJoin ==
  ASSUME ClientInv, QtThread \/ OnStreamStartWatchdog \/ Worker \/ Leave, ~Rejoins
  PROVE  ~Rejoins'
<1>1. CASE HandleEvent
  <2>1. UNCHANGED <<qt, then>> \/ qt' \notin {"stop", "join"}
    BY Zenon, <1>1 DEF HandleEvent, OnConnected, OnKeyExchange, OnDisconnected, OnClosed, OnSessionKeyReady, OnStreamStart,
       OnStreamStop, OnStreaming, OnFailed, StreamerStop
  <2> QED BY Zenon, <2>1 DEF Rejoins
<1>2. CASE StreamerTearsDown
  BY Zenon, <1>2 DEF StreamerTearsDown, Rejoins
<1>3. CASE FinishStop
  BY Zenon, <1>3 DEF FinishStop, Rejoins
<1>4. CASE Leave \/ OnStreamStartWatchdog
  <2>1. then' = "leave" \/ UNCHANGED <<qt, then>>
    BY Zenon, <1>4 DEF Leave, OnStreamStartWatchdog, BeginStop
  <2> QED BY Zenon, <2>1 DEF Rejoins
<1>5. CASE Worker
  <2>1. UNCHANGED <<qt, then>>
    BY Zenon, <1>5 DEF Worker, WorkerStarts, WorkerSucceeds, WorkerFails, WorkerReports, WorkerRest
  <2> QED BY Zenon, <2>1 DEF Rejoins
<1> QED BY Zenon, <1>1, <1>2, <1>3, <1>4, <1>5 DEF QtThread

-------------------------------------------------------------------------------
(***************************************************************************)
(* The set-up of media with one player.  The lemmas about the host's       *)
(* coordinator hold of the session's host side.                            *)
(***************************************************************************)

HostProof == INSTANCE HostCoordinatorProofs WITH
  Slots <- PlayerSlots, session <- hSession, events <- hEvents, qt <- hQt,
  streamer <- hStreamer, worker <- hWorker, sent <- hSent, arrived <- hArrived

\* The two coordinators in one session: what the client has heard is what the
\* host has said, and the host has heard no more than the client said.  A
\* client that has not joined has said nothing.
SetupInv ==
  /\ HostProof!SayingInv /\ ClientInv
  /\ joins \in 0 .. 1
  /\ joins = 0 => client = "none" /\ sent = <<>> /\ hArrived[player] = <<>>
  /\ Rejoins => joins = 0
  /\ Live => Len(hArrived[player]) <= Len(sent)
  /\ client = "connected" => HostProof!Extends(arrived, hSent[player])

--------------------------------------------------------------------------------
(* The host's coordinator here is the one the lemmas are about *)

\* The session's constants are ones the host's lemmas allow.
LEMMA SeatsSuffice ==
  HostProof!CoordinatorConstants
<1>1. HostProof!IsFiniteSet(Clients)
  BY Zenon, SetupAssumption DEF IsFiniteSet, HostProof!IsFiniteSet
<1> QED BY Zenon, <1>1, SetupAssumption DEF HostProof!CoordinatorConstants, HostProof!Nobody

\* The host of the session and the host of the lemmas take the same steps.
LEMMA HostIsTheSame ==
  /\ Host!HostInit => HostProof!HostInit
  /\ Host!HostNext => HostProof!HostNext
  /\ Host!QtThread => HostProof!QtThread
  /\ Host!StopHosting => HostProof!StopHosting
  /\ Host!Media => HostProof!Media
  /\ \A c : Host!Kick(c) => HostProof!Kick(c)
  /\ \A c : Host!SessionConnects(c) => HostProof!SessionConnects(c)
  /\ \A c : Host!SessionEnds(c) => HostProof!SessionEnds(c)
  /\ \A c : Host!Worker(c) => HostProof!Worker(c)
  /\ \A c, m : Host!Arrive(c, m) => HostProof!Arrive(c, m)
  /\ HostProof!SlotsAreUnique => Host!SlotsAreUnique
  /\ HostProof!OrphansStop => Host!OrphansStop
<1>1. Host!HostInit => HostProof!HostInit
  BY Zenon DEF Host!Nobody, Host!Idle, Host!HostInit, HostProof!Nobody, HostProof!Idle, HostProof!HostInit
<1>2. Host!QtThread => HostProof!QtThread
  BY Zenon DEF Host!streamVars, Host!linkVars, Host!rumbleVars, Host!Nobody, Host!Idle, Host!Event, Host!Present,
     Host!Handling, Host!Done, Host!Send, Host!KickSession, Host!Used, Host!AssignPlayerIndex,
     Host!OnConnected, Host!OnPermissions, Host!OnKeyExchange, Host!OnSessionKeyReady, Host!OnStarted,
     Host!OnStartFailed, Host!Stopped, Host!TearDown, Host!OnDisconnected, Host!OnFatal, Host!Forget,
     Host!AfterErase, Host!Erase, Host!AllJoined, Host!FinishStop, Host!HandleEvent, Host!QtThread,
     HostProof!streamVars, HostProof!linkVars, HostProof!rumbleVars, HostProof!Nobody, HostProof!Idle,
     HostProof!Event, HostProof!Present, HostProof!Handling, HostProof!Done, HostProof!Send,
     HostProof!KickSession, HostProof!Used, HostProof!AssignPlayerIndex, HostProof!OnConnected,
     HostProof!OnPermissions, HostProof!OnKeyExchange, HostProof!OnSessionKeyReady, HostProof!OnStarted,
     HostProof!OnStartFailed, HostProof!Stopped, HostProof!TearDown, HostProof!OnDisconnected,
     HostProof!OnFatal, HostProof!Forget, HostProof!AfterErase, HostProof!Erase, HostProof!AllJoined,
     HostProof!FinishStop, HostProof!HandleEvent, HostProof!QtThread
<1>3. Host!StopHosting => HostProof!StopHosting
  BY Zenon DEF Host!linkVars, Host!rumbleVars, Host!Nobody, Host!Idle, Host!Used, Host!Stopped, Host!StopHosting,
     HostProof!linkVars, HostProof!rumbleVars, HostProof!Nobody, HostProof!Idle, HostProof!Used,
     HostProof!Stopped, HostProof!StopHosting
<1>4. Host!Media => HostProof!Media
  BY Zenon DEF Host!streamVars, Host!linkVars, Host!rumbleVars, Host!Nobody, Host!Event, Host!Post, Host!StreamerDies,
     Host!ApplyInput, Host!Media, HostProof!streamVars, HostProof!linkVars, HostProof!rumbleVars,
     HostProof!Nobody, HostProof!Event, HostProof!Post, HostProof!StreamerDies, HostProof!ApplyInput,
     HostProof!Media
<1>5. Host!Rumble => HostProof!Rumble
  BY Zenon DEF Host!streamVars, Host!linkVars, Host!Nobody, Host!RumbleFinds, Host!RumbleSends, Host!Rumble,
     HostProof!streamVars, HostProof!linkVars, HostProof!Nobody, HostProof!RumbleFinds,
     HostProof!RumbleSends, HostProof!Rumble
<1>6. ASSUME NEW c PROVE Host!Kick(c) => HostProof!Kick(c)
  BY Zenon DEF Host!rumbleVars, Host!Nobody, Host!Idle, Host!Present, Host!KickSession, Host!Stopped, Host!TearDown,
     Host!Kick, HostProof!rumbleVars, HostProof!Nobody, HostProof!Idle, HostProof!Present,
     HostProof!KickSession, HostProof!Stopped, HostProof!TearDown, HostProof!Kick
<1>7. ASSUME NEW c PROVE Host!SessionConnects(c) => HostProof!SessionConnects(c)
  BY Zenon DEF Host!streamVars, Host!rumbleVars, Host!Event, Host!Room, Host!Present, Host!SessionConnects,
     Host!Cardinality, HostProof!streamVars, HostProof!rumbleVars, HostProof!Event, HostProof!Room,
     HostProof!Present, HostProof!SessionConnects, HostProof!Cardinality
<1>8. ASSUME NEW c PROVE Host!SessionEnds(c) => HostProof!SessionEnds(c)
  BY Zenon DEF Host!streamVars, Host!rumbleVars, Host!Event, Host!Post, Host!Room, Host!Present, Host!SessionEnds,
     HostProof!streamVars, HostProof!rumbleVars, HostProof!Event, HostProof!Post, HostProof!Room,
     HostProof!Present, HostProof!SessionEnds
<1>9. ASSUME NEW c PROVE Host!Worker(c) => HostProof!Worker(c)
  BY Zenon DEF Host!linkVars, Host!rumbleVars, Host!Event, Host!Post, Host!Present, Host!Send, Host!Stopped,
     Host!WorkerStarts, Host!WorkerSucceeds, Host!WorkerFails, Host!AfterWorker, Host!WorkerExits,
     Host!Worker, HostProof!linkVars, HostProof!rumbleVars, HostProof!Event, HostProof!Post,
     HostProof!Present, HostProof!Send, HostProof!Stopped, HostProof!WorkerStarts, HostProof!WorkerSucceeds,
     HostProof!WorkerFails, HostProof!AfterWorker, HostProof!WorkerExits, HostProof!Worker
<1>10. ASSUME NEW c, NEW  m PROVE Host!Arrive(c, m) => HostProof!Arrive(c, m)
  BY Zenon DEF Host!streamVars, Host!rumbleVars, Host!Event, Host!Post, Host!Room, Host!Present, Host!Arrive,
     HostProof!streamVars, HostProof!rumbleVars, HostProof!Event, HostProof!Post, HostProof!Room,
     HostProof!Present, HostProof!Arrive
<1>11. ASSUME NEW c PROVE Host!InputToggled(c) => HostProof!InputToggled(c)
  BY Zenon DEF Host!streamVars, Host!linkVars, Host!rumbleVars, Host!Event, Host!Post, Host!Room, Host!Present,
     Host!InputToggled, Host!Range, HostProof!streamVars, HostProof!linkVars, HostProof!rumbleVars,
     HostProof!Event, HostProof!Post, HostProof!Room, HostProof!Present, HostProof!InputToggled,
     HostProof!Range
<1>12. ASSUME NEW c, NEW  m PROVE Host!ClientSays(c, m) => HostProof!ClientSays(c, m)
  BY Zenon DEF Host!ClientSays, HostProof!ClientSays
<1>13. HostProof!SlotsAreUnique => Host!SlotsAreUnique
  BY Zenon DEF Host!Used, Host!SlotsAreUnique, HostProof!Used, HostProof!SlotsAreUnique
<1>14. HostProof!OrphansStop => Host!OrphansStop
  BY Zenon DEF Host!OrphansStop, HostProof!OrphansStop
<1>15. Host!User => HostProof!User
  BY SMTT(30), <1>3, <1>6, <1>11 DEF Host!User, HostProof!User
<1>16. Host!Session => HostProof!Session
  BY Zenon, <1>7, <1>8 DEF Host!Session, HostProof!Session
<1>17. Host!HostNext => HostProof!HostNext
  BY Zenon, <1>2, <1>4, <1>5, <1>9, <1>10, <1>12, <1>15, <1>16 DEF Host!HostNext, HostProof!HostNext, Host!Messages, HostProof!Messages
<1> QED BY Zenon, <1>1, <1>2, <1>3, <1>4, <1>6, <1>7, <1>8, <1>9, <1>10, <1>13, <1>14, <1>17

--------------------------------------------------------------------------------
(* One player's session, from both sides *)

\* Host and client mean the same by the messages of the key exchange.
LEMMA BothKeysAgree ==
  /\ HostProof!BothKeys = BothKeys /\ HostProof!Arrivals = {<<>>, <<"KeyExchange">>, BothKeys}
  /\ HostProof!HostMessages = {"KeyExchange", "SessionKeyReady", "StreamStart"}
  /\ Len(<<>>) = 0 /\ Len(<<"KeyExchange">>) = 1 /\ Len(BothKeys) = 2 /\ BothKeys[2] = "SessionKeyReady"
BY Zenon DEF HostProof!BothKeys, BothKeys, HostProof!Arrivals, HostProof!HostMessages, HostProof!Messages

\* What SetupInv says of the two logs.
LEMMA SetupShape ==
  ASSUME SetupInv
  PROVE  /\ sent \in {<<>>, <<"KeyExchange">>, BothKeys} /\ Len(sent) \in 0 .. 2
         /\ hArrived \in [Clients -> {<<>>, <<"KeyExchange">>, BothKeys}] /\ Len(hArrived[player]) \in 0 .. 2
         /\ arrived \in Seq(Messages) /\ Len(arrived) \in Nat
         /\ hSent[player] \in Seq({"KeyExchange", "SessionKeyReady", "StreamStart"}) /\ Len(hSent[player]) \in Nat
<1>1. sent \in {<<>>, <<"KeyExchange">>, BothKeys} /\ arrived \in Seq(Messages)
  BY Zenon, ClientTellsInTurn DEF SetupInv
<1>2. hArrived \in [Clients -> {<<>>, <<"KeyExchange">>, BothKeys}]
  BY Zenon, HostProof!HostTellsInTurn, BothKeysAgree, SetupAssumption DEF SetupInv
<1>3. hSent[player] \in Seq({"KeyExchange", "SessionKeyReady", "StreamStart"})
  BY Zenon, HostProof!HostTellsInTurn, BothKeysAgree, SetupAssumption DEF SetupInv
<1>4. Len(sent) \in 0 .. 2
  BY SMTT(30), <1>1, BothKeysAgree
<1>5. hArrived[player] \in {<<>>, <<"KeyExchange">>, BothKeys}
  BY Zenon, <1>2, SetupAssumption
<1>6. Len(hArrived[player]) \in 0 .. 2
  BY SMTT(30), <1>5, BothKeysAgree
<1> QED BY Zenon, <1>1, <1>2, <1>3, <1>4, <1>6, LenProperties

\* The host's own steps.
LEMMA SetupHostSteps ==
  ASSUME SetupInv, UNCHANGED clientVars,
         \/ HostProof!QtThread \/ HostProof!User \/ HostProof!Session \/ HostProof!Media
         \/ \E c \in Clients : HostProof!Worker(c)
  PROVE  SetupInv'
<1>1. HostProof!SayingInv /\ ClientInv
  BY Zenon DEF SetupInv
<1>2. (HostProof!SayingInv)'
  BY Zenon, <1>1, SeatsSuffice, HostProof!SayingSteps, HostProof!SayingWorks
<1>3. UNCHANGED <<qt, then, events, client, streamingUi, ecdh, channel, streamer, crypto, running,
                  transport, worker, sent, arrived, joins>>
  BY Zenon DEF clientVars, keyVars, mediaVars, linkVars
<1>4. ClientInv'
  BY Zenon, <1>1, <1>3, ClientStutters
<1>5. UNCHANGED hArrived /\ HostProof!Extends(hSent[player], hSent'[player])
  BY Zenon, <1>1, SetupAssumption, HostProof!HostOnlyAdds
<1>6. client' = "connected" => HostProof!Extends(arrived', hSent'[player])
  <2> HAVE client' = "connected"
  <2>1. HostProof!Extends(arrived, hSent[player])
    BY Zenon, <1>3 DEF SetupInv
  <2>2. Len(arrived) \in Nat /\ Len(hSent[player]) \in Nat
    BY Zenon, SetupShape
  <2>3. arrived' = arrived
    BY Zenon, <1>3
  <2>4. Len(arrived) <= Len(hSent'[player])
    <3>1. Len(hSent'[player]) \in Nat
      <4>1. hSent'[player] \in Seq(HostProof!HostMessages)
        BY Zenon, <1>2, SetupAssumption DEF HostProof!SayingInv
      <4> QED BY Zenon, <4>1, LenProperties
    <3> QED BY SMTT(30), <1>5, <2>1, <2>2, <3>1 DEF HostProof!Extends
  <2>5. \A i \in 1 .. Len(arrived) : i \in 1 .. Len(hSent[player])
    BY SMTT(30), <2>1, <2>2 DEF HostProof!Extends
  <2> QED BY Zenon, <1>5, <2>1, <2>3, <2>4, <2>5 DEF HostProof!Extends
<1> QED BY Zenon, <1>2, <1>3, <1>4, <1>5, <1>6 DEF SetupInv, Live, Rejoins

\* The host hears the client.
LEMMA SetupToHost ==
  ASSUME SetupInv, ToHost
  PROVE  SetupInv'
<1> DEFINE n == Len(hArrived[player]) + 1
           m == sent[n]
<1>1. HostProof!SayingInv /\ ClientInv
  BY Zenon DEF SetupInv
<1>2. n <= Len(sent) /\ Host!Arrive(player, m) /\ UNCHANGED clientVars
  BY Zenon DEF ToHost, HostOnly
<1>3. HostProof!Arrive(player, m)
  BY Zenon, <1>2, HostIsTheSame
<1>4. HostProof!InTurn(player, m)
  BY Zenon, <1>1, <1>2, SetupShape, BothKeysAgree, SetupAssumption, HostProof!HostHearsInTurn
<1>5. (HostProof!SayingInv)'
  BY Zenon, <1>1, <1>3, <1>4, SeatsSuffice, SetupAssumption, HostProof!SayingHears
<1>6. UNCHANGED <<qt, then, events, client, streamingUi, ecdh, channel, streamer, crypto, running,
                  transport, worker, sent, arrived, joins>>
  BY Zenon, <1>2 DEF clientVars, keyVars, mediaVars, linkVars
<1>7. ClientInv'
  BY Zenon, <1>1, <1>6, ClientStutters
<1>8. hArrived' = [hArrived EXCEPT ![player] = Append(hArrived[player], m)] /\ UNCHANGED hSent
  BY Zenon, <1>3 DEF HostProof!Arrive
<1>9. Len(hArrived'[player]) = n
  <2>1. hArrived'[player] = Append(hArrived[player], m)
    BY Zenon, <1>8, SetupShape, SetupAssumption
  <2>2. hArrived[player] \in {<<>>, <<"KeyExchange">>, BothKeys} /\ m \in {"KeyExchange", "SessionKeyReady"}
    <3>1. m \in {"KeyExchange", "SessionKeyReady"}
      BY Zenon, <1>4 DEF HostProof!InTurn
    <3> QED BY Zenon, <3>1, SetupShape, SetupAssumption
  <2> HIDE DEF m
  <2>3. hArrived[player] \in Seq({"KeyExchange", "SessionKeyReady"})
    <3>1. <<>> \in Seq({"KeyExchange", "SessionKeyReady"})
      OBVIOUS
    <3>2. <<"KeyExchange">> \in Seq({"KeyExchange", "SessionKeyReady"})
      OBVIOUS
    <3>3. BothKeys \in Seq({"KeyExchange", "SessionKeyReady"})
      BY DEF BothKeys
    <3> QED BY Zenon, <2>2, <3>1, <3>2, <3>3
  <2> QED BY SMTT(30), <2>1, <2>2, <2>3, AppendProperties
<1>10. joins # 0
  <2>1. n >= 1 /\ Len(sent) >= 1
    BY SMTT(30), <1>2, SetupShape
  <2>2. sent # <<>>
    BY SMTT(30), <2>1, BothKeysAgree
  <2> QED BY Zenon, <2>2 DEF SetupInv
<1> HIDE DEF n, m
<1> QED BY Zenon, <1>2, <1>5, <1>6, <1>7, <1>8, <1>9, <1>10 DEF SetupInv, Live, Rejoins

\* A sequence and the first elements of another, one element longer.
LEMMA OneMoreHeard ==
  ASSUME NEW S, NEW T, NEW s \in Seq(S), NEW t \in Seq(T), HostProof!Extends(s, t), Len(s) + 1 <= Len(t),
         t[Len(s) + 1] \in S, \A i, j \in DOMAIN t : t[i] = t[j] => i = j
  PROVE  /\ HostProof!Extends(Append(s, t[Len(s) + 1]), t)
         /\ ~Queued(s, t[Len(s) + 1])
<1> DEFINE n == Len(s)
           e == t[n + 1]
<1>1. /\ n \in Nat /\ Len(t) \in Nat /\ DOMAIN t = 1 .. Len(t) /\ DOMAIN s = 1 .. n
      /\ n <= Len(t) /\ n + 1 <= Len(t) /\ \A i \in 1 .. n : t[i] = s[i]
  BY Zenon, LenProperties DEF HostProof!Extends
<1>2. /\ Len(Append(s, e)) = n + 1 /\ Append(s, e)[n + 1] = e
      /\ \A i \in 1 .. n : Append(s, e)[i] = s[i]
  BY SMTT(30), AppendProperties
<1> HIDE DEF n
<1>3. \A i \in 1 .. n + 1 : t[i] = Append(s, e)[i]
  <2> TAKE i \in 1 .. n + 1
  <2>1. CASE i = n + 1
    BY <1>2, <2>1
  <2>2. CASE i # n + 1
    <3>1. i \in 1 .. n
      BY SMTT(30), <1>1, <2>2
    <3> QED BY Zenon, <1>1, <1>2, <3>1
  <2> QED BY Zenon, <2>1, <2>2
<1>4. \A i \in 1 .. n : s[i] # e
  <2> TAKE i \in 1 .. n
  <2>1. i \in DOMAIN t /\ n + 1 \in DOMAIN t /\ i # n + 1 /\ t[i] = s[i]
    BY SMTT(30), <1>1
  <2> QED BY Zenon, <2>1
<1> HIDE DEF e
<1>5. HostProof!Extends(Append(s, e), t)
  BY Zenon, <1>1, <1>2, <1>3 DEF HostProof!Extends
<1>6. ~Queued(s, e)
  BY Zenon, <1>1, <1>4 DEF Queued
<1> QED BY SMTT(30), <1>5, <1>6 DEF n, e

\* The client hears the host.
LEMMA SetupToClient ==
  ASSUME SetupInv, ToClient
  PROVE  SetupInv'
<1> DEFINE n == Len(arrived) + 1
           m == hSent[player][n]
<1>1. HostProof!SayingInv /\ ClientInv
  BY DEF SetupInv
<1>2. n <= Len(hSent[player]) /\ Arrive(m) /\ UNCHANGED hostSide
  BY Zenon DEF ToClient, ClientOnly
<1>3. /\ client = "connected" /\ arrived' = Append(arrived, m)
      /\ UNCHANGED <<qt, then, client, sent, joins>>
  BY Zenon, <1>2 DEF Arrive
<1>4. n \in DOMAIN hSent[player] /\ m \in {"KeyExchange", "SessionKeyReady", "StreamStart"}
  <2>1. n \in 1 .. Len(hSent[player])
    BY SMTT(30), <1>2, SetupShape
  <2> QED BY Zenon, <2>1, SetupShape, ElementOfSeq, LenProperties
<1>5. m \in Messages
  BY Zenon, <1>4 DEF Messages
<1>6. HostProof!Extends(arrived, hSent[player]) /\ \A i, j \in DOMAIN hSent[player] : hSent[player][i] = hSent[player][j] => i = j
  BY Zenon, <1>1, <1>3, HostProof!HostTellsInTurn, SetupAssumption DEF SetupInv, HostProof!AllDistinct
<1>7. HostProof!Extends(arrived', hSent[player]) /\ ~Queued(arrived, m)
  BY Zenon, <1>2, <1>3, <1>5, <1>6, SetupShape, OneMoreHeard
<1>8. m = "StreamStart" => sent = BothKeys
  <2> HAVE m = "StreamStart"
  <2>1. HostProof!Named(hSent[player], "StreamStart")
    BY Zenon, <1>4 DEF HostProof!Named
  <2>2. hArrived[player] = BothKeys
    BY Zenon, <1>1, <2>1, HostProof!HostTellsInTurn, BothKeysAgree, SetupAssumption
  <2>3. Len(sent) >= 2
    BY Zenon, <1>3, <2>2, BothKeysAgree, SetupShape DEF SetupInv, Live
  <2>4. sent # <<>> /\ sent # <<"KeyExchange">>
    BY SMTT(30), <2>3, BothKeysAgree
  <2> QED BY Zenon, <2>4, SetupShape
<1> HIDE DEF m, n
<1>9. ClientInv'
  BY Zenon, <1>1, <1>2, <1>5, <1>7, <1>8, ClientHears DEF InTurn
<1>10. UNCHANGED <<host, hEvents, hQt, streams, hStreamer, hWorker, records, hSession, hSent, hArrived>>
  BY Zenon, <1>2 DEF hostSide
<1>11. (HostProof!SayingInv)'
  BY Zenon, <1>1, <1>10, HostProof!SayingStutters
<1> QED BY Zenon, <1>3, <1>7, <1>9, <1>10, <1>11 DEF SetupInv, Live, Rejoins

\* The client's own steps, but the last of stop().
LEMMA SetupClientSteps ==
  ASSUME SetupInv, UNCHANGED hostSide, QtThread \/ OnStreamStartWatchdog \/ Worker \/ Leave \/ (joins = 0 /\ Join("lan")),
         ~FinishStop
  PROVE  SetupInv'
<1>1. HostProof!SayingInv /\ ClientInv
  BY Zenon DEF SetupInv
<1>2. QtThread \/ User \/ OnStreamStartWatchdog \/ Worker
  BY Zenon DEF User
<1>3. ClientInv'
  BY Zenon, <1>1, <1>2, ClientSteps
<1>4. UNCHANGED <<host, hEvents, hQt, streams, hStreamer, hWorker, records, hSession, hSent, hArrived>>
  BY Zenon DEF hostSide
<1>5. (HostProof!SayingInv)'
  BY Zenon, <1>1, <1>4, HostProof!SayingStutters
<1>6. /\ UNCHANGED <<joins, arrived>>
      /\ client' = client \/ (client \in {"connected", "ended"} /\ client' = "ended")
      /\ sent' = sent \/ (client = "connected" /\ Len(sent) <= Len(sent'))
  BY Zenon, <1>1, <1>2, ClientOnlyAdds
<1>7. Rejoins' => joins = 0
  <2>1. CASE joins = 0
    BY Zenon, <2>1
  <2>2. CASE joins # 0
    <3>1. ~Rejoins /\ (QtThread \/ OnStreamStartWatchdog \/ Worker \/ Leave)
      BY Zenon, <2>2 DEF SetupInv
    <3> QED BY Zenon, <1>1, <3>1, ClientStartsNoJoin
  <2> QED BY Zenon, <2>1, <2>2
<1>8. Live' => Live /\ Len(hArrived'[player]) <= Len(sent')
  <2> HAVE Live'
  <2>1. client' = client /\ Live
    BY Zenon, <1>6 DEF Live
  <2>2. Len(hArrived[player]) <= Len(sent)
    BY Zenon, <2>1 DEF SetupInv
  <2>3. Len(sent) \in 0 .. 2 /\ Len(sent') \in 0 .. 2 /\ Len(hArrived[player]) \in 0 .. 2
    <3>1. sent' \in {<<>>, <<"KeyExchange">>, BothKeys}
      BY Zenon, <1>3 DEF ClientInv, ClientTypes
    <3> QED BY SMTT(30), <3>1, SetupShape, BothKeysAgree
  <2> QED BY SMTT(30), <1>4, <1>6, <2>1, <2>2, <2>3
<1>9. joins' = 0 => client' = "none" /\ sent' = <<>> /\ hArrived'[player] = <<>>
  BY Zenon, <1>4, <1>6 DEF SetupInv
<1>10. client' = "connected" => HostProof!Extends(arrived', hSent'[player])
  BY Zenon, <1>4, <1>6 DEF SetupInv
<1> QED BY Zenon, <1>3, <1>5, <1>6, <1>7, <1>8, <1>9, <1>10 DEF SetupInv

\* The last step of stop(): a new session, of which nothing was said, or none.
LEMMA SetupFinishStop ==
  ASSUME SetupInv, UNCHANGED hostSide, FinishStop
  PROVE  SetupInv'
<1>1. HostProof!SayingInv /\ ClientInv
  BY Zenon DEF SetupInv
<1>2. ClientInv'
  BY Zenon, <1>1, ClientSteps DEF QtThread
<1>3. UNCHANGED <<host, hEvents, hQt, streams, hStreamer, hWorker, records, hSession, hSent, hArrived>>
  BY Zenon DEF hostSide
<1>4. (HostProof!SayingInv)'
  BY Zenon, <1>1, <1>3, HostProof!SayingStutters
<1>5. qt = "join" /\ qt' = "idle" /\ sent' = <<>>
  BY Zenon DEF FinishStop
<1>6. ~Rejoins'
  BY Zenon, <1>5 DEF Rejoins
<1>7. CASE then = "leave"
  <2>1. client' = "none" /\ joins' = joins
    BY Zenon, <1>7 DEF FinishStop
  <2> QED BY Zenon, <1>2, <1>3, <1>4, <1>5, <1>6, <2>1 DEF SetupInv, Live
<1>8. CASE then # "leave"
  <2>1. joins = 0 /\ hArrived[player] = <<>>
    BY Zenon, <1>5, <1>8 DEF SetupInv, Rejoins
  <2>2. joins' = joins + 1 /\ client' \in {"dialling", "undialled", "none"}
    BY Zenon, <1>8 DEF FinishStop
  <2>3. joins' = 1
    BY SMTT(30), <2>1, <2>2
  <2>4. Len(hArrived'[player]) <= Len(sent')
    BY SMTT(30), <1>3, <1>5, <2>1, BothKeysAgree
  <2> QED BY SMTT(30), <1>2, <1>3, <1>4, <1>5, <1>6, <2>2, <2>3, <2>4 DEF SetupInv
<1> QED BY Zenon, <1>7, <1>8

\* The client's session connects, or ends.
LEMMA SetupClientSession ==
  ASSUME SetupInv, UNCHANGED hostSide, Session
  PROVE  SetupInv'
<1>1. HostProof!SayingInv /\ ClientInv
  BY DEF SetupInv
<1>2. ClientInv'
  BY Zenon, <1>1, ClientSteps
<1>3. UNCHANGED <<host, hEvents, hQt, streams, hStreamer, hWorker, records, hSession, hSent, hArrived>>
  BY DEF hostSide
<1>4. (HostProof!SayingInv)'
  BY SMTT(30), <1>1, <1>3, HostProof!SayingStutters
<1>5. /\ UNCHANGED <<qt, then, sent, arrived, joins>> /\ Live
      /\ client' = "ended" \/ (client = "dialling" /\ client' = "connected")
  BY Zenon DEF Session, SessionConnects, SessionEnds, Live
<1>6. client' = "connected" => HostProof!Extends(arrived', hSent'[player])
  <2> HAVE client' = "connected"
  <2>1. arrived' = <<>>
    BY Zenon, <1>1, <1>5, ClientTellsInTurn
  <2>2. Len(hSent[player]) \in Nat
    BY Zenon, SetupShape
  <2> QED BY SMTT(30), <1>3, <2>1, <2>2, BothKeysAgree DEF HostProof!Extends
<1>7. joins # 0
  BY Zenon, <1>5 DEF SetupInv, Live
<1> QED BY Zenon, <1>2, <1>3, <1>4, <1>5, <1>6, <1>7 DEF SetupInv, Live, Rejoins

\* Every step of the set-up keeps its invariant.
LEMMA SetupSteps ==
  ASSUME SetupInv, SetupNext
  PROVE  SetupInv'
<1>1. CASE UNCHANGED clientVars /\ \/ Host!QtThread \/ Host!Worker(player) \/ Host!Media \/ Host!StopHosting
                                   \/ Host!Kick(player) \/ Host!SessionConnects(player) \/ Host!SessionEnds(player)
  <2>1. \/ HostProof!QtThread \/ HostProof!Worker(player) \/ HostProof!Media \/ HostProof!StopHosting
        \/ HostProof!Kick(player) \/ HostProof!SessionConnects(player) \/ HostProof!SessionEnds(player)
    BY Zenon, <1>1, HostIsTheSame
  <2>2. \/ HostProof!QtThread \/ HostProof!User \/ HostProof!Session \/ HostProof!Media
        \/ \E c \in Clients : HostProof!Worker(c)
    BY Zenon, <2>1, SetupAssumption DEF HostProof!User, HostProof!Session
  <2> QED BY Zenon, <1>1, <2>2, SetupHostSteps
<1>2. CASE UNCHANGED hostSide /\ (QtThread \/ OnStreamStartWatchdog \/ Worker \/ Leave \/ (joins = 0 /\ Join("lan")))
  BY Zenon, <1>2, SetupClientSteps, SetupFinishStop
<1>3. CASE UNCHANGED hostSide /\ (SessionConnects \/ SessionEnds)
  BY Zenon, <1>3, SetupClientSession DEF Session
<1>4. CASE \/ HostConnects \/ HostEnds \/ HostQt \/ HostWorker \/ HostOnly(Host!Media) \/ HostOnly(Host!StopHosting)
            \/ HostOnly(Host!Kick(player))
  BY Zenon, <1>1, <1>4 DEF HostOnly, HostConnects, HostEnds, HostQt, HostWorker
<1>5. CASE \/ ClientConnects \/ ClientEnds
  BY Zenon, <1>3, <1>5 DEF ClientOnly, ClientConnects, ClientEnds
<1>6. CASE \/ ClientQt \/ ClientWorker \/ ClientWatchdog \/ ClientOnly(Leave) \/ (joins = 0 /\ ClientOnly(Join("lan")))
  BY Zenon, <1>2, <1>6 DEF ClientOnly, ClientQt, ClientWorker, ClientWatchdog
<1> QED BY Zenon, <1>4, <1>5, <1>6, SetupToHost, SetupToClient DEF SetupNext
===============================================================================
