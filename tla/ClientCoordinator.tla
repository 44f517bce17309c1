-------------------------- MODULE ClientCoordinator --------------------------
(***************************************************************************)
(* The client's coordinator with its streamer.  The coordinator lives on   *)
(* the Qt thread and handles the session's events from a queue; a worker   *)
(* thread starts the streamer, whose start and stop exclude each other by  *)
(* stopMutex_ except for stop's first test of running_.  A step of the Qt  *)
(* thread ends where it can block: at the mutex and at the worker's join.  *)
(* Events of a session that was left stay in the queue.  The session is    *)
(* taken to pass every message up; ControlChannel shows that it refuses a  *)
(* SESSION_KEY_READY as both coordinators encode it.                       *)
(***************************************************************************)
EXTENDS Naturals, Sequences, Functions

CONSTANTS MaxJoins,                    \* how often the user joins
          MaxEvents                    \* events in the Qt queue at a time

VARIABLES qt,                          \* where the Qt thread is
          then,                        \* what the stop in progress is for
          events,                      \* queued invocations
          client,                      \* client_ and its session
          streamingUi,                 \* ClientWindow shows the stream, not the join form
          status,                      \* ui_.status
          told,                        \* errorOccurred was emitted in this session
          ecdh, channel, keysReady,    \* ecdh_, channel_ and keysReady_
          watchdog,                    \* streamStartWatchdog_ is running
          streamer,                    \* streamer_ is set
          crypto,                      \* the channel it was made with
          running, transport,          \* the streamer's running_ and transport_
          worker,                      \* streamThread_
          sent, arrived,               \* session messages, out and in
          joins                        \* how often the user has joined

keyVars == <<ecdh, channel, keysReady>>
mediaVars == <<streamer, crypto, running, transport, worker>>
linkVars == <<client, sent, arrived, joins>>
clientVars == <<qt, then, events, streamingUi, status, told, watchdog,
                keyVars, mediaVars, linkVars>>

Messages == {"KeyExchange", "SessionKeyReady", "StreamStart", "StreamStop"}
Events == Messages \cup {"Connected", "Disconnected", "Closed", "Streaming", "Failed"}
Stopping == {"quiet", "stop", "join"}

ClientTypeOK ==
  /\ qt \in Stopping \cup {"idle"} /\ then \in {"leave", "lan", "internet"}
  /\ events \in Seq(Events) /\ Len(events) <= MaxEvents + 3
  /\ client \in {"none", "undialled", "dialling", "connected", "ended"}
  /\ status \in {"", "Securing", "Secure", "Waiting", "Streaming", "Stopped", "Disconnected", "Never"}
  /\ {streamingUi, told, ecdh, channel, keysReady, watchdog, streamer, crypto, running, transport}
       \subseteq BOOLEAN
  /\ worker \in {"none", "spawned", "starting", "started", "exited"}
  /\ sent \in Seq({"KeyExchange", "SessionKeyReady"}) /\ Len(sent) <= 2
  /\ arrived \in Seq(Messages) /\ Len(arrived) <= 4
  /\ joins \in 0 .. MaxJoins

ClientInit ==
  /\ qt = "idle" /\ then = "leave" /\ events = <<>> /\ client = "none"
  /\ streamingUi = FALSE /\ status = "" /\ told = FALSE
  /\ ecdh = FALSE /\ channel = FALSE /\ keysReady = FALSE /\ watchdog = FALSE
  /\ streamer = FALSE /\ crypto = FALSE /\ running = FALSE /\ transport = FALSE
  /\ worker = "none" /\ sent = <<>> /\ arrived = <<>> /\ joins = 0

-------------------------------------------------------------------------------
(* Stopping *)

\* ClientStreamer::stop up to its lock: nothing when running_ is not set.
StreamerStop(busy, quiet) ==
  /\ qt' = IF streamer /\ running THEN busy ELSE quiet
  /\ running' = (running /\ ~streamer)

\* stop(): the timer and the streamer first.
BeginStop(why) ==
  /\ watchdog' = FALSE /\ then' = why
  /\ StreamerStop("stop", "join")

\* The rest of ClientStreamer::stop, under the mutex that start holds.
StreamerTearsDown ==
  /\ qt \in {"quiet", "stop"} /\ worker # "starting"
  /\ transport' = FALSE
  /\ qt' = IF qt = "stop" THEN "join" ELSE "idle"
  /\ UNCHANGED <<then, events, streamingUi, status, told, watchdog, keyVars,
                 streamer, crypto, running, worker, linkVars>>

\* ClientSession::stop reports onDisconnected when the session was running.
Closing == IF client \in {"dialling", "connected"} THEN <<"Closed">> ELSE <<>>

WorkerJoined == worker \in {"none", "exited"}

KeysForgotten == ecdh' = FALSE /\ channel' = FALSE /\ keysReady' = FALSE

\* stop() from the join on, and what its caller does next: leave() shows the
\* join form; startLan dials; startInternet, once the server has answered, asks
\* a ClientApp without a session to dial the relay, which does nothing.  The
\* streamer's destructor stops a stream that stop() found not yet running.
FinishStop ==
  /\ qt = "join" /\ WorkerJoined
  /\ qt' = "idle" /\ worker' = IF worker = "exited" THEN "none" ELSE worker
  /\ streamer' = FALSE /\ running' = FALSE /\ transport' = FALSE /\ crypto' = FALSE
  /\ KeysForgotten
  /\ events' = events \o Closing
  /\ status' = "" /\ sent' = <<>> /\ arrived' = <<>>
  /\ \/ then = "leave" /\ client' = "none" /\ streamingUi' = FALSE /\ UNCHANGED <<told, joins>>
     \/ then = "lan" /\ client' = "dialling" /\ streamingUi' = TRUE
        /\ told' = FALSE /\ joins' = joins + 1
     \/ then = "internet" /\ told' = FALSE /\ joins' = joins + 1
        /\ \/ client' = "undialled" /\ streamingUi' = TRUE
           \/ client' = "none" /\ UNCHANGED streamingUi
  /\ UNCHANGED <<then, watchdog>>

-------------------------------------------------------------------------------
(* The user and the timer *)

\* The user joins from the form, which the event loop shows and serves after
\* it has run what was queued before.
Join(mode) ==
  /\ qt = "idle" /\ ~streamingUi /\ events = <<>> /\ joins < MaxJoins
  /\ BeginStop(mode)
  /\ UNCHANGED <<events, streamingUi, status, told, keyVars,
                 streamer, crypto, transport, worker, linkVars>>

Leave ==
  /\ qt = "idle" /\ streamingUi
  /\ BeginStop("leave")
  /\ UNCHANGED <<events, streamingUi, status, told, keyVars,
                 streamer, crypto, transport, worker, linkVars>>

OnStreamStartWatchdog ==
  /\ qt = "idle" /\ watchdog
  /\ \/ /\ streamer /\ running /\ watchdog' = FALSE
        /\ UNCHANGED <<qt, then, running, status, told>>
     \/ /\ ~(streamer /\ running)
        /\ told' = TRUE /\ status' = "Never"
        /\ BeginStop("leave")
  /\ UNCHANGED <<events, streamingUi, keyVars, streamer, crypto, transport, worker, linkVars>>

-------------------------------------------------------------------------------
(* The session's io thread *)

SessionConnects ==
  /\ client = "dialling" /\ Len(events) < MaxEvents
  /\ client' = "connected" /\ events' = Append(events, "Connected")
  /\ UNCHANGED <<qt, then, streamingUi, status, told, watchdog, keyVars, mediaVars,
                 sent, arrived, joins>>

SessionEnds ==
  /\ client \in {"dialling", "connected"} /\ Len(events) < MaxEvents
  /\ client' = "ended" /\ events' = Append(events, "Disconnected")
  /\ UNCHANGED <<qt, then, streamingUi, status, told, watchdog, keyVars, mediaVars,
                 sent, arrived, joins>>

Arrive(m) ==
  /\ client = "connected" /\ Len(events) < MaxEvents
  /\ arrived' = Append(arrived, m) /\ events' = Append(events, m)
  /\ UNCHANGED <<qt, then, streamingUi, status, told, watchdog, keyVars, mediaVars,
                 client, sent, joins>>

\* What a host sends: its key, then the confirmation of ours, then the stream.
HostSays(m) ==
  LET said == Range(arrived)
  IN  /\ m \notin said
      /\ CASE m = "KeyExchange" -> TRUE
           [] m = "SessionKeyReady" -> "KeyExchange" \in said /\ "KeyExchange" \in Range(sent)
           [] m = "StreamStart" -> "SessionKeyReady" \in said /\ "SessionKeyReady" \in Range(sent)
           [] OTHER -> "StreamStart" \in said

-------------------------------------------------------------------------------
(* The queued events *)

Handling(e) == qt = "idle" /\ events # <<>> /\ Head(events) = e
Done == events' = Tail(events)

\* client_->disconnect(), which blocks until the session's thread has ended.
Disconnect == client' = "ended" /\ events' = Tail(events) \o Closing

\* beginKeyExchange, which can fail for want of cryptography.
OnConnected ==
  /\ Handling("Connected")
  /\ status' = "Securing"
  /\ IF ecdh \/ client # "connected"
     THEN Done /\ UNCHANGED <<ecdh, sent, client, told>>
     ELSE \/ ecdh' = TRUE /\ sent' = Append(sent, "KeyExchange") /\ Done
             /\ UNCHANGED <<client, told>>
          \/ told' = TRUE /\ Disconnect /\ UNCHANGED <<ecdh, sent>>
  /\ UNCHANGED <<qt, then, streamingUi, watchdog, channel, keysReady, mediaVars, arrived, joins>>

\* onState(Disconnected) and onDisconnected, queued one after the other.
OnDisconnected ==
  /\ Handling("Disconnected") /\ Done
  /\ status' = "Disconnected" /\ streamingUi' = FALSE
  /\ StreamerStop("quiet", "idle")
  /\ UNCHANGED <<then, told, watchdog, keyVars, streamer, crypto, transport, worker, linkVars>>

OnClosed ==
  /\ Handling("Closed") /\ Done
  /\ streamingUi' = FALSE
  /\ UNCHANGED <<qt, then, status, told, watchdog, keyVars, mediaVars, linkVars>>

\* Fault: the keys are confirmed and the channel is not kept.
OnKeyExchangeUnkept ==
  /\ Handling("KeyExchange") /\ Done
  /\ sent' = IF ecdh /\ client = "connected" THEN Append(sent, "SessionKeyReady") ELSE sent
  /\ status' = IF ecdh THEN "Secure" ELSE status
  /\ UNCHANGED <<qt, then, streamingUi, told, watchdog, keyVars, mediaVars, client, arrived, joins>>

\* Without our own key the host's is dropped.
OnKeyExchange ==
  /\ Handling("KeyExchange")
  /\ IF ~ecdh
     THEN Done /\ UNCHANGED <<channel, sent, status, client, told>>
     ELSE /\ channel' = TRUE
          /\ \/ /\ sent' = IF client = "connected" THEN Append(sent, "SessionKeyReady") ELSE sent
                /\ status' = "Secure" /\ Done /\ UNCHANGED <<client, told>>
             \/ /\ told' = TRUE /\ Disconnect /\ UNCHANGED <<sent, status>>
  /\ UNCHANGED <<qt, then, streamingUi, watchdog, ecdh, keysReady, mediaVars, arrived, joins>>

OnSessionKeyReady ==
  /\ Handling("SessionKeyReady") /\ Done
  /\ keysReady' = TRUE /\ status' = "Waiting" /\ watchdog' = TRUE
  /\ UNCHANGED <<qt, then, streamingUi, told, ecdh, channel, mediaVars, linkVars>>

\* startStream: a streamer that was made before, stopped or not, stays.
OnStreamStart ==
  /\ Handling("StreamStart") /\ Done
  /\ keysReady' = TRUE /\ watchdog' = FALSE
  /\ IF streamer THEN UNCHANGED <<streamer, crypto, worker>>
     ELSE streamer' = TRUE /\ crypto' = channel /\ worker' = "spawned"
  /\ UNCHANGED <<qt, then, streamingUi, status, told, ecdh, channel, running, transport, linkVars>>

OnStreamStop ==
  /\ Handling("StreamStop") /\ Done
  /\ status' = "Stopped"
  /\ StreamerStop("quiet", "idle")
  /\ UNCHANGED <<then, streamingUi, told, watchdog, keyVars,
                 streamer, crypto, transport, worker, linkVars>>

\* The worker's closing invocations.  No InputSender exists to be started.
OnStreaming ==
  /\ Handling("Streaming") /\ Done
  /\ status' = "Streaming" /\ watchdog' = FALSE
  /\ UNCHANGED <<qt, then, streamingUi, told, keyVars, mediaVars, linkVars>>

OnFailed ==
  /\ Handling("Failed") /\ Done
  /\ told' = TRUE
  /\ UNCHANGED <<qt, then, streamingUi, status, watchdog, keyVars, mediaVars, linkVars>>

-------------------------------------------------------------------------------
(* The worker: ClientStreamer::start *)

WorkerRest == <<qt, then, streamingUi, status, told, watchdog, keyVars, streamer, crypto, linkVars>>

\* The lock is free unless a stop is tearing down, which is one step here.
WorkerStarts ==
  /\ worker = "spawned"
  /\ worker' = "starting" /\ running' = TRUE
  /\ UNCHANGED <<events, transport, WorkerRest>>

\* Bind, peer, decoder; the decode thread runs until running_ is cleared.
WorkerSucceeds ==
  /\ worker = "starting"
  /\ worker' = "started" /\ transport' = TRUE
  /\ UNCHANGED <<events, running, WorkerRest>>

WorkerFails ==
  /\ worker = "starting"
  /\ worker' = "exited" /\ running' = FALSE /\ events' = Append(events, "Failed")
  /\ UNCHANGED <<transport, WorkerRest>>

WorkerReports ==
  /\ worker = "started"
  /\ worker' = "exited" /\ events' = Append(events, "Streaming")
  /\ UNCHANGED <<running, transport, WorkerRest>>

Worker == WorkerStarts \/ WorkerSucceeds \/ WorkerFails \/ WorkerReports

-------------------------------------------------------------------------------
HandleEvent ==
  \/ OnConnected \/ OnDisconnected \/ OnClosed \/ OnKeyExchange \/ OnSessionKeyReady
  \/ OnStreamStart \/ OnStreamStop \/ OnStreaming \/ OnFailed

QtThread == HandleEvent \/ StreamerTearsDown \/ FinishStop

User == (\E mode \in {"lan", "internet"} : Join(mode)) \/ Leave

Session == SessionConnects \/ SessionEnds

ClientNext ==
  \/ QtThread \/ User \/ OnStreamStartWatchdog \/ Worker \/ Session
  \/ \E m \in Messages : HostSays(m) /\ Arrive(m)

\* The event loop, the timer and the worker's thread run; the user, the
\* network and the host owe nothing.
ClientFairness == WF_clientVars(QtThread) /\ WF_clientVars(OnStreamStartWatchdog) /\ WF_clientVars(Worker)

ClientSpec == ClientInit /\ [][ClientNext]_clientVars /\ ClientFairness

-------------------------------------------------------------------------------
\* Once stop() is over, whatever it interrupted, nothing of the stream is left:
\* no worker, no transport, no decode loop.
NothingOutlivesStop ==
  ~streamer => ~running /\ ~transport /\ worker \in {"none", "exited"}

\* Our confirmation of the keys follows our own key, and is given once: the
\* host, which drops a key that comes out of turn, can finish.
ConfirmsInOrder == sent \in {<<>>, <<"KeyExchange">>, <<"KeyExchange", "SessionKeyReady">>}

\* Who waits for the stream does not wait for ever without a hint.
WaitingEnds == status = "Waiting" ~> (status # "Waiting" \/ told)

-------------------------------------------------------------------------------
(* Statements of comments, tests and documents that the code does not keep *)

\* "installed before bind" (no plaintext window): a stream has the session's keys.
StreamIsKeyed == transport => crypto

\* A disconnected session's stream comes to an end: stop "waits for an
\* in-flight start() to finish".
StreamEndsWithSession == client = "ended" /\ transport ~> ~transport

\* "Dial the player's relay pipe": a player the server let in gets a connection,
\* an error or a disconnection, or leaves.
RelayIsDialled == client = "undialled" ~> client # "undialled" \/ told
===============================================================================
