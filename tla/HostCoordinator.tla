--------------------------- MODULE HostCoordinator ---------------------------
(***************************************************************************)
(* The host's coordinator: the streams_ map with the player slots, the key *)
(* exchange, the workers that start streamers, the injector's records and  *)
(* the rumble callback of the ViGEm thread.  The session's io thread and   *)
(* the workers reach the coordinator through the Qt event queue.  A step   *)
(* of the Qt thread ends where another thread can get in: at a streamer's  *)
(* stop, at the injector's mutex_, at a worker's join.  A stop that meets  *)
(* a start in progress waits for it here; HostStreamer looks closer.  The  *)
(* session is taken to pass every message up; ControlChannel shows that it *)
(* refuses a SESSION_KEY_READY as both coordinators encode it.             *)
(***************************************************************************)
EXTENDS Naturals, Sequences, FiniteSets, Functions

CONSTANTS Clients,                     \* client ids
          Slots,                       \* player indexes 0 .. Slots - 1
          MaxClients,                  \* the session's params_.maxClients
          MaxEvents                    \* events in the Qt queue at a time

VARIABLES host,                        \* host_ is set
          session,                     \* the io thread's view of each client
          events,                      \* queued invocations
          qt,                          \* where the Qt thread is, and with which client
          streams,                     \* streams_
          streamer,                    \* each client's streamer object
          worker,                      \* each client's stream-start thread
          records,                     \* players the injector has a record of
          rumbleTo, rumble,            \* the rumble sender's client; a callback under way
          sent, arrived,               \* session messages of each client, out and in
          crashed                      \* the event in which a null host_ was dereferenced

streamVars == <<streams, streamer, worker>>
linkVars == <<session, sent, arrived>>
rumbleVars == <<rumbleTo, rumble>>
hostVars == <<host, events, qt, records, crashed, streamVars, linkVars, rumbleVars>>

Nobody == "nobody"
Messages == {"KeyExchange", "SessionKeyReady"}
Kinds == Messages \cup {"Connected", "Disconnected", "Permissions", "Started", "StartFailed", "Fatal"}
Stream == [player : 0 .. Slots - 1, channel : BOOLEAN, ready : BOOLEAN,
           made : BOOLEAN, routed : BOOLEAN, torn : BOOLEAN]
Idle == [at |-> "idle", client |-> Nobody]

HostTypeOK ==
  /\ host \in BOOLEAN /\ crashed \in {"", "Connected", "StartFailed"}
  /\ session \in [Clients -> {"absent", "connected", "kicked", "gone"}]
  /\ \A i \in DOMAIN events : events[i] \in [kind : Kinds, client : Clients]
  /\ qt \in [at : {"idle", "stopped", "forgot", "fatal", "joining"}, client : Clients \cup {Nobody}]
  /\ DOMAIN streams \subseteq Clients /\ \A c \in DOMAIN streams : streams[c] \in Stream
  /\ streamer \in [Clients -> {"none", "made", "running", "dead", "stopped"}]
  /\ worker \in [Clients -> {"none", "spawned", "starting", "started", "exited"}]
  /\ records \subseteq 0 .. Slots - 1
  /\ rumbleTo \in Clients \cup {Nobody} /\ rumble \in Clients \cup {Nobody}
  /\ \A c \in Clients : /\ sent[c] \in Seq(Messages \cup {"StreamStart"}) /\ Len(sent[c]) <= 3
                        /\ arrived[c] \in {<<>>, <<"KeyExchange">>, <<"KeyExchange", "SessionKeyReady">>}

HostInit ==
  /\ host = TRUE /\ events = <<>> /\ qt = Idle /\ crashed = ""
  /\ session = [c \in Clients |-> "absent"]
  /\ streams = [c \in {} |-> 0]
  /\ streamer = [c \in Clients |-> "none"] /\ worker = [c \in Clients |-> "none"]
  /\ records = {} /\ rumbleTo = Nobody /\ rumble = Nobody
  /\ sent = [c \in Clients |-> <<>>] /\ arrived = [c \in Clients |-> <<>>]

-------------------------------------------------------------------------------
(* The session's io thread *)

Event(k, c) == [kind |-> k, client |-> c]
Post(k, c) == events' = Append(events, Event(k, c))
Room == Len(events) < MaxEvents
Present(c) == session[c] \in {"connected", "kicked"}

\* A client becomes Connected, and the permissions follow at once.
SessionConnects(c) ==
  /\ host /\ Room /\ session[c] = "absent"
  /\ Cardinality({d \in Clients : Present(d)}) < MaxClients
  /\ session' = [session EXCEPT ![c] = "connected"]
  /\ events' = events \o <<Event("Connected", c), Event("Permissions", c)>>
  /\ UNCHANGED <<host, qt, records, crashed, streamVars, sent, arrived, rumbleVars>>

\* A client goes: it left, its link broke, or a kick has reached the session.
SessionEnds(c) ==
  /\ Present(c) /\ Room
  /\ session' = [session EXCEPT ![c] = "gone"]
  /\ Post("Disconnected", c)
  /\ UNCHANGED <<host, qt, records, crashed, streamVars, sent, arrived, rumbleVars>>

Arrive(c, m) ==
  /\ Present(c) /\ Room
  /\ arrived' = [arrived EXCEPT ![c] = Append(@, m)]
  /\ Post(m, c)
  /\ UNCHANGED <<host, qt, records, crashed, streamVars, session, sent, rumbleVars>>

\* What a client sends: its key once it is connected, and the confirmation of
\* ours once it has it.  No client of this program sends STREAM_STOP or
\* KEYFRAME_REQUEST over the session, and their cases are left out.
ClientSays(c, m) ==
  /\ \/ m = "KeyExchange" /\ arrived[c] = <<>>
     \/ m = "SessionKeyReady" /\ arrived[c] = <<"KeyExchange">> /\ sent[c] # <<>>

\* The host turns a player's input on or off.
InputToggled(c) ==
  /\ Present(c) /\ Room /\ Event("Permissions", c) \notin Range(events)
  /\ Post("Permissions", c)
  /\ UNCHANGED <<host, qt, records, crashed, streamVars, linkVars, rumbleVars>>

-------------------------------------------------------------------------------
(* The Qt thread *)

Handling(k, c) == qt = Idle /\ events # <<>> /\ Head(events) = Event(k, c)
Done == events' = Tail(events)

\* sendAppMessage posts to the session, which knows whether the client is there.
Send(c, m) ==
  sent' = IF Present(c) THEN [sent EXCEPT ![c] = Append(@, m)] ELSE sent

\* host_->kick: the io thread drops the client and reports it later.
KickSession(c) ==
  session' = [session EXCEPT ![c] = IF Present(c) THEN "kicked" ELSE @]

Used == {streams[c].player : c \in DOMAIN streams}

\* Fault: the slot of the number of streams, whoever left in between.
AssignPlayerIndexByCount ==
  IF Cardinality(DOMAIN streams) < Slots THEN Cardinality(DOMAIN streams) ELSE Slots - 1

\* Fault: slots counted from one.
AssignPlayerIndexFromOne == Cardinality(DOMAIN streams) + 1

\* The first free slot; the last one when none is free.
AssignPlayerIndex ==
  IF \E i \in 0 .. Slots - 1 : i \notin Used
  THEN CHOOSE i \in 0 .. Slots - 1 : i \notin Used /\ \A j \in 0 .. i - 1 : j \in Used
  ELSE Slots - 1

\* Connected: beginKeyExchange.  Key generation may fail.  host_ is not tested.
OnConnected(c) ==
  /\ Handling("Connected", c)
  /\ IF c \in DOMAIN streams
     THEN Done /\ UNCHANGED <<streams, sent, session, crashed>>
     ELSE IF ~host THEN crashed' = "Connected" /\ Done /\ UNCHANGED <<streams, sent, session>>
     ELSE /\ Done
          /\ \/ /\ streams' = [d \in DOMAIN streams \cup {c} |->
                     IF d = c THEN [player |-> AssignPlayerIndex, channel |-> FALSE,
                                    ready |-> FALSE, made |-> FALSE,
                                    routed |-> FALSE, torn |-> FALSE]
                     ELSE streams[d]]
                /\ Send(c, "KeyExchange") /\ UNCHANGED session
             \/ KickSession(c) /\ UNCHANGED <<streams, sent>>
          /\ UNCHANGED crashed
  /\ UNCHANGED <<host, qt, streamer, worker, records, arrived, rumbleVars>>

\* The injector takes the player's permissions; the rumble sender follows
\* whoever had the permission event last.
OnPermissions(c) ==
  /\ Handling("Permissions", c) /\ rumble = Nobody /\ Done
  /\ records' = IF c \in DOMAIN streams THEN records \cup {streams[c].player} ELSE records
  /\ rumbleTo' = IF c \in DOMAIN streams /\ streams[c].made THEN c ELSE rumbleTo
  /\ UNCHANGED <<host, qt, crashed, streamVars, linkVars, rumble>>

\* Fault: the test of keysReady is the wrong way round.
OnKeyExchangeInverted(c) ==
  /\ Handling("KeyExchange", c) /\ Done
  /\ UNCHANGED <<host, qt, records, crashed, streamVars, linkVars, rumbleVars>>

\* finish() may refuse the client's key.
OnKeyExchange(c) ==
  /\ Handling("KeyExchange", c) /\ Done
  /\ IF c \notin DOMAIN streams \/ streams[c].ready
     THEN UNCHANGED <<streams, sent, session>>
     ELSE /\ streams' = [streams EXCEPT ![c].channel = TRUE]
          /\ \/ Send(c, "SessionKeyReady") /\ UNCHANGED session
             \/ KickSession(c) /\ UNCHANGED sent
  /\ UNCHANGED <<host, qt, records, crashed, streamer, worker, arrived, rumbleVars>>

\* startStreamFor: a streamer and its worker.
OnSessionKeyReady(c) ==
  /\ Handling("SessionKeyReady", c) /\ Done
  /\ IF c \notin DOMAIN streams \/ ~streams[c].channel THEN UNCHANGED streamVars
     ELSE /\ streams' = [streams EXCEPT ![c].ready = TRUE, ![c].made = TRUE]
          /\ streamer' = [streamer EXCEPT ![c] = "made"]
          /\ worker' = [worker EXCEPT ![c] = "spawned"]
  /\ UNCHANGED <<host, qt, records, crashed, linkVars, rumbleVars>>

\* The worker's closing invocations: input is routed to the injector, or the
\* player is kicked, by a host_ that is not tested.
OnStarted(c) ==
  /\ Handling("Started", c) /\ Done
  /\ streams' = IF c \in DOMAIN streams THEN [streams EXCEPT ![c].routed = TRUE] ELSE streams
  /\ UNCHANGED <<host, qt, records, crashed, streamer, worker, linkVars, rumbleVars>>

OnStartFailed(c) ==
  /\ Handling("StartFailed", c) /\ Done
  /\ IF ~host THEN crashed' = "StartFailed" /\ UNCHANGED session
     ELSE KickSession(c) /\ UNCHANGED crashed
  /\ UNCHANGED <<host, qt, records, streamVars, sent, arrived, rumbleVars>>

\* streamer->stop(): without effect on a start that has not begun.
Stopped(c) == IF streamer[c] \in {"running", "dead"} THEN "stopped" ELSE streamer[c]

\* teardownClient, first call: the stop joins the streamer's threads.
TearDown(c) ==
  /\ IF c \notin DOMAIN streams THEN UNCHANGED <<qt, streamer>>
     ELSE /\ worker[c] # "starting"
          /\ streamer' = [streamer EXCEPT ![c] = Stopped(c)]
          /\ qt' = [at |-> "stopped", client |-> c]
  /\ UNCHANGED <<host, records, crashed, streams, worker, sent, arrived, rumbleVars>>

OnDisconnected(c) ==
  /\ Handling("Disconnected", c) /\ Done
  /\ TearDown(c) /\ UNCHANGED session

\* The host presses Kick: teardownClient, then the session is told.
Kick(c) ==
  /\ qt = Idle /\ host /\ session[c] = "connected"
  /\ TearDown(c) /\ KickSession(c) /\ UNCHANGED events

\* A streamer that stopped itself is stopped; its entry in the map stays.
OnFatal(c) ==
  /\ Handling("Fatal", c) /\ Done
  /\ IF c \in DOMAIN streams /\ streamer[c] = "dead"
     THEN /\ streamer' = [streamer EXCEPT ![c] = "stopped"]
          /\ qt' = [at |-> "fatal", client |-> c]
     ELSE UNCHANGED <<qt, streamer>>
  /\ UNCHANGED <<host, records, crashed, streams, worker, linkVars, rumbleVars>>

\* injector_.clientDisconnected, which needs the injector's mutex.
Forget ==
  /\ qt.at \in {"stopped", "fatal"} /\ rumble = Nobody
  /\ records' = records \ {streams[qt.client].player}
  /\ IF qt.at = "stopped" THEN qt' = [qt EXCEPT !.at = "forgot"] /\ UNCHANGED streams
     ELSE qt' = Idle /\ streams' = [streams EXCEPT ![qt.client].torn = TRUE]
  /\ UNCHANGED <<host, events, crashed, streamer, worker, linkVars, rumbleVars>>

\* Without a worker the map held the last share of the streamer, and its
\* destructor stops it.
AfterErase(c) == IF worker[c] = "exited" THEN Stopped(c) ELSE streamer[c]

\* streams_.erase.
Erase ==
  /\ qt.at = "forgot" /\ qt' = Idle
  /\ streams' = [c \in DOMAIN streams \ {qt.client} |-> streams[c]]
  /\ streamer' = [streamer EXCEPT ![qt.client] = AfterErase(qt.client)]
  /\ UNCHANGED <<host, events, records, crashed, worker, linkVars, rumbleVars>>

\* stop(): every streamer is stopped and its player forgotten, ...
StopHosting ==
  /\ qt = Idle /\ host /\ rumble = Nobody
  /\ \A c \in DOMAIN streams : worker[c] # "starting"
  /\ streamer' = [c \in Clients |-> IF c \in DOMAIN streams THEN Stopped(c) ELSE streamer[c]]
  /\ records' = records \ Used
  /\ qt' = [at |-> "joining", client |-> Nobody]
  /\ UNCHANGED <<host, events, crashed, streams, worker, linkVars, rumbleVars>>

AllJoined == \A c \in Clients : worker[c] \in {"none", "exited"}

\* ... the workers are joined, and the map and the session go.  A streamer
\* that began after its stop is stopped by its destructor.
FinishStop ==
  /\ qt.at = "joining" /\ AllJoined
  /\ streams' = [c \in {} |-> 0] /\ host' = FALSE /\ qt' = Idle
  /\ streamer' = [c \in Clients |-> IF c \in DOMAIN streams THEN Stopped(c) ELSE streamer[c]]
  /\ session' = [c \in Clients |-> IF Present(c) THEN "gone" ELSE session[c]]
  /\ UNCHANGED <<events, records, crashed, worker, sent, arrived, rumbleVars>>

-------------------------------------------------------------------------------
(* Workers, streamers and the ViGEm thread *)

WorkerStarts(c) ==
  /\ worker[c] = "spawned"
  /\ worker' = [worker EXCEPT ![c] = "starting"]
  /\ UNCHANGED <<host, events, qt, records, crashed, streams, streamer, linkVars, rumbleVars>>

\* start() announces the stream with STREAM_START.
WorkerSucceeds(c) ==
  /\ worker[c] = "starting"
  /\ worker' = [worker EXCEPT ![c] = "started"]
  /\ streamer' = [streamer EXCEPT ![c] = "running"]
  /\ Send(c, "StreamStart")
  /\ UNCHANGED <<host, events, qt, records, crashed, streams, session, arrived, rumbleVars>>

WorkerFails(c) ==
  /\ worker[c] = "starting"
  /\ worker' = [worker EXCEPT ![c] = "exited"]
  /\ Post("StartFailed", c)
  /\ UNCHANGED <<host, qt, records, crashed, streams, streamer, linkVars, rumbleVars>>

\* With the worker its share of the streamer goes: the destructor stops one
\* that the map does not hold any more.
AfterWorker(c) == IF c \in DOMAIN streams THEN streamer[c] ELSE Stopped(c)

WorkerExits(c) ==
  /\ worker[c] = "started"
  /\ worker' = [worker EXCEPT ![c] = "exited"]
  /\ streamer' = [streamer EXCEPT ![c] = AfterWorker(c)]
  /\ Post("Started", c)
  /\ UNCHANGED <<host, qt, records, crashed, streams, linkVars, rumbleVars>>

\* The capture thread gives up and reports it.
StreamerDies(c) ==
  /\ streamer[c] = "running"
  /\ streamer' = [streamer EXCEPT ![c] = "dead"]
  /\ Post("Fatal", c)
  /\ UNCHANGED <<host, qt, records, crashed, streams, worker, linkVars, rumbleVars>>

\* An input datagram on the io thread of a running streamer that has its
\* handler: the player was captured by value.
ApplyInput(c) ==
  /\ streamer[c] = "running" /\ c \in DOMAIN streams /\ streams[c].routed
  /\ rumble = Nobody
  /\ records' = records \cup {streams[c].player}
  /\ UNCHANGED <<host, events, qt, crashed, streamVars, linkVars, rumbleVars>>

\* The rumble callback, under the injector's mutex: it looks the client up in
\* streams_, then uses what it found.
RumbleFinds(c) ==
  /\ rumble = Nobody /\ rumbleTo = c /\ c \in DOMAIN streams /\ records # {}
  /\ rumble' = c
  /\ UNCHANGED <<host, events, qt, records, crashed, streamVars, linkVars, rumbleTo>>

RumbleSends ==
  /\ rumble # Nobody /\ rumble' = Nobody
  /\ UNCHANGED <<host, events, qt, records, crashed, streamVars, linkVars, rumbleTo>>

-------------------------------------------------------------------------------
HandleEvent(c) ==
  \/ OnConnected(c) \/ OnPermissions(c) \/ OnKeyExchange(c) \/ OnSessionKeyReady(c)
  \/ OnStarted(c) \/ OnStartFailed(c) \/ OnDisconnected(c) \/ OnFatal(c)

QtThread == Forget \/ Erase \/ FinishStop \/ \E c \in Clients : HandleEvent(c)

Worker(c) == WorkerStarts(c) \/ WorkerSucceeds(c) \/ WorkerFails(c) \/ WorkerExits(c)

User == StopHosting \/ \E c \in Clients : Kick(c) \/ InputToggled(c)

Rumble == RumbleSends \/ \E c \in Clients : RumbleFinds(c)

Session == \E c \in Clients : SessionConnects(c) \/ SessionEnds(c)

Media == \E c \in Clients : StreamerDies(c) \/ ApplyInput(c)

HostNext ==
  \/ QtThread \/ User \/ Rumble \/ Session \/ Media
  \/ \E c \in Clients : Worker(c)
  \/ \E c \in Clients, m \in Messages : ClientSays(c, m) /\ Arrive(c, m)

\* The event loop, the workers and the ViGEm thread run on.
HostFairness ==
  WF_hostVars(QtThread) /\ WF_hostVars(RumbleSends) /\ \A c \in Clients : WF_hostVars(Worker(c))

HostSpec == HostInit /\ [][HostNext]_hostVars /\ HostFairness

-------------------------------------------------------------------------------
\* No two players share a slot, whatever order they come and go in (the
\* fallback of assignPlayerIndex is never taken), and a player the injector
\* has a record of has a stream: nothing that is applied on another thread
\* brings a torn-down player back.
SlotsAreUnique ==
  /\ \A c, d \in DOMAIN streams : streams[c].player = streams[d].player => c = d
  /\ records \subseteq Used

\* A streamer whose client was torn down, even in the middle of its start,
\* runs no longer than the worker that started it.
OrphansStop ==
  \A c \in Clients : (streamer[c] = "running" /\ c \notin DOMAIN streams) => worker[c] = "started"

-------------------------------------------------------------------------------
(* Statements of comments, tests and documents that the code does not keep *)

\* "torn down here so the client slot frees up."
FatalErrorFreesSlot == \A c \in DOMAIN streams : ~streams[c].torn

\* "Helpers (run on Qt thread; internal callbacks marshal here)": nobody holds
\* an entry of streams_ while the Qt thread erases it.
FoundStreamStays == rumble # Nobody => rumble \in DOMAIN streams

\* "kept joinable and reaped in stop() - no more detached captures of this": what
\* a worker has queued when stop() returns finds the coordinator in order.
WorkerEventsAreSafe == crashed # "StartFailed"
===============================================================================
