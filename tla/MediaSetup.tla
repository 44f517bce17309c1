------------------------------ MODULE MediaSetup ------------------------------
(***************************************************************************)
(* The two coordinators together: one player, from the session handshake   *)
(* to the running stream.  The control channel carries what each session   *)
(* was given, in order, until one side ends it; the other side notices.    *)
(***************************************************************************)
EXTENDS ClientCoordinator, FiniteSets

CONSTANTS Clients, PlayerSlots, MaxClients, \* the host's, see HostCoordinator
          player                       \* this player's client id

\* The session admits no more clients than there are player slots, and the
\* empty id, which stands for nobody, is no client's.
ASSUME SetupAssumption ==
  /\ IsFiniteSet(Clients) /\ player \in Clients /\ "nobody" \notin Clients
  /\ PlayerSlots \in Nat /\ MaxClients \in Nat /\ MaxClients <= PlayerSlots

\* The host's coordinator; hX is its X where the client has an X too.
VARIABLES host, hSession, hEvents, hQt, streams, hStreamer, hWorker, records,
          rumbleTo, rumble, hSent, hArrived, crashed

Host == INSTANCE HostCoordinator WITH
  Slots <- PlayerSlots, session <- hSession, events <- hEvents, qt <- hQt,
  streamer <- hStreamer, worker <- hWorker, sent <- hSent, arrived <- hArrived

hostSide == <<host, hSession, hEvents, hQt, streams, hStreamer, hWorker, records,
              rumbleTo, rumble, hSent, hArrived, crashed>>
setupVars == <<hostSide, clientVars>>

SetupInit == Host!HostInit /\ ClientInit

-------------------------------------------------------------------------------
HostOnly(A) == A /\ UNCHANGED clientVars
ClientOnly(A) == A /\ UNCHANGED hostSide

\* The host's session is connected first; its NEGOTIATION_RESULT connects the
\* client's.
HostConnects == client = "dialling" /\ HostOnly(Host!SessionConnects(player))
ClientConnects == Host!Present(player) /\ ClientOnly(SessionConnects)

\* Either side may end the session; a side whose peer is gone does, and a kick
\* is carried out.
HostEnds == HostOnly(Host!SessionEnds(player))
ClientEnds == ClientOnly(SessionEnds)

HostNotices == (client \in {"ended", "none"} \/ hSession[player] = "kicked") /\ HostEnds
ClientNotices == (hSession[player] = "gone" \/ ~host) /\ ClientEnds

\* The control channel, in order, each way.
ToHost ==
  LET n == Len(hArrived[player]) + 1
  IN  n <= Len(sent) /\ HostOnly(Host!Arrive(player, sent[n]))

ToClient ==
  LET n == Len(arrived) + 1
  IN  n <= Len(hSent[player]) /\ ClientOnly(Arrive(hSent[player][n]))

HostQt == HostOnly(Host!QtThread)
HostWorker == HostOnly(Host!Worker(player))
ClientQt == ClientOnly(QtThread)
ClientWorker == ClientOnly(Worker)
ClientWatchdog == ClientOnly(OnStreamStartWatchdog)

SetupNext ==
  \/ HostConnects \/ ClientConnects \/ HostEnds \/ ClientEnds \/ ToHost \/ ToClient
  \/ HostQt \/ HostWorker \/ ClientQt \/ ClientWorker \/ ClientWatchdog
  \/ HostOnly(Host!Media) \/ HostOnly(Host!StopHosting) \/ HostOnly(Host!Kick(player))
  \/ joins = 0 /\ ClientOnly(Join("lan"))
  \/ ClientOnly(Leave)

\* Event loops, workers and the timer run; the connection carries what it was
\* given and its end is noticed (heartbeat); a dialled host answers.
SetupFairness ==
  /\ WF_setupVars(HostQt) /\ WF_setupVars(HostWorker)
  /\ WF_setupVars(ClientQt) /\ WF_setupVars(ClientWorker) /\ WF_setupVars(ClientWatchdog)
  /\ WF_setupVars(HostConnects) /\ WF_setupVars(ClientConnects)
  /\ WF_setupVars(HostNotices) /\ WF_setupVars(ClientNotices)
  /\ WF_setupVars(ToHost) /\ WF_setupVars(ToClient)

SetupSpec == SetupInit /\ [][SetupNext]_setupVars /\ SetupFairness

-------------------------------------------------------------------------------
\* The coordinators agree on what was said: each side's messages arrive as a
\* prefix of what the other sent in this session.
SetupTypeOK ==
  /\ ClientTypeOK /\ Host!HostTypeOK
  /\ client = "connected" => Len(arrived) <= Len(hSent[player])

\* Media follows the session, on both sides: the client's transport has the
\* session's keys as long as the session lasts, since STREAM_START never
\* overtakes the key exchange; the host starts a stream only for a player who
\* confirmed the keys; and once the client's stop() is over no worker, no
\* transport and no decode loop of the stream is left.
StreamFollowsSession ==
  /\ client # "none" /\ transport => crypto
  /\ hWorker[player] # "none" =>
       Len(hArrived[player]) = 2 /\ hArrived[player][2] = "SessionKeyReady"
  /\ NothingOutlivesStop

\* Whoever dials ends up with a stream, an error, or no session: neither
\* coordinator waits for the other for ever.
SetupEnds ==
  client = "dialling" ~> (status = "Streaming" \/ told \/ client \in {"ended", "none"})
===============================================================================
