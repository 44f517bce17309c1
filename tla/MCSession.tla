------------------------------ MODULE MCSession ------------------------------
(***************************************************************************)
(* Sessions and signaling in one run: the two coordinators setting up      *)
(* media with one player, the host's coordinator with every callback of    *)
(* one player and with three players for two slots, the client's           *)
(* coordinator joining twice, the input injector, the signaling server,    *)
(* the TCP relay and the signaling client.  The parts share no state, so   *)
(* each behaviour exercises one and leaves the others as they began.       *)
(***************************************************************************)
EXTENDS MediaSetup, InputInjector, SignalingServer, TcpRelay, SignalingClient

CONSTANTS bo, cy,                      \* two more players
          key, arrow, button,          \* a plain and an extended key, a mouse button
          c1, c2, c3                   \* signaling connections

VARIABLE part                          \* the part this behaviour exercises

mcVars == <<part, setupVars, injVars, signalingVars, relayVars, sigVars>>

Parts == {"setup", "callbacks", "slots", "joins", "injector", "server", "relay", "client"}

MCClients == {player, bo, cy}
MCPlayerIndexes == 1 .. 2
\* Rumble is permitted with the controller.
MCPermissions == {perms \in Permissions : perms.vibration = perms.controller}
MCKeys == {key, arrow}
MCExtendedKeys == {arrow}
MCButtons == {button}
MCConns == {c1, c2, c3}

MCInit ==
  /\ part \in Parts
  /\ SetupInit /\ InjInit /\ SignalingInit /\ RelayInit /\ SigInit

Setup == part = "setup" /\ SetupNext /\ UNCHANGED <<part, injVars, signalingVars, relayVars, sigVars>>
\* Players come and go and send no keys.
Crowded == part = "slots" /\ Host!HostNext /\ UNCHANGED hArrived
           /\ UNCHANGED <<part, clientVars, injVars, signalingVars, relayVars, sigVars>>
\* Only one player comes.
Callbacks == part = "callbacks" /\ Host!HostNext
             /\ (\A c \in Clients \ {player} : hSession'[c] = "absent")
             /\ UNCHANGED <<part, clientVars, injVars, signalingVars, relayVars, sigVars>>
Joining == part = "joins" /\ ClientNext
           /\ UNCHANGED <<part, hostSide, injVars, signalingVars, relayVars, sigVars>>
Injector == part = "injector" /\ InjNext /\ UNCHANGED <<part, setupVars, signalingVars, relayVars, sigVars>>
Server == part = "server" /\ SignalingNext /\ UNCHANGED <<part, setupVars, injVars, relayVars, sigVars>>
Relay == part = "relay" /\ RelayNext /\ UNCHANGED <<part, setupVars, injVars, signalingVars, sigVars>>
SignalingSide == part = "client" /\ SigNext /\ UNCHANGED <<part, setupVars, injVars, signalingVars, relayVars>>

MCNext == Setup \/ Callbacks \/ Crowded \/ Joining \/ Injector \/ Server \/ Relay \/ SignalingSide

\* The fairness of the part that is exercised, as its module states it.
MCFairness ==
  /\ WF_setupVars(part = "setup" /\ HostQt) /\ WF_setupVars(part = "setup" /\ HostWorker)
  /\ WF_setupVars(part = "setup" /\ ClientQt) /\ WF_setupVars(part = "setup" /\ ClientWorker)
  /\ WF_setupVars(part = "setup" /\ ClientWatchdog)
  /\ WF_setupVars(part = "setup" /\ HostConnects) /\ WF_setupVars(part = "setup" /\ ClientConnects)
  /\ WF_setupVars(part = "setup" /\ HostNotices) /\ WF_setupVars(part = "setup" /\ ClientNotices)
  /\ WF_setupVars(part = "setup" /\ ToHost) /\ WF_setupVars(part = "setup" /\ ToClient)
  /\ WF_clientVars(part = "joins" /\ QtThread) /\ WF_clientVars(part = "joins" /\ Worker)
  /\ WF_clientVars(part = "joins" /\ OnStreamStartWatchdog)
  /\ \A r \in Roles :
       /\ WF_relayVars(part = "relay" /\ TimesOut(r)) /\ WF_relayVars(part = "relay" /\ ReadReply(r))
       /\ WF_relayVars(part = "relay" /\ ReplyEnds(r)) /\ WF_relayVars(part = "relay" /\ SessionReads(r))
       /\ WF_relayVars(part = "relay" /\ SessionSeesEnd(r)) /\ WF_relayVars(part = "relay" /\ ServerSteps(r))
  /\ WF_sigVars(part = "client" /\ CallerSteps) /\ WF_sigVars(part = "client" /\ ReaderSteps)
  /\ WF_sigVars(part = "client" /\ DiallerReturns) /\ WF_sigVars(part = "client" /\ ReadLineTimesOut)

MCSpec == MCInit /\ [][MCNext]_mcVars /\ MCFairness

\* Type invariant of all parts: the coordinators, the injector, the server,
\* the relay and the signaling client.
SessionTypeOK ==
  /\ ClientTypeOK /\ Host!HostTypeOK /\ (part = "setup" => SetupTypeOK)
  /\ InjectorTypeOK /\ SignalingTypeOK /\ RelayTypeOK /\ SigTypeOK

\* With more players than slots, coming, going and kicked in any order, no
\* two share a slot, and the injector knows only players with a stream, also
\* when a stream starts while its player leaves (assignPlayerIndex and the
\* teardown of HostCoordinator).
SlotsAreUnique == Host!SlotsAreUnique

\* Media follows the session on both sides; and a client that leaves and
\* joins again, in whatever state the last join was left, has nothing of the
\* last stream and confirms its keys once, after its own key
\* (ClientCoordinator::stop and the key exchange).  A host's streamer does not
\* outlive its client by more than its worker (teardownClient).
MediaFollowsSession == StreamFollowsSession /\ ConfirmsInOrder /\ Host!OrphansStop

\* Whoever dials ends up with a stream, an error, or no session, as neither
\* coordinator waits for the other for ever; and a client that waits for
\* STREAM_START has a hint in the end, whatever the host sends or leaves out.
NobodyWaitsForEver ==
  /\ part = "setup" => SetupEnds
  /\ part = "joins" => WaitingEnds
==============================================================================
