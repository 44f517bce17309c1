--------------------------- MODULE ControlChannel ---------------------------
(***************************************************************************)
(* The control channel as a whole: HostSession and the ClientSessions of   *)
(* the players joined by TCP connections, under the passage of time.  One  *)
(* tick is the heartbeat period of both sides (2 s).                       *)
(***************************************************************************)
EXTENDS HostSession, ClientSession

CONSTANTS Env,               \* what users and the network do in this instance
          PromptDelivery     \* frames and timers are served within one tick

ASSUME EnvAssumption ==
  /\ Env \subseteq {"app", "keys", "input", "kick", "leave", "cut", "stop"}
  /\ PromptDelivery \in BOOLEAN

vars == <<tcpVars, hostVars, clientVars>>

TypeOK == TcpTypeOK /\ HostTypeOK /\ ClientTypeOK

Init == TcpInit /\ HostInit /\ ClientInit

\* Everything that was due has been handled.
Settled ==
  /\ ~due
  /\ \A i \in Ids : /\ ~cdue[i]
                    /\ toHost[i] = <<>>
                    /\ toClient[i] = <<>>
                    /\ hostEnd[i] # "closing"

\* Time passes and both periodic timers expire; the bound keeps the queues
\* of a slow reader finite.
Tick ==
  /\ PromptDelivery => Settled
  /\ \A i \in Ids : Len(toHost[i]) < MaxBacklog /\ Len(toClient[i]) < MaxBacklog
  /\ idle' = [i \in Ids |-> IF state[i] = "none" \/ idle[i] = IdleCap
                              THEN idle[i] ELSE idle[i] + 1]
  /\ cidle' = [i \in Ids |-> IF ~Active(i) \/ cidle[i] = CIdleCap
                               THEN cidle[i] ELSE cidle[i] + 1]
  /\ due' = running
  /\ cdue' = [i \in Ids |-> Active(i)]
  /\ UNCHANGED <<tcpVars, state, input, snapshot, deciding, running,
                 approved, update, ended, cstate, cperm>>

\* The coordinator of a connected client sends a message of its own.
ClientSendsApp(i, m) ==
  /\ cstate[i] = "Connected"
  /\ Len(toHost[i]) < MaxBacklog
  /\ toHost' = [toHost EXCEPT ![i] = SentToHost(i, <<m>>)]
  /\ UNCHANGED <<toClient, hostEnd, clientEnd, link, clientVars>>

\* Steps of the host's network thread.
HostStep(i) ==
  /\ \/ HandleNewConnection(i)
     \/ HandleFrame(i)
     \/ HandleBye(i)
     \/ IgnoreFrame(i)
     \/ HandleClientClosed(i)
  /\ UNCHANGED clientVars

\* What the user of the host does.
HostCommand(i) ==
  /\ \/ \E accept \in BOOLEAN : ApproveClient(i, accept)
     \/ "kick" \in Env /\ KickClient(i)
     \/ "input" \in Env /\ SetClientInput(i)
     \/ "app" \in Env /\ SendAppMessage(i, AppMessage)
     \/ "keys" \in Env /\ SendAppMessage(i, KeyReady)
  /\ UNCHANGED clientVars

\* Steps of a client's network thread.
ClientStep(i) ==
  /\ \/ HandleConnected(i)
     \/ ClientHandleFrame(i)
     \/ StartHeartbeat(i)
     \/ HandleClosed(i)
  /\ UNCHANGED hostVars

\* What a player does.
ClientCommand(i) ==
  /\ \/ Start(i)
     \/ "leave" \in Env /\ ClientStop(i)
     \/ "app" \in Env /\ ClientSendsApp(i, AppMessage)
     \/ "keys" \in Env /\ ClientSendsApp(i, KeyReady)
  /\ UNCHANGED hostVars

NetworkStep(i) ==
  \/ /\ cstate[i] = "Connecting"
     /\ running
     /\ Establish(i)
     /\ UNCHANGED <<hostVars, clientVars>>
  \/ LoseAfterClose(i) /\ UNCHANGED <<hostVars, clientVars>>
  \/ "cut" \in Env /\ CutLink(i) /\ UNCHANGED <<hostVars, clientVars>>
  \/ ConnectFails(i) /\ UNCHANGED hostVars

Next ==
  \/ Tick
  \/ Housekeeping /\ UNCHANGED clientVars
  \/ "stop" \in Env /\ Stop /\ UNCHANGED clientVars
  \/ \E i \in Ids : \/ HostStep(i)
                    \/ HostCommand(i)
                    \/ ClientStep(i)
                    \/ ClientCommand(i)
                    \/ NetworkStep(i)

Spec == Init /\ [][Next]_vars

\* The network threads keep running and time keeps passing; nothing is
\* assumed of the users, of connection attempts or of the network path.
Fairness ==
  /\ WF_vars(Tick)
  /\ WF_vars(Housekeeping /\ UNCHANGED clientVars)
  /\ \A i \in Ids : WF_vars(HostStep(i)) /\ WF_vars(ClientStep(i))

FairSpec == Spec /\ Fairness
-----------------------------------------------------------------------------
Players == {i \in Ids : state[i] \in {"Authenticating", "Connected"}}

\* The session never has more than maxClients players past their HELLO, although
\* the test in handleClientHello() counts records of every kind and any number
\* of connections may be waiting to send theirs.
PlayersWithinLimit == Cardinality(Players) <= MaxClients

\* A client the host treats as connected, and a client that treats itself as
\* connected, was accepted by approveClient(): handleClientCapabilities() itself
\* only looks for AUTHENTICATING.
ConnectedWasApproved ==
  \A i \in Ids : (state[i] = "Connected" \/ cstate[i] = "Connected") => i \in approved

\* Some queued frame has one of the given types.
Carries(q, types) == \E k \in DOMAIN q : q[k].type \in types

\* Beyond that, nothing of the handshake that follows the host's decision exists
\* for a client before approveClient() accepted it: neither the host's offer and
\* the negotiation on their way to it, nor its answer on the way back.
HandshakeFollowsApproval ==
  \A i \in Ids : (\/ Carries(toClient[i], {"HostCapabilities", "NegotiationResult"})
                  \/ Carries(toHost[i], {"ClientCapabilities"})
                  \/ state[i] = "Connected"
                  \/ cstate[i] = "Connected") => i \in approved

\* The row events tell the coordinator exactly which clients are connected, so
\* a stream it opened for a client is always torn down (setState, dropClient,
\* kickClient, handleClientClosed).
EventsTrackTable ==
  running => \A i \in Ids : update[i] = "Connected" <=> state[i] = "Connected"

\* onClientUpdated never reports a client again after it reported it gone.
DisconnectedIsFinal ==
  [][\A i \in Ids : update[i] = "Disconnected" => update'[i] = "Disconnected"]_vars

PermissionsIn(q) == {k \in DOMAIN q : q[k].type = "InputPermission"}

\* The permission a client will hold once it has read what is on its way.
PendingPermission(i) ==
  IF PermissionsIn(toClient[i]) = {} THEN cperm[i]
  ELSE LET last == CHOOSE k \in PermissionsIn(toClient[i]) :
                     \A j \in PermissionsIn(toClient[i]) : j <= k
       IN toClient[i][last].perm

\* For a connected client the permission it holds, or is about to read, is the
\* one in the host's record: setClientInput() and the end of the negotiation
\* push every change in order.
PermissionsAgree ==
  \A i \in Ids :
    (state[i] = "Connected" /\ clientEnd[i] = "open" /\ link[i])
      => PendingPermission(i) = input[i]

\* handleFrame() refuses an application message with PROTOCOL_ERROR unless the
\* client is CONNECTED: a client only meets that refusal when its message
\* crossed the host's own KICK.
AppMessagesAreExpected ==
  \A i \in Ids :
    (HostReads(i) /\ state[i] # "none" /\ toHost[i] # <<>> /\ Head(toHost[i]).type = "App")
      => state[i] = "Connected" \/ "Kick" \in ended[i]

\* The coordinator's messages are never ignored for arriving before the client
\* is connected: NEGOTIATION_RESULT is always ahead of them.
AppMessagesFindConnected ==
  \A i \in Ids :
    (clientEnd[i] = "open" /\ toClient[i] # <<>> /\ Head(toClient[i]).type = "App")
      => cstate[i] = "Connected"

\* A client that gave up, left or lost its path is eventually forgotten by the
\* host for good and no longer counts against maxClients.
HostForgetsGoneClients ==
  \A i \in Ids : (cstate[i] = "Disconnected") ~> [](state[i] = "none")

\* A client whose connection the host has given up eventually notices.
ClientsNoticeTheEnd ==
  \A i \in Ids : (hostEnd[i] = "closed") ~> ~Active(i)

\* A join request is eventually answered one way or the other.
JoinIsResolved ==
  \A i \in Ids : (cstate[i] = "Authenticating") ~> (cstate[i] # "Authenticating")
-----------------------------------------------------------------------------
\* HostSession.h gives the host 75 s for the decision: while the window is open
\* the waiting client is still there.
ApprovalWindowHonoured ==
  \A i \in Ids : (state[i] = "Authenticating" /\ i \in deciding /\ idle[i] <= ApprovalTimeout)
                   => cstate[i] = "Authenticating"

\* PROTOCOL.md: SERVER_FULL means that the maximum number of clients is
\* already connected.  Every other client still in the session counts here.
ServerFullMeansFull ==
  [][\A i \in Ids : ("ServerFull" \in ended'[i] /\ "ServerFull" \notin ended[i])
        => Cardinality(Records \ ({i} \cup {j \in Ids : state[j] = "Disconnected"}))
             >= MaxClients]_vars

\* Protocol.h: SESSION_KEY_READY confirms that the keys are set.  A client that
\* confirms its keys stays connected.
KeyReadyConfirms ==
  [][\A i \in Ids : (state[i] = "Connected" /\ HandleFrame(i) /\ Head(toHost[i]) = KeyReady)
        => state'[i] = "Connected"]_vars

\* SECURITY.md: the host can revoke any input at any time.  A revoked
\* permission only comes back when the host asks for it.
RevocationSticks ==
  [][\A i \in Ids : (state[i] # "none" /\ input[i] = "none" /\ state'[i] # "none")
        => (input'[i] = "none" \/ SetClientInput(i))]_vars

\* HostSession.h: clients() returns a copy of the client table.
SnapshotIsTableCopy ==
  \A i \in Ids : snapshot[i] = Row(state[i], input[i])
=============================================================================
