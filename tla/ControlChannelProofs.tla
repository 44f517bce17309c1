------------------------- MODULE ControlChannelProofs -------------------------
(***************************************************************************)
(* Theorems about the control channel, for any number of clients, any      *)
(* limit and any timeouts: types and the client limit, the decision of     *)
(* the host, and the row events.                                           *)
(***************************************************************************)
EXTENDS ControlChannel, FiniteSetTheorems, TLAPS

\* The frames of each side are messages of that side.
LEMMA FramesAreMessages ==
  /\ \A b \in BOOLEAN : ClientHello(b) \in ClientMessages
  /\ NegotiationResult(TRUE) \in HostMessages
  /\ NegotiationResult(FALSE) \in HostMessages
  /\ \A c \in SUBSET Codecs : ClientCapabilities(c) \in ClientMessages
  /\ \A r \in Reasons : HostReject(r) \in HostMessages
  /\ \A p \in Permissions : InputPermission(p) \in HostMessages
  /\ {HostApproved, HostCapabilities, Kick, Ping, Pong, AppMessage, KeyReady}
       \subseteq HostMessages
  /\ {Bye, Ping, Pong, AppMessage, KeyReady} \subseteq ClientMessages
BY DEF ClientMessages, HostMessages, ClientHello, NegotiationResult, ClientCapabilities,
       HostReject, InputPermission, HostApproved, HostCapabilities, Kick, Ping, Pong,
       AppMessage, KeyReady, Bye

\* One or two messages of a direction are a sequence of its messages.
LEMMA ShortFrames ==
  /\ \A m \in HostMessages : <<m>> \in Seq(HostMessages)
  /\ \A m, n \in HostMessages : <<m, n>> \in Seq(HostMessages)
  /\ \A m \in ClientMessages : <<m>> \in Seq(ClientMessages)
OBVIOUS

\* Queueing frames keeps a queue well typed.
LEMMA SentToClientType ==
  ASSUME TypeOK, NEW i \in Ids, NEW f \in Seq(HostMessages)
  PROVE  SentToClient(i, f) \in Seq(HostMessages)
BY DEF TypeOK, TcpTypeOK, SentToClient

\* send towards the host appends messages of the client or nothing.
LEMMA SentToHostType ==
  ASSUME TypeOK, NEW i \in Ids, NEW f \in Seq(ClientMessages)
  PROVE  SentToHost(i, f) \in Seq(ClientMessages)
BY DEF TypeOK, TcpTypeOK, SentToHost

\* A row of the players table is well typed whatever its permission.
LEMMA RowType ==
  ASSUME NEW st \in HostStates, NEW perm
  PROVE  Row(st, perm) \in [state : HostStates, inputEnabled : BOOLEAN]
BY Zenon DEF Row

\* rebuildSnapshot publishes rows only.
LEMMA RebuildSnapshotType ==
  ASSUME RebuildSnapshot, state' \in [Ids -> HostStates]
  PROVE  snapshot' \in [Ids -> [state : HostStates, inputEnabled : BOOLEAN]]
BY Zenon, RowType DEF RebuildSnapshot

\* The types hold before the host starts.
LEMMA InitType == Init => TypeOK
<1> SUFFICES ASSUME Init PROVE TypeOK
  BY Zenon
<1>1. TcpTypeOK
  BY DEF Init, TcpInit, TcpTypeOK
<1>2. HostTypeOK
  <2>1. snapshot \in [Ids -> [state : HostStates, inputEnabled : BOOLEAN]]
    BY Zenon, RowType DEF Init, HostInit, HostStates
  <2>2. 0 \in 0 .. IdleCap
    BY HostAssumption DEF IdleCap
  <2> QED
    BY Zenon, <2>1, <2>2 DEF Init, HostInit, HostTypeOK, HostStates, Permissions
<1>3. ClientTypeOK
  <2>1. CIdleCap \in 0 .. CIdleCap
    BY ClientAssumption DEF CIdleCap
  <2> QED
    BY Zenon, <2>1 DEF Init, ClientInit, ClientTypeOK, Permissions
<1> QED
  BY Zenon, <1>1, <1>2, <1>3 DEF TypeOK

\* dropClient() for any set of clients keeps what it assigns well typed.
LEMMA DropWithType ==
  ASSUME TypeOK, NEW dropped \in SUBSET Ids, NEW before \in [Ids -> Seq(HostMessages)],
         NEW reason \in Reasons, DropWith(dropped, before, reason)
  PROVE  /\ toClient' \in [Ids -> Seq(HostMessages)]
         /\ hostEnd' \in [Ids -> {"none", "open", "closing", "closed"}]
         /\ state' \in [Ids -> HostStates]
         /\ input' \in [Ids -> Permissions]
         /\ idle' \in [Ids -> 0 .. IdleCap]
         /\ update' \in [Ids -> {"none", "Connected", "Disconnected"}]
         /\ ended' \in [Ids -> SUBSET (Reasons \cup {"Kick"})]
<1>1. HostReject(reason) \in HostMessages
  BY Zenon, FramesAreMessages
<1>2. \A i \in Ids : /\ before[i] \o <<HostReject(reason)>> \in Seq(HostMessages)
                     /\ before[i] \in Seq(HostMessages)
  BY <1>1
<1>3. toClient' \in [Ids -> Seq(HostMessages)]
  BY Zenon, <1>2, SentToClientType DEF DropWith
<1>4. 0 \in 0 .. IdleCap
  BY HostAssumption DEF IdleCap
<1> QED
  BY Zenon, <1>3, <1>4 DEF DropWith, TypeOK, HostTypeOK, TcpTypeOK, HostStates, Permissions

\* dropClient of one client keeps the types of what it writes.
LEMMA DropClientType ==
  ASSUME TypeOK, NEW i \in Ids, NEW frames \in Seq(HostMessages),
         NEW reason \in Reasons, DropClient(i, frames, reason)
  PROVE  /\ toClient' \in [Ids -> Seq(HostMessages)]
         /\ hostEnd' \in [Ids -> {"none", "open", "closing", "closed"}]
         /\ state' \in [Ids -> HostStates]
         /\ input' \in [Ids -> Permissions]
         /\ idle' \in [Ids -> 0 .. IdleCap]
         /\ update' \in [Ids -> {"none", "Connected", "Disconnected"}]
         /\ ended' \in [Ids -> SUBSET (Reasons \cup {"Kick"})]
         /\ snapshot' \in [Ids -> [state : HostStates, inputEnabled : BOOLEAN]]
<1>1. [Nothing EXCEPT ![i] = frames] \in [Ids -> Seq(HostMessages)]
  <2>1. <<>> \in Seq(HostMessages)
    OBVIOUS
  <2>2. Nothing \in [Ids -> Seq(HostMessages)]
    BY Zenon, <2>1 DEF Nothing
  <2> QED
    BY Zenon, <2>2
<1>2. {i} \in SUBSET Ids
  BY Zenon
<1>3. DropWith({i}, [Nothing EXCEPT ![i] = frames], reason) /\ RebuildSnapshot
  BY Zenon DEF DropClient
<1> QED
  BY Zenon, <1>1, <1>2, <1>3, DropWithType, RebuildSnapshotType

\* A connection closed at the host keeps the types of what it writes.
LEMMA CloseHostEndType ==
  ASSUME TypeOK, NEW i \in Ids, CloseHostEnd(i)
  PROVE  /\ toHost' \in [Ids -> Seq(ClientMessages)]
         /\ hostEnd' \in [Ids -> {"none", "open", "closing", "closed"}]
         /\ state' \in [Ids -> HostStates]
         /\ input' \in [Ids -> Permissions]
         /\ idle' \in [Ids -> 0 .. IdleCap]
         /\ update' \in [Ids -> {"none", "Connected", "Disconnected"}]
         /\ snapshot' \in [Ids -> [state : HostStates, inputEnabled : BOOLEAN]]
<1>1. 0 \in 0 .. IdleCap
  BY HostAssumption DEF IdleCap
<1>2. /\ toHost' \in [Ids -> Seq(ClientMessages)]
      /\ hostEnd' \in [Ids -> {"none", "open", "closing", "closed"}]
      /\ idle' \in [Ids -> 0 .. IdleCap]
  BY <1>1 DEF CloseHostEnd, TypeOK, TcpTypeOK, HostTypeOK
<1>3. /\ state' \in [Ids -> HostStates]
      /\ input' \in [Ids -> Permissions]
      /\ update' \in [Ids -> {"none", "Connected", "Disconnected"}]
  BY Zenon DEF CloseHostEnd, TypeOK, HostTypeOK, HostStates, Permissions
<1>4. snapshot' \in [Ids -> [state : HostStates, inputEnabled : BOOLEAN]]
  BY Zenon, <1>3, RebuildSnapshotType DEF CloseHostEnd, TypeOK, HostTypeOK
<1> QED
  BY Zenon, <1>2, <1>3, <1>4

\* Taking a frame off a queue.
LEMMA HostReceivesType ==
  ASSUME TypeOK, NEW i \in Ids, HostReceives(i)
  PROVE  /\ toHost' \in [Ids -> Seq(ClientMessages)]
         /\ Head(toHost[i]) \in ClientMessages
BY DEF TypeOK, TcpTypeOK, HostReceives

\* A frame read by the client leaves a queue of host messages.
LEMMA ClientReceivesType ==
  ASSUME TypeOK, NEW i \in Ids, ClientReceives(i)
  PROVE  toClient' \in [Ids -> Seq(HostMessages)]
BY DEF TypeOK, TcpTypeOK, ClientReceives

\* The host's network thread preserves the types.
LEMMA HandleFrameType ==
  ASSUME TypeOK, NEW i \in Ids, HandleFrame(i), UNCHANGED clientVars
  PROVE  TypeOK'
<1> DEFINE m == Head(toHost[i])
<1>1. toHost' \in [Ids -> Seq(ClientMessages)] /\ m \in ClientMessages
  BY Zenon, HostReceivesType DEF HandleFrame
<1>2. idle' \in [Ids -> 0 .. IdleCap]
  <2>1. 0 \in 0 .. IdleCap
    BY HostAssumption DEF IdleCap
  <2> QED
    BY Zenon, <2>1 DEF HandleFrame, TypeOK, HostTypeOK
<1> DEFINE Rest == /\ toClient' \in [Ids -> Seq(HostMessages)]
                   /\ hostEnd' \in [Ids -> {"none", "open", "closing", "closed"}]
                   /\ state' \in [Ids -> HostStates]
                   /\ input' \in [Ids -> Permissions]
                   /\ deciding' \subseteq Ids
                   /\ update' \in [Ids -> {"none", "Connected", "Disconnected"}]
                   /\ ended' \in [Ids -> SUBSET (Reasons \cup {"Kick"})]
                   /\ snapshot' \in [Ids -> [state : HostStates, inputEnabled : BOOLEAN]]
<1>3. <<>> \in Seq(HostMessages)
  OBVIOUS
<1>4. {"ServerFull", "BadSessionCode", "NoCommonCodec", "ProtocolError"} \subseteq Reasons
  BY Zenon DEF Reasons
<1>5. ASSUME HandleClientHello(i, m) PROVE Rest
  <2>1. CASE DropClient(i, <<>>, "ServerFull") /\ UNCHANGED deciding
    <3>1. deciding' \subseteq Ids
      BY Zenon, <2>1 DEF TypeOK, HostTypeOK
    <3> QED
      BY Zenon, <2>1, <3>1, <1>3, <1>4, DropClientType
  <2>2. CASE DropClient(i, <<>>, "BadSessionCode") /\ UNCHANGED deciding
    <3>1. deciding' \subseteq Ids
      BY Zenon, <2>2 DEF TypeOK, HostTypeOK
    <3> QED
      BY Zenon, <2>2, <3>1, <1>3, <1>4, DropClientType
  <2>3. CASE UNCHANGED <<toClient, hostEnd, state, input, snapshot, deciding, update, ended>>
    BY Zenon, <2>3 DEF TypeOK, HostTypeOK, TcpTypeOK
  <2>4. CASE /\ state' = [state EXCEPT ![i] = "Authenticating"]
             /\ input' = [input EXCEPT ![i] = "defaults"]
             /\ deciding' = deciding \cup {i}
             /\ UNCHANGED <<toClient, hostEnd, update, ended>>
             /\ RebuildSnapshot
    <3>1. state' \in [Ids -> HostStates] /\ input' \in [Ids -> Permissions]
      BY Zenon, <2>4 DEF TypeOK, HostTypeOK, HostStates, Permissions
    <3>2. snapshot' \in [Ids -> [state : HostStates, inputEnabled : BOOLEAN]]
      BY Zenon, <2>4, <3>1, RebuildSnapshotType
    <3> QED
      BY Zenon, <2>4, <3>1, <3>2 DEF TypeOK, HostTypeOK, TcpTypeOK
  <2> QED
    BY Zenon, <1>5, <2>1, <2>2, <2>3, <2>4 DEF HandleClientHello
<1>6. ASSUME HandleClientCapabilities(i, m) PROVE Rest
  <2>1. deciding' \subseteq Ids
    BY Zenon, <1>6 DEF HandleClientCapabilities, TypeOK, HostTypeOK
  <2>2. CASE UNCHANGED <<toClient, hostEnd, state, input, snapshot, update, ended>>
    BY Zenon, <2>1, <2>2 DEF TypeOK, HostTypeOK, TcpTypeOK
  <2>3. CASE DropClient(i, <<NegotiationResult(FALSE)>>, "NoCommonCodec")
    <3>1. <<NegotiationResult(FALSE)>> \in Seq(HostMessages)
      BY Zenon, FramesAreMessages, ShortFrames, Zenon
    <3> QED
      BY Zenon, <2>1, <2>3, <3>1, <1>4, DropClientType
  <2>4. CASE /\ toClient' = [toClient EXCEPT ![i] =
                  SentToClient(i, <<NegotiationResult(TRUE), InputPermission(input[i])>>)]
             /\ state' = [state EXCEPT ![i] = "Connected"]
             /\ update' = [update EXCEPT ![i] = "Connected"]
             /\ UNCHANGED <<hostEnd, input, ended>>
             /\ RebuildSnapshot
    <3>1. input[i] \in Permissions
      BY Zenon DEF TypeOK, HostTypeOK
    <3>2. <<NegotiationResult(TRUE), InputPermission(input[i])>> \in Seq(HostMessages)
      BY Zenon, <3>1, FramesAreMessages, ShortFrames, Zenon
    <3>3. toClient' \in [Ids -> Seq(HostMessages)]
      BY Zenon, <2>4, <3>2, SentToClientType DEF TypeOK, TcpTypeOK
    <3>4. state' \in [Ids -> HostStates]
      BY Zenon, <2>4 DEF TypeOK, HostTypeOK, HostStates
    <3>5. snapshot' \in [Ids -> [state : HostStates, inputEnabled : BOOLEAN]]
      BY Zenon, <2>4, <3>4, RebuildSnapshotType
    <3> QED
      BY Zenon, <2>1, <2>4, <3>3, <3>4, <3>5 DEF TypeOK, HostTypeOK, TcpTypeOK
  <2> QED
    BY Zenon, <1>6, <2>2, <2>3, <2>4 DEF HandleClientCapabilities
<1>7. ASSUME HandlePing(i, m) PROVE Rest
  <2>1. <<Pong>> \in Seq(HostMessages)
    BY FramesAreMessages
  <2>2. toClient' \in [Ids -> Seq(HostMessages)]
    BY Zenon, <1>7, <2>1, SentToClientType DEF HandlePing, TypeOK, TcpTypeOK
  <2> QED
    BY Zenon, <1>7, <2>2 DEF HandlePing, TypeOK, HostTypeOK, TcpTypeOK
<1>8. ASSUME HandlePong(i, m) PROVE Rest
  <2>1. state' \in [Ids -> HostStates]
    BY Zenon, <1>8 DEF HandlePong, TypeOK, HostTypeOK
  <2>2. snapshot' \in [Ids -> [state : HostStates, inputEnabled : BOOLEAN]]
    BY Zenon, <1>8, <2>1, RebuildSnapshotType DEF HandlePong
  <2> QED
    BY Zenon, <1>8, <2>2 DEF HandlePong, TypeOK, HostTypeOK, TcpTypeOK
<1>9. ASSUME HandleAppMessage(i, m) PROVE Rest
  <2>1. deciding' \subseteq Ids
    BY Zenon, <1>9 DEF HandleAppMessage, TypeOK, HostTypeOK
  <2>2. CASE DropClient(i, <<>>, "ProtocolError")
    BY Zenon, <2>1, <2>2, <1>3, <1>4, DropClientType
  <2>3. CASE UNCHANGED <<toClient, hostEnd, state, input, snapshot, update, ended>>
    BY Zenon, <2>1, <2>3 DEF TypeOK, HostTypeOK, TcpTypeOK
  <2> QED
    BY Zenon, <1>9, <2>2, <2>3 DEF HandleAppMessage
<1>10. ASSUME HandleMalformed(i, m) PROVE Rest
  <2>1. deciding' \subseteq Ids /\ DropClient(i, <<>>, "ProtocolError")
    BY Zenon, <1>10 DEF HandleMalformed, TypeOK, HostTypeOK
  <2> QED
    BY Zenon, <2>1, <1>3, <1>4, DropClientType
<1>11. Rest
  BY Zenon, <1>5, <1>6, <1>7, <1>8, <1>9, <1>10 DEF HandleFrame
<1> QED
  BY Zenon, <1>1, <1>2, <1>11
     DEF HandleFrame, TypeOK, TcpTypeOK, HostTypeOK, ClientTypeOK, clientVars

\* Every step of the host on a connection keeps the types.
LEMMA HostStepType ==
  ASSUME TypeOK, NEW i \in Ids, HostStep(i)
  PROVE  TypeOK'
<1>0. UNCHANGED clientVars
  BY Zenon DEF HostStep
<1>1. CASE HandleNewConnection(i)
  <2>1. 0 \in 0 .. IdleCap
    BY HostAssumption DEF IdleCap
  <2>2. state' \in [Ids -> HostStates]
    BY Zenon, <1>1 DEF HandleNewConnection, TypeOK, HostTypeOK, HostStates
  <2>3. snapshot' \in [Ids -> [state : HostStates, inputEnabled : BOOLEAN]]
    BY Zenon, <1>1, <2>2, RebuildSnapshotType DEF HandleNewConnection
  <2> QED
    BY Zenon, <1>0, <1>1, <2>1, <2>2, <2>3
       DEF HandleNewConnection, TypeOK, TcpTypeOK, HostTypeOK, ClientTypeOK, clientVars
<1>2. CASE HandleFrame(i)
  BY Zenon, <1>0, <1>2, HandleFrameType
<1>3. CASE HandleBye(i) \/ HandleClientClosed(i)
  <2>1. /\ CloseHostEnd(i)
        /\ UNCHANGED <<toClient, clientEnd, link, deciding, running, due, approved, ended>>
    BY Zenon, <1>3 DEF HandleBye, HandleClientClosed
  <2> QED
    BY Zenon, <1>0, <2>1, CloseHostEndType
       DEF TypeOK, TcpTypeOK, HostTypeOK, ClientTypeOK, clientVars
<1>4. CASE IgnoreFrame(i)
  <2>1. toHost' \in [Ids -> Seq(ClientMessages)]
    BY Zenon, <1>4, HostReceivesType DEF IgnoreFrame
  <2> QED
    BY Zenon, <1>0, <1>4, <2>1
       DEF IgnoreFrame, TypeOK, TcpTypeOK, HostTypeOK, ClientTypeOK, hostVars, clientVars
<1> QED
  BY Zenon, <1>1, <1>2, <1>3, <1>4 DEF HostStep

\* The commands of the host's user preserve the types.
LEMMA HostCommandType ==
  ASSUME TypeOK, NEW i \in Ids, HostCommand(i)
  PROVE  TypeOK'
<1>0. UNCHANGED clientVars
  BY Zenon DEF HostCommand
<1> USE DEF TypeOK, TcpTypeOK, HostTypeOK, ClientTypeOK, clientVars
<1>1. ASSUME NEW accept \in BOOLEAN, ApproveClient(i, accept)
      PROVE  TypeOK'
  <2>1. /\ deciding' \subseteq Ids
        /\ UNCHANGED <<toHost, clientEnd, link, running, due>>
    BY Zenon, <1>1 DEF ApproveClient
  <2>2. CASE UNCHANGED <<toClient, hostEnd, state, input, idle, snapshot,
                         approved, update, ended>>
    BY Zenon, <1>0, <2>1, <2>2
  <2>3. CASE DropClient(i, <<>>, "RejectedByHost") /\ UNCHANGED approved
    <3>1. <<>> \in Seq(HostMessages) /\ "RejectedByHost" \in Reasons
      BY DEF Reasons
    <3> QED
      BY Zenon, <1>0, <2>1, <2>3, <3>1, DropClientType
  <2>4. CASE /\ toClient' = [toClient EXCEPT ![i] =
                  SentToClient(i, <<HostApproved, HostCapabilities>>)]
             /\ approved' = approved \cup {i}
             /\ idle' = [idle EXCEPT ![i] = 0]
             /\ UNCHANGED <<hostEnd, state, input, snapshot, update, ended>>
    <3>1. <<HostApproved, HostCapabilities>> \in Seq(HostMessages)
      BY Zenon, FramesAreMessages, ShortFrames
    <3>2. toClient' \in [Ids -> Seq(HostMessages)]
      BY Zenon, <2>4, <3>1, SentToClientType
    <3>3. 0 \in 0 .. IdleCap
      BY HostAssumption DEF IdleCap
    <3> QED
      BY Zenon, <1>0, <2>1, <2>4, <3>2, <3>3
  <2> QED
    BY Zenon, <1>1, <2>2, <2>3, <2>4 DEF ApproveClient
<1>2. CASE KickClient(i)
  <2>1. <<Kick>> \in Seq(HostMessages)
    BY Zenon, FramesAreMessages, ShortFrames
  <2>2. toClient' \in [Ids -> Seq(HostMessages)]
    BY Zenon, <1>2, <2>1, SentToClientType DEF KickClient
  <2>3. state' \in [Ids -> HostStates]
    BY Zenon, <1>2 DEF KickClient, HostStates
  <2>4. snapshot' \in [Ids -> [state : HostStates, inputEnabled : BOOLEAN]]
    BY Zenon, <1>2, <2>3, RebuildSnapshotType DEF KickClient
  <2> QED
    BY Zenon, <1>0, <1>2, <2>2, <2>3, <2>4 DEF KickClient
<1>3. CASE SetClientInput(i)
  <2> DEFINE perm == IF snapshot[i].inputEnabled THEN "none" ELSE "defaults"
  <2>1. perm \in Permissions
    BY Zenon DEF Permissions
  <2>2. <<InputPermission(perm)>> \in Seq(HostMessages)
    BY Zenon, <2>1, FramesAreMessages, ShortFrames
  <2>3. /\ input' = [input EXCEPT ![i] = perm]
        /\ toClient' = [toClient EXCEPT ![i] = SentToClient(i, <<InputPermission(perm)>>)]
    BY Zenon, <1>3 DEF SetClientInput
  <2> HIDE DEF perm
  <2>4. toClient' \in [Ids -> Seq(HostMessages)] /\ input' \in [Ids -> Permissions]
    BY Zenon, <2>1, <2>2, <2>3, SentToClientType
  <2> QED
    BY Zenon, <1>0, <1>3, <2>4 DEF SetClientInput
<1>4. ASSUME NEW m \in {AppMessage, KeyReady}, SendAppMessage(i, m) PROVE TypeOK'
  <2>1. <<m>> \in Seq(HostMessages)
    BY Zenon, FramesAreMessages, ShortFrames
  <2>2. toClient' \in [Ids -> Seq(HostMessages)]
    BY Zenon, <1>4, <2>1, SentToClientType DEF SendAppMessage
  <2> QED
    BY Zenon, <1>0, <1>4, <2>2 DEF SendAppMessage, hostVars
<1> QED
  BY Zenon, <1>1, <1>2, <1>3, <1>4 DEF HostCommand

\* A client's network thread preserves the types.
LEMMA FinishType ==
  ASSUME TypeOK, NEW i \in Ids, Finish(i)
  PROVE  /\ cstate' \in [Ids -> {"Idle", "Connecting", "Authenticating", "Connected",
                                "Disconnected"}]
         /\ cdue' \in [Ids -> BOOLEAN]
         /\ clientEnd' \in [Ids -> {"none", "pending", "open", "mute", "closed"}]
         /\ toClient' \in [Ids -> Seq(HostMessages)]
<1>1. <<>> \in Seq(HostMessages)
  OBVIOUS
<1> QED
  BY Zenon, <1>1 DEF TypeOK, TcpTypeOK, ClientTypeOK, Finish

\* The frame handler of ClientSession keeps the types.
LEMMA ClientHandleFrameType ==
  ASSUME TypeOK, NEW i \in Ids, ClientHandleFrame(i), UNCHANGED hostVars
  PROVE  TypeOK'
<1> DEFINE m == Head(toClient[i])
           Rest == /\ toHost' \in [Ids -> Seq(ClientMessages)]
                   /\ toClient' \in [Ids -> Seq(HostMessages)]
                   /\ clientEnd' \in [Ids -> {"none", "pending", "open", "mute", "closed"}]
                   /\ cstate' \in [Ids -> {"Idle", "Connecting", "Authenticating",
                                           "Connected", "Disconnected"}]
                   /\ cperm' \in [Ids -> Permissions]
                   /\ cdue' \in [Ids -> BOOLEAN]
<1> USE DEF TypeOK, TcpTypeOK, ClientTypeOK
<1>1. m \in HostMessages
  BY DEF ClientHandleFrame
<1>2. ASSUME HandleSilent(i, m) PROVE Rest
  BY Zenon, <1>2, ClientReceivesType DEF HandleSilent
<1>3. ASSUME HandleHostCapabilities(i, m) PROVE Rest
  <2>1. PICK codecs \in CodecChoices :
          toHost' = [toHost EXCEPT ![i] = SentToHost(i, <<ClientCapabilities(codecs)>>)]
    BY Zenon, <1>3 DEF HandleHostCapabilities
  <2>2. <<ClientCapabilities(codecs)>> \in Seq(ClientMessages)
    BY Zenon, ClientAssumption, FramesAreMessages, ShortFrames
  <2>3. toHost' \in [Ids -> Seq(ClientMessages)]
    BY Zenon, <2>1, <2>2, SentToHostType
  <2> QED
    BY Zenon, <1>3, <2>3, ClientReceivesType DEF HandleHostCapabilities
<1>4. ASSUME HandleNegotiation(i, m) PROVE Rest
  BY Zenon, <1>4, ClientReceivesType DEF HandleNegotiation
<1>5. ASSUME HandlePingFromHost(i, m) PROVE Rest
  <2>1. <<Pong>> \in Seq(ClientMessages)
    BY Zenon, FramesAreMessages, ShortFrames
  <2>2. toHost' \in [Ids -> Seq(ClientMessages)]
    BY Zenon, <1>5, <2>1, SentToHostType DEF HandlePingFromHost
  <2> QED
    BY Zenon, <1>5, <2>2, ClientReceivesType DEF HandlePingFromHost
<1>6. ASSUME HandleInputPermission(i, m) PROVE Rest
  <2>1. m.perm \in Permissions
    BY Zenon, <1>1, <1>6 DEF HandleInputPermission, HostMessages
  <2> HIDE DEF m
  <2>2. cperm' \in [Ids -> Permissions]
    BY Zenon, <1>6, <2>1 DEF HandleInputPermission
  <2> QED
    BY Zenon, <1>6, <2>2, ClientReceivesType DEF HandleInputPermission
<1>7. ASSUME HandleFarewell(i, m) PROVE Rest
  BY Zenon, <1>7, FinishType DEF HandleFarewell
<1>8. Rest
  BY Zenon, <1>2, <1>3, <1>4, <1>5, <1>6, <1>7 DEF ClientHandleFrame
<1>9. cidle' \in [Ids -> 0 .. CIdleCap]
  <2>1. 0 \in 0 .. CIdleCap
    BY SMTT(30), ClientAssumption DEF CIdleCap
  <2> QED
    BY Zenon, <2>1 DEF ClientHandleFrame
<1> QED
  BY Zenon, <1>8, <1>9 DEF ClientHandleFrame, HostTypeOK, hostVars

\* Every step of the client keeps the types.
LEMMA ClientStepType ==
  ASSUME TypeOK, NEW i \in Ids, ClientStep(i)
  PROVE  TypeOK'
<1>0. UNCHANGED hostVars
  BY Zenon DEF ClientStep
<1> USE DEF TypeOK, TcpTypeOK, ClientTypeOK, HostTypeOK, hostVars
<1>1. CASE HandleConnected(i)
  <2>1. PICK b \in BOOLEAN : toHost' = [toHost EXCEPT ![i] =
          IF hostEnd[i] # "closed" /\ link[i] THEN @ \o <<ClientHello(b)>> ELSE @]
    BY Zenon, <1>1 DEF HandleConnected
  <2>2. <<ClientHello(b)>> \in Seq(ClientMessages)
    BY Zenon, FramesAreMessages, ShortFrames, Zenon
  <2>3. toHost' \in [Ids -> Seq(ClientMessages)]
    BY <2>1, <2>2
  <2>4. 0 \in 0 .. CIdleCap
    BY ClientAssumption DEF CIdleCap
  <2> QED
    BY Zenon, <1>0, <1>1, <2>3, <2>4 DEF HandleConnected
<1>2. CASE ClientHandleFrame(i)
  BY Zenon, <1>0, <1>2, ClientHandleFrameType
<1>3. CASE StartHeartbeat(i)
  <2>1. UNCHANGED <<hostEnd, link, cperm, cidle>>
    BY Zenon, <1>3 DEF StartHeartbeat
  <2>2. CASE Finish(i) /\ UNCHANGED toHost
    BY Zenon, <1>0, <2>1, <2>2, FinishType
  <2>3. CASE /\ cdue' = [cdue EXCEPT ![i] = FALSE]
             /\ toHost' = [toHost EXCEPT ![i] =
                  IF cstate[i] = "Connected" THEN SentToHost(i, <<Ping>>) ELSE @]
             /\ UNCHANGED <<toClient, clientEnd, cstate>>
    <3>1. <<Ping>> \in Seq(ClientMessages)
      BY Zenon, FramesAreMessages, ShortFrames
    <3>2. toHost' \in [Ids -> Seq(ClientMessages)]
      BY Zenon, <2>3, <3>1, SentToHostType
    <3> QED
      BY Zenon, <1>0, <2>1, <2>3, <3>2
  <2> QED
    BY Zenon, <1>3, <2>2, <2>3 DEF StartHeartbeat
<1>4. CASE HandleClosed(i)
  BY Zenon, <1>0, <1>4 DEF HandleClosed
<1> QED
  BY Zenon, <1>1, <1>2, <1>3, <1>4 DEF ClientStep

\* Every call of the client's user keeps the types.
LEMMA ClientCommandType ==
  ASSUME TypeOK, NEW i \in Ids, ClientCommand(i)
  PROVE  TypeOK'
<1>0. UNCHANGED hostVars
  BY Zenon DEF ClientCommand
<1> USE DEF TypeOK, TcpTypeOK, ClientTypeOK, HostTypeOK, hostVars
<1>1. CASE Start(i)
  BY Zenon, <1>0, <1>1 DEF Start, tcpVars
<1>2. CASE ClientStop(i)
  <2>1. PICK b \in BOOLEAN : toHost' = [toHost EXCEPT ![i] =
          IF Active(i) /\ b THEN SentToHost(i, <<Bye>>) ELSE @]
    BY Zenon, <1>2 DEF ClientStop
  <2>2. <<Bye>> \in Seq(ClientMessages) /\ <<>> \in Seq(HostMessages)
    BY FramesAreMessages, ShortFrames
  <2>3. toHost' \in [Ids -> Seq(ClientMessages)]
    BY Zenon, <2>1, <2>2, SentToHostType
  <2> QED
    BY Zenon, <1>0, <1>2, <2>2, <2>3 DEF ClientStop
<1>3. ASSUME NEW m \in {AppMessage, KeyReady}, ClientSendsApp(i, m) PROVE TypeOK'
  <2>1. <<m>> \in Seq(ClientMessages)
    BY Zenon, FramesAreMessages, ShortFrames
  <2>2. toHost' \in [Ids -> Seq(ClientMessages)]
    BY Zenon, <1>3, <2>1, SentToHostType DEF ClientSendsApp
  <2> QED
    BY Zenon, <1>0, <1>3, <2>2 DEF ClientSendsApp, clientVars
<1> QED
  BY Zenon, <1>1, <1>2, <1>3 DEF ClientCommand

\* Whatever the network does to a connection keeps the types.
LEMMA NetworkStepType ==
  ASSUME TypeOK, NEW i \in Ids, NetworkStep(i)
  PROVE  TypeOK'
<1> USE DEF TypeOK, TcpTypeOK, ClientTypeOK, HostTypeOK, hostVars, clientVars
<1>0. <<>> \in Seq(HostMessages) /\ <<>> \in Seq(ClientMessages)
  OBVIOUS
<1>1. CASE Establish(i) /\ UNCHANGED <<hostVars, clientVars>>
  BY Zenon, <1>1 DEF Establish
<1>2. CASE LoseAfterClose(i) /\ UNCHANGED <<hostVars, clientVars>>
  <2>1. toClient' \in [Ids -> Seq(HostMessages)]
    BY Zenon, <1>0, <1>2 DEF LoseAfterClose
  <2>2. toHost' \in [Ids -> Seq(ClientMessages)]
    BY Zenon, <1>0, <1>2 DEF LoseAfterClose
  <2>3. UNCHANGED <<hostEnd, clientEnd, link>>
    BY Zenon, <1>2 DEF LoseAfterClose
  <2> QED
    BY Zenon, <1>2, <2>1, <2>2, <2>3
<1>3. CASE CutLink(i) /\ UNCHANGED <<hostVars, clientVars>>
  BY Zenon, <1>0, <1>3 DEF CutLink
<1>4. CASE ConnectFails(i) /\ UNCHANGED hostVars
  BY Zenon, <1>0, <1>4 DEF ConnectFails
<1> QED
  BY Zenon, <1>1, <1>2, <1>3, <1>4 DEF NetworkStep

\* Time passing keeps the counters within their caps.
LEMMA TickType ==
  ASSUME TypeOK, Tick
  PROVE  TypeOK'
<1> USE DEF TypeOK, TcpTypeOK, ClientTypeOK, HostTypeOK
<1>1. idle' \in [Ids -> 0 .. IdleCap]
  <2>1. IdleCap \in Nat
    BY HostAssumption DEF IdleCap
  <2> QED
    BY SMTT(30), <2>1 DEF Tick
<1>2. cidle' \in [Ids -> 0 .. CIdleCap]
  <2>1. CIdleCap \in Nat
    BY ClientAssumption DEF CIdleCap
  <2> QED
    BY <2>1 DEF Tick
<1>3. cdue' \in [Ids -> BOOLEAN]
  BY DEF Tick, Active
<1> QED
  BY Zenon, <1>1, <1>2, <1>3 DEF Tick, tcpVars

\* The host's periodic checks keep the types.
LEMMA HousekeepingType ==
  ASSUME TypeOK, Housekeeping, UNCHANGED clientVars
  PROVE  TypeOK'
<1> DEFINE dropped == {i \in Ids : TimedOut(i)}
           probes == [i \in Ids |-> IF state[i] = "Connected" THEN <<Ping>> ELSE <<>>]
<1>1. probes \in [Ids -> Seq(HostMessages)]
  <2>1. <<Ping>> \in Seq(HostMessages) /\ <<>> \in Seq(HostMessages)
    BY FramesAreMessages, ShortFrames
  <2> QED
    BY Zenon, <2>1
<1>2. dropped \in SUBSET Ids /\ "InactivityTimeout" \in Reasons
  BY Zenon DEF Reasons
<1>3. DropWith(dropped, probes, "InactivityTimeout")
  BY Zenon DEF Housekeeping
<1> HIDE DEF probes, dropped
<1>4. /\ toClient' \in [Ids -> Seq(HostMessages)]
      /\ hostEnd' \in [Ids -> {"none", "open", "closing", "closed"}]
      /\ state' \in [Ids -> HostStates]
      /\ input' \in [Ids -> Permissions]
      /\ idle' \in [Ids -> 0 .. IdleCap]
      /\ update' \in [Ids -> {"none", "Connected", "Disconnected"}]
      /\ ended' \in [Ids -> SUBSET (Reasons \cup {"Kick"})]
  BY Zenon, <1>1, <1>2, <1>3, DropWithType
<1>5. snapshot' \in [Ids -> [state : HostStates, inputEnabled : BOOLEAN]]
  BY Zenon, <1>4, RowType DEF Housekeeping, TypeOK, HostTypeOK
<1> QED
  BY Zenon, <1>4, <1>5
     DEF Housekeeping, TypeOK, TcpTypeOK, HostTypeOK, ClientTypeOK, clientVars

\* HostSession::stop keeps the types.
LEMMA StopType ==
  ASSUME TypeOK, Stop, UNCHANGED clientVars
  PROVE  TypeOK'
<1>1. 0 \in 0 .. IdleCap /\ <<>> \in Seq(ClientMessages)
  BY HostAssumption DEF IdleCap
<1>2. state' \in [Ids -> HostStates] /\ input' \in [Ids -> Permissions]
  BY Zenon DEF Stop, HostStates, Permissions
<1>3. snapshot' \in [Ids -> [state : HostStates, inputEnabled : BOOLEAN]]
  BY Zenon, <1>2, RebuildSnapshotType DEF Stop
<1> QED
  BY Zenon, <1>1, <1>2, <1>3 DEF Stop, TypeOK, TcpTypeOK, HostTypeOK, ClientTypeOK, clientVars

\* The type invariant is inductive.
LEMMA NextType == TypeOK /\ [Next]_vars => TypeOK'
<1> SUFFICES ASSUME TypeOK, [Next]_vars PROVE TypeOK'
  BY Zenon
<1>1. CASE UNCHANGED vars
  BY Zenon, <1>1 DEF vars, tcpVars, hostVars, clientVars, TypeOK, TcpTypeOK, HostTypeOK, ClientTypeOK
<1>2. CASE Tick
  BY Zenon, <1>2, TickType
<1>3. CASE Housekeeping /\ UNCHANGED clientVars
  BY Zenon, <1>3, HousekeepingType
<1>4. CASE Stop /\ UNCHANGED clientVars
  BY Zenon, <1>4, StopType
<1>5. ASSUME NEW i \in Ids,
             HostStep(i) \/ HostCommand(i) \/ ClientStep(i) \/ ClientCommand(i) \/ NetworkStep(i)
      PROVE  TypeOK'
  BY Zenon, <1>5, HostStepType, HostCommandType, ClientStepType, ClientCommandType, NetworkStepType
<1> QED
  BY Zenon, <1>1, <1>2, <1>3, <1>4, <1>5 DEF Next

\* Type correctness of the whole control channel.
THEOREM TypeCorrect == Spec => []TypeOK
<1>1. Init => TypeOK
  BY Zenon, InitType
<1>2. TypeOK /\ [Next]_vars => TypeOK'
  BY Zenon, NextType
<1> QED
  BY <1>1, <1>2, PTL DEF Spec
-----------------------------------------------------------------------------
\* dropClient() and the closing of a connection only take players away.
LEMMA DropWithShrinks ==
  ASSUME NEW dropped \in SUBSET Ids, NEW before, NEW reason,
         DropWith(dropped, before, reason)
  PROVE  Players' \subseteq Players
BY Zenon DEF DropWith, Players

\* A connection closed at the host adds no player.
LEMMA CloseHostEndShrinks ==
  ASSUME TypeOK, NEW i \in Ids, CloseHostEnd(i)
  PROVE  Players' \subseteq Players
BY Zenon DEF CloseHostEnd, Players, TypeOK, HostTypeOK

\* The one step that adds a player is a HELLO accepted while the whole table,
\* the new player's record included, is within the limit.
LEMMA PlayersGrow ==
  ASSUME TypeOK, [Next]_vars
  PROVE  \/ Players' \subseteq Players
         \/ Players' \subseteq Records /\ ~Full
<1> DEFINE Goal == \/ Players' \subseteq Players
                   \/ Players' \subseteq Records /\ ~Full
<1>1. ASSUME UNCHANGED state PROVE Goal
  BY Zenon, <1>1 DEF Players
<1>2. ASSUME NEW i \in Ids, HandleFrame(i) PROVE Goal
  <2> DEFINE m == Head(toHost[i])
  <2>1. ASSUME NEW f, NEW r, DropClient(i, f, r) PROVE Goal
    BY Zenon, <2>1, DropWithShrinks DEF DropClient
  <2>2. ASSUME HandleClientHello(i, m) PROVE Goal
    <3>1. ASSUME ~Full,
                 state[i] = "Connecting",
                 state' = [state EXCEPT ![i] = "Authenticating"]
          PROVE  Goal
      BY Zenon, <3>1 DEF Players, Records, TypeOK, HostTypeOK
    <3> QED
      BY Zenon, <1>1, <2>1, <2>2, <3>1 DEF HandleClientHello
  <2>3. ASSUME HandleClientCapabilities(i, m) PROVE Goal
    <3>1. ASSUME state[i] = "Authenticating", state' = [state EXCEPT ![i] = "Connected"]
          PROVE  Goal
      BY Zenon, <3>1 DEF Players, TypeOK, HostTypeOK
    <3> QED
      BY Zenon, <1>1, <2>1, <2>3, <3>1 DEF HandleClientCapabilities
  <2>4. ASSUME HandlePing(i, m) \/ HandlePong(i, m) PROVE Goal
    BY Zenon, <1>1, <2>4 DEF HandlePing, HandlePong
  <2>5. ASSUME HandleAppMessage(i, m) PROVE Goal
    BY Zenon, <1>1, <2>1, <2>5 DEF HandleAppMessage
  <2>6. ASSUME HandleMalformed(i, m) PROVE Goal
    BY Zenon, <2>1, <2>6 DEF HandleMalformed
  <2> QED
    BY Zenon, <1>2, <2>2, <2>3, <2>4, <2>5, <2>6 DEF HandleFrame
<1>3. ASSUME NEW i \in Ids, HostStep(i) PROVE Goal
  <2>1. CASE HandleNewConnection(i)
    BY Zenon, <2>1 DEF HandleNewConnection, Players, TypeOK, HostTypeOK
  <2>2. CASE HandleBye(i) \/ HandleClientClosed(i)
    BY Zenon, <2>2, CloseHostEndShrinks DEF HandleBye, HandleClientClosed
  <2>3. CASE IgnoreFrame(i)
    BY Zenon, <1>1, <2>3 DEF IgnoreFrame, hostVars
  <2> QED
    BY Zenon, <1>2, <1>3, <2>1, <2>2, <2>3 DEF HostStep
<1>4. ASSUME NEW i \in Ids, HostCommand(i) PROVE Goal
  <2>1. ASSUME NEW accept \in BOOLEAN, ApproveClient(i, accept) PROVE Goal
    BY Zenon, <1>1, <2>1, DropWithShrinks DEF ApproveClient, DropClient
  <2>2. CASE KickClient(i)
    BY Zenon, <2>2 DEF KickClient, Players, TypeOK, HostTypeOK
  <2>3. CASE SetClientInput(i) \/ SendAppMessage(i, AppMessage) \/ SendAppMessage(i, KeyReady)
    BY Zenon, <1>1, <2>3 DEF SetClientInput, SendAppMessage, hostVars
  <2> QED
    BY Zenon, <1>4, <2>1, <2>2, <2>3 DEF HostCommand
<1>5. ASSUME NEW i \in Ids, ClientStep(i) \/ ClientCommand(i) \/ NetworkStep(i) PROVE Goal
  BY Zenon, <1>1, <1>5 DEF ClientStep, ClientCommand, NetworkStep, hostVars
<1>6. CASE Housekeeping
  BY Zenon, <1>6, DropWithShrinks DEF Housekeeping
<1>7. CASE Stop
  BY Zenon, <1>7 DEF Stop, Players
<1>8. CASE Tick \/ UNCHANGED vars
  BY Zenon, <1>1, <1>8 DEF Tick, vars, hostVars
<1> QED
  BY Zenon, <1>3, <1>4, <1>5, <1>6, <1>7, <1>8 DEF Next

\* At no time do more than maxClients clients hold a place past their HELLO,
\* however many connections are open (handleClientHello).
THEOREM LimitHolds == Spec => []PlayersWithinLimit
<1>1. Init => PlayersWithinLimit
  <2> SUFFICES ASSUME Init PROVE PlayersWithinLimit
    BY Zenon
  <2>1. Players = {}
    BY Zenon DEF Init, HostInit, Players
  <2> QED
    BY <2>1, FS_EmptySet, HostAssumption DEF PlayersWithinLimit
<1>2. TypeOK /\ PlayersWithinLimit /\ [Next]_vars => PlayersWithinLimit'
  <2> SUFFICES ASSUME TypeOK, PlayersWithinLimit, [Next]_vars
               PROVE  Cardinality(Players') <= MaxClients
    BY Zenon DEF PlayersWithinLimit
  <2>1. IsFiniteSet(Players) /\ IsFiniteSet(Records)
    BY Zenon, IdsAssumption, FS_Subset DEF Players, Records
  <2>2. CASE Players' \subseteq Players
    <3>1. /\ IsFiniteSet(Players')
          /\ Cardinality(Players') <= Cardinality(Players)
      BY Zenon, <2>1, <2>2, FS_Subset
    <3> QED
      BY <2>1, <3>1, HostAssumption, FS_CardinalityType DEF PlayersWithinLimit
  <2>3. CASE Players' \subseteq Records /\ ~Full
    <3>1. /\ IsFiniteSet(Players')
          /\ Cardinality(Players') <= Cardinality(Records)
      BY Zenon, <2>1, <2>3, FS_Subset
    <3>2. Cardinality(Players') \in Nat /\ Cardinality(Records) \in Nat
      BY Zenon, <2>1, <3>1, FS_CardinalityType
    <3>3. Cardinality(Records) <= MaxClients
      BY <2>3, <3>2, HostAssumption DEF Full
    <3> QED
      BY <3>1, <3>2, <3>3, HostAssumption
  <2> QED
    BY Zenon, <2>2, <2>3, PlayersGrow
<1> QED
  BY <1>1, <1>2, TypeCorrect, PTL DEF Spec

-------------------------------------------------------------------------------
(***************************************************************************)
(* No client gets past the host's decision: the inductive invariant is     *)
(* HandshakeFollowsApproval, which follows the offer, the answer and the   *)
(* result through both queues.                                             *)
(***************************************************************************)

Offers == {"HostCapabilities", "NegotiationResult"}
Answers == {"ClientCapabilities"}

\* What a queue carries after each of the things that happen to a queue.
LEMMA CarriesTail ==
  ASSUME NEW S, NEW q \in Seq(S), q # <<>>, NEW T, Carries(Tail(q), T)
  PROVE  Carries(q, T)
<1>1. PICK k \in DOMAIN Tail(q) : Tail(q)[k].type \in T
  BY Zenon DEF Carries
<1>2. k + 1 \in DOMAIN q /\ q[k + 1] = Tail(q)[k]
  BY <1>1
<1> QED
  BY Zenon, <1>1, <1>2 DEF Carries

\* The message at the head of a queue is in the queue.
LEMMA CarriesHead ==
  ASSUME NEW S, NEW q \in Seq(S), q # <<>>, NEW T, Head(q).type \in T
  PROVE  Carries(q, T)
<1>1. 1 \in DOMAIN q /\ q[1] = Head(q)
  OBVIOUS
<1> QED
  BY Zenon, <1>1 DEF Carries

\* What two queues together hold, one of them holds.
LEMMA CarriesConcat ==
  ASSUME NEW S, NEW p \in Seq(S), NEW q \in Seq(S), NEW T, Carries(p \o q, T)
  PROVE  Carries(p, T) \/ Carries(q, T)
<1>1. PICK k \in DOMAIN (p \o q) : (p \o q)[k].type \in T
  BY Zenon DEF Carries
<1>2. CASE k \in DOMAIN p
  <2>1. (p \o q)[k] = p[k]
    BY <1>2
  <2> QED
    BY Zenon, <1>1, <1>2, <2>1 DEF Carries
<1>3. CASE k \notin DOMAIN p
  <2>1. k - Len(p) \in DOMAIN q /\ (p \o q)[k] = q[k - Len(p)]
    BY <1>1, <1>3
  <2> QED
    BY Zenon, <1>1, <2>1 DEF Carries
<1> QED
  BY Zenon, <1>2, <1>3

\* What an empty queue, or one of one or two messages, holds.
LEMMA CarriesShort ==
  ASSUME NEW T
  PROVE  /\ ~Carries(<<>>, T)
         /\ \A m : Carries(<<m>>, T) => m.type \in T
         /\ \A m, n : Carries(<<m, n>>, T) => m.type \in T \/ n.type \in T
BY DEF Carries

\* The frames that are neither an offer nor an answer.
LEMMA PlainFrames ==
  /\ \A r \in Reasons : ~Carries(<<HostReject(r)>>, Offers)
  /\ \A p \in Permissions : ~Carries(<<InputPermission(p)>>, Offers)
  /\ ~Carries(<<Pong>>, Offers) /\ ~Carries(<<Ping>>, Offers)
  /\ ~Carries(<<Kick>>, Offers) /\ ~Carries(<<AppMessage>>, Offers)
  /\ ~Carries(<<KeyReady>>, Offers) /\ ~Carries(<<KeyReady>>, Answers)
  /\ ~Carries(<<Pong>>, Answers) /\ ~Carries(<<Ping>>, Answers)
  /\ ~Carries(<<Bye>>, Answers) /\ ~Carries(<<AppMessage>>, Answers)
  /\ \A b \in BOOLEAN : ~Carries(<<ClientHello(b)>>, Answers)
<1>1. \A m, T : m.type \notin T => ~Carries(<<m>>, T)
  BY DEF Carries
<1>2. /\ \A r : HostReject(r).type \notin Offers
      /\ \A p : InputPermission(p).type \notin Offers
      /\ Pong.type \notin Offers /\ Ping.type \notin Offers
      /\ Kick.type \notin Offers /\ AppMessage.type \notin Offers
      /\ KeyReady.type \notin Offers /\ KeyReady.type \notin Answers
      /\ Pong.type \notin Answers /\ Ping.type \notin Answers
      /\ Bye.type \notin Answers /\ AppMessage.type \notin Answers
      /\ \A b : ClientHello(b).type \notin Answers
  BY Zenon DEF Offers, Answers, HostReject, InputPermission, Pong, Ping, Kick, AppMessage, KeyReady,
         Bye, ClientHello
<1> QED
  BY Zenon, <1>1, <1>2, Zenon

\* What is queued for the client after a send was there or was sent.
LEMMA CarriesSentToClient ==
  ASSUME TypeOK, NEW i \in Ids, NEW f \in Seq(HostMessages), NEW T,
         Carries(SentToClient(i, f), T)
  PROVE  Carries(toClient[i], T) \/ Carries(f, T)
<1>1. toClient[i] \in Seq(HostMessages)
  BY Zenon DEF TypeOK, TcpTypeOK
<1> QED
  BY Zenon, <1>1, CarriesConcat DEF SentToClient

\* What is queued for the host after a send was there or was sent.
LEMMA CarriesSentToHost ==
  ASSUME TypeOK, NEW i \in Ids, NEW f \in Seq(ClientMessages), NEW T,
         Carries(SentToHost(i, f), T)
  PROVE  Carries(toHost[i], T) \/ Carries(f, T)
<1>1. toHost[i] \in Seq(ClientMessages)
  BY Zenon DEF TypeOK, TcpTypeOK
<1> QED
  BY Zenon, <1>1, CarriesConcat DEF SentToHost

\* A step that puts no offer, no answer and no connection in place for a
\* client that is not approved.
Quiet ==
  /\ approved \subseteq approved'
  /\ \A j \in Ids : /\ Carries(toClient'[j], Offers) => Carries(toClient[j], Offers) \/ j \in approved'
                    /\ Carries(toHost'[j], Answers) => Carries(toHost[j], Answers) \/ j \in approved'
                    /\ state'[j] = "Connected" => state[j] = "Connected" \/ j \in approved'
                    /\ cstate'[j] = "Connected" => cstate[j] = "Connected" \/ j \in approved'

\* A quiet step preserves the invariant of the handshake.
LEMMA QuietSuffices ==
  HandshakeFollowsApproval /\ Quiet => HandshakeFollowsApproval'
BY Zenon DEF HandshakeFollowsApproval, Quiet, Offers, Answers

\* Dropping clients offers nothing and connects nobody.
LEMMA DropWithQuiet ==
  ASSUME TypeOK, NEW dropped \in SUBSET Ids, NEW before \in [Ids -> Seq(HostMessages)],
         NEW reason \in Reasons, DropWith(dropped, before, reason),
         \A j \in Ids : Carries(before[j], Offers) => j \in approved'
  PROVE  \A j \in Ids :
           /\ Carries(toClient'[j], Offers) => Carries(toClient[j], Offers) \/ j \in approved'
           /\ state'[j] = "Connected" => state[j] = "Connected"
<1> TAKE j \in Ids
<1>1. state'[j] = "Connected" => state[j] = "Connected"
  BY Zenon DEF DropWith
<1>2. ASSUME Carries(toClient'[j], Offers)
      PROVE  Carries(toClient[j], Offers) \/ j \in approved'
  <2>0. <<HostReject(reason)>> \in Seq(HostMessages) /\ before[j] \in Seq(HostMessages)
    BY Zenon, FramesAreMessages, ShortFrames
  <2>1. before[j] \o <<HostReject(reason)>> \in Seq(HostMessages)
    BY <2>0
  <2>2. ~Carries(<<HostReject(reason)>>, Offers)
    BY Zenon, PlainFrames
  <2>3. Carries(before[j] \o <<HostReject(reason)>>, Offers) => Carries(before[j], Offers)
    BY Zenon, <2>0, <2>2, CarriesConcat
  <2>4. \/ toClient'[j] = SentToClient(j, before[j] \o <<HostReject(reason)>>)
        \/ toClient'[j] = SentToClient(j, before[j])
    BY Zenon DEF DropWith
  <2>5. CASE toClient'[j] = SentToClient(j, before[j] \o <<HostReject(reason)>>)
    <3>1. Carries(SentToClient(j, before[j] \o <<HostReject(reason)>>), Offers)
      BY Zenon, <1>2, <2>5, Zenon
    <3>2. Carries(toClient[j], Offers) \/ Carries(before[j] \o <<HostReject(reason)>>, Offers)
      BY Zenon, <2>1, <3>1, CarriesSentToClient, Zenon
    <3> QED
      BY Zenon, <2>3, <3>2, Zenon
  <2>6. CASE toClient'[j] = SentToClient(j, before[j])
    BY Zenon, <1>2, <2>0, <2>6, CarriesSentToClient, Zenon
  <2> QED
    BY Zenon, <2>4, <2>5, <2>6
<1> QED
  BY Zenon, <1>1, <1>2

\* The same for one client and the frames sent to it before.
LEMMA DropClientQuiet ==
  ASSUME TypeOK, NEW i \in Ids, NEW frames \in Seq(HostMessages),
         NEW reason \in Reasons, DropClient(i, frames, reason),
         Carries(frames, Offers) => i \in approved'
  PROVE  \A j \in Ids :
           /\ Carries(toClient'[j], Offers) => Carries(toClient[j], Offers) \/ j \in approved'
           /\ state'[j] = "Connected" => state[j] = "Connected"
<1> DEFINE before == [Nothing EXCEPT ![i] = frames]
<1>0. <<>> \in Seq(HostMessages)
  OBVIOUS
<1>1. before \in [Ids -> Seq(HostMessages)]
  BY Zenon, <1>0 DEF Nothing
<1>2. \A j \in Ids : Carries(before[j], Offers) => j \in approved'
  BY Zenon, CarriesShort DEF Nothing
<1>3. DropWith({i}, before, reason) /\ {i} \in SUBSET Ids
  BY Zenon DEF DropClient
<1> HIDE DEF before
<1> QED
  BY Zenon, <1>1, <1>2, <1>3, DropWithQuiet

\* Every step of the host's network thread is quiet.
LEMMA HandleFrameQuiet ==
  ASSUME TypeOK, HandshakeFollowsApproval, NEW i \in Ids, HandleFrame(i), UNCHANGED clientVars
  PROVE  Quiet
<1> DEFINE m == Head(toHost[i])
           Rest == \A j \in Ids :
             /\ Carries(toClient'[j], Offers) => Carries(toClient[j], Offers) \/ j \in approved'
             /\ state'[j] = "Connected" => state[j] = "Connected" \/ j \in approved'
<1>1. UNCHANGED <<cstate, approved>>
  BY Zenon DEF HandleFrame, clientVars
<1>2. toHost[i] \in Seq(ClientMessages) /\ toHost[i] # <<>>
  BY Zenon DEF HandleFrame, HostReceives, TypeOK, TcpTypeOK
<1>3. \A j \in Ids : Carries(toHost'[j], Answers) => Carries(toHost[j], Answers)
  <2>1. \A j \in Ids : toHost'[j] = toHost[j] \/ (j = i /\ toHost'[j] = Tail(toHost[j]))
    BY Zenon DEF HandleFrame, HostReceives, TypeOK, TcpTypeOK
  <2> QED
    BY Zenon, <1>2, <2>1, CarriesTail
<1>4. <<>> \in Seq(HostMessages) /\ ~Carries(<<>>, Offers)
  BY CarriesShort
<1>5. {"ServerFull", "BadSessionCode", "NoCommonCodec", "ProtocolError"} \subseteq Reasons
  BY Zenon DEF Reasons
<1>6. ASSUME UNCHANGED <<toClient, state>> PROVE Rest
  BY Zenon, <1>6
<1>7. ASSUME HandleClientHello(i, m) PROVE Rest
  <2>1. CASE DropClient(i, <<>>, "ServerFull") \/ DropClient(i, <<>>, "BadSessionCode")
    BY Zenon, <1>4, <1>5, <2>1, DropClientQuiet
  <2>2. CASE state' = [state EXCEPT ![i] = "Authenticating"] /\ UNCHANGED toClient
    BY Zenon, <2>2 DEF TypeOK, HostTypeOK
  <2> QED
    BY Zenon, <1>6, <1>7, <2>1, <2>2 DEF HandleClientHello
<1>8. ASSUME HandleClientCapabilities(i, m) PROVE Rest
  <2>1. i \in approved /\ i \in approved'
    <3>1. Carries(toHost[i], Answers)
      BY Zenon, <1>2, <1>8, CarriesHead DEF HandleClientCapabilities, Answers
    <3> QED
      BY Zenon, <1>1, <3>1 DEF HandshakeFollowsApproval, Answers
  <2>2. CASE DropClient(i, <<NegotiationResult(FALSE)>>, "NoCommonCodec")
    <3>1. <<NegotiationResult(FALSE)>> \in Seq(HostMessages)
      BY Zenon, FramesAreMessages, ShortFrames, Zenon
    <3> QED
      BY Zenon, <1>5, <2>1, <2>2, <3>1, DropClientQuiet
  <2>3. CASE /\ toClient' = [toClient EXCEPT ![i] =
                  SentToClient(i, <<NegotiationResult(TRUE), InputPermission(input[i])>>)]
             /\ state' = [state EXCEPT ![i] = "Connected"]
    BY Zenon, <2>1, <2>3 DEF TypeOK, TcpTypeOK, HostTypeOK
  <2> QED
    BY Zenon, <1>6, <1>8, <2>2, <2>3 DEF HandleClientCapabilities
<1>9. ASSUME HandlePing(i, m) PROVE Rest
  <2>1. <<Pong>> \in Seq(HostMessages) /\ ~Carries(<<Pong>>, Offers)
    BY Zenon, FramesAreMessages, ShortFrames, PlainFrames
  <2> QED
    BY Zenon, <1>9, <2>1, CarriesSentToClient DEF HandlePing, TypeOK, TcpTypeOK
<1>10. ASSUME HandlePong(i, m) PROVE Rest
  BY Zenon, <1>6, <1>10 DEF HandlePong
<1>11. ASSUME HandleAppMessage(i, m) PROVE Rest
  BY Zenon, <1>4, <1>5, <1>6, <1>11, DropClientQuiet DEF HandleAppMessage
<1>12. ASSUME HandleMalformed(i, m) PROVE Rest
  BY Zenon, <1>4, <1>5, <1>12, DropClientQuiet DEF HandleMalformed
<1>13. Rest
  BY Zenon, <1>7, <1>8, <1>9, <1>10, <1>11, <1>12 DEF HandleFrame
<1> QED
  BY Zenon, <1>1, <1>3, <1>13 DEF Quiet

\* The host's steps on a connection are quiet.
LEMMA HostStepQuiet ==
  ASSUME TypeOK, HandshakeFollowsApproval, NEW i \in Ids, HostStep(i)
  PROVE  Quiet
<1>1. UNCHANGED clientVars
  BY Zenon DEF HostStep
<1>2. CASE HandleFrame(i)
  BY Zenon, <1>1, <1>2, HandleFrameQuiet
<1>3. CASE HandleNewConnection(i)
  BY Zenon, <1>1, <1>3 DEF HandleNewConnection, Quiet, clientVars, TypeOK, HostTypeOK
<1>4. ASSUME CloseHostEnd(i), UNCHANGED <<toClient, approved>> PROVE Quiet
  <2>1. \A j \in Ids : ~Carries(<<>>, Answers)
    BY Zenon, CarriesShort
  <2>2. \A j \in Ids : toHost'[j] = toHost[j] \/ toHost'[j] = <<>>
    BY Zenon, <1>4 DEF CloseHostEnd, TypeOK, TcpTypeOK
  <2>3. \A j \in Ids : state'[j] = "Connected" => state[j] = "Connected"
    BY <1>4 DEF CloseHostEnd, TypeOK, HostTypeOK
  <2> QED
    BY Zenon, <1>1, <1>4, <2>1, <2>2, <2>3 DEF Quiet, clientVars
<1>5. CASE HandleBye(i)
  BY Zenon, <1>4, <1>5 DEF HandleBye
<1>6. CASE HandleClientClosed(i)
  BY Zenon, <1>4, <1>6 DEF HandleClientClosed
<1>7. CASE IgnoreFrame(i)
  <2>1. \A j \in Ids : toHost'[j] = toHost[j] \/ (toHost[j] # <<>> /\ toHost'[j] = Tail(toHost[j]))
    BY Zenon, <1>7 DEF IgnoreFrame, HostReceives, TypeOK, TcpTypeOK
  <2>2. \A j \in Ids : toHost[j] \in Seq(ClientMessages)
    BY Zenon DEF TypeOK, TcpTypeOK
  <2>3. \A j \in Ids : Carries(toHost'[j], Answers) => Carries(toHost[j], Answers)
    BY Zenon, <2>1, <2>2, CarriesTail
  <2> QED
    BY Zenon, <1>1, <1>7, <2>3 DEF Quiet, clientVars, IgnoreFrame, hostVars
<1> QED
  BY Zenon, <1>2, <1>3, <1>5, <1>6, <1>7 DEF HostStep

\* Queueing one plain frame for a client is quiet when nothing else happens.
LEMMA PlainSendQuiet ==
  ASSUME TypeOK, NEW i \in Ids, NEW m \in HostMessages, ~Carries(<<m>>, Offers),
         toClient' = [toClient EXCEPT ![i] = SentToClient(i, <<m>>)]
  PROVE  \A j \in Ids : Carries(toClient'[j], Offers) => Carries(toClient[j], Offers)
<1>1. <<m>> \in Seq(HostMessages)
  BY Zenon, ShortFrames
<1> QED
  BY Zenon, <1>1, CarriesSentToClient DEF TypeOK, TcpTypeOK

\* approveClient makes its client approved; the user's other calls are quiet.
LEMMA HostCommandQuiet ==
  ASSUME TypeOK, HandshakeFollowsApproval, NEW i \in Ids, HostCommand(i)
  PROVE  Quiet
<1>1. UNCHANGED <<cstate, toHost>>
  BY Zenon DEF HostCommand, clientVars, ApproveClient, KickClient, SetClientInput, SendAppMessage
<1>2. ASSUME NEW accept \in BOOLEAN, ApproveClient(i, accept) PROVE Quiet
  <2>1. CASE UNCHANGED <<toClient, state, approved>>
    BY Zenon, <1>1, <2>1 DEF Quiet
  <2>2. CASE DropClient(i, <<>>, "RejectedByHost") /\ UNCHANGED approved
    <3>1. "RejectedByHost" \in Reasons /\ <<>> \in Seq(HostMessages) /\ ~Carries(<<>>, Offers)
      BY CarriesShort DEF Reasons
    <3> QED
      BY Zenon, <1>1, <2>2, <3>1, DropClientQuiet DEF Quiet
  <2>3. CASE /\ toClient' = [toClient EXCEPT ![i] =
                  SentToClient(i, <<HostApproved, HostCapabilities>>)]
             /\ approved' = approved \cup {i}
             /\ UNCHANGED state
    <3>1. \A j \in Ids : toClient'[j] = toClient[j] \/ j \in approved'
      BY Zenon, <2>3 DEF TypeOK, TcpTypeOK
    <3> QED
      BY Zenon, <1>1, <2>3, <3>1 DEF Quiet
  <2> QED
    BY Zenon, <1>2, <2>1, <2>2, <2>3 DEF ApproveClient
<1>3. CASE KickClient(i)
  <2>1. \A j \in Ids : Carries(toClient'[j], Offers) => Carries(toClient[j], Offers)
    BY Zenon, <1>3, FramesAreMessages, PlainFrames, PlainSendQuiet DEF KickClient
  <2> QED
    BY Zenon, <1>1, <1>3, <2>1 DEF KickClient, Quiet, TypeOK, HostTypeOK
<1>4. CASE SetClientInput(i)
  <2>1. PICK p \in Permissions :
          toClient' = [toClient EXCEPT ![i] = SentToClient(i, <<InputPermission(p)>>)]
    BY Zenon, <1>4 DEF SetClientInput, Permissions
  <2>2. InputPermission(p) \in HostMessages /\ ~Carries(<<InputPermission(p)>>, Offers)
    BY Zenon, FramesAreMessages, PlainFrames
  <2>3. \A j \in Ids : Carries(toClient'[j], Offers) => Carries(toClient[j], Offers)
    BY Zenon, <2>1, <2>2, PlainSendQuiet
  <2> QED
    BY Zenon, <1>1, <1>4, <2>3 DEF SetClientInput, Quiet
<1>5. ASSUME NEW m \in {AppMessage, KeyReady}, SendAppMessage(i, m) PROVE Quiet
  <2>1. \A j \in Ids : Carries(toClient'[j], Offers) => Carries(toClient[j], Offers)
    BY Zenon, <1>5, FramesAreMessages, PlainFrames, PlainSendQuiet DEF SendAppMessage
  <2> QED
    BY Zenon, <1>1, <1>5, <2>1 DEF SendAppMessage, Quiet, hostVars
<1> QED
  BY Zenon, <1>2, <1>3, <1>4, <1>5 DEF HostCommand

\* Every step of a client is quiet.
LEMMA PlainAnswerQuiet ==
  ASSUME TypeOK, NEW i \in Ids, NEW m \in ClientMessages, ~Carries(<<m>>, Answers),
         toHost' = [toHost EXCEPT ![i] = SentToHost(i, <<m>>)]
  PROVE  \A j \in Ids : Carries(toHost'[j], Answers) => Carries(toHost[j], Answers)
<1>1. <<m>> \in Seq(ClientMessages)
  BY Zenon, ShortFrames
<1> QED
  BY Zenon, <1>1, CarriesSentToHost DEF TypeOK, TcpTypeOK

\* The client answers only what it was offered.
LEMMA ClientHandleFrameQuiet ==
  ASSUME TypeOK, HandshakeFollowsApproval, NEW i \in Ids, ClientHandleFrame(i),
         UNCHANGED hostVars
  PROVE  Quiet
<1> DEFINE m == Head(toClient[i])
           Rest == \A j \in Ids :
             /\ Carries(toHost'[j], Answers) => Carries(toHost[j], Answers) \/ j \in approved'
             /\ cstate'[j] = "Connected" => cstate[j] = "Connected" \/ j \in approved'
<1>1. UNCHANGED <<state, approved>>
  BY Zenon DEF hostVars
<1>2. toClient[i] \in Seq(HostMessages) /\ toClient[i] # <<>>
  BY Zenon DEF ClientHandleFrame, TypeOK, TcpTypeOK
<1>3. \A j \in Ids : Carries(toClient'[j], Offers) => Carries(toClient[j], Offers)
  <2>1. \A j \in Ids :
           \/ toClient'[j] = toClient[j]
           \/ toClient'[j] = <<>>
           \/ j = i /\ toClient'[j] = Tail(toClient[j])
    BY Zenon DEF ClientHandleFrame, HandleSilent, HandleHostCapabilities, HandleNegotiation,
           HandlePingFromHost, HandleInputPermission, HandleFarewell, Finish, ClientReceives,
           TypeOK, TcpTypeOK
  <2> QED
    BY Zenon, <1>2, <2>1, CarriesTail, CarriesShort
<1>4. m.type \in Offers => i \in approved'
  BY Zenon, <1>1, <1>2, CarriesHead DEF HandshakeFollowsApproval, Offers
<1>5. ASSUME HandleSilent(i, m) \/ HandleInputPermission(i, m) PROVE Rest
  BY Zenon, <1>5 DEF HandleSilent, HandleInputPermission
<1>6. ASSUME HandleHostCapabilities(i, m) PROVE Rest
  BY Zenon, <1>4, <1>6 DEF HandleHostCapabilities, Offers, TypeOK, TcpTypeOK
<1>7. ASSUME HandleNegotiation(i, m) PROVE Rest
  BY Zenon, <1>4, <1>7 DEF HandleNegotiation, Offers, TypeOK, ClientTypeOK
<1>8. ASSUME HandlePingFromHost(i, m) PROVE Rest
  <2>1. \A j \in Ids : Carries(toHost'[j], Answers) => Carries(toHost[j], Answers)
    BY Zenon, <1>8, FramesAreMessages, PlainFrames, PlainAnswerQuiet DEF HandlePingFromHost
  <2> QED
    BY Zenon, <1>8, <2>1 DEF HandlePingFromHost
<1>9. ASSUME HandleFarewell(i, m) PROVE Rest
  BY Zenon, <1>9 DEF HandleFarewell, Finish, TypeOK, ClientTypeOK
<1>10. Rest
  BY Zenon, <1>5, <1>6, <1>7, <1>8, <1>9 DEF ClientHandleFrame
<1> QED
  BY Zenon, <1>1, <1>3, <1>10 DEF Quiet

\* What is left of a queue that was emptied or left alone.
LEMMA EmptiedQuiet ==
  ASSUME TypeOK, NEW i \in Ids,
         UNCHANGED toClient \/ toClient' = [toClient EXCEPT ![i] = <<>>]
  PROVE  \A j \in Ids : Carries(toClient'[j], Offers) => Carries(toClient[j], Offers)
<1>1. ~Carries(<<>>, Offers)
  BY Zenon, CarriesShort
<1> QED
  BY Zenon, <1>1 DEF TypeOK, TcpTypeOK

\* The client's steps are quiet.
LEMMA ClientStepQuiet ==
  ASSUME TypeOK, HandshakeFollowsApproval, NEW i \in Ids, ClientStep(i)
  PROVE  Quiet
<1>1. UNCHANGED hostVars /\ UNCHANGED <<state, approved>>
  BY Zenon DEF ClientStep, hostVars
<1>2. CASE ClientHandleFrame(i)
  BY Zenon, <1>1, <1>2, ClientHandleFrameQuiet
<1>3. CASE HandleConnected(i)
  <2>1. PICK b \in BOOLEAN : toHost' = [toHost EXCEPT ![i] =
          IF hostEnd[i] # "closed" /\ link[i] THEN @ \o <<ClientHello(b)>> ELSE @]
    BY Zenon, <1>3 DEF HandleConnected
  <2>2. /\ toHost[i] \in Seq(ClientMessages)
        /\ <<ClientHello(b)>> \in Seq(ClientMessages)
        /\ ~Carries(<<ClientHello(b)>>, Answers)
    <3>1. toHost[i] \in Seq(ClientMessages)
      BY Zenon DEF TypeOK, TcpTypeOK
    <3> QED
      BY Zenon, <3>1, FramesAreMessages, ShortFrames, PlainFrames, Zenon
  <2>3. Carries(toHost[i] \o <<ClientHello(b)>>, Answers) => Carries(toHost[i], Answers)
    BY Zenon, <2>2, CarriesConcat, Zenon
  <2>4. \A j \in Ids : Carries(toHost'[j], Answers) => Carries(toHost[j], Answers)
    BY Zenon, <2>1, <2>3 DEF TypeOK, TcpTypeOK
  <2> QED
    BY Zenon, <1>1, <1>3, <2>4 DEF HandleConnected, Quiet, TypeOK, ClientTypeOK
<1>4. CASE StartHeartbeat(i)
  <2>1. \A j \in Ids : Carries(toClient'[j], Offers) => Carries(toClient[j], Offers)
    BY Zenon, <1>4, EmptiedQuiet DEF StartHeartbeat, Finish
  <2>2. \A j \in Ids : Carries(toHost'[j], Answers) => Carries(toHost[j], Answers)
    <3>1. CASE UNCHANGED toHost
      BY Zenon, <3>1
    <3>2. CASE toHost' = [toHost EXCEPT ![i] = SentToHost(i, <<Ping>>)]
      BY Zenon, <3>2, FramesAreMessages, PlainFrames, PlainAnswerQuiet
    <3> QED
      BY Zenon, <1>4, <3>1, <3>2 DEF StartHeartbeat, TypeOK, TcpTypeOK
  <2> QED
    BY Zenon, <1>1, <1>4, <2>1, <2>2 DEF StartHeartbeat, Finish, Quiet, TypeOK, ClientTypeOK
<1>5. CASE HandleClosed(i)
  BY Zenon, <1>1, <1>5 DEF HandleClosed, Quiet, TypeOK, ClientTypeOK
<1> QED
  BY Zenon, <1>2, <1>3, <1>4, <1>5 DEF ClientStep

\* The client's user connects nobody by themselves.
LEMMA ClientCommandQuiet ==
  ASSUME TypeOK, NEW i \in Ids, ClientCommand(i)
  PROVE  Quiet
<1>1. UNCHANGED <<state, approved>>
  BY Zenon DEF ClientCommand, hostVars
<1>2. CASE Start(i)
  BY Zenon, <1>1, <1>2 DEF Start, tcpVars, Quiet, TypeOK, ClientTypeOK
<1>3. CASE ClientStop(i)
  <2>1. \A j \in Ids : Carries(toClient'[j], Offers) => Carries(toClient[j], Offers)
    BY Zenon, <1>3, EmptiedQuiet DEF ClientStop
  <2>2. \A j \in Ids : Carries(toHost'[j], Answers) => Carries(toHost[j], Answers)
    <3>1. CASE UNCHANGED toHost
      BY Zenon, <3>1
    <3>2. CASE toHost' = [toHost EXCEPT ![i] = SentToHost(i, <<Bye>>)]
      BY Zenon, <3>2, FramesAreMessages, PlainFrames, PlainAnswerQuiet
    <3> QED
      BY Zenon, <1>3, <3>1, <3>2 DEF ClientStop, TypeOK, TcpTypeOK
  <2> QED
    BY Zenon, <1>1, <1>3, <2>1, <2>2 DEF ClientStop, Quiet, TypeOK, ClientTypeOK
<1>4. ASSUME NEW m \in {AppMessage, KeyReady}, ClientSendsApp(i, m) PROVE Quiet
  <2>1. \A j \in Ids : Carries(toHost'[j], Answers) => Carries(toHost[j], Answers)
    BY Zenon, <1>4, FramesAreMessages, PlainFrames, PlainAnswerQuiet DEF ClientSendsApp
  <2> QED
    BY Zenon, <1>1, <1>4, <2>1 DEF ClientSendsApp, clientVars, Quiet
<1> QED
  BY Zenon, <1>2, <1>3, <1>4 DEF ClientCommand

\* The network neither offers nor answers.
LEMMA NetworkStepQuiet ==
  ASSUME TypeOK, NEW i \in Ids, NetworkStep(i)
  PROVE  Quiet
<1>1. UNCHANGED <<state, approved>>
  BY Zenon DEF NetworkStep, hostVars
<1>2. \A j \in Ids : /\ toHost'[j] = toHost[j] \/ toHost'[j] = <<>>
                     /\ toClient'[j] = toClient[j] \/ toClient'[j] = <<>>
                     /\ cstate'[j] = "Connected" => cstate[j] = "Connected"
  BY Zenon DEF NetworkStep, Establish, LoseAfterClose, CutLink, ConnectFails, clientVars,
         TypeOK, TcpTypeOK, ClientTypeOK
<1>3. ~Carries(<<>>, Offers) /\ ~Carries(<<>>, Answers)
  BY Zenon, CarriesShort
<1> QED
  BY Zenon, <1>1, <1>2, <1>3 DEF Quiet

\* The host's periodic checks are quiet.
LEMMA HousekeepingQuiet ==
  ASSUME TypeOK, Housekeeping, UNCHANGED clientVars
  PROVE  Quiet
<1> DEFINE before == [i \in Ids |-> IF state[i] = "Connected" THEN <<Ping>> ELSE <<>>]
           dropped == {i \in Ids : TimedOut(i)}
<1>1. <<Ping>> \in Seq(HostMessages) /\ <<>> \in Seq(HostMessages)
  BY FramesAreMessages, ShortFrames
<1>2. before \in [Ids -> Seq(HostMessages)]
  BY Zenon, <1>1
<1>3. \A j \in Ids : ~Carries(before[j], Offers)
  BY Zenon, PlainFrames, CarriesShort
<1>4. DropWith(dropped, before, "InactivityTimeout")
  BY Zenon DEF Housekeeping
<1>5. dropped \in SUBSET Ids /\ "InactivityTimeout" \in Reasons
  BY Zenon DEF Reasons
<1> HIDE DEF before, dropped
<1>6. \A j \in Ids :
        /\ Carries(toClient'[j], Offers) => Carries(toClient[j], Offers) \/ j \in approved'
        /\ state'[j] = "Connected" => state[j] = "Connected"
  BY Zenon, <1>2, <1>3, <1>4, <1>5, DropWithQuiet
<1> QED
  BY Zenon, <1>6 DEF Housekeeping, clientVars, Quiet

\* Every step of the channel is quiet.
LEMMA NextQuiet ==
  ASSUME TypeOK, HandshakeFollowsApproval, [Next]_vars
  PROVE  Quiet
<1>1. CASE Tick
  BY Zenon, <1>1 DEF Tick, tcpVars, Quiet
<1>2. CASE Housekeeping /\ UNCHANGED clientVars
  BY Zenon, <1>2, HousekeepingQuiet
<1>3. CASE Stop /\ UNCHANGED clientVars
  <2>1. ~Carries(<<>>, Answers)
    BY Zenon, CarriesShort
  <2> QED
    BY Zenon, <1>3, <2>1 DEF Stop, clientVars, Quiet
<1>4. CASE UNCHANGED vars
  BY Zenon, <1>4 DEF vars, tcpVars, hostVars, clientVars, Quiet
<1>5. ASSUME NEW i \in Ids, HostStep(i) \/ HostCommand(i) \/ ClientStep(i)
                              \/ ClientCommand(i) \/ NetworkStep(i)
      PROVE  Quiet
  BY Zenon, <1>5, HostStepQuiet, HostCommandQuiet, ClientStepQuiet, ClientCommandQuiet,
     NetworkStepQuiet
<1> QED
  BY Zenon, <1>1, <1>2, <1>3, <1>4, <1>5 DEF Next

\* HandshakeFollowsApproval holds in every reachable state: whatever the order
\* of frames, timers, faults and user commands, the part of the handshake behind
\* approveClient() only exists for clients it accepted.
THEOREM HandshakeHolds == Spec => []HandshakeFollowsApproval
<1>1. Init => HandshakeFollowsApproval
  BY CarriesShort DEF Init, TcpInit, HostInit, ClientInit, HandshakeFollowsApproval
<1>2. TypeOK /\ HandshakeFollowsApproval /\ [Next]_vars => HandshakeFollowsApproval'
  BY Zenon, NextQuiet, QuietSuffices
<1> QED
  BY <1>1, <1>2, TypeCorrect, PTL DEF Spec

\* ConnectedWasApproved: neither side ever treats a client as connected that
\* the host did not accept.
THEOREM ApprovalHolds == Spec => []ConnectedWasApproved
<1>1. HandshakeFollowsApproval => ConnectedWasApproved
  BY Zenon DEF HandshakeFollowsApproval, ConnectedWasApproved
<1> QED
  BY <1>1, HandshakeHolds, PTL

-------------------------------------------------------------------------------
(***************************************************************************)
(* The row events of HostSession against its table: EventsTrackTable and   *)
(* DisconnectedIsFinal.  Neither is inductive: that a client reported gone *)
(* never comes back rests on its record (erased, or kept as DISCONNECTED   *)
(* by a kick) and on ids that are never accepted twice.                    *)
(***************************************************************************)

\* The inductive invariant: events and records agree while the host runs, a
\* client reported gone has no live record, and only an accepted connection
\* has a record at all.
RecordsMatchEvents ==
  \A i \in Ids :
    /\ running => (update[i] = "Connected" <=> state[i] = "Connected")
    /\ update[i] = "Disconnected" => state[i] \in {"none", "Disconnected"}
    /\ (update[i] = "Disconnected" \/ state[i] # "none") => hostEnd[i] # "none"

\* The ways in which a step may move the record of one client.
Rests(j) ==
  /\ UNCHANGED <<state[j], update[j]>>
  /\ hostEnd[j] # "none" => hostEnd'[j] # "none"

Enters(j) ==
  /\ hostEnd[j] = "none" \/ state[j] = "Connecting"
  /\ state'[j] \in {"Connecting", "Authenticating"}
  /\ hostEnd'[j] # "none"
  /\ UNCHANGED update[j]

Joins(j) ==
  /\ state[j] = "Authenticating"
  /\ state'[j] = "Connected" /\ update'[j] = "Connected"
  /\ hostEnd'[j] = hostEnd[j]

Leaves(j) ==
  /\ state'[j] \in {"none", "Disconnected"} /\ update'[j] = "Disconnected"
  /\ hostEnd'[j] # "none"

IsForgotten(j) ==
  /\ ~running' /\ state'[j] = "none" /\ UNCHANGED update[j]
  /\ hostEnd'[j] # "none"

RecordMoves ==
  /\ running' => running
  /\ \A j \in Ids : Rests(j) \/ Enters(j) \/ Joins(j) \/ Leaves(j) \/ IsForgotten(j)

\* Any of the five moves preserves the agreement of records and events,
\* and none revives a client reported gone.
LEMMA MovesSuffice ==
  ASSUME TypeOK, RecordsMatchEvents, RecordMoves
  PROVE  /\ RecordsMatchEvents'
         /\ \A i \in Ids : update[i] = "Disconnected" => update'[i] = "Disconnected"
<1> SUFFICES ASSUME NEW i \in Ids
             PROVE  /\ running' => (update'[i] = "Connected" <=> state'[i] = "Connected")
                    /\ update'[i] = "Disconnected" => state'[i] \in {"none", "Disconnected"}
                    /\ (update'[i] = "Disconnected" \/ state'[i] # "none") => hostEnd'[i] # "none"
                    /\ update[i] = "Disconnected" => update'[i] = "Disconnected"
  BY Zenon DEF RecordsMatchEvents
<1>1. /\ running => (update[i] = "Connected" <=> state[i] = "Connected")
      /\ update[i] = "Disconnected" => state[i] \in {"none", "Disconnected"}
      /\ (update[i] = "Disconnected" \/ state[i] # "none") => hostEnd[i] # "none"
      /\ running' => running
  BY Zenon DEF RecordsMatchEvents, RecordMoves
<1>2. CASE Rests(i)
  BY Zenon, <1>1, <1>2 DEF Rests
<1>3. CASE Enters(i)
  BY Zenon, <1>1, <1>3 DEF Enters
<1>4. CASE Joins(i)
  BY Zenon, <1>1, <1>4 DEF Joins
<1>5. CASE Leaves(i)
  BY Zenon, <1>5 DEF Leaves
<1>6. CASE IsForgotten(i)
  BY Zenon, <1>1, <1>6 DEF IsForgotten
<1> QED
  BY Zenon, <1>2, <1>3, <1>4, <1>5, <1>6 DEF RecordMoves

\* Dropping clients lets each record rest or leave.
LEMMA DropMoves ==
  ASSUME TypeOK, NEW dropped \in SUBSET Ids, NEW before, NEW reason,
         DropWith(dropped, before, reason)
  PROVE  \A j \in Ids : Rests(j) \/ Leaves(j)
BY Zenon DEF DropWith, Rests, Leaves

\* The same for one client.
LEMMA DropClientMoves ==
  ASSUME TypeOK, NEW i \in Ids, NEW frames, NEW reason, DropClient(i, frames, reason)
  PROVE  \A j \in Ids : Rests(j) \/ Leaves(j)
BY Zenon, DropMoves DEF DropClient

\* A closed connection lets each record rest or leave.
LEMMA CloseMoves ==
  ASSUME TypeOK, NEW i \in Ids, CloseHostEnd(i)
  PROVE  \A j \in Ids : Rests(j) \/ Leaves(j)
BY DEF CloseHostEnd, Rests, Leaves, TypeOK, TcpTypeOK, HostTypeOK

\* Each frame the host handles moves each record in one of the five ways.
LEMMA FrameMoves ==
  ASSUME TypeOK, RecordsMatchEvents, NEW i \in Ids, HandleFrame(i)
  PROVE  RecordMoves
<1> DEFINE m == Head(toHost[i])
           Goal == \A j \in Ids : Rests(j) \/ Enters(j) \/ Joins(j) \/ Leaves(j)
<1>1. ASSUME UNCHANGED <<state, update, hostEnd>> PROVE Goal
  BY Zenon, <1>1 DEF Rests
<1>2. ASSUME NEW f, NEW r, DropClient(i, f, r) PROVE Goal
  BY Zenon, <1>2, DropClientMoves
<1>3. ASSUME HandleClientHello(i, m) PROVE Goal
  <2>1. ASSUME state[i] = "Connecting", state' = [state EXCEPT ![i] = "Authenticating"],
               UNCHANGED <<hostEnd, update>>
        PROVE  Goal
    <3>1. hostEnd[i] # "none"
      BY Zenon, <2>1 DEF RecordsMatchEvents
    <3> QED
      BY Zenon, <2>1, <3>1 DEF Rests, Enters, TypeOK, HostTypeOK
  <2> QED
    BY Zenon, <1>1, <1>2, <1>3, <2>1 DEF HandleClientHello
<1>4. ASSUME HandleClientCapabilities(i, m) PROVE Goal
  <2>1. ASSUME state[i] = "Authenticating", state' = [state EXCEPT ![i] = "Connected"],
               update' = [update EXCEPT ![i] = "Connected"], UNCHANGED hostEnd
        PROVE  Goal
    BY Zenon, <2>1 DEF Rests, Joins, TypeOK, HostTypeOK
  <2> QED
    BY Zenon, <1>1, <1>2, <1>4, <2>1 DEF HandleClientCapabilities
<1>5. ASSUME HandlePing(i, m) \/ HandlePong(i, m) PROVE Goal
  BY Zenon, <1>1, <1>5 DEF HandlePing, HandlePong
<1>6. ASSUME HandleAppMessage(i, m) PROVE Goal
  BY Zenon, <1>1, <1>2, <1>6 DEF HandleAppMessage
<1>7. ASSUME HandleMalformed(i, m) PROVE Goal
  BY Zenon, <1>2, <1>7 DEF HandleMalformed
<1>8. Goal
  BY Zenon, <1>3, <1>4, <1>5, <1>6, <1>7 DEF HandleFrame
<1> QED
  BY Zenon, <1>8 DEF RecordMoves, HandleFrame

\* Every step moves each record in one of the five ways.
LEMMA NextMoves ==
  ASSUME TypeOK, RecordsMatchEvents, [Next]_vars
  PROVE  RecordMoves
<1>1. ASSUME UNCHANGED <<state, update, running, hostEnd>> PROVE RecordMoves
  BY Zenon, <1>1 DEF RecordMoves, Rests
<1>2. ASSUME NEW i \in Ids, HostStep(i) PROVE RecordMoves
  <2>1. CASE HandleNewConnection(i)
    BY Zenon, <2>1 DEF HandleNewConnection, RecordMoves, Rests, Enters, TypeOK, TcpTypeOK, HostTypeOK
  <2>2. CASE HandleBye(i) \/ HandleClientClosed(i)
    BY Zenon, <2>2, CloseMoves DEF HandleBye, HandleClientClosed, RecordMoves
  <2>3. CASE IgnoreFrame(i)
    BY Zenon, <1>1, <2>3 DEF IgnoreFrame, hostVars
  <2> QED
    BY Zenon, <1>2, <2>1, <2>2, <2>3, FrameMoves DEF HostStep
<1>3. ASSUME NEW i \in Ids, HostCommand(i) PROVE RecordMoves
  <2>1. ASSUME NEW accept \in BOOLEAN, ApproveClient(i, accept) PROVE RecordMoves
    <3>1. UNCHANGED <<state, update, hostEnd>> \/ DropClient(i, <<>>, "RejectedByHost")
      BY Zenon, <2>1 DEF ApproveClient
    <3>2. \A j \in Ids : Rests(j) \/ Leaves(j)
      BY Zenon, <3>1, DropClientMoves DEF Rests
    <3> QED
      BY Zenon, <2>1, <3>2 DEF ApproveClient, RecordMoves
  <2>2. CASE KickClient(i)
    BY Zenon, <2>2 DEF KickClient, RecordMoves, Rests, Leaves, TypeOK, TcpTypeOK, HostTypeOK
  <2>3. CASE SetClientInput(i) \/ SendAppMessage(i, AppMessage) \/ SendAppMessage(i, KeyReady)
    BY Zenon, <1>1, <2>3 DEF SetClientInput, SendAppMessage, hostVars
  <2> QED
    BY Zenon, <1>3, <2>1, <2>2, <2>3 DEF HostCommand
<1>4. ASSUME NEW i \in Ids, ClientStep(i) PROVE RecordMoves
  BY Zenon, <1>1, <1>4 DEF ClientStep, hostVars, HandleConnected, ClientHandleFrame, StartHeartbeat,
                    HandleClosed
<1>5. ASSUME NEW i \in Ids, ClientCommand(i) PROVE RecordMoves
  BY Zenon, <1>1, <1>5 DEF ClientCommand, hostVars, Start, tcpVars, ClientStop, ClientSendsApp
<1>6. ASSUME NEW i \in Ids, NetworkStep(i) PROVE RecordMoves
  BY Zenon, <1>1, <1>6 DEF NetworkStep, hostVars, Establish, LoseAfterClose, CutLink, ConnectFails
<1>7. CASE Housekeeping
  BY Zenon, <1>7, DropMoves DEF Housekeeping, RecordMoves
<1>8. CASE Stop
  BY Zenon, <1>8 DEF Stop, RecordMoves, IsForgotten
<1>9. CASE Tick \/ UNCHANGED vars
  BY Zenon, <1>1, <1>9 DEF Tick, vars, tcpVars, hostVars
<1> QED
  BY Zenon, <1>2, <1>3, <1>4, <1>5, <1>6, <1>7, <1>8, <1>9 DEF Next

\* RecordsMatchEvents is inductive over the types.
LEMMA EventsInvariant == Spec => []RecordsMatchEvents
<1>1. Init => RecordsMatchEvents
  BY Zenon DEF Init, TcpInit, HostInit, RecordsMatchEvents
<1>2. TypeOK /\ RecordsMatchEvents /\ [Next]_vars => RecordsMatchEvents'
  BY Zenon, NextMoves, MovesSuffice
<1> QED
  BY <1>1, <1>2, TypeCorrect, PTL DEF Spec

\* EventsTrackTable: for any number of clients and any schedule, the clients
\* onClientUpdated last reported as connected are the CONNECTED records.
THEOREM EventsHold == Spec => []EventsTrackTable
<1>1. RecordsMatchEvents => EventsTrackTable
  BY Zenon DEF RecordsMatchEvents, EventsTrackTable
<1> QED
  BY <1>1, EventsInvariant, PTL

\* DisconnectedIsFinal: onClientUpdated never reports a client again after it
\* reported it gone, whatever frames, timers and commands follow.
THEOREM FinalityHolds == Spec => DisconnectedIsFinal
<1>1. TypeOK /\ RecordsMatchEvents /\ [Next]_vars
        => [\A i \in Ids : update[i] = "Disconnected" => update'[i] = "Disconnected"]_vars
  BY Zenon, NextMoves, MovesSuffice
<1> QED
  BY <1>1, EventsInvariant, TypeCorrect, PTL DEF Spec, DisconnectedIsFinal
===============================================================================
