---------------------------- MODULE HostSession -----------------------------
(***************************************************************************)
(* host/HostSession: the client table and its handlers.  Every handler and *)
(* every lambda posted by the public methods runs on the one network       *)
(* thread, so each is one action.  Init is the state start() leaves.       *)
(*                                                                         *)
(*   state      state of the record in clients_, "none" without a record   *)
(*   input      ClientRecord::input                                        *)
(*   idle       time since ClientRecord::lastActivity, in ticks, capped    *)
(*   snapshot   the rows clients() returns                                 *)
(*   deciding   ids whose approval request awaits the host's answer        *)
(*   running    running_ and not stopping_                                 *)
(*   due        the housekeeping timer has expired                         *)
(*                                                                         *)
(* History, never read by the handlers:                                    *)
(*   approved   ids approveClient() accepted                               *)
(*   update     state carried by the last onClientUpdated, "none" before   *)
(*   ended      reasons the host gave for ending a connection              *)
(***************************************************************************)
EXTENDS TcpTransport

CONSTANTS MaxClients, AutoApprove, MaxBacklog,
          HelloTimeout, ApprovalTimeout, HostHeartbeatTimeout

ASSUME HostAssumption ==
  /\ MaxClients \in Nat
  /\ AutoApprove \in BOOLEAN
  /\ {MaxBacklog, HelloTimeout, ApprovalTimeout, HostHeartbeatTimeout} \subseteq Nat

VARIABLES state, input, idle, snapshot, deciding, running, due,
          approved, update, ended

hostVars == <<state, input, idle, snapshot, deciding, running, due,
              approved, update, ended>>

HostStates == {"none", "Connecting", "Authenticating", "Connected", "Disconnected"}

\* The record leaves its timeout behind for good one tick after the longest one.
IdleCap == HelloTimeout + ApprovalTimeout + HostHeartbeatTimeout + 1

HostTypeOK ==
  /\ state \in [Ids -> HostStates]
  /\ input \in [Ids -> Permissions]
  /\ idle \in [Ids -> 0 .. IdleCap]
  /\ snapshot \in [Ids -> [state : HostStates, inputEnabled : BOOLEAN]]
  /\ deciding \subseteq Ids
  /\ running \in BOOLEAN
  /\ due \in BOOLEAN
  /\ approved \subseteq Ids
  /\ update \in [Ids -> {"none", "Connected", "Disconnected"}]
  /\ ended \in [Ids -> SUBSET (Reasons \cup {"Kick"})]

Records == {i \in Ids : state[i] # "none"}

Row(st, perm) == [state |-> st, inputEnabled |-> st # "none" /\ perm # "none"]

HostInit ==
  /\ state = [i \in Ids |-> "none"]
  /\ input = [i \in Ids |-> "builtin"]
  /\ idle = [i \in Ids |-> 0]
  /\ snapshot = [i \in Ids |-> Row("none", "builtin")]
  /\ deciding = {}
  /\ running = TRUE
  /\ due = FALSE
  /\ approved = {}
  /\ update = [i \in Ids |-> "none"]
  /\ ended = [i \in Ids |-> {}]

RebuildSnapshot == snapshot' = [i \in Ids |-> Row(state'[i], input'[i])]

\* dropClient() for every id of a set: the frames a handler queued before it,
\* HOST_REJECT, the row event, and the record is erased.
DropWith(dropped, before, reason) ==
  /\ toClient' = [i \in Ids |->
       IF i \in dropped THEN SentToClient(i, before[i] \o <<HostReject(reason)>>)
                        ELSE SentToClient(i, before[i])]
  /\ hostEnd' = [i \in Ids |-> IF i \in dropped THEN "closing" ELSE hostEnd[i]]
  /\ state' = [i \in Ids |-> IF i \in dropped THEN "none" ELSE state[i]]
  /\ input' = [i \in Ids |-> IF i \in dropped THEN "builtin" ELSE input[i]]
  /\ idle' = [i \in Ids |-> IF i \in dropped THEN 0 ELSE idle[i]]
  /\ update' = [i \in Ids |-> IF i \in dropped THEN "Disconnected" ELSE update[i]]
  /\ ended' = [i \in Ids |-> IF i \in dropped THEN ended[i] \cup {reason} ELSE ended[i]]

Nothing == [i \in Ids |-> <<>>]

DropClient(i, frames, reason) ==
  /\ DropWith({i}, [Nothing EXCEPT ![i] = frames], reason)
  /\ RebuildSnapshot

\* Fault: a closed connection loses its record without a row event.
CloseUnreported(i) ==
  /\ hostEnd' = [hostEnd EXCEPT ![i] = "closed"]
  /\ toHost' = [toHost EXCEPT ![i] = <<>>]
  /\ idle' = [idle EXCEPT ![i] = 0]
  /\ state' = [state EXCEPT ![i] = "none"]
  /\ input' = [input EXCEPT ![i] = "builtin"]
  /\ UNCHANGED update
  /\ RebuildSnapshot

\* shutdown() and then handleClientClosed(): nothing is left to do when
\* dropClient() already erased the record.
CloseHostEnd(i) ==
  /\ hostEnd' = [hostEnd EXCEPT ![i] = "closed"]
  /\ toHost' = [toHost EXCEPT ![i] = <<>>]
  /\ idle' = [idle EXCEPT ![i] = 0]
  /\ IF state[i] = "none"
       THEN UNCHANGED <<state, input, update, snapshot>>
       ELSE /\ state' = [state EXCEPT ![i] = "none"]
            /\ input' = [input EXCEPT ![i] = "builtin"]
            /\ update' = [update EXCEPT ![i] = "Disconnected"]
            /\ RebuildSnapshot

HandleNewConnection(i) ==
  /\ running
  /\ hostEnd[i] = "none"
  /\ clientEnd[i] # "none"
  /\ hostEnd' = [hostEnd EXCEPT ![i] = "open"]
  /\ state' = [state EXCEPT ![i] = "Connecting"]
  /\ idle' = [idle EXCEPT ![i] = 0]
  /\ UNCHANGED <<input, toHost, toClient, clientEnd, link,
                 deciding, running, due, approved, update, ended>>
  /\ RebuildSnapshot

\* Fault: the limit is tested one record late.
FullOneLate == Cardinality(Records) > MaxClients + 1

\* handleClientHello()'s test; the record of the joining client is in the table.
Full == Cardinality(Records) > MaxClients

\* Fault: the row event is raised for every state change.
HelloReported(i, m) ==
  /\ m.type = "ClientHello"
  /\ state' = [state EXCEPT ![i] = "Authenticating"]
  /\ update' = [update EXCEPT ![i] = "Authenticating"]
  /\ UNCHANGED <<toClient, hostEnd, input, snapshot, deciding, ended>>

\* Fault: a right code counts as the host's consent.
HelloTrusted(i, m) ==
  /\ m.type = "ClientHello"
  /\ state' = [state EXCEPT ![i] = "Authenticating"]
  /\ toClient' = [toClient EXCEPT ![i] =
       SentToClient(i, <<HostApproved, HostCapabilities>>)]
  /\ UNCHANGED <<hostEnd, input, snapshot, deciding, update, ended>>

HandleClientHello(i, m) ==
  /\ m.type = "ClientHello"
  /\ \/ /\ state[i] # "Connecting"
        /\ UNCHANGED <<toClient, hostEnd, state, input, snapshot, deciding, update, ended>>
     \/ /\ state[i] = "Connecting"
        /\ Full
        /\ DropClient(i, <<>>, "ServerFull")
        /\ UNCHANGED deciding
     \/ /\ state[i] = "Connecting"
        /\ ~Full
        /\ ~m.code
        /\ DropClient(i, <<>>, "BadSessionCode")
        /\ UNCHANGED deciding
     \/ /\ state[i] = "Connecting"
        /\ ~Full
        /\ m.code
        /\ state' = [state EXCEPT ![i] = "Authenticating"]
        /\ input' = [input EXCEPT ![i] = "defaults"]
        /\ deciding' = deciding \cup {i}
        /\ UNCHANGED <<toClient, hostEnd, update, ended>>
        /\ RebuildSnapshot

\* Fault: the state of the record is not tested.
CapabilitiesUnguarded(i, m) ==
  /\ m.type = "ClientCapabilities"
  /\ toClient' = [toClient EXCEPT ![i] =
       SentToClient(i, <<NegotiationResult(TRUE), InputPermission(input[i])>>)]
  /\ state' = [state EXCEPT ![i] = "Connected"]
  /\ update' = [update EXCEPT ![i] = "Connected"]
  /\ UNCHANGED <<hostEnd, input, ended, deciding>>
  /\ RebuildSnapshot

\* Fault: the result is sent and the record stays AUTHENTICATING.
CapabilitiesUnrecorded(i, m) ==
  /\ m.type = "ClientCapabilities"
  /\ toClient' = [toClient EXCEPT ![i] =
       SentToClient(i, <<NegotiationResult(TRUE), InputPermission(input[i])>>)]
  /\ UNCHANGED <<hostEnd, state, input, snapshot, update, ended, deciding>>

HandleClientCapabilities(i, m) ==
  /\ m.type = "ClientCapabilities"
  /\ \/ /\ state[i] # "Authenticating"
        /\ UNCHANGED <<toClient, hostEnd, state, input, snapshot, update, ended>>
     \/ /\ state[i] = "Authenticating"
        /\ ~HasCommonCodec(m.codecs)
        /\ DropClient(i, <<NegotiationResult(FALSE)>>, "NoCommonCodec")
     \/ /\ state[i] = "Authenticating"
        /\ HasCommonCodec(m.codecs)
        /\ toClient' = [toClient EXCEPT ![i] =
             SentToClient(i, <<NegotiationResult(TRUE), InputPermission(input[i])>>)]
        /\ state' = [state EXCEPT ![i] = "Connected"]
        /\ update' = [update EXCEPT ![i] = "Connected"]
        /\ UNCHANGED <<hostEnd, input, ended>>
        /\ RebuildSnapshot
  /\ UNCHANGED deciding

HandlePing(i, m) ==
  /\ m.type = "Ping"
  /\ toClient' = [toClient EXCEPT ![i] = SentToClient(i, <<Pong>>)]
  /\ UNCHANGED <<hostEnd, state, input, snapshot, deciding, update, ended>>

\* handlePong() updates the RTT and rebuilds the rows.
HandlePong(i, m) ==
  /\ m.type = "Pong"
  /\ UNCHANGED <<toClient, hostEnd, state, input, deciding, update, ended>>
  /\ RebuildSnapshot

\* An application message is handed to onAppMessage, or is a protocol error.
HandleAppMessage(i, m) ==
  /\ m.type = "App"
  /\ IF state[i] = "Connected"
       THEN UNCHANGED <<toClient, hostEnd, state, input, snapshot, update, ended>>
       ELSE DropClient(i, <<>>, "ProtocolError")
  /\ UNCHANGED deciding

\* A frame that cannot be decoded ends the connection in any state.
HandleMalformed(i, m) ==
  /\ ~Decodable(m)
  /\ DropClient(i, <<>>, "ProtocolError")
  /\ UNCHANGED deciding

\* handleFrame() for a record that exists.
HandleFrame(i) ==
  /\ running
  /\ state[i] # "none"
  /\ HostReceives(i)
  /\ idle' = [idle EXCEPT ![i] = 0]
  /\ LET m == Head(toHost[i]) IN
       \/ HandleClientHello(i, m)
       \/ HandleClientCapabilities(i, m)
       \/ HandlePing(i, m)
       \/ HandlePong(i, m)
       \/ HandleAppMessage(i, m)
       \/ HandleMalformed(i, m)
  /\ UNCHANGED <<clientEnd, link, running, due, approved>>

\* BYE closes the connection without a reject and erases the record.
HandleBye(i) ==
  /\ running
  /\ state[i] # "none"
  /\ HostReads(i)
  /\ toHost[i] # <<>>
  /\ Head(toHost[i]).type = "Bye"
  /\ CloseHostEnd(i)
  /\ UNCHANGED <<toClient, clientEnd, link, deciding, running, due, approved, ended>>

\* Frames still arriving for an erased record are read and ignored.
IgnoreFrame(i) ==
  /\ running
  /\ state[i] = "none"
  /\ HostReceives(i)
  /\ UNCHANGED <<toClient, hostEnd, clientEnd, link, hostVars>>

\* The last write of sendAndClose() completed, or the read side ended.
HandleClientClosed(i) ==
  /\ running
  /\ hostEnd[i] = "closing" \/ HostSeesEnd(i)
  /\ CloseHostEnd(i)
  /\ UNCHANGED <<toClient, clientEnd, link, deciding, running, due, approved, ended>>

\* The answer to one approval request: autoApprove posts an acceptance, the
\* approval dialog posts either answer.
ApproveClient(i, accept) ==
  /\ running
  /\ i \in deciding
  /\ AutoApprove => accept
  /\ deciding' = deciding \ {i}
  /\ \/ /\ state[i] # "Authenticating"
        /\ UNCHANGED <<toClient, hostEnd, state, input, idle, snapshot,
                       approved, update, ended>>
     \/ /\ state[i] = "Authenticating"
        /\ ~accept
        /\ DropClient(i, <<>>, "RejectedByHost")
        /\ UNCHANGED approved
     \/ /\ state[i] = "Authenticating"
        /\ accept
        /\ toClient' = [toClient EXCEPT ![i] =
             SentToClient(i, <<HostApproved, HostCapabilities>>)]
        /\ approved' = approved \cup {i}
        /\ idle' = [idle EXCEPT ![i] = 0]
        /\ UNCHANGED <<hostEnd, state, input, snapshot, update, ended>>
  /\ UNCHANGED <<toHost, clientEnd, link, running, due>>

\* The record of a kicked client stays until its connection is closed.
KickClient(i) ==
  /\ running
  /\ state[i] # "none"
  /\ Len(toClient[i]) < MaxBacklog
  /\ toClient' = [toClient EXCEPT ![i] = SentToClient(i, <<Kick>>)]
  /\ hostEnd' = [hostEnd EXCEPT ![i] = "closing"]
  /\ state' = [state EXCEPT ![i] = "Disconnected"]
  /\ update' = [update EXCEPT ![i] = "Disconnected"]
  /\ ended' = [ended EXCEPT ![i] = @ \cup {"Kick"}]
  /\ UNCHANGED <<input, toHost, clientEnd, link, idle, deciding, running, due, approved>>
  /\ RebuildSnapshot

\* Fault: the changed permission is not pushed to the client.
SetInputUnpushed(i) ==
  /\ running
  /\ state[i] # "none"
  /\ input' = [input EXCEPT ![i] = IF snapshot[i].inputEnabled THEN "none" ELSE "defaults"]
  /\ UNCHANGED <<tcpVars, state, idle, snapshot, deciding, running, due,
                 approved, update, ended>>

\* The window's button asks for the opposite of what the row shows.
SetClientInput(i) ==
  /\ running
  /\ state[i] # "none"
  /\ snapshot[i].state # "none"
  /\ Len(toClient[i]) < MaxBacklog
  /\ LET perm == IF snapshot[i].inputEnabled THEN "none" ELSE "defaults" IN
       /\ input' = [input EXCEPT ![i] = perm]
       /\ toClient' = [toClient EXCEPT ![i] = SentToClient(i, <<InputPermission(perm)>>)]
  /\ UNCHANGED <<toHost, hostEnd, clientEnd, link, state, idle, snapshot, deciding,
                 running, due, approved, update, ended>>

\* The coordinator writes to a client once it was told the client is connected.
SendAppMessage(i, m) ==
  /\ running
  /\ state[i] # "none"
  /\ update[i] # "none"
  /\ Len(toClient[i]) < MaxBacklog
  /\ toClient' = [toClient EXCEPT ![i] = SentToClient(i, <<m>>)]
  /\ UNCHANGED <<toHost, hostEnd, clientEnd, link, hostVars>>

\* Fault: a connected client is never timed out.
TimedOutBeforeConnected(i) ==
  \/ state[i] = "Connecting" /\ idle[i] > HelloTimeout
  \/ state[i] = "Authenticating" /\ idle[i] > ApprovalTimeout

TimedOut(i) ==
  \/ state[i] = "Connecting" /\ idle[i] > HelloTimeout
  \/ state[i] = "Authenticating" /\ idle[i] > ApprovalTimeout
  \/ state[i] = "Connected" /\ idle[i] > HostHeartbeatTimeout

\* Probes every connected client, then drops the ones that were idle too long.
Housekeeping ==
  /\ running
  /\ due
  /\ due' = FALSE
  /\ DropWith({i \in Ids : TimedOut(i)},
              [i \in Ids |-> IF state[i] = "Connected" THEN <<Ping>> ELSE <<>>],
              "InactivityTimeout")
  /\ snapshot' = IF \E i \in Ids : TimedOut(i)
                   THEN [i \in Ids |-> Row(state'[i], input'[i])] ELSE snapshot
  /\ UNCHANGED <<toHost, clientEnd, link, deciding, running, approved>>

\* stop() and the destruction that follows it: the table and the rows are
\* emptied without row events and every socket is closed.
Stop ==
  /\ running
  /\ running' = FALSE
  /\ due' = FALSE
  /\ state' = [i \in Ids |-> "none"]
  /\ input' = [i \in Ids |-> "builtin"]
  /\ hostEnd' = [i \in Ids |-> "closed"]
  /\ toHost' = [i \in Ids |-> <<>>]
  /\ idle' = [i \in Ids |-> 0]
  /\ deciding' = {}
  /\ UNCHANGED <<toClient, clientEnd, link, approved, update, ended>>
  /\ RebuildSnapshot
=============================================================================
