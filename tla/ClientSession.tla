--------------------------- MODULE ClientSession ----------------------------
(***************************************************************************)
(* client/ClientSession: one session object per connection, created for    *)
(* one join and destroyed when the player leaves (ClientApp does both).    *)
(* Handlers run on the session's own network thread; after finish() stopped*)
(* the io_context none of them runs again.                                 *)
(*                                                                         *)
(*   cstate   ClientStatus::state, "Idle" before start()                   *)
(*   cperm    ClientStatus::input                                          *)
(*   cidle    time since lastActivity_, in ticks, capped                   *)
(*   cdue     the heartbeat timer has expired                              *)
(***************************************************************************)
EXTENDS TcpTransport

CONSTANTS CodecChoices,              \* lists a client may be configured with
          ClientHeartbeatTimeout

ASSUME ClientAssumption ==
  /\ CodecChoices \subseteq SUBSET Codecs
  /\ ClientHeartbeatTimeout \in Nat

VARIABLES cstate, cperm, cidle, cdue

clientVars == <<cstate, cperm, cidle, cdue>>

CIdleCap == ClientHeartbeatTimeout + 1

ClientTypeOK ==
  /\ cstate \in [Ids -> {"Idle", "Connecting", "Authenticating", "Connected", "Disconnected"}]
  /\ cperm \in [Ids -> Permissions]
  /\ cidle \in [Ids -> 0 .. CIdleCap]
  /\ cdue \in [Ids -> BOOLEAN]

\* lastActivity_ is the clock's epoch until the connection is up: the
\* watchdog reads that as an expired silence.
ClientInit ==
  /\ cstate = [i \in Ids |-> "Idle"]
  /\ cperm = [i \in Ids |-> "builtin"]
  /\ cidle = [i \in Ids |-> CIdleCap]
  /\ cdue = [i \in Ids |-> FALSE]

Active(i) == cstate[i] \in {"Connecting", "Authenticating", "Connected"}

\* finish() on the network thread: close() is only posted, and io_.stop()
\* keeps it from running, so the socket stays open and unread.
Finish(i) ==
  /\ cstate' = [cstate EXCEPT ![i] = "Disconnected"]
  /\ cdue' = [cdue EXCEPT ![i] = FALSE]
  /\ clientEnd' = [clientEnd EXCEPT ![i] = IF ClientReads(i) THEN "mute" ELSE @]
  /\ toClient' = [toClient EXCEPT ![i] = <<>>]

Start(i) ==
  /\ cstate[i] = "Idle"
  /\ cstate' = [cstate EXCEPT ![i] = "Connecting"]
  /\ UNCHANGED <<tcpVars, cperm, cidle, cdue>>

\* The connect callback with an error: refused, unreachable or timed out.
ConnectFails(i) ==
  /\ cstate[i] = "Connecting"
  /\ cstate' = [cstate EXCEPT ![i] = "Disconnected"]
  /\ cdue' = [cdue EXCEPT ![i] = FALSE]
  /\ clientEnd' = [clientEnd EXCEPT ![i] = IF @ = "pending" THEN "closed" ELSE @]
  /\ toClient' = [toClient EXCEPT ![i] = <<>>]
  /\ UNCHANGED <<toHost, hostEnd, link, cperm, cidle>>

HandleConnected(i) ==
  /\ cstate[i] = "Connecting"
  /\ clientEnd[i] = "pending"
  /\ clientEnd' = [clientEnd EXCEPT ![i] = "open"]
  /\ \E codeIsRight \in BOOLEAN :
       toHost' = [toHost EXCEPT ![i] =
         IF hostEnd[i] # "closed" /\ link[i] THEN @ \o <<ClientHello(codeIsRight)>> ELSE @]
  /\ cstate' = [cstate EXCEPT ![i] = "Authenticating"]
  /\ cidle' = [cidle EXCEPT ![i] = 0]
  /\ UNCHANGED <<toClient, hostEnd, link, cperm, cdue>>

\* HOST_APPROVED and PONG change nothing the model keeps; an application
\* message is forwarded when connected and ignored otherwise.
HandleSilent(i, m) ==
  /\ m.type \in {"HostApproved", "Pong", "App"}
  /\ ClientReceives(i)
  /\ UNCHANGED <<toHost, clientEnd, cstate, cperm, cdue>>

HandleHostCapabilities(i, m) ==
  /\ m.type = "HostCapabilities"
  /\ ClientReceives(i)
  /\ \E codecs \in CodecChoices :
       toHost' = [toHost EXCEPT ![i] = SentToHost(i, <<ClientCapabilities(codecs)>>)]
  /\ UNCHANGED <<clientEnd, cstate, cperm, cdue>>

\* Fault: an accepted negotiation leaves the state alone.
NegotiationUnrecorded(i, m) ==
  /\ m.type = "NegotiationResult"
  /\ m.accepted
  /\ ClientReceives(i)
  /\ UNCHANGED <<toHost, clientEnd, cstate, cperm, cdue>>

HandleNegotiation(i, m) ==
  /\ m.type = "NegotiationResult"
  /\ m.accepted
  /\ ClientReceives(i)
  /\ cstate' = [cstate EXCEPT ![i] = "Connected"]
  /\ UNCHANGED <<toHost, clientEnd, cperm, cdue>>

HandlePingFromHost(i, m) ==
  /\ m.type = "Ping"
  /\ ClientReceives(i)
  /\ toHost' = [toHost EXCEPT ![i] = SentToHost(i, <<Pong>>)]
  /\ UNCHANGED <<clientEnd, cstate, cperm, cdue>>

HandleInputPermission(i, m) ==
  /\ m.type = "InputPermission"
  /\ ClientReceives(i)
  /\ cperm' = [cperm EXCEPT ![i] = m.perm]
  /\ UNCHANGED <<toHost, clientEnd, cstate, cdue>>

\* A refused negotiation, HOST_REJECT, KICK and a frame that cannot be decoded
\* all end in finish().
HandleFarewell(i, m) ==
  /\ \/ m.type = "NegotiationResult" /\ ~m.accepted
     \/ m.type \in {"HostReject", "Kick"}
     \/ ~Decodable(m)
  /\ Finish(i)
  /\ UNCHANGED <<toHost, cperm>>

\* handleFrame()
ClientHandleFrame(i) ==
  /\ clientEnd[i] = "open"
  /\ toClient[i] # <<>>
  /\ cidle' = [cidle EXCEPT ![i] = 0]
  /\ LET m == Head(toClient[i]) IN
       \/ HandleSilent(i, m)
       \/ HandleHostCapabilities(i, m)
       \/ HandleNegotiation(i, m)
       \/ HandlePingFromHost(i, m)
       \/ HandleInputPermission(i, m)
       \/ HandleFarewell(i, m)
  /\ UNCHANGED <<hostEnd, link>>

\* Fault: a heartbeat without the watchdog.
HeartbeatUnwatched(i) ==
  /\ Active(i)
  /\ cdue[i]
  /\ cdue' = [cdue EXCEPT ![i] = FALSE]
  /\ toHost' = [toHost EXCEPT ![i] =
       IF cstate[i] = "Connected" THEN SentToHost(i, <<Ping>>) ELSE @]
  /\ UNCHANGED <<toClient, clientEnd, cstate, hostEnd, link, cperm, cidle>>

\* Fault: the watchdog only guards a connected session.
HeartbeatConnectedOnly(i) ==
  /\ Active(i)
  /\ cdue[i]
  /\ IF cstate[i] = "Connected" /\ cidle[i] > ClientHeartbeatTimeout
       THEN Finish(i)
       ELSE cdue' = [cdue EXCEPT ![i] = FALSE] /\ UNCHANGED <<toClient, clientEnd, cstate>>
  /\ UNCHANGED <<toHost, hostEnd, link, cperm, cidle>>

\* The watchdog, then a PING when connected.
StartHeartbeat(i) ==
  /\ Active(i)
  /\ cdue[i]
  /\ \/ /\ cidle[i] > ClientHeartbeatTimeout
        /\ Finish(i)
        /\ UNCHANGED toHost
     \/ /\ cidle[i] <= ClientHeartbeatTimeout
        /\ cdue' = [cdue EXCEPT ![i] = FALSE]
        /\ toHost' = [toHost EXCEPT ![i] =
             IF cstate[i] = "Connected" THEN SentToHost(i, <<Ping>>) ELSE @]
        /\ UNCHANGED <<toClient, clientEnd, cstate>>
  /\ UNCHANGED <<hostEnd, link, cperm, cidle>>

\* The read side ended: handleClosed() runs inside shutdown().
HandleClosed(i) ==
  /\ Active(i)
  /\ ClientSeesEnd(i)
  /\ cstate' = [cstate EXCEPT ![i] = "Disconnected"]
  /\ cdue' = [cdue EXCEPT ![i] = FALSE]
  /\ clientEnd' = [clientEnd EXCEPT ![i] = "closed"]
  /\ UNCHANGED <<toHost, toClient, hostEnd, link, cperm, cidle>>

\* The player leaves: stop() sends BYE, which reaches the socket within the
\* grace period or not, and the session object is destroyed.
ClientStop(i) ==
  /\ cstate[i] # "Idle"
  /\ clientEnd[i] # "closed"
  /\ Active(i) \/ clientEnd[i] = "mute"
  /\ \E flushed \in BOOLEAN :
       toHost' = [toHost EXCEPT ![i] =
         IF Active(i) /\ flushed THEN SentToHost(i, <<Bye>>) ELSE @]
  /\ cstate' = [cstate EXCEPT ![i] = "Disconnected"]
  /\ cdue' = [cdue EXCEPT ![i] = FALSE]
  /\ clientEnd' = [clientEnd EXCEPT ![i] = IF @ = "none" THEN @ ELSE "closed"]
  /\ toClient' = [toClient EXCEPT ![i] = <<>>]
  /\ UNCHANGED <<hostEnd, link, cperm, cidle>>
=============================================================================
