---------------------------- MODULE TcpTransport ----------------------------
(***************************************************************************)
(* networking/TcpTransport: one framed TCP connection per client, numbered *)
(* by the id HostSession gives it.  Each direction is one FIFO of frames   *)
(* (outbox_, kernel buffers and network together); each end remembers how  *)
(* far its TcpConnection got.                                              *)
(*                                                                         *)
(*   hostEnd    "none"     not accepted yet                                *)
(*              "open"     reading and writing                             *)
(*              "closing"  closeAfterWrite_ set, last write outstanding    *)
(*              "closed"   shutdown() ran                                  *)
(*   clientEnd  "none"     no TCP connection                               *)
(*              "pending"  connected by the kernel, callback not yet run   *)
(*              "open"     reading and writing                             *)
(*              "mute"     io_context stopped before the posted shutdown() *)
(*                         ran: the socket is open and nobody reads it     *)
(*              "closed"   shutdown() ran or the session was destroyed     *)
(*   link       FALSE once the network path is silently lost               *)
(***************************************************************************)
EXTENDS Protocol, FiniteSets

CONSTANT Ids                 \* client ids HostSession may hand out

ASSUME IdsAssumption == IsFiniteSet(Ids)

VARIABLES toHost, toClient, hostEnd, clientEnd, link

tcpVars == <<toHost, toClient, hostEnd, clientEnd, link>>

TcpTypeOK ==
  /\ toHost \in [Ids -> Seq(ClientMessages)]
  /\ toClient \in [Ids -> Seq(HostMessages)]
  /\ hostEnd \in [Ids -> {"none", "open", "closing", "closed"}]
  /\ clientEnd \in [Ids -> {"none", "pending", "open", "mute", "closed"}]
  /\ link \in [Ids -> BOOLEAN]

TcpInit ==
  /\ toHost = [i \in Ids |-> <<>>]
  /\ toClient = [i \in Ids |-> <<>>]
  /\ hostEnd = [i \in Ids |-> "none"]
  /\ clientEnd = [i \in Ids |-> "none"]
  /\ link = [i \in Ids |-> TRUE]

HostReads(i) == hostEnd[i] \in {"open", "closing"}
ClientReads(i) == clientEnd[i] \in {"pending", "open"}

\* send(): queued while the connection is not closed (a pending close only
\* acts once the outbox is empty).  Frames nobody can read are not kept.
SentToClient(i, frames) ==
  IF HostReads(i) /\ ClientReads(i) /\ link[i] THEN toClient[i] \o frames
                                               ELSE toClient[i]

SentToHost(i, frames) ==
  IF clientEnd[i] = "open" /\ hostEnd[i] # "closed" /\ link[i]
    THEN toHost[i] \o frames ELSE toHost[i]

\* A frame handler consumes the frame it is called with.
HostReceives(i) ==
  /\ HostReads(i)
  /\ toHost[i] # <<>>
  /\ toHost' = [toHost EXCEPT ![i] = Tail(@)]

ClientReceives(i) ==
  /\ clientEnd[i] = "open"
  /\ toClient[i] # <<>>
  /\ toClient' = [toClient EXCEPT ![i] = Tail(@)]

\* The kernel completes the TCP handshake; the accept handler and the connect
\* callback run later, in either order.
Establish(i) ==
  /\ clientEnd[i] = "none"
  /\ hostEnd[i] = "none"
  /\ clientEnd' = [clientEnd EXCEPT ![i] = "pending"]
  /\ UNCHANGED <<toHost, toClient, hostEnd, link>>

\* Frames still unsent or unread when the sender's end is closed may be lost:
\* shutdown() clears outbox_, and closing a socket with unread input resets
\* the connection.
LoseAfterClose(i) ==
  \/ /\ hostEnd[i] = "closed"
     /\ toClient[i] # <<>>
     /\ toClient' = [toClient EXCEPT ![i] = <<>>]
     /\ UNCHANGED <<toHost, hostEnd, clientEnd, link>>
  \/ /\ clientEnd[i] = "closed"
     /\ toHost[i] # <<>>
     /\ toHost' = [toHost EXCEPT ![i] = <<>>]
     /\ UNCHANGED <<toClient, hostEnd, clientEnd, link>>

\* The network path disappears without telling either end.
CutLink(i) ==
  /\ link[i]
  /\ clientEnd[i] # "none"
  /\ link' = [link EXCEPT ![i] = FALSE]
  /\ toHost' = [toHost EXCEPT ![i] = <<>>]
  /\ toClient' = [toClient EXCEPT ![i] = <<>>]
  /\ UNCHANGED <<hostEnd, clientEnd>>

\* What a pending read reports: end of stream or reset, after the last frame.
HostSeesEnd(i) ==
  /\ HostReads(i)
  /\ toHost[i] = <<>>
  /\ clientEnd[i] = "closed"
  /\ link[i]

ClientSeesEnd(i) ==
  /\ clientEnd[i] = "open"
  /\ toClient[i] = <<>>
  /\ hostEnd[i] = "closed"
  /\ link[i]
=============================================================================
