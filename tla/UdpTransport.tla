----------------------------- MODULE UdpTransport -----------------------------
(***************************************************************************)
(* Which way the two UDP transports of a session send: straight to each    *)
(* other or through the relay.  The path is learnt from what arrives; only *)
(* the client runs the ping timer, and with it the fallback to the relay.  *)
(* Over the internet both ends have an active crypto sink, on a LAN they   *)
(* may have none.  The program's sink, SecureChannel, opens a datagram     *)
(* only under the header it was sealed with.  Datagrams may be delayed,    *)
(* and on the direct path lost.                                            *)
(***************************************************************************)
EXTENDS Integers, FiniteSets

CONSTANTS Silence,                     \* 5 s without a datagram, in ticks
          MaxSwitches                  \* bound: calls of setPeer after the start

ASSUME TransportAssumption ==
  Silence \in Nat /\ MaxSwitches \in Nat

Ends == {"host", "client"}
Other(s) == IF s = "host" THEN "client" ELSE "host"
Paths == {"direct", "relay"}
Unknown == "unknown"

VARIABLES relayed,                     \* internet session: a relay and a fallback are set
          sealing,                     \* both ends have an active sink
          peer,                        \* where each end sends
          sinceRx,                     \* ticks since a datagram of the session came
          heard,                       \* ends a datagram has come to
          pingDue,                     \* the client's ping timer has expired
          directUp,                    \* the direct path still works
          switches,                    \* calls of setPeer so far
          underWay                     \* datagrams under way

transportVars == <<relayed, sealing, peer, sinceRx, heard, pingDue, directUp, switches, underWay>>

\* The part of a header that postDatagram rewrites: flag and payload size.
Clear == [encrypted |-> FALSE, size |-> "payload"]
Rewritten == [encrypted |-> TRUE, size |-> "sealed"]
ClearParts == {Clear, Rewritten}

Datagrams == [to : Ends, via : Paths, type : {"Ping", "Pong", "Video"},
              aad : ClearParts, header : ClearParts]

TransportTypeOK ==
  /\ relayed \in BOOLEAN /\ sealing \in BOOLEAN /\ pingDue \in BOOLEAN /\ directUp \in BOOLEAN
  /\ peer \in [Ends -> Paths \cup {Unknown}]
  /\ relayed => \A s \in Ends : peer[s] # Unknown
  /\ sinceRx \in [Ends -> 0 .. Silence + 1]
  /\ heard \subseteq Ends
  /\ switches \in 0 .. MaxSwitches
  /\ underWay \subseteq Datagrams

\* On a LAN the client knows the host's address and the host learns the
\* client's; over the internet both start on the relay.
TransportInit ==
  /\ relayed \in BOOLEAN /\ sealing \in BOOLEAN
  /\ relayed => sealing
  /\ peer = IF relayed THEN [s \in Ends |-> "relay"]
            ELSE [s \in Ends |-> IF s = "client" THEN "direct" ELSE Unknown]
  /\ sinceRx = [s \in Ends |-> 0]
  /\ heard = {}
  /\ pingDue = TRUE
  /\ directUp = TRUE
  /\ switches = 0
  /\ underWay = {}

\* postDatagram: seal under the header as it is, then rewrite the header.
Sent(from, via, type) ==
  IF via = Unknown \/ (via = "direct" /\ ~directUp) THEN {}
  ELSE {[to |-> Other(from), via |-> via, type |-> type, aad |-> Clear,
         header |-> IF sealing THEN Rewritten ELSE Clear]}

SendVideo ==
  /\ underWay' = underWay \cup Sent("host", peer["host"], "Video")
  /\ UNCHANGED <<relayed, sealing, peer, sinceRx, heard, pingDue, directUp, switches>>

\* The header is authenticated with the payload; without a sink a clear
\* datagram passes.
Opens(d) == d.aad = d.header

\* The first datagram shows where the peer is, and an authenticated one from
\* another source moves it there.
PathAfter(s, via) == IF peer[s] = Unknown \/ sealing THEN via ELSE peer[s]

HandleSourceOf(d) ==
  /\ d \in underWay
  /\ sinceRx' = [sinceRx EXCEPT ![d.to] = 0]
  /\ heard' = heard \cup {d.to}
  /\ peer' = IF Opens(d) THEN [peer EXCEPT ![d.to] = PathAfter(d.to, d.via)] ELSE peer
  /\ underWay' = (underWay \ {d}) \cup
       (IF Opens(d) /\ d.type = "Ping" THEN Sent(d.to, PathAfter(d.to, d.via), "Pong") ELSE {})
  /\ UNCHANGED <<relayed, sealing, pingDue, directUp, switches>>

\* Fault: only an end that nothing has come to falls back.
FallbackPathUnheard(s) ==
  IF relayed /\ peer[s] = "direct" /\ s \notin heard /\ sinceRx[s] > Silence
  THEN "relay" ELSE peer[s]

\* The relay once the direct path, having carried something, is silent.
FallbackPath(s) ==
  IF relayed /\ peer[s] = "direct" /\ s \in heard /\ sinceRx[s] > Silence
  THEN "relay" ELSE peer[s]

SendPingOnce ==
  /\ pingDue
  /\ pingDue' = FALSE
  /\ peer' = [peer EXCEPT !["client"] = FallbackPath("client")]
  /\ underWay' = underWay \cup Sent("client", FallbackPath("client"), "Ping")
  /\ UNCHANGED <<relayed, sealing, sinceRx, heard, directUp, switches>>

\* The owner names the direct endpoint (setHostEndpoint, setClientEndpoint).
SetPeer(s) ==
  /\ switches < MaxSwitches
  /\ switches' = switches + 1
  /\ peer' = [peer EXCEPT ![s] = "direct"]
  /\ UNCHANGED <<relayed, sealing, sinceRx, heard, pingDue, directUp, underWay>>

PingInterval ==
  /\ ~pingDue
  /\ pingDue' = TRUE
  /\ sinceRx' = [s \in Ends |-> IF sinceRx[s] <= Silence THEN sinceRx[s] + 1 ELSE sinceRx[s]]
  /\ UNCHANGED <<relayed, sealing, peer, heard, directUp, switches, underWay>>

LoseDirect(d) ==
  /\ d \in underWay /\ d.via = "direct"
  /\ underWay' = underWay \ {d}
  /\ UNCHANGED <<relayed, sealing, peer, sinceRx, heard, pingDue, directUp, switches>>

DirectPathDies ==
  /\ directUp
  /\ directUp' = FALSE
  /\ underWay' = {d \in underWay : d.via = "relay"}
  /\ UNCHANGED <<relayed, sealing, peer, sinceRx, heard, pingDue, switches>>

TransportNext ==
  \/ SendVideo
  \/ SendPingOnce
  \/ \E d \in underWay : HandleSourceOf(d) \/ LoseDirect(d)
  \/ \E s \in Ends : SetPeer(s)
  \/ PingInterval
  \/ DirectPathDies

\* Time passes, the io thread serves its timer, and the relay delivers.
TransportFairness ==
  /\ WF_transportVars(PingInterval)
  /\ WF_transportVars(SendPingOnce)
  /\ \A d \in Datagrams : d.via = "relay" => WF_transportVars(HandleSourceOf(d))

TransportSpec == TransportInit /\ [][TransportNext]_transportVars /\ TransportFairness

-------------------------------------------------------------------------------
\* A client on the direct path of an internet session that hears nothing for
\* 5 s (sendPingOnce) goes back to the relay, whatever became of the datagrams
\* under way, unless something of the session reaches it first.
SilentClientFallsBack ==
  relayed /\ "client" \in heard /\ sinceRx["client"] > Silence
    ~> peer["client"] = "relay" \/ sinceRx["client"] = 0

-------------------------------------------------------------------------------
(* Statements of comments, tests and documents that the code does not keep *)

\* "If the direct path breaks, media falls back to the relay": once the direct
\* path is dead both ends send through the relay.  The host runs no ping timer
\* and no datagram opens that would tell it the client's new path.
BothReturnToRelay ==
  relayed /\ ~directUp /\ "client" \in heard ~> peer = [s \in Ends |-> "relay"]

\* The header stays clear and "is bound as AAD": the header a datagram carries
\* is the one its payload is bound to, so the receiver's sink opens what the
\* sender's sink sealed.
SinkOpensSealed == \A d \in underWay : Opens(d)
===============================================================================
