--------------------------- MODULE MediaWireProofs ----------------------------
(***************************************************************************)
(* The media transport: the path a datagram takes, the transport's thread  *)
(* and the sound; and all parts together, as the media run composes them.  *)
(***************************************************************************)
EXTENDS MCMediaWire, MediaReceiverProofs

-------------------------------------------------------------------------------
(***************************************************************************)
(* UdpTransport.  A datagram of the session has a path.                    *)
(***************************************************************************)

\* What an end sends is a datagram.
LEMMA SentIsDatagram ==
  ASSUME TransportTypeOK, NEW s \in Ends, NEW via \in Paths \cup {Unknown}, NEW type \in {"Ping", "Pong", "Video"}
  PROVE  Sent(s, via, type) \subseteq Datagrams
BY DEF Sent, Datagrams, Other, Ends, Paths, ClearParts, Unknown

\* A datagram of the session never leaves its end without a path.
LEMMA PathIsKnown ==
  ASSUME TransportTypeOK, NEW s \in Ends, NEW via \in Paths
  PROVE  /\ PathAfter(s, via) \in Paths \cup {Unknown} /\ PathAfter(s, via) # Unknown
         /\ FallbackPath(s) \in Paths \cup {Unknown} /\ (relayed => FallbackPath(s) # Unknown)
BY Zenon DEF TransportTypeOK, PathAfter, FallbackPath, Paths, Unknown

\* The types of the transport hold before a socket is bound.
LEMMA TransportStarts ==
  ASSUME TransportAssumption, TransportInit
  PROVE  TransportTypeOK
<1>1. /\ relayed \in BOOLEAN /\ sealing \in BOOLEAN /\ pingDue \in BOOLEAN /\ directUp \in BOOLEAN
      /\ heard \subseteq Ends /\ underWay \subseteq Datagrams
  BY Zenon DEF TransportInit
<1>2. peer \in [Ends -> Paths \cup {Unknown}] /\ (relayed => \A s \in Ends : peer[s] # Unknown)
  BY Zenon DEF TransportInit, Paths, Unknown
<1>3. sinceRx \in [Ends -> 0 .. Silence + 1] /\ switches \in 0 .. MaxSwitches
  BY DEF TransportInit, TransportAssumption
<1> QED BY Zenon, <1>1, <1>2, <1>3 DEF TransportTypeOK

\* Every step of the transport keeps its types.
LEMMA TransportSteps ==
  ASSUME TransportAssumption, TransportTypeOK, [TransportNext]_transportVars
  PROVE  TransportTypeOK'
<1>0. "host" \in Ends /\ "client" \in Ends /\ Silence \in Nat /\ MaxSwitches \in Nat
  BY Zenon DEF Ends, TransportAssumption
<1>1. CASE UNCHANGED transportVars
  BY Zenon, <1>1 DEF TransportTypeOK, transportVars
<1>2. CASE SendVideo
  <2>1. underWay' \subseteq Datagrams
    BY Zenon, <1>0, <1>2, SentIsDatagram DEF SendVideo, TransportTypeOK
  <2> QED BY Zenon, <1>2, <2>1 DEF SendVideo, TransportTypeOK
<1>3. CASE SendPingOnce
  <2>1. /\ FallbackPath("client") \in Paths \cup {Unknown} /\ (relayed => FallbackPath("client") # Unknown)
    BY Zenon, <1>0, PathIsKnown DEF Paths
  <2>2. underWay' \subseteq Datagrams
    BY Zenon, <1>0, <1>3, <2>1, SentIsDatagram DEF SendPingOnce, TransportTypeOK
  <2>3. peer' \in [Ends -> Paths \cup {Unknown}] /\ (relayed => \A s \in Ends : peer'[s] # Unknown)
    BY Zenon, <1>0, <1>3, <2>1 DEF SendPingOnce, TransportTypeOK
  <2> QED BY Zenon, <1>3, <2>2, <2>3 DEF SendPingOnce, TransportTypeOK
<1>4. ASSUME NEW d \in underWay, HandleSourceOf(d) PROVE TransportTypeOK'
  <2>1. d \in Datagrams /\ d.to \in Ends /\ d.via \in Paths
    BY Zenon DEF TransportTypeOK, Datagrams
  <2>2. PathAfter(d.to, d.via) \in Paths \cup {Unknown} /\ PathAfter(d.to, d.via) # Unknown
    BY Zenon, <2>1, PathIsKnown
  <2>3. peer' \in [Ends -> Paths \cup {Unknown}] /\ (relayed => \A s \in Ends : peer'[s] # Unknown)
    <3>1. peer' = [peer EXCEPT ![d.to] = PathAfter(d.to, d.via)] \/ peer' = peer
      BY Zenon, <1>4 DEF HandleSourceOf
    <3> QED BY Zenon, <2>1, <2>2, <3>1 DEF TransportTypeOK
  <2>4. underWay' \subseteq Datagrams
    <3>1. Sent(d.to, PathAfter(d.to, d.via), "Pong") \subseteq Datagrams
      BY Zenon, <2>1, <2>2, SentIsDatagram
    <3> QED BY Zenon, <1>4, <3>1 DEF HandleSourceOf, TransportTypeOK
  <2>5. sinceRx' \in [Ends -> 0 .. Silence + 1] /\ heard' \subseteq Ends
    BY <1>0, <1>4, <2>1 DEF HandleSourceOf, TransportTypeOK
  <2> QED BY Zenon, <1>4, <2>3, <2>4, <2>5 DEF HandleSourceOf, TransportTypeOK
<1>5. ASSUME NEW d \in underWay, LoseDirect(d) PROVE TransportTypeOK'
  BY Zenon, <1>5 DEF LoseDirect, TransportTypeOK
<1>6. ASSUME NEW s \in Ends, SetPeer(s) PROVE TransportTypeOK'
  <2>1. switches' \in 0 .. MaxSwitches
    BY <1>0, <1>6 DEF SetPeer, TransportTypeOK
  <2>2. peer' \in [Ends -> Paths \cup {Unknown}] /\ (relayed => \A e \in Ends : peer'[e] # Unknown)
    BY Zenon, <1>6 DEF SetPeer, TransportTypeOK, Paths, Unknown
  <2> QED BY Zenon, <1>6, <2>1, <2>2 DEF SetPeer, TransportTypeOK
<1>7. CASE PingInterval
  <2>1. sinceRx' \in [Ends -> 0 .. Silence + 1]
    BY <1>0, <1>7 DEF PingInterval, TransportTypeOK
  <2> QED BY Zenon, <1>7, <2>1 DEF PingInterval, TransportTypeOK
<1>8. CASE DirectPathDies
  BY Zenon, <1>8 DEF DirectPathDies, TransportTypeOK
<1> QED BY Zenon, <1>1, <1>2, <1>3, <1>4, <1>5, <1>6, <1>7, <1>8 DEF TransportNext

-------------------------------------------------------------------------------
(***************************************************************************)
(* UdpLifecycle.  The io thread and the context it runs.                   *)
(***************************************************************************)

\* A running transport has not posted its close yet, and a bind under way was
\* within the bound.
LifeBounds ==
  /\ running => Len(posted) <= MaxPosted
  /\ owner = "binding" => binds < MaxBinds

\* The inductive invariant of bind and stop.
LifeInv == LifeTypeOK /\ LifeBounds /\ ThreadKeepsItsContext

USE LifecycleAssumption

\* The queue of the io context after a post, after a handler and emptied.
LEMMA PostedGrows ==
  ASSUME NEW q \in Seq({"send", "close"}), NEW x \in {"send", "close"}
  PROVE  Append(q, x) \in Seq({"send", "close"}) /\ Len(Append(q, x)) = Len(q) + 1 /\ Len(q) \in Nat
BY AppendProperties, LenProperties

\* The invariant of the io thread holds before the first bind.
LEMMA LifeStarts == LifeInit => LifeInv
<1> SUFFICES ASSUME LifeInit PROVE LifeInv
  BY Zenon
<1>1. posted \in Seq({"send", "close"}) /\ Len(posted) = 0
  BY Zenon, EmptySeq DEF LifeInit
<1>2. Len(posted) <= MaxPosted + 1 /\ Len(posted) <= MaxPosted /\ 0 \in 0 .. MaxBinds
  BY <1>1
<1>3. LifeTypeOK
  BY Zenon, <1>1, <1>2 DEF LifeInit, LifeTypeOK
<1>4. LifeBounds /\ ThreadKeepsItsContext
  BY Zenon, <1>2 DEF LifeInit, LifeBounds, ThreadKeepsItsContext
<1> QED BY Zenon, <1>3, <1>4 DEF LifeInv

\* stop begins, by itself or as the first part of bind.
LEMMA LifeBeginStop ==
  ASSUME LifeInv, NEW then \in {"joining", "binding"}, then = "binding" => binds < MaxBinds, BeginStop(then)
  PROVE  LifeInv'
<1>1. posted' \in Seq({"send", "close"}) /\ Len(posted') <= MaxPosted + 1
  <2>1. posted \in Seq({"send", "close"}) /\ Len(posted) <= MaxPosted + 1 /\ Len(posted) \in Nat
        /\ (running => Len(posted) <= MaxPosted)
    BY Zenon, LenProperties DEF LifeInv, LifeTypeOK, LifeBounds
  <2>2. CASE running /\ context
    BY <2>1, <2>2, PostedGrows DEF BeginStop, ClosePosted
  <2>3. CASE ~(running /\ context)
    BY Zenon, <2>1, <2>3 DEF BeginStop, ClosePosted
  <2> QED BY Zenon, <2>2, <2>3
<1> QED BY Zenon, <1>1 DEF BeginStop, LifeInv, LifeTypeOK, LifeBounds, ThreadKeepsItsContext

\* The joined thread is gone when stop returns or bind starts another.
LEMMA LifeFinishes ==
  ASSUME LifeInv, FinishStop \/ FinishBind
  PROVE  LifeInv'
<1>1. posted' \in Seq({"send", "close"}) /\ Len(posted') <= MaxPosted + 1 /\ Len(posted') <= MaxPosted
  <2>1. posted' \in Seq({"send", "close"}) /\ Len(posted') = 0
    BY Zenon, EmptySeq DEF FinishStop, FinishBind, Reset
  <2> QED BY <2>1
<1>2. CASE FinishStop
  <2>1. /\ context' = FALSE /\ socket' = "none" /\ pingTimer' = "none" /\ receiving' = FALSE /\ owner' = "idle"
        /\ ioThread' = "none" /\ UNCHANGED <<running, caller, binds, dangling>>
    BY Zenon, <1>2 DEF FinishStop, Reset, Joined
  <2> QED BY Zenon, <1>1, <2>1 DEF LifeInv, LifeTypeOK, LifeBounds, ThreadKeepsItsContext
<1>3. CASE FinishBind
  <2>1. binds' \in 0 .. MaxBinds
    BY <1>3 DEF FinishBind, LifeInv, LifeTypeOK, LifeBounds
  <2>2. CASE Reset
    <3>1. /\ context' = FALSE /\ socket' = "none" /\ pingTimer' = "none" /\ receiving' = FALSE /\ owner' = "idle"
          /\ ioThread' = "none" /\ running' \in {TRUE, running} /\ UNCHANGED <<caller, dangling>>
      BY Zenon, <1>3, <2>2 DEF FinishBind, Reset, Joined
    <3> QED BY Zenon, <1>1, <2>1, <3>1 DEF LifeInv, LifeTypeOK, LifeBounds, ThreadKeepsItsContext
  <2>3. CASE ~Reset
    <3>1. /\ running' = TRUE /\ context' = TRUE /\ socket' = "open" /\ ioThread' = "running"
          /\ receiving' = TRUE /\ pingTimer' = "none" /\ owner' = "idle"
          /\ caller' = caller /\ dangling' = dangling
      BY Zenon, <1>3, <2>3 DEF FinishBind
    <3> QED BY Zenon, <1>1, <2>1, <3>1 DEF LifeInv, LifeTypeOK, LifeBounds, ThreadKeepsItsContext
  <2> QED BY Zenon, <2>2, <2>3
<1> QED BY Zenon, <1>2, <1>3

\* The steps that post at most a send, or run one handler.
LEMMA LifeRuns ==
  ASSUME LifeInv,
         StartPings \/ RunPosted \/ Receive \/ PingTimerFires \/ IoThreadExits
           \/ \E t \in Callers : SendChecks(t) \/ SendPosts(t)
  PROVE  LifeInv'
<1>0. posted \in Seq({"send", "close"}) /\ Len(posted) <= MaxPosted + 1 /\ Len(posted) \in Nat
      /\ (running => Len(posted) <= MaxPosted)
  BY Zenon, LenProperties DEF LifeInv, LifeTypeOK, LifeBounds
<1>1. CASE StartPings
  BY Zenon, <1>1 DEF StartPings, LifeInv, LifeTypeOK, LifeBounds, ThreadKeepsItsContext
<1>2. CASE RunPosted
  <2>1. posted' \in Seq({"send", "close"}) /\ Len(posted') = Len(posted) - 1
    BY Zenon, <1>0, <1>2, HeadTailProperties DEF RunPosted
  <2>2. Len(posted') <= MaxPosted + 1 /\ (running' => Len(posted') <= MaxPosted)
    BY <1>0, <1>2, <2>1 DEF RunPosted
  <2> QED BY Zenon, <1>2, <2>1, <2>2 DEF RunPosted, CloseSocket, LifeInv, LifeTypeOK, LifeBounds, ThreadKeepsItsContext
<1>3. CASE Receive
  <2>1. /\ running' \in BOOLEAN /\ (running' => running) /\ receiving' \in BOOLEAN
        /\ (socket' = "none" <=> socket = "none") /\ socket' \in {"none", "open", "closed"}
        /\ pingTimer' \in {"none", "armed", "idle"}
    <3>1. CASE running /\ StopOnIoThread
      BY Zenon, <3>1 DEF StopOnIoThread, CloseSocket, LifeInv, LifeTypeOK
    <3>2. CASE receiving' = running /\ UNCHANGED <<running, socket, pingTimer>>
      BY Zenon, <3>2 DEF LifeInv, LifeTypeOK
    <3> QED BY Zenon, <1>3, <3>1, <3>2 DEF Receive
  <2>2. UNCHANGED <<context, ioThread, posted, owner, caller, binds, dangling>>
    BY Zenon, <1>3 DEF Receive
  <2>3. LifeTypeOK'
    BY Zenon, <2>1, <2>2 DEF LifeInv, LifeTypeOK
  <2>4. LifeBounds'
    BY Zenon, <2>1, <2>2 DEF LifeInv, LifeBounds
  <2>5. ThreadKeepsItsContext'
    BY Zenon, <2>1, <2>2 DEF LifeInv, ThreadKeepsItsContext
  <2> QED BY Zenon, <2>3, <2>4, <2>5 DEF LifeInv
<1>4. CASE PingTimerFires
  <2>1. posted' \in Seq({"send", "close"}) /\ Len(posted') <= MaxPosted + 1 /\ (running' => Len(posted') <= MaxPosted)
    <3>1. CASE running /\ Len(posted) < MaxPosted
      BY <1>0, <1>4, <3>1, PostedGrows DEF PingTimerFires
    <3>2. CASE ~(running /\ Len(posted) < MaxPosted)
      BY Zenon, <1>0, <1>4, <3>2 DEF PingTimerFires
    <3> QED BY Zenon, <3>1, <3>2
  <2> QED BY Zenon, <1>4, <2>1 DEF PingTimerFires, LifeInv, LifeTypeOK, LifeBounds, ThreadKeepsItsContext
<1>5. CASE IoThreadExits
  BY Zenon, <1>5 DEF IoThreadExits, LifeInv, LifeTypeOK, LifeBounds, ThreadKeepsItsContext
<1>6. ASSUME NEW t \in Callers, SendChecks(t) PROVE LifeInv'
  BY Zenon, <1>6 DEF SendChecks, LifeInv, LifeTypeOK, LifeBounds, ThreadKeepsItsContext
<1>7. ASSUME NEW t \in Callers, SendPosts(t) PROVE LifeInv'
  <2>1. posted' \in Seq({"send", "close"}) /\ Len(posted') <= MaxPosted + 1 /\ (running' => Len(posted') <= MaxPosted)
    <3>1. CASE context /\ Len(posted) < MaxPosted
      BY <1>0, <1>7, <3>1, PostedGrows DEF SendPosts
    <3>2. CASE ~(context /\ Len(posted) < MaxPosted)
      BY Zenon, <1>0, <1>7, <3>2 DEF SendPosts
    <3> QED BY Zenon, <3>1, <3>2
  <2>2. caller' \in [Callers -> {"idle", "checked"}] /\ dangling' \in BOOLEAN
    BY Zenon, <1>7 DEF SendPosts, LifeInv, LifeTypeOK
  <2> QED BY Zenon, <1>7, <2>1, <2>2 DEF SendPosts, LifeInv, LifeTypeOK, LifeBounds, ThreadKeepsItsContext
<1> QED BY Zenon, <1>1, <1>2, <1>3, <1>4, <1>5, <1>6, <1>7

\* Every step of callers and io thread keeps the invariant.
LEMMA LifeSteps == LifeInv /\ [LifeNext]_lifeVars => LifeInv'
<1> SUFFICES ASSUME LifeInv, [LifeNext]_lifeVars PROVE LifeInv'
  BY Zenon
<1>1. CASE Bind \/ Stop
  BY Zenon, <1>1, LifeBeginStop DEF Bind, Stop
<1>2. CASE FinishStop \/ FinishBind
  BY Zenon, <1>2, LifeFinishes
<1>3. CASE StartPings \/ RunPosted \/ Receive \/ PingTimerFires \/ IoThreadExits
             \/ \E t \in Callers : SendChecks(t) \/ SendPosts(t)
  BY Zenon, <1>3, LifeRuns
<1>4. CASE UNCHANGED lifeVars
  BY <1>4 DEF lifeVars, LifeInv, LifeTypeOK, LifeBounds, ThreadKeepsItsContext
<1> QED BY Zenon, <1>1, <1>2, <1>3, <1>4 DEF LifeNext

\* UdpTransport::bind and stop: however binds, stops, sends and handlers
\* interleave, the io thread never runs on a context or socket that was reset
\* under it, and stop posts its close once.
THEOREM TransportThreadIsSafe == LifeSpec => [](LifeTypeOK /\ ThreadKeepsItsContext)
<1>1. LifeInv => LifeTypeOK /\ ThreadKeepsItsContext
  BY Zenon DEF LifeInv
<1> QED BY <1>1, LifeStarts, LifeSteps, PTL DEF LifeSpec

HIDE LifecycleAssumption

-------------------------------------------------------------------------------
(***************************************************************************)
(* AudioCapture.  Whole packets with the time of their samples.            *)
(***************************************************************************)

\* A byte in the FIFO, and a packet.
ByteSet == [byte : Int, from : Nat, to : Nat]
FrameBytes == [1 .. 4 * FrameSize -> Int]
PacketSet == [pts : Nat, data : FrameBytes, from : Nat, to : Nat]

CaptureTypes ==
  CaptureTypeOK /\ fifo \in Seq(ByteSet) /\ sent \in Seq(PacketSet) /\ frame \in FrameBytes

\* Byte j of a FIFO whose first byte is due at time p lies in its block.
InPlace(s, p) ==
  \A j \in 1 .. Len(s) : 2 * s[j].from <= 2 * p + j - 1 /\ 2 * p + j - 1 < 2 * s[j].to

\* Every stereo frame fed is half a frame's bytes read or still in the FIFO.
EncoderInv ==
  /\ PacketsKeepTime
  /\ Len(fifo) + 2 * nextPts = 2 * fed
  /\ InPlace(fifo, nextPts)
  /\ \A i \in DOMAIN sent : sent[i].pts < nextPts

\* The thread lets its devices go when it ends.
DevicesInv ==
  /\ CaptureOwnsDevices
  /\ capThread = "exited" => ~capDevices

CaptureInv == CaptureTypes /\ EncoderInv /\ DevicesInv

\* What a step that leaves the encoder alone keeps.
LEMMA EncoderRests ==
  ASSUME CaptureInv, UNCHANGED encoderVars
  PROVE  EncoderInv' /\ (fifo \in Seq(ByteSet))' /\ (sent \in Seq(PacketSet))' /\ (frame \in FrameBytes)'
BY Zenon DEF CaptureInv, CaptureTypes, EncoderInv, PacketsKeepTime, InPlace, encoderVars

\* A read takes the bytes of half the stereo frames it stands for.
LEMMA NeedOK ==
  ASSUME CaptureAssumption, NEW k \in Nat
  PROVE  Need \in Nat \ {0} /\ k * FrameSize \in Nat /\ k * Need = 2 * (k * FrameSize)
BY DEF Need, CaptureAssumption

\* How many reads of d bytes a FIFO of n bytes allows.
LEMMA ReadsFit ==
  ASSUME NEW n \in Nat, NEW d \in Nat \ {0}
  PROVE  /\ n \div d \in Nat /\ n < (n \div d) * d + d
         /\ \A k \in 0 .. (n \div d) : k * d \in Nat /\ k * d <= n
<1> DEFINE q == n \div d
           r == n % d
<1>1. q \in Int /\ r \in Int /\ n = d * q + r /\ 0 <= r /\ r < d
  OBVIOUS
<1> HIDE DEF q, r
<1>2. q >= 0
  BY <1>1
<1>3. n < q * d + d /\ q * d <= n
  BY <1>1
<1>4. ASSUME NEW k \in 0 .. q PROVE k * d \in Nat /\ k * d <= n
  <2>1. k * d <= q * d
    BY <1>1, <1>4
  <2> QED BY <1>1, <1>3, <2>1
<1> QED BY <1>1, <1>2, <1>3, <1>4 DEF q

\* The FIFO after k reads, and the time its first byte is due.
LEMMA FifoAfter ==
  ASSUME CaptureAssumption, NEW s \in Seq(ByteSet), NEW k \in Nat, k * Need <= Len(s),
         NEW t \in Nat, InPlace(s, t)
  PROVE  /\ Remaining(s, k) \in Seq(ByteSet) /\ Len(Remaining(s, k)) = Len(s) - k * Need
         /\ InPlace(Remaining(s, k), t + k * FrameSize)
<1> DEFINE p == k * Need
           f == k * FrameSize
           rest == SubSeq(s, p + 1, Len(s))
<1>1. f \in Nat /\ p = 2 * f
  BY Zenon, NeedOK
<1>2. p \in Nat /\ p <= Len(s) /\ Len(s) \in Nat
  <2>1. Len(s) \in Nat
    BY Zenon, LenProperties
  <2> HIDE DEF f, p
  <2> QED BY <1>1, <2>1 DEF p
<1>3. Remaining(s, k) = rest
  BY Zenon DEF Remaining
<1> HIDE DEF p, f
<1>4. rest \in Seq(ByteSet) /\ Len(rest) = Len(s) - p
  BY <1>2, SubSeqProperties
<1>5. \A j \in 1 .. Len(rest) : rest[j] = s[p + j]
  BY <1>2, SubSeqProperties
<1>6. InPlace(rest, t + f)
  <2> SUFFICES ASSUME NEW j \in 1 .. Len(rest)
               PROVE  2 * rest[j].from <= 2 * (t + f) + j - 1 /\ 2 * (t + f) + j - 1 < 2 * rest[j].to
    BY Zenon DEF InPlace
  <2>1. p + j \in 1 .. Len(s)
    BY <1>2, <1>4
  <2> DEFINE b == s[p + j]
  <2>2. rest[j] = b
    BY Zenon, <1>5
  <2>3. b \in ByteSet
    BY Zenon, <2>1, ElementOfSeq
  <2>4. b.from \in Nat /\ b.to \in Nat
    BY Zenon, <2>3 DEF ByteSet
  <2>5. 2 * b.from <= 2 * t + (p + j) - 1 /\ 2 * t + (p + j) - 1 < 2 * b.to
    BY Zenon, <2>1 DEF InPlace
  <2> HIDE DEF b
  <2>6. j \in Int
    BY <1>2, <1>4
  <2>7. 2 * b.from <= 2 * (t + f) + j - 1 /\ 2 * (t + f) + j - 1 < 2 * b.to
    <3> HIDE DEF rest
    <3> QED BY <1>1, <2>4, <2>5, <2>6
  <2> QED BY Zenon, <2>2, <2>7
<1> QED BY Zenon, <1>3, <1>4, <1>6 DEF p, f

\* A byte of the k-th read is in the FIFO.
LEMMA ReadIsThere ==
  ASSUME CaptureAssumption, NEW s \in Seq(ByteSet), NEW k \in Nat \ {0}, k * Need <= Len(s),
         NEW i \in 1 .. Need
  PROVE  /\ (k - 1) * Need + i \in 1 .. Len(s) /\ s[(k - 1) * Need + i] \in ByteSet
<1> DEFINE p == (k - 1) * Need
           q == k * Need
<1>1. Need \in Nat \ {0} /\ Len(s) \in Nat
  BY Zenon, NeedOK, LenProperties
<1>2. p = q - Need /\ p \in Nat /\ q \in Nat
  BY <1>1
<1>3. q <= Len(s)
  BY Zenon
<1> HIDE DEF p, q
<1>4. p + i \in 1 .. Len(s)
  BY <1>1, <1>2, <1>3
<1>5. s[p + i] \in ByteSet
  BY Zenon, <1>4, ElementOfSeq
<1> QED BY Zenon, <1>4, <1>5 DEF p

\* A filled frame holds one byte in each place.
LEMMA FilledOK ==
  ASSUME CaptureAssumption, NEW s \in Seq(ByteSet), NEW k \in Nat \ {0}, k * Need <= Len(s),
         frame \in FrameBytes
  PROVE  Filled(s, k) \in FrameBytes
<1>1. ASSUME NEW i \in 1 .. 4 * FrameSize, i <= Need PROVE s[(k - 1) * Need + i].byte \in Int
  <2>1. i \in 1 .. Need
    BY <1>1 DEF CaptureAssumption, Need
  <2>2. s[(k - 1) * Need + i] \in ByteSet
    BY Zenon, <2>1, ReadIsThere
  <2> QED BY Zenon, <2>2 DEF ByteSet
<1> QED BY Zenon, <1>1 DEF Filled, FrameBytes

\* A block goes behind what waits, each byte in its place.
LEMMA BlockOK ==
  ASSUME NEW n \in Nat, captured \in Nat, fed \in Nat, nextPts \in Nat, fifo \in Seq(ByteSet),
         InPlace(fifo, nextPts), Len(fifo) + 2 * nextPts = 2 * fed
  PROVE  /\ fifo \o Block(n) \in Seq(ByteSet) /\ Len(fifo \o Block(n)) = Len(fifo) + 2 * n
         /\ InPlace(fifo \o Block(n), nextPts)
<1> DEFINE l == Len(fifo)
           b == Block(n)
           s == fifo \o b
<1>1. b \in Seq(ByteSet) /\ Len(b) = 2 * n
  BY DEF Block, ByteSet
<1>2. l \in Nat /\ l + 2 * nextPts = 2 * fed
  BY Zenon, LenProperties
<1>3. /\ s \in Seq(ByteSet) /\ Len(s) = l + Len(b)
      /\ \A j \in 1 .. l + Len(b) : s[j] = IF j <= l THEN fifo[j] ELSE b[j - l]
  <2> HIDE DEF b
  <2> QED BY Zenon, <1>1, ConcatProperties
<1>4. \A i \in 1 .. 2 * n : b[i].from = fed /\ b[i].to = fed + n
  BY DEF Block
<1> HIDE DEF s, b
<1>5. InPlace(s, nextPts)
  <2> SUFFICES ASSUME NEW j \in 1 .. Len(s)
               PROVE  2 * s[j].from <= 2 * nextPts + j - 1 /\ 2 * nextPts + j - 1 < 2 * s[j].to
    BY Zenon DEF InPlace
  <2>1. j \in 1 .. l + Len(b) /\ j \in Int
    <3> HIDE DEF l
    <3> QED BY <1>1, <1>2, <1>3
  <2>2. CASE j <= l
    <3>1. j \in 1 .. Len(fifo) /\ s[j] = fifo[j]
      <4>1. s[j] = fifo[j]
        BY Zenon, <1>3, <2>1, <2>2
      <4> QED BY <1>2, <2>1, <2>2, <4>1
    <3> QED BY Zenon, <3>1 DEF InPlace
  <2>3. CASE ~(j <= l)
    <3>1. s[j] = b[j - l]
      BY Zenon, <1>3, <2>1, <2>3
    <3> HIDE DEF l
    <3>2. j - l \in 1 .. 2 * n
      BY <1>1, <1>2, <2>1, <2>3
    <3>3. s[j].from = fed /\ s[j].to = fed + n
      BY Zenon, <1>4, <3>1, <3>2
    <3>4. 2 * fed <= 2 * nextPts + j - 1 /\ 2 * nextPts + j - 1 < 2 * (fed + n)
      BY <1>2, <2>1, <3>2
    <3> QED BY Zenon, <3>3, <3>4
  <2> QED BY Zenon, <2>2, <2>3
<1>6. Len(s) = l + 2 * n
  BY Zenon, <1>1, <1>3
<1> QED BY Zenon, <1>3, <1>5, <1>6 DEF s, b

\* The packet of the k-th read carries the time of the block it starts in.
LEMMA PacketOK ==
  ASSUME CaptureAssumption, NEW s \in Seq(ByteSet), NEW k \in Nat \ {0}, k * Need <= Len(s),
         frame \in FrameBytes, nextPts \in Nat, InPlace(s, nextPts)
  PROVE  /\ Packet(s, k) \in PacketSet /\ Packet(s, k).pts = nextPts + (k - 1) * FrameSize
         /\ Packet(s, k).from <= Packet(s, k).pts /\ Packet(s, k).pts < Packet(s, k).to
<1> DEFINE f == (k - 1) * FrameSize
           p == (k - 1) * Need
           b == s[p + 1]
<1>1. k - 1 \in Nat /\ 1 \in 1 .. Need
  BY NeedOK DEF Need, CaptureAssumption
<1>2. f \in Nat /\ p = 2 * f
  BY Zenon, <1>1, NeedOK
<1>3. p + 1 \in 1 .. Len(s) /\ b \in ByteSet
  BY Zenon, <1>1, ReadIsThere
<1>4. b.from \in Nat /\ b.to \in Nat
  BY Zenon, <1>3 DEF ByteSet
<1>5. 2 * b.from <= 2 * nextPts + (p + 1) - 1 /\ 2 * nextPts + (p + 1) - 1 < 2 * b.to
  BY Zenon, <1>3 DEF InPlace
<1>6. Packet(s, k) = [pts |-> nextPts + f, data |-> Filled(s, k), from |-> b.from, to |-> b.to]
  BY Zenon DEF Packet, PtsAfter
<1> HIDE DEF f, p, b
<1>7. nextPts + f \in Nat /\ b.from <= nextPts + f /\ nextPts + f < b.to
  BY <1>2, <1>4, <1>5
<1>8. Filled(s, k) \in FrameBytes
  BY Zenon, FilledOK
<1>9. Packet(s, k) \in PacketSet
  BY <1>4, <1>6, <1>7, <1>8 DEF PacketSet
<1>10. Packet(s, k).pts = nextPts + f /\ Packet(s, k).from = b.from /\ Packet(s, k).to = b.to
  BY <1>6
<1> QED BY Zenon, <1>7, <1>9, <1>10 DEF f

\* The times of the packets of one call, from nextPts on.
LEMMA NewTimes ==
  ASSUME CaptureAssumption, NEW p \in Nat, NEW k \in Nat, NEW f \in Nat, k < f
  PROVE  /\ p + k * FrameSize \in Nat
         /\ p + k * FrameSize < p + f * FrameSize /\ p <= p + k * FrameSize
<1>1. FrameSize \in Nat \ {0}
  BY Zenon DEF CaptureAssumption
<1>2. k * FrameSize < f * FrameSize /\ k * FrameSize \in Nat /\ f * FrameSize \in Nat
  BY <1>1
<1> QED BY <1>2

\* A packet whose time lies in the block it starts in.
TimedPacket(q) == q.from <= q.pts /\ q.pts < q.to

\* The packets of one call are appended to those sent before.
LEMMA SentGrows ==
  ASSUME CaptureAssumption, CaptureInv, NEW f \in Nat, NEW new \in Seq(PacketSet), Len(new) = f,
         \A k \in 1 .. f : new[k].pts = nextPts + (k - 1) * FrameSize /\ TimedPacket(new[k]),
         sent' = sent \o new, nextPts' = nextPts + f * FrameSize
  PROVE  /\ sent' \in Seq(PacketSet)
         /\ \A i \in DOMAIN sent' : TimedPacket(sent'[i]) /\ sent'[i].pts < nextPts'
         /\ \A i, j \in DOMAIN sent' : i < j => sent'[i].pts < sent'[j].pts
<1> DEFINE n == Len(sent)
           s == sent'
<1>2. nextPts \in Nat /\ FrameSize \in Nat \ {0} /\ sent \in Seq(PacketSet)
  BY DEF CaptureInv, CaptureTypes, CaptureTypeOK, CaptureAssumption
<1>3. n \in Nat /\ DOMAIN sent = 1 .. n
  BY Zenon, <1>2, LenProperties
<1>4. s \in Seq(PacketSet) /\ Len(s) = n + f /\ DOMAIN s = 1 .. n + f
  <2>1. s \in Seq(PacketSet) /\ Len(s) = n + f
    BY Zenon, <1>2, ConcatProperties
  <2> HIDE DEF s, n
  <2> QED BY Zenon, <2>1, LenProperties
<1>5. \A i \in 1 .. n + f : s[i] = IF i <= n THEN sent[i] ELSE new[i - n]
  BY Zenon, <1>2, ConcatProperties
<1> HIDE DEF s, n
<1>6. \A i \in 1 .. n : /\ s[i] = sent[i] /\ sent[i].pts \in Nat
                        /\ TimedPacket(sent[i]) /\ sent[i].pts < nextPts
  <2> SUFFICES ASSUME NEW i \in 1 .. n
               PROVE  /\ s[i] = sent[i] /\ sent[i].pts \in Nat
                      /\ TimedPacket(sent[i]) /\ sent[i].pts < nextPts
    BY Zenon
  <2>1. s[i] = sent[i]
    <3>1. i \in 1 .. n + f /\ i <= n
      BY <1>3
    <3> QED BY Zenon, <1>5, <3>1
  <2>2. sent[i] \in PacketSet
    BY Zenon, <1>2, <1>3, ElementOfSeq DEF n
  <2>3. TimedPacket(sent[i]) /\ sent[i].pts < nextPts
    BY Zenon, <1>3 DEF CaptureInv, EncoderInv, PacketsKeepTime, TimedPacket
  <2> QED BY Zenon, <2>1, <2>2, <2>3 DEF PacketSet
<1>7. \A i \in 1 .. n + f : i > n => s[i].pts = nextPts + (i - n - 1) * FrameSize /\ TimedPacket(s[i])
  <2> SUFFICES ASSUME NEW i \in 1 .. n + f, i > n
               PROVE  s[i].pts = nextPts + (i - n - 1) * FrameSize /\ TimedPacket(s[i])
    BY Zenon
  <2>1. i - n \in 1 .. f /\ s[i] = new[i - n]
    BY <1>3, <1>5
  <2> QED BY Zenon, <2>1
<1>8. \A i \in 1 .. n + f : i > n =>
        s[i].pts \in Nat /\ s[i].pts < nextPts + f * FrameSize /\ nextPts <= s[i].pts
  <2> SUFFICES ASSUME NEW i \in 1 .. n + f, i > n
               PROVE  s[i].pts \in Nat /\ s[i].pts < nextPts + f * FrameSize /\ nextPts <= s[i].pts
    BY Zenon
  <2> DEFINE k == i - n - 1
  <2>1. k \in Nat /\ k < f
    BY <1>3
  <2>2. s[i].pts = nextPts + k * FrameSize
    BY Zenon, <1>7
  <2> HIDE DEF k
  <2>3. /\ nextPts + k * FrameSize \in Nat
        /\ nextPts + k * FrameSize < nextPts + f * FrameSize /\ nextPts <= nextPts + k * FrameSize
    BY Zenon, <1>2, <2>1, NewTimes
  <2> QED BY Zenon, <2>2, <2>3
<1>9. f * FrameSize \in Nat
  BY <1>2
<1>10. \A i \in 1 .. n + f : TimedPacket(s[i]) /\ s[i].pts < nextPts + f * FrameSize
  <2> SUFFICES ASSUME NEW i \in 1 .. n + f
               PROVE  TimedPacket(s[i]) /\ s[i].pts < nextPts + f * FrameSize
    BY Zenon
  <2> DEFINE F == f * FrameSize
  <2>1. CASE i > n
    BY Zenon, <1>7, <1>8, <2>1
  <2>2. CASE i <= n
    <3>1. i \in 1 .. n
      BY <1>3, <2>2
    <3>2. s[i].pts \in Nat /\ TimedPacket(s[i]) /\ s[i].pts < nextPts
      BY Zenon, <1>6, <3>1
    <3>3. F \in Nat /\ nextPts \in Nat
      BY Zenon, <1>2, <1>9
    <3> HIDE DEF F
    <3>4. s[i].pts < nextPts + F
      BY <3>2, <3>3
    <3> QED BY Zenon, <3>2, <3>4 DEF F
  <2> QED BY <1>3, <2>1, <2>2
<1>11. ASSUME NEW i \in 1 .. n + f, NEW j \in 1 .. n + f, i < j PROVE s[i].pts < s[j].pts
  <2>1. CASE j <= n
    <3>1. i \in 1 .. n /\ j \in 1 .. n
      BY <1>3, <1>11, <2>1
    <3>2. sent[i].pts < sent[j].pts
      BY Zenon, <1>3, <1>11, <3>1 DEF CaptureInv, EncoderInv, PacketsKeepTime
    <3> QED BY Zenon, <1>6, <3>1, <3>2
  <2>2. CASE i <= n /\ j > n
    <3>1. i \in 1 .. n
      BY <1>3, <2>2
    <3>2. s[i].pts \in Nat /\ s[i].pts < nextPts
      BY Zenon, <1>6, <3>1
    <3>3. s[j].pts \in Nat /\ nextPts <= s[j].pts
      BY Zenon, <1>8, <2>2
    <3> QED BY <1>2, <3>2, <3>3
  <2>3. CASE i > n
    <3> DEFINE a == i - n - 1
               b == j - n - 1
    <3>1. a \in Nat /\ b \in Nat /\ a < b
      BY <1>3, <1>11, <2>3
    <3>2. j > n
      BY <1>3, <1>11, <2>3
    <3>3. s[i].pts = nextPts + a * FrameSize
      BY Zenon, <1>7, <2>3
    <3>4. s[j].pts = nextPts + b * FrameSize
      BY Zenon, <1>7, <3>2
    <3> HIDE DEF a, b
    <3>5. nextPts + a * FrameSize < nextPts + b * FrameSize
      BY Zenon, <1>2, <3>1, NewTimes
    <3> QED BY Zenon, <3>3, <3>4, <3>5
  <2> QED BY SMTT(30), <1>3, <1>11, <2>1, <2>2, <2>3
<1> QED BY Zenon, <1>4, <1>10, <1>11 DEF s

\* AudioEncoderOpus::encode, whether or not the codec takes every frame.
LEMMA EncodeKeeps ==
  ASSUME CaptureAssumption, CaptureInv, NEW n \in BlockSizes, captured + n <= MaxCaptured,
         captured' = captured + n, Encode(n)
  PROVE  /\ EncoderInv' /\ fed' \in 0 .. captured' /\ Len(fifo') <= FifoBytes /\ nextPts' \in 0 .. MaxCaptured
         /\ codecFailed' \in BOOLEAN
         /\ fifo' \in Seq(ByteSet) /\ sent' \in Seq(PacketSet) /\ frame' \in FrameBytes
<1> DEFINE bytes == fifo \o Block(n)
           len == Len(bytes)
           full == len \div Need
           new == [k \in 1 .. full |-> Packet(bytes, k)]
<1>1. /\ n \in Nat \ {0} /\ FrameSize \in Nat \ {0} /\ captured \in Nat /\ fed \in Nat /\ fed <= captured
      /\ nextPts \in Nat /\ MaxCaptured \in Nat /\ FifoBytes \in Nat
      /\ fifo \in Seq(ByteSet) /\ Len(fifo) \in Nat /\ sent \in Seq(PacketSet) /\ frame \in FrameBytes
  BY LenProperties DEF CaptureInv, CaptureTypes, CaptureTypeOK, CaptureAssumption
<1>2. Need \in Nat \ {0}
  BY <1>1 DEF Need
<1>3. /\ Len(fifo) + 2 * nextPts = 2 * fed /\ InPlace(fifo, nextPts)
      /\ (Len(fifo) >= Need => codecFailed) /\ codecFailed \in BOOLEAN
  BY Zenon DEF CaptureInv, EncoderInv, PacketsKeepTime, CaptureTypes, CaptureTypeOK
<1>4. bytes \in Seq(ByteSet) /\ len = Len(fifo) + 2 * n /\ InPlace(bytes, nextPts)
  BY Zenon, <1>1, <1>3, BlockOK
<1>5. len \in Nat
  BY <1>1, <1>4
<1>6. /\ full \in Nat /\ len < full * Need + Need
      /\ \A k \in 0 .. full : k * Need \in Nat /\ k * Need <= len
  <2> HIDE DEF len
  <2> QED BY Zenon, <1>2, <1>5, ReadsFit
<1>7. PICK k \in 0 .. full :
        /\ fifo' = Remaining(bytes, k) /\ nextPts' = nextPts + k * FrameSize
        /\ frame' = IF k = 0 THEN frame ELSE Filled(bytes, k)
        /\ \/ k = full /\ sent' = sent \o new /\ UNCHANGED codecFailed
           \/ codecFailed' = TRUE /\ UNCHANGED sent
  <2> DEFINE Read(k) == /\ fifo' = Remaining(bytes, k) /\ nextPts' = PtsAfter(k)
                        /\ frame' = IF k = 0 THEN frame ELSE Filled(bytes, k)
  <2>1. \/ Read(full) /\ sent' = sent \o new /\ UNCHANGED codecFailed
        \/ (\E k \in 0 .. full : Read(k)) /\ codecFailed' = TRUE /\ UNCHANGED sent
    BY Zenon DEF Encode
  <2>2. full \in 0 .. full
    <3> HIDE DEF full
    <3> QED BY <1>6
  <2> HIDE DEF full, new, bytes
  <2> QED BY Zenon, <2>1, <2>2 DEF PtsAfter
<1>8. fed' = fed + n /\ len <= FifoBytes
  BY Zenon DEF Encode
<1> DEFINE read == k * FrameSize
<1>9. k \in Nat /\ read \in Nat /\ k * Need = 2 * read /\ k * Need <= len
  <2> HIDE DEF full
  <2>1. k \in Nat
    BY <1>6
  <2> QED BY Zenon, <1>6, <2>1, NeedOK
<1>10. fifo' \in Seq(ByteSet) /\ Len(fifo') = len - 2 * read /\ InPlace(fifo', nextPts')
  <2> HIDE DEF full, bytes, read
  <2>1. /\ Remaining(bytes, k) \in Seq(ByteSet) /\ Len(Remaining(bytes, k)) = Len(bytes) - k * Need
        /\ InPlace(Remaining(bytes, k), nextPts + k * FrameSize)
    BY Zenon, <1>1, <1>4, <1>9, FifoAfter
  <2> QED BY Zenon, <1>7, <1>9, <2>1
<1>11. frame' \in FrameBytes
  <2> HIDE DEF full, bytes, read
  <2>1. CASE k = 0
    BY Zenon, <1>1, <1>7, <2>1
  <2>2. CASE k # 0
    <3>1. k \in Nat \ {0}
      BY Zenon, <1>9, <2>2
    <3> QED BY Zenon, <1>1, <1>4, <1>7, <1>9, <2>2, <3>1, FilledOK
  <2> QED BY Zenon, <2>1, <2>2
<1>12. \A j \in 1 .. full : /\ Packet(bytes, j) \in PacketSet /\ TimedPacket(Packet(bytes, j))
                            /\ Packet(bytes, j).pts = nextPts + (j - 1) * FrameSize
  <2> HIDE DEF full, bytes
  <2> SUFFICES ASSUME NEW j \in 1 .. full
               PROVE  /\ Packet(bytes, j) \in PacketSet /\ TimedPacket(Packet(bytes, j))
                      /\ Packet(bytes, j).pts = nextPts + (j - 1) * FrameSize
    BY Zenon
  <2>1. j \in Nat \ {0} /\ j \in 0 .. full
    BY <1>6
  <2>2. j * Need <= Len(bytes)
    BY Zenon, <1>6, <2>1
  <2> QED BY Zenon, <1>1, <1>4, <2>1, <2>2, PacketOK DEF TimedPacket
<1>13. /\ new \in Seq(PacketSet) /\ Len(new) = full
       /\ \A j \in 1 .. full : new[j].pts = nextPts + (j - 1) * FrameSize /\ TimedPacket(new[j])
  <2> HIDE DEF full, bytes
  <2>1. new \in Seq(PacketSet) /\ Len(new) = full
    BY <1>6, <1>12
  <2> QED BY Zenon, <1>12, <2>1
<1>14. nextPts' = nextPts + read
  BY Zenon, <1>7
<1>15. k = full => len < 2 * read + Need
  BY Zenon, <1>6, <1>9
<1>16. /\ \A i \in DOMAIN sent : TimedPacket(sent[i]) /\ sent[i].pts < nextPts /\ sent[i].pts \in Nat
       /\ \A i, j \in DOMAIN sent : i < j => sent[i].pts < sent[j].pts
  <2>1. \A i \in DOMAIN sent : sent[i] \in PacketSet
    BY <1>1, LenProperties, ElementOfSeq
  <2> QED BY Zenon, <2>1 DEF CaptureInv, EncoderInv, PacketsKeepTime, PacketSet, TimedPacket
<1>17. /\ sent' \in Seq(PacketSet)
       /\ \A i \in DOMAIN sent' : TimedPacket(sent'[i]) /\ sent'[i].pts < nextPts'
       /\ \A i, j \in DOMAIN sent' : i < j => sent'[i].pts < sent'[j].pts
  <2> HIDE DEF read, new, full, len, bytes
  <2>1. CASE k = full /\ sent' = sent \o new
    BY Zenon, <1>6, <1>7, <1>13, <2>1, SentGrows
  <2>2. CASE UNCHANGED sent
    <3>1. \A i \in DOMAIN sent : sent[i].pts < nextPts + read
      BY <1>1, <1>9, <1>16
    <3> QED BY Zenon, <1>1, <1>14, <1>16, <2>2, <3>1
  <2> QED BY Zenon, <1>7, <2>1, <2>2
<1> HIDE DEF read, new, full, len, bytes
<1>18. /\ Len(fifo') + 2 * nextPts' = 2 * fed' /\ Len(fifo') <= FifoBytes
       /\ fed' \in 0 .. captured' /\ nextPts' \in 0 .. MaxCaptured
  <2> DEFINE l == Len(fifo)
             l2 == Len(fifo')
  <2>1. /\ l \in Nat /\ l2 = len - 2 * read /\ len = l + 2 * n /\ l + 2 * nextPts = 2 * fed /\ fed' = fed + n
        /\ nextPts' = nextPts + read /\ captured' = captured + n /\ captured' <= MaxCaptured
        /\ 2 * read <= len
    BY Zenon, <1>1, <1>3, <1>4, <1>8, <1>9, <1>10, <1>14
  <2> HIDE DEF l, l2
  <2>2. l2 + 2 * nextPts' = 2 * fed' /\ l2 <= FifoBytes /\ fed' \in 0 .. captured' /\ nextPts' \in 0 .. MaxCaptured
    BY SMTT(30), <1>1, <1>5, <1>8, <1>9, <2>1
  <2> QED BY Zenon, <2>2 DEF l2
<1>19. Len(fifo') >= Need => codecFailed'
  <2>1. k = full => Len(fifo') < Need
    BY <1>2, <1>5, <1>9, <1>10, <1>15
  <2>2. Len(fifo') \in Int
    BY <1>5, <1>9, <1>10
  <2>3. k = full => ~(Len(fifo') >= Need)
    BY <1>2, <2>1, <2>2
  <2> QED BY Zenon, <1>7, <2>3
<1>20. codecFailed' \in BOOLEAN
  BY Zenon, <1>3, <1>7
<1>21. EncoderInv'
  BY Zenon, <1>10, <1>17, <1>18, <1>19 DEF EncoderInv, PacketsKeepTime, TimedPacket, InPlace, Need
<1> QED BY Zenon, <1>10, <1>11, <1>17, <1>18, <1>20, <1>21

\* Every step of the capture thread keeps its invariant.
LEMMA CaptureSteps ==
  ASSUME CaptureAssumption, CaptureInv, [CaptureNext]_captureVars
  PROVE  CaptureInv'
<1>1. ASSUME UNCHANGED <<captured, encoderVars>>, (capRunning \in BOOLEAN)', (capDevices \in BOOLEAN)',
             (capOwner \in {"new", "waiting", "joining", "started", "stopping", "stopped", "failed"})',
             (capThread \in {"none", "init", "failed", "loop", "exited"})', (capReport \in {"empty", "ok", "error"})',
             DevicesInv'
      PROVE  CaptureInv'
  <2>1. EncoderInv' /\ (fifo \in Seq(ByteSet))' /\ (sent \in Seq(PacketSet))' /\ (frame \in FrameBytes)'
    BY Zenon, <1>1, EncoderRests
  <2>2. CaptureTypeOK'
    BY Zenon, <1>1 DEF CaptureInv, CaptureTypes, CaptureTypeOK, encoderVars
  <2> QED BY Zenon, <1>1, <2>1, <2>2 DEF CaptureInv, CaptureTypes
<1> USE DEF CaptureInv, CaptureTypes, CaptureTypeOK, DevicesInv, CaptureOwnsDevices
<1>2. CASE UNCHANGED captureVars
  BY Zenon, <1>1, <1>2 DEF captureVars, encoderVars
<1>3. CASE StartCapturing
  BY Zenon, <1>1, <1>3 DEF StartCapturing
<1>4. CASE StopCapturing
  BY Zenon, <1>1, <1>4 DEF StopCapturing
<1>5. CASE OwnerSteps
  BY Zenon, <1>1, <1>5 DEF OwnerSteps, StartReads, StartFails, StopJoinsCapture
<1>6. CASE CaptureThreadSteps
  BY Zenon, <1>1, <1>6 DEF CaptureThreadSteps, InitDevices, ReportFailure, CaptureLoopEnds
<1>7. ASSUME NEW n \in BlockSizes, CaptureBlock(n) PROVE CaptureInv'
  <2>1. /\ captured + n <= MaxCaptured /\ captured' = captured + n /\ (Encode(n) \/ NotEncoded)
        /\ UNCHANGED <<capRunning, capOwner, capThread, capDevices, capReport>>
    BY Zenon, <1>7 DEF CaptureBlock
  <2>2. captured' \in 0 .. MaxCaptured /\ DevicesInv'
    BY <2>1 DEF CaptureAssumption
  <2>3. CASE Encode(n)
    BY Zenon, <2>1, <2>2, <2>3, EncodeKeeps
  <2>4. CASE NotEncoded
    <3>1. EncoderInv' /\ (fifo \in Seq(ByteSet))' /\ (sent \in Seq(PacketSet))' /\ (frame \in FrameBytes)'
      BY Zenon, <2>4, EncoderRests DEF NotEncoded
    <3>2. fed' \in 0 .. captured' /\ UNCHANGED <<codecFailed, nextPts, fifo>>
      BY <2>1, <2>4 DEF NotEncoded, encoderVars, CaptureAssumption
    <3> QED BY Zenon, <2>1, <2>2, <3>1, <3>2
  <2> QED BY Zenon, <2>1, <2>3, <2>4
<1> QED BY Zenon, <1>2, <1>3, <1>4, <1>5, <1>6, <1>7 DEF CaptureNext

\* The capture thread's invariant holds before start.
LEMMA CaptureStarts ==
  ASSUME CaptureAssumption, CaptureInit
  PROVE  CaptureInv
<1>1. CaptureTypes
  <2>1. fifo \in Seq(ByteSet) /\ Len(fifo) = 0 /\ sent \in Seq(PacketSet)
    BY Zenon, EmptySeq DEF CaptureInit
  <2>2. frame \in FrameBytes
    BY DEF CaptureInit, FrameBytes
  <2>3. CaptureTypeOK
    <3>1. captured = 0 /\ fed = 0 /\ nextPts = 0 /\ MaxCaptured \in Nat /\ FifoBytes \in Nat
      BY Zenon DEF CaptureInit, CaptureAssumption
    <3>2. captured \in 0 .. MaxCaptured /\ fed \in 0 .. captured /\ Len(fifo) <= FifoBytes
          /\ nextPts \in 0 .. MaxCaptured
      BY <2>1, <3>1
    <3>3. /\ capRunning \in BOOLEAN /\ capDevices \in BOOLEAN /\ codecFailed \in BOOLEAN
          /\ capOwner = "new" /\ capThread = "none" /\ capReport = "empty"
      BY Zenon DEF CaptureInit
    <3> QED BY Zenon, <3>2, <3>3 DEF CaptureTypeOK
  <2> QED BY Zenon, <2>1, <2>2, <2>3 DEF CaptureTypes
<1>2. DevicesInv
  BY Zenon DEF CaptureInit, DevicesInv, CaptureOwnsDevices
<1>3. EncoderInv
  <2>1. fed = 0 /\ nextPts = 0 /\ Len(fifo) = 0 /\ DOMAIN sent = {} /\ Need \in Nat \ {0}
    BY NeedOK DEF CaptureInit
  <2> QED BY <2>1 DEF EncoderInv, PacketsKeepTime, InPlace
<1> QED BY Zenon, <1>1, <1>2, <1>3 DEF CaptureInv

-------------------------------------------------------------------------------
(***************************************************************************)
(* AudioPlayback.  The backlog is the newest sound.                        *)
(***************************************************************************)

\* What is appended to both stays at the end of both.
LEMMA EndsGrow ==
  ASSUME NEW q \in Seq(Nat), NEW p \in Seq(Nat), NEW s \in Seq(Nat), EndsWith(q, p)
  PROVE  EndsWith(q \o s, p \o s)
<1> DEFINE a == Len(q)
           b == Len(p)
           c == Len(s)
           x == q \o s
           y == p \o s
<1>1. a \in Nat /\ b \in Nat /\ c \in Nat /\ a <= b /\ \A i \in 1 .. a : q[i] = p[b - a + i]
  BY Zenon, LenProperties DEF EndsWith
<1>2. /\ Len(x) = a + c /\ \A i \in 1 .. a + c : x[i] = IF i <= a THEN q[i] ELSE s[i - a]
      /\ Len(y) = b + c /\ \A i \in 1 .. b + c : y[i] = IF i <= b THEN p[i] ELSE s[i - b]
  BY Zenon, ConcatProperties
<1> HIDE DEF a, b, c, x, y
<1>3. ASSUME NEW i \in 1 .. a + c PROVE x[i] = y[(b + c) - (a + c) + i]
  <2>1. (b + c) - (a + c) + i = b - a + i /\ b - a + i \in 1 .. b + c
    BY <1>1
  <2>2. CASE i <= a
    <3>1. b - a + i <= b /\ i \in 1 .. a
      BY <1>1, <2>2
    <3> QED BY Zenon, <1>1, <1>2, <2>1, <2>2, <3>1
  <2>3. CASE ~(i <= a)
    <3>1. ~(b - a + i <= b) /\ (b - a + i) - b = i - a
      BY SMTT(30), <1>1, <2>3
    <3> QED BY Zenon, <1>2, <2>1, <2>3, <3>1
  <2> QED BY Zenon, <2>2, <2>3
<1>4. a + c <= b + c
  BY <1>1
<1> QED BY Zenon, <1>2, <1>3, <1>4 DEF EndsWith, x, y

\* The end of an end is an end.
LEMMA EndsShrink ==
  ASSUME NEW q \in Seq(Nat), NEW p \in Seq(Nat), EndsWith(q, p), NEW k \in Nat
  PROVE  /\ SubSeq(q, k + 1, Len(q)) \in Seq(Nat) /\ EndsWith(SubSeq(q, k + 1, Len(q)), p)
         /\ Len(SubSeq(q, k + 1, Len(q))) = IF k <= Len(q) THEN Len(q) - k ELSE 0
<1> DEFINE a == Len(q)
           b == Len(p)
           x == SubSeq(q, k + 1, a)
           c == IF k <= a THEN a - k ELSE 0
<1>1. a \in Nat /\ b \in Nat /\ a <= b /\ \A i \in 1 .. a : q[i] = p[b - a + i] /\ q[i] \in Nat
  BY Zenon, LenProperties, ElementOfSeq DEF EndsWith
<1> HIDE DEF a, b
<1>2. \A i \in k + 1 .. a : q[i] \in Nat
  BY SMTT(30), <1>1
<1>3. /\ x \in Seq(Nat) /\ Len(x) = c
      /\ \A i \in 1 .. c : x[i] = q[k + i]
  <2>1. /\ x \in Seq(Nat) /\ Len(x) = IF k + 1 <= a THEN a - (k + 1) + 1 ELSE 0
        /\ \A i \in 1 .. a - (k + 1) + 1 : x[i] = q[(k + 1) + i - 1]
    <3> DEFINE m == k + 1
    <3>1. m \in Int /\ a \in Int /\ \A i \in m .. a : q[i] \in Nat
      BY SMTT(30), <1>1, <1>2
    <3> HIDE DEF m
    <3>2. /\ SubSeq(q, m, a) \in Seq(Nat) /\ Len(SubSeq(q, m, a)) = IF m <= a THEN a - m + 1 ELSE 0
          /\ \A i \in 1 .. a - m + 1 : SubSeq(q, m, a)[i] = q[m + i - 1]
      BY SMTT(30), <3>1, SubSeqProperties
    <3> QED BY Zenon, <3>2 DEF m
  <2>2. c = IF k + 1 <= a THEN a - (k + 1) + 1 ELSE 0
    BY <1>1
  <2>3. \A i \in 1 .. c : i \in 1 .. a - (k + 1) + 1 /\ (k + 1) + i - 1 = k + i
    BY <1>1
  <2> QED BY <2>1, <2>2, <2>3
<1> HIDE DEF x
<1>4. ASSUME NEW i \in 1 .. c PROVE x[i] = p[b - c + i]
  <2>1. k + i \in 1 .. a /\ b - a + (k + i) = b - c + i
    BY <1>1, <1>4
  <2> QED BY Zenon, <1>1, <1>3, <2>1
<1>5. c <= b
  BY <1>1
<1> HIDE DEF c
<1>6. EndsWith(x, p)
  BY Zenon, <1>3, <1>4, <1>5 DEF EndsWith, b
<1>7. x \in Seq(Nat) /\ Len(x) = c
  BY Zenon, <1>3
<1> QED BY Zenon, <1>6, <1>7 DEF x, a, c

\* Of a longer queue the newest n are kept.
LEMMA NewestEnds ==
  ASSUME NEW q \in Seq(Nat), NEW p \in Seq(Nat), EndsWith(q, p), NEW n \in Nat
  PROVE  NewestOf(q, n) \in Seq(Nat) /\ EndsWith(NewestOf(q, n), p) /\ Len(NewestOf(q, n)) <= n
<1>1. Len(q) \in Nat
  BY Zenon, LenProperties
<1>2. CASE Len(q) <= n
  BY Zenon, <1>2 DEF NewestOf
<1>3. CASE ~(Len(q) <= n)
  <2> DEFINE k == Len(q) - n
  <2>1. k \in Nat /\ k <= Len(q) /\ Len(q) - k = n /\ NewestOf(q, n) = SubSeq(q, k + 1, Len(q))
    BY <1>1, <1>3 DEF NewestOf
  <2> HIDE DEF k
  <2>2. /\ SubSeq(q, k + 1, Len(q)) \in Seq(Nat) /\ EndsWith(SubSeq(q, k + 1, Len(q)), p)
        /\ Len(SubSeq(q, k + 1, Len(q))) = IF k <= Len(q) THEN Len(q) - k ELSE 0
    BY Zenon, <2>1, EndsShrink
  <2> QED BY <2>1, <2>2
<1> QED BY Zenon, <1>2, <1>3

\* The queue belongs to the player that exists; only stop takes it away, when
\* the decode thread has ended.
PlaybackInv ==
  /\ PlaybackTypeOK
  /\ batch \in Seq(Nat) /\ samples \in Seq(Nat) /\ playQueue \in Seq(Nat) /\ pushed \in Seq(Nat)
  /\ EndsWith(playQueue, pushed)
  /\ loop = "starting" => player
  /\ ~player => playQueue = <<>>
  /\ stopCall \in {"player", "done"} => loop = "exited"

\* pushSamples drops the oldest samples, so the queue stays an end of what
\* was pushed.
LEMMA PushKeeps ==
  ASSUME PlaybackAssumption, PlaybackInv, NEW s \in Seq(Nat), PushSamples(s)
  PROVE  /\ playQueue' \in Seq(Nat) /\ pushed' \in Seq(Nat)
         /\ EndsWith(playQueue', pushed') /\ Len(playQueue') <= QueueCap
<1>1. EndsWith(playQueue \o s, pushed \o s)
  BY Zenon, EndsGrow DEF PlaybackInv
<1>2. playQueue \o s \in Seq(Nat) /\ pushed \o s \in Seq(Nat)
  BY Zenon, ConcatProperties DEF PlaybackInv
<1>3. playQueue' = NewestOf(playQueue \o s, QueueCap) /\ pushed' = pushed \o s
  BY Zenon DEF PushSamples
<1>4. QueueCap \in Nat
  BY Zenon DEF PlaybackAssumption
<1> QED BY Zenon, <1>1, <1>2, <1>3, <1>4, NewestEnds

\* The two ends of an empty queue.
LEMMA NothingEnds ==
  <<>> \in Seq(Nat) /\ EndsWith(<<>>, <<>>) /\ Len(<<>>) = 0
BY EmptySeq DEF EndsWith

\* decodeLoop.
LEMMA LoopKeeps ==
  ASSUME PlaybackAssumption, PlaybackInv, LoopSteps
  PROVE  PlaybackInv'
<1>0. QueueCap \in Nat \ {0} /\ MaxPackets \in Nat /\ MaxBatch \in Nat /\ StallTicks \in Nat /\ Never = -1
  BY Zenon DEF PlaybackAssumption, Never
<1>1. CASE Poll
  <2>1. PICK n \in 0 .. MaxBatch : /\ arrived + n <= MaxPackets /\ arrived' = arrived + n
                                   /\ batch' = [i \in 1 .. n |-> arrived + i]
    BY Zenon, <1>1 DEF Poll
  <2>2. /\ samples' = <<>> /\ loop' = "audio" /\ loop = "poll"
        /\ \/ age' = 0 /\ keyframeAsked' = FALSE
           \/ UNCHANGED <<age, keyframeAsked>>
        /\ UNCHANGED <<streaming, stopCall, player, playing, renderer, renderDevices, playReport, playQueue, pushed>>
    BY Zenon, <1>1 DEF Poll, rendererVars, queueVars
  <2>3. arrived \in Nat /\ n \in Nat
    BY <1>0 DEF PlaybackInv, PlaybackTypeOK
  <2>4. batch' \in Seq(Nat) /\ samples' \in Seq(Nat) /\ arrived' \in 0 .. MaxPackets
    BY SMTT(30), <1>0, <2>1, <2>2, <2>3, EmptySeq
  <2>5. age' \in Never .. StallTicks + 1 /\ keyframeAsked' \in BOOLEAN
    <3>1. 0 \in Never .. StallTicks + 1 /\ FALSE \in BOOLEAN
      BY <1>0
    <3>2. age \in Never .. StallTicks + 1 /\ keyframeAsked \in BOOLEAN
      BY Zenon DEF PlaybackInv, PlaybackTypeOK
    <3> QED BY Zenon, <2>2, <3>1, <3>2
  <2> QED BY <2>2, <2>4, <2>5 DEF PlaybackInv, PlaybackTypeOK
<1>2. CASE LoopExits
  BY <1>2 DEF LoopExits, PlaybackInv, PlaybackTypeOK, rendererVars, queueVars
<1>3. CASE AudioRejected
  <2>1. batch' \in Seq(Nat)
    BY Zenon, <1>3, HeadTailProperties DEF AudioRejected, PlaybackInv
  <2> QED BY <1>3, <2>1 DEF AudioRejected, PlaybackInv, PlaybackTypeOK, rendererVars, queueVars
<1>4. CASE AudioDecoded
  <2>1. /\ loop = "audio" /\ batch # <<>> /\ samples' = Append(samples, Head(batch))
        /\ UNCHANGED <<streaming, stopCall, arrived, age, keyframeAsked>>
    BY Zenon, <1>4 DEF AudioDecoded
  <2>2. samples' \in Seq(Nat) /\ Tail(batch) \in Seq(Nat)
    <3>1. Head(batch) \in Nat /\ Tail(batch) \in Seq(Nat)
      BY Zenon, <2>1, HeadTailProperties DEF PlaybackInv
    <3> QED BY Zenon, <2>1, <3>1, AppendProperties DEF PlaybackInv
  <2>3. CASE player
    <3>1. PushSamples(samples') /\ batch' = Tail(batch) /\ UNCHANGED <<loop, player, rendererVars>>
      BY Zenon, <1>4, <2>3 DEF AudioDecoded
    <3>2. /\ playQueue' \in Seq(Nat) /\ pushed' \in Seq(Nat)
          /\ EndsWith(playQueue', pushed') /\ Len(playQueue') <= QueueCap
      BY Zenon, <2>2, <3>1, PushKeeps
    <3> QED BY SMTT(30), <2>1, <2>2, <2>3, <3>1, <3>2 DEF PlaybackInv, PlaybackTypeOK, rendererVars
  <2>4. CASE ~player
    <3>1. /\ player' = TRUE /\ playing' = TRUE /\ renderer' = "init" /\ playReport' = "empty"
          /\ pushed' = <<>> /\ loop' = "starting" /\ UNCHANGED <<batch, renderDevices, playQueue>>
      BY Zenon, <1>4, <2>4 DEF AudioDecoded
    <3>2. playQueue' = <<>>
      BY Zenon, <2>4, <3>1 DEF PlaybackInv
    <3>3. playQueue' \in Seq(Nat) /\ pushed' \in Seq(Nat) /\ EndsWith(playQueue', pushed') /\ Len(playQueue') <= QueueCap
      BY <1>0, <3>1, <3>2, NothingEnds
    <3>4. stopCall \notin {"player", "done"}
      BY Zenon, <2>1 DEF PlaybackInv
    <3> QED BY Zenon, <2>1, <2>2, <3>1, <3>3, <3>4 DEF PlaybackInv, PlaybackTypeOK
  <2> QED BY Zenon, <2>3, <2>4
<1>5. CASE PlayerAnswered
  <2>1. loop = "starting" /\ UNCHANGED <<streaming, stopCall, samples, arrived, age, keyframeAsked, player, rendererVars>>
    BY Zenon, <1>5 DEF PlayerAnswered
  <2>2. player /\ stopCall \notin {"player", "done"}
    BY Zenon, <2>1 DEF PlaybackInv
  <2>3. CASE playReport = "ok"
    <3>1. PushSamples(samples) /\ batch' = Tail(batch) /\ loop' = "audio"
      BY Zenon, <1>5, <2>3 DEF PlayerAnswered
    <3>2. /\ playQueue' \in Seq(Nat) /\ pushed' \in Seq(Nat)
          /\ EndsWith(playQueue', pushed') /\ Len(playQueue') <= QueueCap
      BY Zenon, <3>1, PushKeeps DEF PlaybackInv
    <3>3. batch' \in Seq(Nat)
      <4>1. CASE batch = <<>>
        BY <3>1, <4>1, EmptySeq
      <4>2. CASE batch # <<>>
        BY Zenon, <3>1, <4>2, HeadTailProperties DEF PlaybackInv
      <4> QED BY Zenon, <4>1, <4>2
    <3> QED BY Zenon, <2>1, <2>2, <3>1, <3>2, <3>3 DEF PlaybackInv, PlaybackTypeOK, rendererVars
  <2>4. CASE playReport # "ok"
    <3>1. loop' = "joining" /\ UNCHANGED <<batch, queueVars>>
      BY Zenon, <1>5, <2>4 DEF PlayerAnswered
    <3> QED BY Zenon, <2>1, <2>2, <3>1 DEF PlaybackInv, PlaybackTypeOK, rendererVars, queueVars
  <2> QED BY Zenon, <2>3, <2>4
<1>6. CASE Watchdog
  <2>1. age' \in Never .. StallTicks + 1 /\ keyframeAsked' \in BOOLEAN
    <3>1. 0 \in Never .. StallTicks + 1 /\ TRUE \in BOOLEAN
      BY <1>0
    <3>2. age \in Never .. StallTicks + 1 /\ keyframeAsked \in BOOLEAN
      BY Zenon DEF PlaybackInv, PlaybackTypeOK
    <3>3. (age' = 0 /\ keyframeAsked' = TRUE) \/ UNCHANGED <<age, keyframeAsked>>
      BY Zenon, <1>6 DEF Watchdog
    <3> QED BY Zenon, <3>1, <3>2, <3>3
  <2> QED BY <1>6, <2>1 DEF Watchdog, PlaybackInv, PlaybackTypeOK, rendererVars, queueVars
<1> QED BY Zenon, <1>1, <1>2, <1>3, <1>4, <1>5, <1>6 DEF LoopSteps

\* The render thread, the caller of stop, and time.
LEMMA PlaybackSteps ==
  ASSUME PlaybackAssumption, PlaybackInv, [PlaybackNext]_playbackVars
  PROVE  PlaybackInv'
<1>0. QueueCap \in Nat \ {0} /\ StallTicks \in Nat /\ Never = -1
  BY Zenon DEF PlaybackAssumption, Never
<1>1. CASE UNCHANGED playbackVars
  BY SMTT(30), <1>1 DEF playbackVars, PlaybackInv, PlaybackTypeOK
<1>2. CASE RendererSteps
  <2>1. /\ renderer' \in {"render", "exited"} /\ renderDevices' \in {"none", "client", "initialised", "all"}
        /\ playReport' \in {playReport, "ok", "error"}
        /\ UNCHANGED <<streaming, stopCall, loopVars, player, playing, queueVars>>
    BY Zenon, <1>2 DEF RendererSteps, OpenDevices, RenderEnds
  <2> QED BY <2>1 DEF PlaybackInv, PlaybackTypeOK, loopVars, queueVars
<1>3. CASE StopsPlayer
  BY Zenon, <1>3 DEF StopsPlayer, PlaybackInv, PlaybackTypeOK, loopVars, queueVars
<1>7. CASE StopStreaming
  BY ZenonT(30), <1>7 DEF StopStreaming, PlaybackInv, PlaybackTypeOK, loopVars, rendererVars, queueVars
<1>4. CASE PlayerStopped
  <2>1. /\ stopCall = "player" /\ stopCall' = "done" /\ player' = FALSE /\ playQueue' = <<>> /\ pushed' = <<>>
        /\ UNCHANGED <<streaming, loopVars, rendererVars>>
    BY Zenon, <1>4 DEF PlayerStopped
  <2>2. playQueue' \in Seq(Nat) /\ pushed' \in Seq(Nat) /\ EndsWith(playQueue', pushed') /\ Len(playQueue') <= QueueCap
    BY SMTT(30), <1>0, <2>1, NothingEnds
  <2> QED BY Zenon, <2>1, <2>2 DEF PlaybackInv, PlaybackTypeOK, loopVars, rendererVars
<1>5. CASE TimePasses
  <2>1. age' \in Never .. StallTicks + 1
    BY <1>0, <1>5 DEF TimePasses
  <2> QED BY <1>5, <2>1 DEF TimePasses, PlaybackInv, PlaybackTypeOK, rendererVars, queueVars
<1>6. ASSUME NEW n \in 1 .. QueueCap, Render(n) PROVE PlaybackInv'
  <2>1. /\ renderer' \in {"render", "crashed"}
        /\ UNCHANGED <<streaming, stopCall, loopVars, player, playing, renderDevices, playReport, pushed>>
    BY Zenon, <1>6 DEF Render
  <2>2. CASE UNCHANGED playQueue
    BY SMTT(30), <2>1, <2>2 DEF PlaybackInv, PlaybackTypeOK, loopVars
  <2>3. CASE playQueue' = SubSeq(playQueue, n + 1, Len(playQueue))
    <3>1. n \in Nat /\ Len(playQueue) \in Nat /\ Len(playQueue) <= QueueCap
      BY <1>0, LenProperties DEF PlaybackInv, PlaybackTypeOK
    <3>2. /\ playQueue' \in Seq(Nat) /\ EndsWith(playQueue', pushed)
          /\ Len(playQueue') = IF n <= Len(playQueue) THEN Len(playQueue) - n ELSE 0
      BY Zenon, <2>3, <3>1, EndsShrink DEF PlaybackInv
    <3>3. Len(playQueue') <= QueueCap
      <4> DEFINE l == Len(playQueue)
                 m == Len(playQueue')
      <4>1. l \in Nat /\ l <= QueueCap /\ m = IF n <= l THEN l - n ELSE 0
        BY Zenon, <3>1, <3>2
      <4> HIDE DEF l, m
      <4>2. m <= QueueCap
        BY SMTT(30), <1>0, <3>1, <4>1
      <4> QED BY Zenon, <4>2 DEF m
    <3>4. ~player => playQueue' = <<>>
      <4> SUFFICES ASSUME ~player PROVE playQueue' = <<>>
        BY Zenon
      <4>1. playQueue = <<>> /\ Len(playQueue) = 0
        BY Zenon, NothingEnds DEF PlaybackInv
      <4>2. 0 < n + 1 /\ n + 1 \in Int
        BY <3>1
      <4> QED BY <2>3, <4>1, <4>2, SubSeqEmpty
    <3> QED BY SMTT(30), <2>1, <3>2, <3>3, <3>4 DEF PlaybackInv, PlaybackTypeOK, loopVars
  <2> QED BY Zenon, <1>6, <2>2, <2>3 DEF Render
<1> QED BY Zenon, <1>1, <1>2, <1>3, <1>4, <1>5, <1>6, <1>7, LoopKeeps DEF PlaybackNext, StreamerStops

\* The playback's invariant holds before start.
LEMMA PlaybackStarts ==
  ASSUME PlaybackAssumption, PlaybackInit
  PROVE  PlaybackInv
<1>1. arrived \in 0 .. MaxPackets /\ age \in Never .. StallTicks + 1 /\ Len(playQueue) <= QueueCap
  <2>1. arrived = 0 /\ age = -1 /\ Len(playQueue) = 0
    BY Zenon, NothingEnds DEF PlaybackInit, Never
  <2> QED BY <2>1 DEF PlaybackAssumption, Never
<1>2. /\ batch \in Seq(Nat) /\ samples \in Seq(Nat) /\ playQueue \in Seq(Nat) /\ pushed \in Seq(Nat)
      /\ EndsWith(playQueue, pushed)
  BY Zenon, NothingEnds DEF PlaybackInit
<1> QED BY Zenon, <1>1, <1>2 DEF PlaybackInit, PlaybackInv, PlaybackTypeOK

\* The invariant implies the types and that the backlog is the newest sound.
LEMMA PlaybackSafe ==
  ASSUME PlaybackInv
  PROVE  PlaybackTypeOK /\ BacklogIsNewest
BY Zenon DEF PlaybackInv, PlaybackTypeOK, BacklogIsNewest

-------------------------------------------------------------------------------
(***************************************************************************)
(* The parts together.                                                     *)
(***************************************************************************)

\* The inductive invariant of the media transport: those of its parts.
WireInv ==
  SecInv /\ ReceiverInv /\ TransportTypeOK /\ LifeInv /\ CaptureInv /\ PlaybackInv

\* The invariants of all parts hold at the start.
LEMMA WireStarts ==
  ASSUME WireInit
  PROVE  WireInv
<1>1. /\ SecInit /\ TrackerInit /\ ReassemblyInit /\ JitterInit /\ StreamInit
      /\ TransportInit /\ LifeInit /\ CaptureInit /\ PlaybackInit
  BY Zenon DEF WireInit
<1>2. SecInv
  BY Zenon, <1>1, SecInitInv
<1>3. ReceiverInv
  BY Zenon, <1>1, ReceiverStarts
<1>4. TransportTypeOK
  BY Zenon, <1>1, TransportStarts, TransportAssumption
<1>5. LifeInv
  BY Zenon, <1>1, LifeStarts
<1>6. CaptureInv
  BY Zenon, <1>1, CaptureStarts, CaptureAssumption
<1>7. PlaybackInv
  BY Zenon, <1>1, PlaybackStarts, PlaybackAssumption
<1> QED BY SMTT(30), <1>2, <1>3, <1>4, <1>5, <1>6, <1>7 DEF WireInv

\* A step of the whole is a step, or none, of each part.
LEMMA WirePartSteps ==
  ASSUME [WireNext]_wireVars
  PROVE  /\ [SecNext]_channelVars /\ [TransportNext]_transportVars /\ [LifeNext]_lifeVars
         /\ [CaptureNext]_captureVars /\ [PlaybackNext]_playbackVars
         /\ \/ [ReceiverNext]_receiverVars
            \/ [TrackerNext]_trackerVars /\ UNCHANGED <<reassemblyVars, jitterVars, streamVars>>
            \/ [ReassemblyNext]_reassemblyVars /\ UNCHANGED <<trackerVars, jitterVars, streamVars>>
<1>1. CASE Channel      BY Zenon, <1>1 DEF Channel, soundVars
<1>2. CASE Tracker      BY Zenon, <1>2 DEF Tracker, soundVars
<1>3. CASE Reassembler  BY Zenon, <1>3 DEF Reassembler, soundVars
<1>4. CASE Receiver     BY Zenon, <1>4 DEF Receiver, soundVars
<1>5. CASE Transport    BY Zenon, <1>5 DEF Transport, soundVars
<1>6. CASE Lifecycle    BY Zenon, <1>6 DEF Lifecycle, soundVars
<1>7. CASE Capture      BY Zenon, <1>7 DEF Capture, soundVars
<1>8. CASE Playback     BY Zenon, <1>8 DEF Playback, soundVars
<1>9. CASE UNCHANGED wireVars
  BY Zenon, <1>9 DEF wireVars, soundVars
<1> QED BY ZenonT(30), <1>1, <1>2, <1>3, <1>4, <1>5, <1>6, <1>7, <1>8, <1>9 DEF WireNext

\* The receive path and its parts fed anything at all keep its invariant.
LEMMA ReceiverPartSteps ==
  ASSUME ReceiverInv,
         \/ [ReceiverNext]_receiverVars
         \/ [TrackerNext]_trackerVars /\ UNCHANGED <<reassemblyVars, jitterVars, streamVars>>
         \/ [ReassemblyNext]_reassemblyVars /\ UNCHANGED <<trackerVars, jitterVars, streamVars>>
  PROVE  ReceiverInv' /\ [JitterNext]_jitterVars
<1>0. TrackerInv /\ ReassemblyInv /\ JitterInv
  BY Zenon DEF ReceiverInv
<1>1. ASSUME UNCHANGED jitterVars, UNCHANGED streamVars, TrackerInv', ReassemblyInv'
      PROVE  ReceiverInv'
  <2>1. JitterInv'
    BY Zenon, <1>0, <1>1, JitterSteps
  <2>2. UNCHANGED nextSequence /\ UNCHANGED packets /\ UNCHANGED sinceRequest
    BY Zenon, <1>1 DEF streamVars
  <2>3. OnlySent'
    BY Zenon, <2>2 DEF ReceiverInv, OnlySent
  <2> QED BY Zenon, <1>1, <2>1, <2>2, <2>3 DEF ReceiverInv
<1>2. CASE [ReceiverNext]_receiverVars
  BY Zenon, <1>2, ReceiverSteps
<1>3. CASE [TrackerNext]_trackerVars /\ UNCHANGED <<reassemblyVars, jitterVars, streamVars>>
  <2>1. TrackerInv'
    BY Zenon, <1>0, <1>3, TrackerSteps
  <2>2. ReassemblyInv'
    BY Zenon, <1>0, <1>3, ReassemblyNextInv
  <2> QED BY Zenon, <1>1, <1>3, <2>1, <2>2
<1>4. CASE [ReassemblyNext]_reassemblyVars /\ UNCHANGED <<trackerVars, jitterVars, streamVars>>
  <2>1. TrackerInv'
    BY Zenon, <1>0, <1>4, TrackerSteps
  <2>2. ReassemblyInv'
    BY Zenon, <1>0, <1>4, ReassemblyNextInv
  <2> QED BY Zenon, <1>1, <1>4, <2>1, <2>2
<1> QED BY Zenon, <1>2, <1>3, <1>4

\* A step of any part keeps the invariants of all, and frames pop in order.
LEMMA WireSteps ==
  ASSUME WireInv, [WireNext]_wireVars
  PROVE  WireInv' /\ (InOrder \/ UNCHANGED jitterVars)
<1>0. SecInv /\ ReceiverInv /\ TransportTypeOK /\ LifeInv /\ CaptureInv /\ PlaybackInv
  BY Zenon DEF WireInv
<1>1. /\ [SecNext]_channelVars /\ [TransportNext]_transportVars /\ [LifeNext]_lifeVars
      /\ [CaptureNext]_captureVars /\ [PlaybackNext]_playbackVars
  BY Zenon, WirePartSteps
<1>2. ReceiverInv' /\ [JitterNext]_jitterVars
  BY Zenon, <1>0, WirePartSteps, ReceiverPartSteps
<1>3. SecInv'
  BY Zenon, <1>0, <1>1, SecNextInv
<1>4. TransportTypeOK'
  BY Zenon, <1>0, <1>1, TransportSteps, TransportAssumption
<1>5. LifeInv'
  BY Zenon, <1>0, <1>1, LifeSteps
<1>6. CaptureInv'
  BY Zenon, <1>0, <1>1, CaptureSteps, CaptureAssumption
<1>7. PlaybackInv'
  BY Zenon, <1>0, <1>1, PlaybackSteps, PlaybackAssumption
<1>8. InOrder \/ UNCHANGED jitterVars
  <2>1. JitterInv
    BY Zenon, <1>0 DEF ReceiverInv
  <2> QED BY Zenon, <1>2, <2>1, JitterSteps
<1> QED BY Zenon, <1>2, <1>3, <1>4, <1>5, <1>6, <1>7, <1>8 DEF WireInv

\* The invariants of all parts hold in every reachable state.
LEMMA WireInvariant == WireSpec => []WireInv
BY WireStarts, WireSteps, PTL DEF WireSpec

\* Every field of the media transport stays within its type, through the whole
\* receive path: counters and sequence numbers, the queue of JitterBuffer, the
\* datagrams under way, and a relayed session always has a path to send on
\* (UdpTransport, UdpProtocol, WasapiCapture and WasapiPlayer).
THEOREM WireTypeCorrect == WireSpec => []WireTypeOK
<1>1. WireInv => WireTypeOK
  BY Zenon, ReceiverSafe, PlaybackSafe DEF WireInv, WireTypeOK, SecInv, LifeInv, CaptureInv, CaptureTypes
<1> QED BY <1>1, WireInvariant, PTL

\* The time AudioEncoderOpus puts on a packet lies in the block its sound came
\* in, however blocks and frames divide and whatever the codec gives up;
\* WasapiCapture uses its devices only while they are open, and what waits in
\* WasapiPlayer is the newest sound, for every frame size and queue length.
THEOREM SoundHolds == WireSpec => []SoundStaysInStep
<1>1. WireInv => SoundStaysInStep
  BY Zenon, PlaybackSafe DEF WireInv, SoundStaysInStep, CaptureInv, EncoderInv, DevicesInv
<1> QED BY <1>1, WireInvariant, PTL

\* The receive path that UdpTransport::handleDatagram drives keeps what
\* SequenceTracker and FragmentReassembler promise on their own: the loss count
\* is honest, only whole frames are handed up, and where gc follows every feed
\* nothing is evicted.
THEOREM ReceivePathHolds == WireSpec => [](LostAccountsForMissing /\ HandsUpWholeFrames /\ NeverOverfull)
<1>1. WireInv => LostAccountsForMissing /\ HandsUpWholeFrames /\ NeverOverfull
  BY Zenon, RoomForOneMore DEF WireInv, ReceiverInv, TrackerInv, ReassemblyInv
<1> QED BY <1>1, WireInvariant, PTL

\* Behind the tracker and the reassembler too, frames leave JitterBuffer::pop
\* in sequence order.
THEOREM PathPopsInOrder == WireSpec => PopsInOrder
<1>1. WireInv /\ [WireNext]_wireVars => [InOrder]_jitterVars
  BY Zenon, WireSteps
<1>2. WireSpec => [][InOrder]_jitterVars
  BY <1>1, WireInvariant, PTL DEF WireSpec
<1> QED BY Zenon, <1>2 DEF PopsInOrder, InOrder
===============================================================================
