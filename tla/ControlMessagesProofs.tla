------------------------ MODULE ControlMessagesProofs -------------------------
(***************************************************************************)
(* What the two ends of a connection make of each other's messages:        *)
(* PermissionsAgree, AppMessagesAreExpected and AppMessagesFindConnected.  *)
(***************************************************************************)
EXTENDS ControlChannelProofs

-------------------------------------------------------------------------------
(***************************************************************************)
(* The two ends of one connection: the invariant that ties what the host   *)
(* records and reports of a client to what is queued for it and to what    *)
(* the client holds, the things a step may do to a connection, and that    *)
(* each of them preserves the invariant.                                   *)
(***************************************************************************)

\* What leads an application message: the client is connected when it reads
\* the message behind it, or has ended.
Leaders == {"NegotiationResult", "Kick"}

\* Every application message in the queue has a leader in front of it.
Led(q) ==
  \A k \in DOMAIN q : q[k].type = "App" => \E l \in DOMAIN q : l < k /\ q[l].type \in Leaders

\* The permission held after reading the queue, p before.
PermissionAfter(p, q) ==
  IF PermissionsIn(q) = {} THEN p
  ELSE q[CHOOSE k \in PermissionsIn(q) : \A j \in PermissionsIn(q) : j <= k].perm

\* The client has got past the negotiation, or will when it reads its queue.
Past(i) ==
  \/ cstate[i] = "Connected"
  \/ Carries(toHost[i], {"App"})
  \/ Carries(toClient[i], {"NegotiationResult"})

\* The ends of one connection.
EndsAgree(i) ==
  /\ state[i] # "none" => HostReads(i)
  /\ clientEnd[i] \in {"none", "pending"} =>
       toHost[i] = <<>> /\ state[i] \notin {"Authenticating", "Connected"}
  /\ clientEnd[i] = "none" => toClient[i] = <<>>
  /\ clientEnd[i] = "open" => cstate[i] \in {"Authenticating", "Connected"}
  /\ state[i] = "Disconnected" => "Kick" \in ended[i]

\* The permission on its way is the one in the record.
PermissionFollows(i) ==
  (state[i] = "Connected" /\ clientEnd[i] = "open" /\ link[i])
    => PermissionAfter(cperm[i], toClient[i]) = input[i]

\* A client past the negotiation was not pushed back by the host, and the
\* application messages on their way to it are led.
MessagesFollow(i) ==
  /\ Past(i) => state[i] \notin {"Connecting", "Authenticating"} /\ hostEnd[i] # "none"
  /\ ClientReads(i) => cstate[i] = "Connected" \/ Led(toClient[i])
  /\ (update[i] # "none" /\ state[i] # "none" /\ ClientReads(i) /\ link[i])
       => cstate[i] = "Connected" \/ Carries(toClient[i], Leaders)

Agree(i) == EndsAgree(i) /\ PermissionFollows(i) /\ MessagesFollow(i)

ConnectionsAgree == \A i \in Ids : Agree(i)
-----------------------------------------------------------------------------
(* Queues *)

\* Reading the head of a queue moves every other message up by one.
LEMMA QueueTail ==
  ASSUME NEW S, NEW q \in Seq(S), q # <<>>
  PROVE  /\ \A k \in DOMAIN Tail(q) : k + 1 \in DOMAIN q /\ Tail(q)[k] = q[k + 1]
         /\ \A k \in DOMAIN q : k # 1 => k - 1 \in DOMAIN Tail(q) /\ Tail(q)[k - 1] = q[k]
         /\ 1 \in DOMAIN q /\ Head(q) = q[1]
         /\ DOMAIN q \subseteq Nat \ {0} /\ DOMAIN Tail(q) \subseteq Nat \ {0}
OBVIOUS

\* Where the messages of two queues are in their concatenation.
LEMMA QueueConcat ==
  ASSUME NEW S, NEW p \in Seq(S), NEW q \in Seq(S)
  PROVE  /\ \A k \in DOMAIN p : k \in DOMAIN (p \o q) /\ (p \o q)[k] = p[k]
         /\ \A k \in DOMAIN (p \o q) : k \in DOMAIN p \/ k - Len(p) \in DOMAIN q
         /\ \A k \in DOMAIN q : /\ k + Len(p) \in DOMAIN (p \o q)
                                /\ (p \o q)[k + Len(p)] = q[k]
                                /\ \A l \in DOMAIN p : l < k + Len(p)
         /\ DOMAIN p \subseteq Nat /\ DOMAIN q \subseteq Nat \ {0} /\ Len(p) \in Nat
         /\ \A k \in DOMAIN p : k <= Len(p)
         /\ \A k \in DOMAIN (p \o q) : k <= Len(p) + Len(q)
OBVIOUS

\* A queue that grows holds what it held and what was added.
LEMMA CarriesMore ==
  ASSUME NEW S, NEW p \in Seq(S), NEW q \in Seq(S), NEW T, Carries(p, T) \/ Carries(q, T)
  PROVE  Carries(p \o q, T)
<1>1. CASE Carries(p, T)
  <2>1. PICK k \in DOMAIN p : p[k].type \in T
    BY Zenon, <1>1 DEF Carries
  <2> QED
    BY <2>1, QueueConcat DEF Carries
<1>2. CASE Carries(q, T)
  <2>1. PICK k \in DOMAIN q : q[k].type \in T
    BY Zenon, <1>2 DEF Carries
  <2>2. k + Len(p) \in DOMAIN (p \o q) /\ (p \o q)[k + Len(p)] = q[k]
    BY <2>1, QueueConcat
  <2> QED
    BY Zenon, <2>1, <2>2 DEF Carries
<1> QED
  BY Zenon, <1>1, <1>2

\* A read message that leads nobody leaves the led messages led.
LEMMA LedTail ==
  ASSUME NEW S, NEW q \in Seq(S), q # <<>>, Led(q), Head(q).type \notin Leaders
  PROVE  Led(Tail(q))
<1> SUFFICES ASSUME NEW k \in DOMAIN Tail(q), Tail(q)[k].type = "App"
             PROVE  \E l \in DOMAIN Tail(q) : l < k /\ Tail(q)[l].type \in Leaders
  BY Zenon DEF Led
<1>1. k + 1 \in DOMAIN q /\ q[k + 1].type = "App"
  BY QueueTail
<1>2. PICK l \in DOMAIN q : l < k + 1 /\ q[l].type \in Leaders
  BY Zenon, <1>1 DEF Led
<1>3. l # 1
  BY Zenon, <1>2, QueueTail
<1>4. l - 1 \in DOMAIN Tail(q) /\ Tail(q)[l - 1] = q[l]
  BY Zenon, <1>3, QueueTail
<1>5. l \in Nat /\ k \in Nat
  BY Zenon, QueueTail
<1> QED
  BY <1>2, <1>4, <1>5

\* The first message of a led queue is not an application message.
LEMMA LedHead ==
  ASSUME NEW S, NEW q \in Seq(S), q # <<>>, Led(q)
  PROVE  Head(q).type # "App"
<1> SUFFICES ASSUME Head(q).type = "App" PROVE FALSE
  BY Zenon
<1>1. PICK l \in DOMAIN q : l < 1
  BY QueueTail DEF Led
<1> QED
  BY <1>1, QueueTail

\* Messages added stay led when none is an application message or a
\* leader is in front of them.
LEMMA LedMore ==
  ASSUME NEW S, NEW p \in Seq(S), NEW q \in Seq(S), Led(p),
         ~Carries(q, {"App"}) \/ Carries(p, Leaders)
  PROVE  Led(p \o q)
<1> SUFFICES ASSUME NEW k \in DOMAIN (p \o q), (p \o q)[k].type = "App"
             PROVE  \E l \in DOMAIN (p \o q) : l < k /\ (p \o q)[l].type \in Leaders
  BY Zenon DEF Led
<1>1. CASE k \in DOMAIN p
  <2>1. PICK l \in DOMAIN p : l < k /\ p[l].type \in Leaders
    BY <1>1, QueueConcat DEF Led
  <2> QED
    BY <2>1, QueueConcat
<1>2. CASE k \notin DOMAIN p
  <2>1. k - Len(p) \in DOMAIN q
    BY Zenon, <1>2, QueueConcat
  <2>2. k \in Nat
    OBVIOUS
  <2>3. q[k - Len(p)] = (p \o q)[k]
    BY <2>1, <2>2
  <2>4. PICK l \in DOMAIN p : p[l].type \in Leaders
    BY Zenon, <2>1, <2>3 DEF Carries
  <2>5. l < k
    BY <2>1, <2>2, <2>4, QueueConcat
  <2> QED
    BY <2>4, <2>5, QueueConcat
<1> QED
  BY Zenon, <1>1, <1>2

\* The largest position of a permission, when there is one.
LEMMA LastPermission ==
  ASSUME NEW S, NEW q \in Seq(S), NEW k \in PermissionsIn(q),
         \A j \in PermissionsIn(q) : j <= k
  PROVE  \A p : PermissionAfter(p, q) = q[k].perm
<1> DEFINE P(l) == \A j \in PermissionsIn(q) : j <= l
           last == CHOOSE l \in PermissionsIn(q) : P(l)
<1>1. last \in PermissionsIn(q) /\ P(last)
  BY Zenon
<1>2. PermissionsIn(q) \subseteq Nat
  BY DEF PermissionsIn
<1>3. last = k
  BY <1>1, <1>2
<1> QED
  BY Zenon, <1>3, Zenon DEF PermissionAfter

\* A queue with a permission has a last one.
LEMMA HasLastPermission ==
  ASSUME NEW S, NEW q \in Seq(S), PermissionsIn(q) # {}
  PROVE  \E k \in PermissionsIn(q) : \A j \in PermissionsIn(q) : j <= k
<1> DEFINE Rest == {Len(q) - k : k \in PermissionsIn(q)}
<1>1. PermissionsIn(q) \subseteq Nat /\ Len(q) \in Nat /\ \A k \in PermissionsIn(q) : k <= Len(q)
  BY DEF PermissionsIn
<1>2. Rest \subseteq Nat /\ Rest # {}
  BY <1>1
<1> HIDE DEF Rest
<1>3. PICK x \in Rest : \A y \in Rest : <<y, x>> \notin OpToRel(<, Nat)
  BY Zenon, <1>2, NatLessThanWellFounded, WFMin, Zenon
<1>4. \A y \in Rest : ~(y < x)
  BY Zenon, <1>2, <1>3 DEF OpToRel
<1>5. PICK k \in PermissionsIn(q) : x = Len(q) - k
  BY Zenon DEF Rest
<1>6. ASSUME NEW j \in PermissionsIn(q) PROVE j <= k
  <2>1. Len(q) - j \in Rest
    BY Zenon DEF Rest
  <2> QED
    BY <1>1, <1>4, <1>5, <2>1
<1> QED
  BY Zenon, <1>6

\* Reading the first message of the queue.
LEMMA PermissionTail ==
  ASSUME NEW S, NEW q \in Seq(S), q # <<>>, NEW p, NEW p2,
         p2 = IF Head(q).type = "InputPermission" THEN Head(q).perm ELSE p
  PROVE  PermissionAfter(p2, Tail(q)) = PermissionAfter(p, q)
<1>0. Tail(q) \in Seq(S)
  OBVIOUS
<1>1. CASE PermissionsIn(Tail(q)) = {}
  <2>1. PermissionsIn(q) \subseteq {1}
    <3> SUFFICES ASSUME NEW k \in PermissionsIn(q), k # 1 PROVE FALSE
      BY Zenon
    <3>1. k \in DOMAIN q /\ q[k].type = "InputPermission"
      BY Zenon DEF PermissionsIn
    <3>2. k - 1 \in DOMAIN Tail(q) /\ Tail(q)[k - 1] = q[k]
      BY Zenon, <3>1, QueueTail
    <3> QED
      BY Zenon, <1>1, <3>1, <3>2 DEF PermissionsIn
  <2>2. 1 \in PermissionsIn(q) <=> Head(q).type = "InputPermission"
    BY Zenon, QueueTail DEF PermissionsIn
  <2>3. CASE Head(q).type = "InputPermission"
    <3>1. PermissionAfter(p, q) = q[1].perm
      BY <2>1, <2>2, <2>3, LastPermission
    <3> QED
      BY Zenon, <1>1, <2>3, <3>1, QueueTail DEF PermissionAfter
  <2>4. CASE Head(q).type # "InputPermission"
    BY Zenon, <1>1, <2>1, <2>2, <2>4 DEF PermissionAfter
  <2> QED
    BY Zenon, <2>3, <2>4
<1>2. CASE PermissionsIn(Tail(q)) # {}
  <2>1. PICK k \in PermissionsIn(Tail(q)) : \A j \in PermissionsIn(Tail(q)) : j <= k
    BY Zenon, <1>0, <1>2, HasLastPermission
  <2>2. k \in Nat \ {0} /\ k + 1 \in PermissionsIn(q) /\ Tail(q)[k] = q[k + 1]
    BY <2>1, QueueTail DEF PermissionsIn
  <2>3. ASSUME NEW j \in PermissionsIn(q) PROVE j <= k + 1
    <3>1. j \in Nat \ {0} /\ (j # 1 => j - 1 \in PermissionsIn(Tail(q)))
      BY QueueTail DEF PermissionsIn
    <3> QED
      BY <2>1, <2>2, <3>1
  <2>4. PermissionAfter(p, q) = q[k + 1].perm
    BY Zenon, <2>2, <2>3, LastPermission
  <2>5. PermissionAfter(p2, Tail(q)) = Tail(q)[k].perm
    BY Zenon, <1>0, <2>1, LastPermission
  <2> QED
    BY Zenon, <2>2, <2>4, <2>5, Zenon
<1> QED
  BY Zenon, <1>1, <1>2

\* Appending frames without a permission, and one permission.
LEMMA PermissionKept ==
  ASSUME NEW S, NEW q \in Seq(S), NEW f \in Seq(S), NEW p, ~Carries(f, {"InputPermission"})
  PROVE  PermissionAfter(p, q \o f) = PermissionAfter(p, q)
<1>0. q \o f \in Seq(S)
  OBVIOUS
<1>1. PermissionsIn(q \o f) = PermissionsIn(q)
  <2>1. ASSUME NEW k \in PermissionsIn(q \o f) PROVE k \in PermissionsIn(q)
    <3>1. k \in DOMAIN (q \o f) /\ k \in Nat
      BY DEF PermissionsIn
    <3>2. CASE k \in DOMAIN q
      BY <2>1, <3>2, QueueConcat DEF PermissionsIn
    <3>3. CASE k \notin DOMAIN q
      <4>1. k - Len(q) \in DOMAIN f /\ f[k - Len(q)] = (q \o f)[k]
        BY <3>1, <3>3
      <4> QED
        BY Zenon, <2>1, <4>1 DEF Carries, PermissionsIn
    <3> QED
      BY Zenon, <3>2, <3>3
  <2>2. PermissionsIn(q) \subseteq PermissionsIn(q \o f)
    BY QueueConcat DEF PermissionsIn
  <2> QED
    BY Zenon, <2>1, <2>2, Zenon
<1>2. CASE PermissionsIn(q) = {}
  BY Zenon, <1>1, <1>2 DEF PermissionAfter
<1>3. CASE PermissionsIn(q) # {}
  <2>1. PICK k \in PermissionsIn(q) : \A j \in PermissionsIn(q) : j <= k
    BY Zenon, <1>3, HasLastPermission
  <2>2. PermissionAfter(p, q) = q[k].perm /\ PermissionAfter(p, q \o f) = (q \o f)[k].perm
    BY Zenon, <1>0, <1>1, <2>1, LastPermission
  <2> QED
    BY <2>1, <2>2, QueueConcat DEF PermissionsIn
<1> QED
  BY Zenon, <1>2, <1>3

\* After frames that end with a permission, that permission is the last.
LEMMA PermissionSet ==
  ASSUME NEW S, NEW q \in Seq(S), NEW f \in Seq(S), Len(f) \in DOMAIN f,
         f[Len(f)].type = "InputPermission", NEW p
  PROVE  PermissionAfter(p, q \o f) = f[Len(f)].perm
<1>1. q \o f \in Seq(S)
  OBVIOUS
<1>2. /\ Len(f) + Len(q) \in DOMAIN (q \o f)
      /\ (q \o f)[Len(f) + Len(q)] = f[Len(f)]
  BY QueueConcat
<1>3. \A j \in PermissionsIn(q \o f) : j <= Len(f) + Len(q)
  <2>1. \A j \in DOMAIN (q \o f) : j <= Len(q) + Len(f)
    BY Zenon, QueueConcat
  <2>2. Len(q) + Len(f) = Len(f) + Len(q)
    OBVIOUS
  <2> QED
    BY Zenon, <2>1, <2>2 DEF PermissionsIn
<1>4. Len(f) + Len(q) \in PermissionsIn(q \o f)
  BY Zenon, <1>2 DEF PermissionsIn
<1> QED
  BY ZenonT(30), <1>1, <1>2, <1>3, <1>4, LastPermission

-----------------------------------------------------------------------------
(* What a step may do to connection j. *)

HostRests(j) == UNCHANGED <<state[j], input[j], update[j], hostEnd[j], ended[j]>>

ClientRests(j) == UNCHANGED <<clientEnd[j], link[j], cstate[j], cperm[j]>>

Drained(j) ==
  \/ toHost'[j] = toHost[j]
  \/ toHost'[j] = <<>>
  \/ toHost[j] # <<>> /\ toHost'[j] = Tail(toHost[j])

Down(j, f) == f \in Seq(HostMessages) /\ toClient'[j] = SentToClient(j, f)

\* The host answers or probes; also a step that leaves the connection alone.
HostWrites(j) ==
  /\ HostRests(j) /\ ClientRests(j) /\ Drained(j)
  /\ \E f : Down(j, f) /\ ~Carries(f, {"NegotiationResult", "InputPermission", "App"})

\* The host changes the client's input permission.
HostPermits(j) ==
  /\ ClientRests(j) /\ Drained(j) /\ UNCHANGED <<state[j], update[j], hostEnd[j], ended[j]>>
  /\ input'[j] \in Permissions
  /\ state[j] # "none"
  /\ Down(j, <<InputPermission(input'[j])>>)

\* The coordinator's message.
HostForwards(j) ==
  /\ HostRests(j) /\ ClientRests(j) /\ Drained(j)
  /\ state[j] # "none" /\ update[j] # "none"
  /\ \E m \in {AppMessage, KeyReady} : Down(j, <<m>>)

\* The connection gets a record, or its HELLO is accepted.
HostAdmits(j) ==
  /\ ClientRests(j) /\ Drained(j) /\ UNCHANGED <<update[j], toClient[j], ended[j]>>
  /\ running
  /\ \/ hostEnd[j] = "none" /\ state'[j] = "Connecting"
     \/ state[j] = "Connecting" /\ toHost[j] # <<>> /\ state'[j] = "Authenticating"
  /\ hostEnd'[j] = IF hostEnd[j] = "none" THEN "open" ELSE hostEnd[j]

\* The negotiation succeeds.
HostConnects(j) ==
  /\ ClientRests(j) /\ Drained(j) /\ UNCHANGED <<input[j], hostEnd[j], ended[j]>>
  /\ state[j] = "Authenticating" /\ state'[j] = "Connected"
  /\ Down(j, <<NegotiationResult(TRUE), InputPermission(input[j])>>)

HostKicks(j) ==
  /\ ClientRests(j) /\ Drained(j)
  /\ state[j] # "none"
  /\ state'[j] = "Disconnected" /\ hostEnd'[j] = "closing" /\ "Kick" \in ended'[j]
  /\ Down(j, <<Kick>>)

\* The record is erased, or there was none and the connection is closed.
HostEnds(j) ==
  /\ ClientRests(j) /\ Drained(j)
  /\ state'[j] = "none" /\ hostEnd'[j] # "none"
  /\ \E f : Down(j, f) /\ ~Carries(f, {"App"})

\* The client handles a message that does not end its session.
ClientHandles(j) ==
  LET m == Head(toClient[j]) IN
    /\ HostRests(j) /\ UNCHANGED <<clientEnd[j], link[j]>>
    /\ clientEnd[j] = "open" /\ toClient[j] # <<>> /\ toClient'[j] = Tail(toClient[j])
    /\ m.type # "Kick"
    /\ cstate'[j] = IF m.type = "NegotiationResult" THEN "Connected" ELSE cstate[j]
    /\ cperm'[j] = IF m.type = "InputPermission" THEN m.perm ELSE cperm[j]
    /\ \E f \in Seq(ClientMessages) : ~Carries(f, {"App"}) /\ toHost'[j] = SentToHost(j, f)

ClientEnds(j) ==
  /\ HostRests(j) /\ UNCHANGED <<link[j], cperm[j]>>
  /\ clientEnd'[j] \notin {"pending", "open"}
  /\ clientEnd'[j] = "none" => clientEnd[j] = "none"
  /\ cstate'[j] = "Disconnected"
  /\ toClient'[j] \in {toClient[j], <<>>}
  /\ toHost'[j] \in {toHost[j], SentToHost(j, <<Bye>>)}

\* A heartbeat, or a message of the client's coordinator.
ClientWrites(j) ==
  /\ HostRests(j) /\ ClientRests(j) /\ UNCHANGED toClient[j]
  /\ \E f \in Seq(ClientMessages) :
       /\ Carries(f, {"App"}) => cstate[j] = "Connected"
       /\ toHost'[j] = SentToHost(j, f)

ClientStarts(j) ==
  /\ HostRests(j) /\ UNCHANGED <<clientEnd[j], link[j], cperm[j], toClient[j], toHost[j]>>
  /\ cstate[j] = "Idle" /\ cstate'[j] = "Connecting"

ClientOpens(j) ==
  /\ HostRests(j) /\ UNCHANGED <<link[j], cperm[j], toClient[j]>>
  /\ clientEnd[j] = "pending" /\ clientEnd'[j] = "open"
  /\ cstate[j] = "Connecting" /\ cstate'[j] = "Authenticating"
  /\ ~Carries(toHost'[j], {"App"})

NetworkConnects(j) ==
  /\ HostRests(j) /\ UNCHANGED <<toHost[j], toClient[j], link[j], cstate[j], cperm[j]>>
  /\ hostEnd[j] = "none" /\ clientEnd[j] = "none" /\ clientEnd'[j] = "pending"

NetworkLoses(j) ==
  /\ HostRests(j) /\ UNCHANGED <<clientEnd[j], cstate[j], cperm[j]>>
  /\ toHost'[j] \in {toHost[j], <<>>}
  /\ \/ UNCHANGED <<toClient[j], link[j]>>
     \/ toClient'[j] = <<>> /\ hostEnd[j] = "closed" /\ UNCHANGED link[j]
     \/ toClient'[j] = <<>> /\ ~link'[j]

HostActs(j) ==
  \/ HostWrites(j) \/ HostPermits(j) \/ HostForwards(j) \/ HostAdmits(j)
  \/ HostConnects(j) \/ HostKicks(j) \/ HostEnds(j)

ClientActs(j) ==
  \/ ClientHandles(j) \/ ClientEnds(j) \/ ClientWrites(j) \/ ClientStarts(j) \/ ClientOpens(j)
  \/ NetworkConnects(j) \/ NetworkLoses(j)
-----------------------------------------------------------------------------
(* Each of them preserves the agreement of a connection. *)

\* A message that is not at the head is in the rest of the queue.
LEMMA CarriesLater ==
  ASSUME NEW S, NEW q \in Seq(S), q # <<>>, NEW T, Carries(q, T), Head(q).type \notin T
  PROVE  Carries(Tail(q), T)
<1>1. PICK k \in DOMAIN q : q[k].type \in T
  BY Zenon DEF Carries
<1>2. k # 1
  BY Zenon, <1>1, QueueTail
<1>3. k - 1 \in DOMAIN Tail(q) /\ Tail(q)[k - 1] = q[k]
  BY Zenon, <1>2, QueueTail
<1> QED
  BY Zenon, <1>1, <1>3 DEF Carries

\* What sending frames to a client does to its queue.
LEMMA DownFacts ==
  ASSUME TypeOK, NEW j \in Ids, NEW f, Down(j, f)
  PROVE  /\ \A T : Carries(toClient[j], T) => Carries(toClient'[j], T)
         /\ \A T : Carries(toClient'[j], T) => Carries(toClient[j], T) \/ Carries(f, T)
         /\ clientEnd[j] = "none" => toClient'[j] = toClient[j]
         /\ (Led(toClient[j]) /\ (Carries(f, {"App"}) => Carries(toClient[j], Leaders)))
              => Led(toClient'[j])
         /\ ~Carries(f, {"InputPermission"}) =>
              \A p : PermissionAfter(p, toClient'[j]) = PermissionAfter(p, toClient[j])
<1>1. toClient[j] \in Seq(HostMessages) /\ f \in Seq(HostMessages)
  BY Zenon DEF TypeOK, TcpTypeOK, Down
<1>2. CASE toClient'[j] = toClient[j]
  BY Zenon, <1>2, Zenon
<1>3. CASE toClient'[j] = toClient[j] \o f /\ clientEnd[j] # "none"
  <2>1. \A T : Carries(toClient[j], T) => Carries(toClient[j] \o f, T)
    BY Zenon, <1>1, CarriesMore
  <2>2. \A T : Carries(toClient[j] \o f, T) => Carries(toClient[j], T) \/ Carries(f, T)
    BY Zenon, <1>1, CarriesConcat
  <2>3. (Led(toClient[j]) /\ (Carries(f, {"App"}) => Carries(toClient[j], Leaders)))
          => Led(toClient[j] \o f)
    BY Zenon, <1>1, LedMore
  <2>4. ~Carries(f, {"InputPermission"}) =>
          \A p : PermissionAfter(p, toClient[j] \o f) = PermissionAfter(p, toClient[j])
    BY Zenon, <1>1, PermissionKept
  <2> QED
    BY Zenon, <1>3, <2>1, <2>2, <2>3, <2>4, Zenon
<1> QED
  BY Zenon, <1>2, <1>3 DEF Down, SentToClient, ClientReads

\* What is sent while both ends and the path are there arrives in the queue.
LEMMA DownArrives ==
  ASSUME TypeOK, NEW j \in Ids, NEW f, Down(j, f), HostReads(j), ClientReads(j), link[j]
  PROVE  /\ \A T : Carries(f, T) => Carries(toClient'[j], T)
         /\ (Len(f) \in DOMAIN f /\ f[Len(f)].type = "InputPermission")
              => \A p : PermissionAfter(p, toClient'[j]) = f[Len(f)].perm
<1>1. toClient[j] \in Seq(HostMessages) /\ f \in Seq(HostMessages)
  BY Zenon DEF TypeOK, TcpTypeOK, Down
<1>2. toClient'[j] = toClient[j] \o f
  BY Zenon DEF Down, SentToClient
<1>3. \A T : Carries(f, T) => Carries(toClient[j] \o f, T)
  BY Zenon, <1>1, CarriesMore
<1>4. (Len(f) \in DOMAIN f /\ f[Len(f)].type = "InputPermission")
        => \A p : PermissionAfter(p, toClient[j] \o f) = f[Len(f)].perm
  BY Zenon, <1>1, PermissionSet
<1> QED
  BY Zenon, <1>2, <1>3, <1>4, Zenon

\* A queue that was read holds nothing new.
LEMMA DrainedFacts ==
  ASSUME TypeOK, NEW j \in Ids, Drained(j)
  PROVE  /\ \A T : Carries(toHost'[j], T) => Carries(toHost[j], T)
         /\ toHost[j] = <<>> => toHost'[j] = <<>>
<1>1. toHost[j] \in Seq(ClientMessages)
  BY Zenon DEF TypeOK, TcpTypeOK
<1>2. \A T : ~Carries(<<>>, T)
  BY Zenon, CarriesShort
<1>3. toHost[j] # <<>> => \A T : Carries(Tail(toHost[j]), T) => Carries(toHost[j], T)
  BY Zenon, <1>1, CarriesTail
<1> QED
  BY Zenon, <1>2, <1>3 DEF Drained

\* Nothing new of the negotiation and no application message.
LEMMA StillPast ==
  ASSUME TypeOK, NEW j \in Ids, ClientRests(j), Drained(j), NEW f, Down(j, f),
         ~Carries(f, {"NegotiationResult"}), Past(j)'
  PROVE  Past(j)
BY Zenon, DrainedFacts, DownFacts DEF Past, ClientRests

\* The host writes: the ends still agree.
LEMMA HostWritesAgrees ==
  ASSUME TypeOK, NEW j \in Ids, Agree(j), HostWrites(j)
  PROVE  Agree(j)'
<1>1. PICK f : Down(j, f) /\ ~Carries(f, {"NegotiationResult", "InputPermission", "App"})
  BY Zenon DEF HostWrites
<1>2. ~Carries(f, {"NegotiationResult"}) /\ ~Carries(f, {"InputPermission"}) /\ ~Carries(f, {"App"})
  BY Zenon, <1>1, Zenon DEF Carries
<1>3. EndsAgree(j)'
  BY Zenon, <1>1, DownFacts, DrainedFacts DEF HostWrites, HostRests, ClientRests, Agree, EndsAgree, HostReads
<1>4. PermissionFollows(j)'
  <2>1. PermissionAfter(cperm[j], toClient'[j]) = PermissionAfter(cperm[j], toClient[j])
    BY Zenon, <1>1, <1>2, DownFacts
  <2> QED
    BY Zenon, <2>1 DEF HostWrites, HostRests, ClientRests, Agree, PermissionFollows
<1>5. MessagesFollow(j)'
  <2>1. Past(j)' => Past(j)
    BY Zenon, <1>1, <1>2, StillPast DEF HostWrites
  <2>2. Led(toClient[j]) => Led(toClient'[j])
    BY Zenon, <1>1, <1>2, DownFacts
  <2>3. Carries(toClient[j], Leaders) => Carries(toClient'[j], Leaders)
    BY Zenon, <1>1, DownFacts
  <2> QED
    BY Zenon, <2>1, <2>2, <2>3 DEF HostWrites, HostRests, ClientRests, Agree, MessagesFollow, ClientReads
<1> QED
  BY Zenon, <1>3, <1>4, <1>5 DEF Agree

\* The host toggles a permission and says so in one step.
LEMMA HostPermitsAgrees ==
  ASSUME TypeOK, NEW j \in Ids, Agree(j), HostPermits(j)
  PROVE  Agree(j)'
<1> DEFINE f == <<InputPermission(input'[j])>>
<1>1. Down(j, f) /\ toClient[j] \in Seq(HostMessages) /\ HostReads(j)
  BY Zenon DEF HostPermits, TypeOK, TcpTypeOK, Agree, EndsAgree
<1>2. ~Carries(f, {"NegotiationResult"}) /\ ~Carries(f, {"App"})
  BY DEF Carries, InputPermission
<1>0. /\ Len(f) \in DOMAIN f
      /\ f[Len(f)].type = "InputPermission" /\ f[Len(f)].perm = input'[j]
  BY DEF InputPermission
<1> HIDE DEF f
<1>3. EndsAgree(j)'
  BY Zenon, <1>1, DownFacts, DrainedFacts, Zenon DEF HostPermits, ClientRests, Agree, EndsAgree, HostReads
<1>4. PermissionFollows(j)'
  <2> SUFFICES ASSUME clientEnd[j] = "open", link[j]
               PROVE  PermissionAfter(cperm[j], toClient'[j]) = input'[j]
    BY Zenon DEF PermissionFollows, HostPermits, ClientRests
  <2> QED
    BY Zenon, <1>0, <1>1, DownArrives DEF ClientReads
<1>5. MessagesFollow(j)'
  <2>1. Past(j)' => Past(j)
    BY Zenon, <1>1, <1>2, StillPast DEF HostPermits
  <2>2. Led(toClient[j]) => Led(toClient'[j])
    BY Zenon, <1>1, <1>2, DownFacts
  <2>3. Carries(toClient[j], Leaders) => Carries(toClient'[j], Leaders)
    BY Zenon, <1>1, DownFacts
  <2> QED
    BY Zenon, <2>1, <2>2, <2>3, Zenon DEF HostPermits, ClientRests, Agree, MessagesFollow, ClientReads
<1> QED
  BY Zenon, <1>3, <1>4, <1>5 DEF Agree

\* The coordinator sends a message to a client that was reported.
LEMMA HostForwardsAgrees ==
  ASSUME TypeOK, NEW j \in Ids, Agree(j), HostForwards(j)
  PROVE  Agree(j)'
<1>1. PICK m \in {AppMessage, KeyReady} : Down(j, <<m>>)
  BY Zenon DEF HostForwards
<1>2. ~Carries(<<m>>, {"NegotiationResult"}) /\ ~Carries(<<m>>, {"InputPermission"})
  BY <1>1 DEF Carries, AppMessage, KeyReady
<1>3. EndsAgree(j)'
  BY Zenon, <1>1, DownFacts, DrainedFacts, Zenon DEF HostForwards, HostRests, ClientRests, Agree, EndsAgree, HostReads
<1>4. PermissionFollows(j)'
  <2>1. PermissionAfter(cperm[j], toClient'[j]) = PermissionAfter(cperm[j], toClient[j])
    BY Zenon, <1>1, <1>2, DownFacts, Zenon
  <2> QED
    BY Zenon, <2>1, Zenon DEF HostForwards, HostRests, ClientRests, Agree, PermissionFollows
<1>5. MessagesFollow(j)'
  <2>1. Past(j)' => Past(j)
    BY Zenon, <1>1, <1>2, StillPast DEF HostForwards
  <2>2. ASSUME ClientReads(j), cstate[j] # "Connected" PROVE Led(toClient'[j])
    <3>1. Led(toClient[j])
      BY Zenon, <2>2 DEF Agree, MessagesFollow
    <3>2. CASE link[j]
      <4>1. Carries(toClient[j], Leaders)
        BY Zenon, <2>2, <3>2, Zenon DEF Agree, MessagesFollow, HostForwards
      <4> QED
        BY Zenon, <1>1, <3>1, <4>1, DownFacts, Zenon
    <3>3. CASE ~link[j]
      BY Zenon, <1>1, <3>1, <3>3 DEF Down, SentToClient
    <3> QED
      BY Zenon, <3>2, <3>3
  <2>3. Carries(toClient[j], Leaders) => Carries(toClient'[j], Leaders)
    BY Zenon, <1>1, DownFacts
  <2> QED
    BY Zenon, <2>1, <2>2, <2>3, Zenon DEF HostForwards, HostRests, ClientRests, Agree, MessagesFollow, ClientReads
<1> QED
  BY Zenon, <1>3, <1>4, <1>5 DEF Agree

\* The connection gets a record, or its HELLO is accepted.
LEMMA HostAdmitsAgrees ==
  ASSUME TypeOK, RecordsMatchEvents, NEW j \in Ids, Agree(j), HostAdmits(j)
  PROVE  Agree(j)'
<1>1. EndsAgree(j)'
  BY Zenon, DrainedFacts, Zenon DEF HostAdmits, ClientRests, Agree, EndsAgree, HostReads
<1>2. PermissionFollows(j)'
  BY Zenon DEF HostAdmits, PermissionFollows
<1>3. MessagesFollow(j)'
  <2>1. ~Past(j)
    BY Zenon DEF HostAdmits, Agree, MessagesFollow
  <2>2. ~Past(j)'
    BY Zenon, <2>1, DrainedFacts DEF HostAdmits, ClientRests, Past
  <2>3. update[j] = "none"
    BY Zenon DEF HostAdmits, RecordsMatchEvents, TypeOK, HostTypeOK
  <2> QED
    BY Zenon, <2>2, <2>3, Zenon DEF HostAdmits, ClientRests, Agree, MessagesFollow, ClientReads
<1> QED
  BY Zenon, <1>1, <1>2, <1>3, Zenon DEF Agree

\* The host connects a client and queues the result and the permission.
LEMMA HostConnectsAgrees ==
  ASSUME TypeOK, NEW j \in Ids, Agree(j), HostConnects(j)
  PROVE  Agree(j)'
<1> DEFINE f == <<NegotiationResult(TRUE), InputPermission(input[j])>>
<1>1. Down(j, f) /\ HostReads(j)
  BY Zenon DEF HostConnects, Agree, EndsAgree
<1>2. ~Carries(f, {"App"}) /\ Carries(f, Leaders)
  BY DEF Carries, InputPermission, NegotiationResult, Leaders
<1>3. /\ Len(f) \in DOMAIN f
      /\ f[Len(f)].type = "InputPermission" /\ f[Len(f)].perm = input[j]
  BY DEF InputPermission
<1> HIDE DEF f
<1>4. EndsAgree(j)'
  BY Zenon, <1>1, DownFacts, DrainedFacts, Zenon DEF HostConnects, ClientRests, Agree, EndsAgree, HostReads
<1>6. PermissionFollows(j)'
  <2> SUFFICES ASSUME clientEnd[j] = "open", link[j]
               PROVE  PermissionAfter(cperm[j], toClient'[j]) = input[j]
    BY Zenon DEF PermissionFollows, HostConnects, ClientRests
  <2> QED
    BY Zenon, <1>1, <1>3, DownArrives DEF ClientReads
<1>7. MessagesFollow(j)'
  <2>1. Led(toClient[j]) => Led(toClient'[j])
    BY Zenon, <1>1, <1>2, DownFacts
  <2>2. ASSUME ClientReads(j), link[j] PROVE Carries(toClient'[j], Leaders)
    BY Zenon, <1>1, <1>2, <2>2, DownArrives
  <2> QED
    BY Zenon, <1>1, <2>1, <2>2, Zenon DEF HostConnects, ClientRests, Agree, MessagesFollow, ClientReads, HostReads
<1> QED
  BY Zenon, <1>4, <1>6, <1>7 DEF Agree

\* The host kicks a client: KICK is behind everything queued.
LEMMA HostKicksAgrees ==
  ASSUME TypeOK, NEW j \in Ids, Agree(j), HostKicks(j)
  PROVE  Agree(j)'
<1>1. Down(j, <<Kick>>) /\ toClient[j] \in Seq(HostMessages) /\ HostReads(j)
  BY Zenon DEF HostKicks, TypeOK, TcpTypeOK, Agree, EndsAgree
<1>2. ~Carries(<<Kick>>, {"App"}) /\ Carries(<<Kick>>, Leaders)
  BY SMTT(30) DEF Carries, Kick, Leaders
<1>3. EndsAgree(j)'
  BY Zenon, <1>1, DownFacts, DrainedFacts DEF HostKicks, ClientRests, Agree, EndsAgree, HostReads
<1>4. PermissionFollows(j)'
  BY Zenon DEF HostKicks, PermissionFollows
<1>5. MessagesFollow(j)'
  <2>1. Led(toClient[j]) => Led(toClient'[j])
    BY Zenon, <1>1, <1>2, DownFacts
  <2>2. ASSUME ClientReads(j), link[j] PROVE Carries(toClient'[j], Leaders)
    BY Zenon, <1>1, <1>2, <2>2, DownArrives
  <2> QED
    BY Zenon, <2>1, <2>2, Zenon DEF HostKicks, ClientRests, Agree, MessagesFollow, ClientReads
<1> QED
  BY Zenon, <1>3, <1>4, <1>5 DEF Agree

\* The host forgets a client.
LEMMA HostEndsAgrees ==
  ASSUME TypeOK, NEW j \in Ids, Agree(j), HostEnds(j)
  PROVE  Agree(j)'
<1>1. PICK f : Down(j, f) /\ ~Carries(f, {"App"})
  BY Zenon DEF HostEnds
<1>2. EndsAgree(j)'
  BY Zenon, <1>1, DownFacts, DrainedFacts, Zenon DEF HostEnds, ClientRests, Agree, EndsAgree
<1>3. PermissionFollows(j)'
  BY Zenon DEF HostEnds, PermissionFollows
<1>4. MessagesFollow(j)'
  <2>1. Led(toClient[j]) => Led(toClient'[j])
    BY Zenon, <1>1, DownFacts
  <2> QED
    BY Zenon, <2>1, Zenon DEF HostEnds, ClientRests, Agree, MessagesFollow, ClientReads
<1> QED
  BY Zenon, <1>2, <1>3, <1>4 DEF Agree

\* What a client's send adds to its queue, and that a closed end adds nothing.
LEMMA SentFacts ==
  ASSUME TypeOK, NEW j \in Ids, NEW f \in Seq(ClientMessages), toHost'[j] = SentToHost(j, f)
  PROVE  /\ \A T : Carries(toHost'[j], T) => Carries(toHost[j], T) \/ Carries(f, T)
         /\ clientEnd[j] # "open" => toHost'[j] = toHost[j]
BY Zenon, CarriesSentToHost DEF SentToHost

\* The client handles the frame at the head of its queue.
LEMMA ClientHandlesAgrees ==
  ASSUME TypeOK, NEW j \in Ids, Agree(j), ClientHandles(j)
  PROVE  Agree(j)'
<1> DEFINE m == Head(toClient[j])
<1>1. toClient[j] \in Seq(HostMessages) /\ toClient[j] # <<>> /\ toClient'[j] = Tail(toClient[j])
  BY Zenon DEF ClientHandles, TypeOK, TcpTypeOK
<1>2. PICK f \in Seq(ClientMessages) : ~Carries(f, {"App"}) /\ toHost'[j] = SentToHost(j, f)
  BY Zenon DEF ClientHandles
<1>3. EndsAgree(j)'
  BY Zenon DEF ClientHandles, HostRests, Agree, EndsAgree, HostReads
<1>4. PermissionFollows(j)'
  <2>1. PermissionAfter(cperm'[j], toClient'[j]) = PermissionAfter(cperm[j], toClient[j])
    BY Zenon, <1>1, PermissionTail DEF ClientHandles
  <2> QED
    BY Zenon, <2>1, Zenon DEF ClientHandles, HostRests, Agree, PermissionFollows
<1>5. MessagesFollow(j)'
  <2>1. Past(j)' => Past(j)
    <3>1. Carries(toHost'[j], {"App"}) => Carries(toHost[j], {"App"})
      BY Zenon, <1>2, SentFacts
    <3>2. Carries(toClient'[j], {"NegotiationResult"}) => Carries(toClient[j], {"NegotiationResult"})
      BY Zenon, <1>1, CarriesTail, Zenon
    <3>3. cstate'[j] = "Connected" => \/ cstate[j] = "Connected"
                                      \/ Carries(toClient[j], {"NegotiationResult"})
      BY Zenon, <1>1, CarriesHead, Zenon DEF ClientHandles
    <3> QED
      BY Zenon, <3>1, <3>2, <3>3 DEF Past
  <2>2. CASE m.type \in Leaders
    <3>1. cstate'[j] = "Connected"
      BY Zenon, <2>2 DEF ClientHandles, Leaders
    <3> QED
      BY Zenon, <2>1, <3>1 DEF ClientHandles, HostRests, Agree, MessagesFollow
  <2>3. CASE m.type \notin Leaders
    <3>1. Led(toClient[j]) => Led(toClient'[j])
      BY Zenon, <1>1, <2>3, LedTail
    <3>2. Carries(toClient[j], Leaders) => Carries(toClient'[j], Leaders)
      BY Zenon, <1>1, <2>3, CarriesLater
    <3>3. cstate'[j] = cstate[j]
      BY Zenon, <2>3, Zenon DEF ClientHandles, Leaders
    <3> QED
      BY Zenon, <2>1, <3>1, <3>2, <3>3 DEF ClientHandles, HostRests, Agree, MessagesFollow, ClientReads
  <2> QED
    BY Zenon, <2>2, <2>3, Zenon
<1> QED
  BY Zenon, <1>3, <1>4, <1>5 DEF Agree

\* The client ends its session.
LEMMA ClientEndsAgrees ==
  ASSUME TypeOK, NEW j \in Ids, Agree(j), ClientEnds(j)
  PROVE  Agree(j)'
<1>1. <<Bye>> \in Seq(ClientMessages) /\ ~Carries(<<Bye>>, {"App"})
  BY SMTT(30), FramesAreMessages, ShortFrames DEF Carries, Bye
<1>2. /\ Carries(toHost'[j], {"App"}) => Carries(toHost[j], {"App"})
      /\ clientEnd[j] # "open" => toHost'[j] = toHost[j]
  BY Zenon, <1>1, SentFacts DEF ClientEnds
<1>3. EndsAgree(j)'
  BY Zenon, <1>2 DEF ClientEnds, HostRests, Agree, EndsAgree, HostReads
<1>4. PermissionFollows(j)'
  BY Zenon DEF ClientEnds, PermissionFollows
<1>5. MessagesFollow(j)'
  <2>1. ~Carries(<<>>, {"NegotiationResult"})
    BY Zenon, CarriesShort
  <2>2. Past(j)' => Past(j)
    BY Zenon, <1>2, <2>1 DEF ClientEnds, Past
  <2> QED
    BY Zenon, <2>2, Zenon DEF ClientEnds, HostRests, Agree, MessagesFollow, ClientReads
<1> QED
  BY Zenon, <1>3, <1>4, <1>5 DEF Agree

\* The client writes.
LEMMA ClientWritesAgrees ==
  ASSUME TypeOK, NEW j \in Ids, Agree(j), ClientWrites(j)
  PROVE  Agree(j)'
<1>1. PICK f \in Seq(ClientMessages) : /\ Carries(f, {"App"}) => cstate[j] = "Connected"
                                       /\ toHost'[j] = SentToHost(j, f)
  BY Zenon DEF ClientWrites
<1>2. EndsAgree(j)'
  BY Zenon, <1>1, SentFacts, Zenon DEF ClientWrites, HostRests, ClientRests, Agree, EndsAgree, HostReads
<1>3. PermissionFollows(j)'
  BY Zenon DEF ClientWrites, HostRests, ClientRests, Agree, PermissionFollows
<1>4. MessagesFollow(j)'
  <2>1. Past(j)' => Past(j)
    BY Zenon, <1>1, SentFacts, Zenon DEF ClientWrites, ClientRests, Past
  <2> QED
    BY Zenon, <2>1, Zenon DEF ClientWrites, HostRests, ClientRests, Agree, MessagesFollow, ClientReads
<1> QED
  BY Zenon, <1>2, <1>3, <1>4 DEF Agree

\* The client dials and its connection is made.
LEMMA ClientStartsAgrees ==
  ASSUME TypeOK, NEW j \in Ids, Agree(j), ClientStarts(j) \/ ClientOpens(j) \/ NetworkConnects(j)
  PROVE  Agree(j)'
<1>1. CASE ClientStarts(j)
  BY Zenon, <1>1, Zenon DEF ClientStarts, HostRests, Agree, EndsAgree, PermissionFollows, MessagesFollow, Past,
              HostReads, ClientReads
<1>2. CASE ClientOpens(j)
  BY Zenon, <1>2, Zenon DEF ClientOpens, HostRests, Agree, EndsAgree, PermissionFollows, MessagesFollow, Past,
              HostReads, ClientReads
<1>3. CASE NetworkConnects(j)
  <2>1. state[j] = "none"
    BY Zenon, <1>3, Zenon DEF NetworkConnects, Agree, EndsAgree, HostReads
  <2>2. ~Past(j)
    BY Zenon, <1>3, Zenon DEF NetworkConnects, Agree, MessagesFollow
  <2>3. toClient[j] = <<>>
    BY Zenon, <1>3, Zenon DEF NetworkConnects, Agree, EndsAgree
  <2>4. Led(<<>>)
    BY DEF Led
  <2> QED
    BY Zenon, <1>3, <2>1, <2>2, <2>3, <2>4 DEF NetworkConnects, HostRests, Agree, EndsAgree, PermissionFollows,
       MessagesFollow, Past, HostReads, ClientReads
<1> QED
  BY Zenon, <1>1, <1>2, <1>3, Zenon

\* The network loses the connection.
LEMMA NetworkLosesAgrees ==
  ASSUME TypeOK, NEW j \in Ids, Agree(j), NetworkLoses(j)
  PROVE  Agree(j)'
<1>1. \A T : ~Carries(<<>>, T)
  BY Zenon, CarriesShort
<1>2. Led(<<>>)
  BY DEF Led
<1>3. EndsAgree(j)'
  BY Zenon DEF NetworkLoses, HostRests, Agree, EndsAgree, HostReads
<1>4. PermissionFollows(j)'
  BY Zenon DEF NetworkLoses, HostRests, Agree, EndsAgree, HostReads, PermissionFollows
<1>5. MessagesFollow(j)'
  <2>1. Past(j)' => Past(j)
    BY Zenon, <1>1, Zenon DEF NetworkLoses, Past
  <2>2. Led(toClient[j]) => Led(toClient'[j])
    BY Zenon, <1>2 DEF NetworkLoses
  <2> QED
    BY Zenon, <2>1, <2>2, Zenon DEF NetworkLoses, HostRests, Agree, EndsAgree, HostReads, MessagesFollow, ClientReads
<1> QED
  BY Zenon, <1>3, <1>4, <1>5 DEF Agree

\* Whatever is done to a connection, its ends agree afterwards.
LEMMA ActsSuffice ==
  ASSUME TypeOK, RecordsMatchEvents, NEW j \in Ids, Agree(j), HostActs(j) \/ ClientActs(j)
  PROVE  Agree(j)'
BY Zenon, HostWritesAgrees, HostPermitsAgrees, HostForwardsAgrees, HostAdmitsAgrees, HostConnectsAgrees,
   HostKicksAgrees, HostEndsAgrees, ClientHandlesAgrees, ClientEndsAgrees, ClientWritesAgrees,
   ClientStartsAgrees, NetworkLosesAgrees DEF HostActs, ClientActs

-------------------------------------------------------------------------------
(***************************************************************************)
(* Each step of the channel does to every single connection one of the     *)
(* things that preserve the agreement of its ends.                         *)
(***************************************************************************)

(* Every step does one of them to every connection. *)

Untouched(j) == HostRests(j) /\ ClientRests(j) /\ UNCHANGED <<toHost[j], toClient[j]>>

\* An unchanged queue is one to which nothing was sent.
LEMMA NothingSent ==
  ASSUME TypeOK, NEW j \in Ids, UNCHANGED toClient[j]
  PROVE  Down(j, <<>>) /\ \A T : ~Carries(<<>>, T)
<1>1. toClient[j] \in Seq(HostMessages) /\ <<>> \in Seq(HostMessages)
  BY DEF TypeOK, TcpTypeOK
<1>2. SentToClient(j, <<>>) = toClient[j]
  BY <1>1 DEF SentToClient
<1> QED
  BY Zenon, <1>1, <1>2, CarriesShort DEF Down

\* A connection nobody touches is one the host only writes nothing to.
LEMMA UntouchedActs ==
  ASSUME TypeOK, NEW j \in Ids, Untouched(j)
  PROVE  HostActs(j)
BY Zenon, NothingSent DEF Untouched, HostWrites, HostActs, Drained

\* The host's reply of one frame.
LEMMA ReplySent ==
  ASSUME TypeOK, NEW i \in Ids, NEW f \in Seq(HostMessages),
         toClient' = [toClient EXCEPT ![i] = SentToClient(i, f)]
  PROVE  Down(i, f) /\ \A j \in Ids : j # i => UNCHANGED toClient[j]
BY Zenon DEF Down, TypeOK, TcpTypeOK

\* Dropped clients are forgotten after their last frames.
LEMMA DropActs ==
  ASSUME TypeOK, NEW dropped \in SUBSET Ids, NEW before \in [Ids -> Seq(HostMessages)],
         NEW reason \in Reasons, DropWith(dropped, before, reason),
         \A j \in Ids : ~Carries(before[j], {"App"})
  PROVE  \A j \in dropped : /\ state'[j] = "none" /\ hostEnd'[j] # "none"
                            /\ \E f : Down(j, f) /\ ~Carries(f, {"App"})
<1> SUFFICES ASSUME NEW j \in dropped
             PROVE  /\ state'[j] = "none" /\ hostEnd'[j] # "none"
                    /\ \E f : Down(j, f) /\ ~Carries(f, {"App"})
  BY Zenon
<1> DEFINE f == before[j] \o <<HostReject(reason)>>
<1>1. <<HostReject(reason)>> \in Seq(HostMessages) /\ before[j] \in Seq(HostMessages)
  BY Zenon, FramesAreMessages, ShortFrames, Zenon
<1>2. ~Carries(<<HostReject(reason)>>, {"App"})
  BY DEF Carries, HostReject
<1>3. f \in Seq(HostMessages) /\ ~Carries(f, {"App"})
  <2>1. f \in Seq(HostMessages)
    BY <1>1
  <2>2. ~Carries(before[j], {"App"})
    BY Zenon
  <2>3. ~Carries(f, {"App"})
    BY Zenon, <1>1, <1>2, <2>2, CarriesConcat, Zenon
  <2> QED
    BY Zenon, <2>1, <2>3
<1>4. toClient'[j] = SentToClient(j, f)
  BY Zenon DEF DropWith
<1>5. Down(j, f)
  BY Zenon, <1>3, <1>4 DEF Down
<1>6. state'[j] = "none" /\ hostEnd'[j] # "none"
  BY Zenon DEF DropWith
<1> HIDE DEF f
<1> QED
  BY Zenon, <1>3, <1>5, <1>6

\* The same for one client; the others rest.
LEMMA DropClientActs ==
  ASSUME TypeOK, NEW i \in Ids, NEW frames \in Seq(HostMessages), ~Carries(frames, {"App"}),
         NEW reason \in Reasons, DropClient(i, frames, reason)
  PROVE  /\ state'[i] = "none" /\ hostEnd'[i] # "none"
         /\ \E f : Down(i, f) /\ ~Carries(f, {"App"})
         /\ \A j \in Ids : j # i => HostRests(j) /\ UNCHANGED toClient[j]
<1> DEFINE before == [Nothing EXCEPT ![i] = frames]
<1>1. before \in [Ids -> Seq(HostMessages)]
  <2>1. <<>> \in Seq(HostMessages)
    OBVIOUS
  <2> QED
    BY Zenon, <2>1 DEF Nothing
<1>2. \A j \in Ids : ~Carries(before[j], {"App"})
  BY Zenon, CarriesShort DEF Nothing
<1>3. DropWith({i}, before, reason) /\ {i} \in SUBSET Ids /\ i \in {i}
  BY Zenon DEF DropClient
<1>4. ASSUME NEW j \in Ids, j # i PROVE HostRests(j) /\ UNCHANGED toClient[j]
  <2>1. before[j] = <<>>
    BY Zenon, <1>4 DEF Nothing
  <2>2. toClient[j] \in Seq(HostMessages)
    BY Zenon DEF TypeOK, TcpTypeOK
  <2>3. SentToClient(j, <<>>) = toClient[j]
    BY <2>2 DEF SentToClient
  <2>4. toClient'[j] = SentToClient(j, before[j])
    BY Zenon, <1>3, <1>4 DEF DropWith
  <2>5. HostRests(j)
    BY Zenon, <1>3, <1>4 DEF DropWith, HostRests
  <2> QED
    BY Zenon, <2>1, <2>3, <2>4, <2>5
<1> HIDE DEF before
<1> QED
  BY Zenon, <1>1, <1>2, <1>3, <1>4, DropActs

\* The host's network thread.
LEMMA FrameActs ==
  ASSUME TypeOK, ConnectionsAgree, NEW i \in Ids, HandleFrame(i), UNCHANGED clientVars,
         NEW j \in Ids
  PROVE  HostActs(j)
<1> DEFINE m == Head(toHost[i])
           Rest == j # i => HostRests(j) /\ UNCHANGED toClient[j]
<1>1. ClientRests(j) /\ (j # i => UNCHANGED toHost[j]) /\ Drained(i) /\ toHost[i] # <<>> /\ running
  BY Zenon DEF HandleFrame, HostReceives, clientVars, ClientRests, Drained, TypeOK, TcpTypeOK
<1>2. ASSUME Rest, j # i PROVE HostActs(j)
  BY Zenon, <1>1, <1>2, UntouchedActs DEF Untouched
<1>3. ASSUME UNCHANGED <<toClient, hostEnd, state, input, update, ended>> PROVE HostActs(j)
  <2>1. j = i => HostWrites(i)
    BY Zenon, <1>1, <1>3, NothingSent DEF HostWrites, HostRests
  <2> QED
    BY Zenon, <1>2, <1>3, <2>1 DEF HostRests, HostActs
<1>4. ASSUME NEW f \in Seq(HostMessages), ~Carries(f, {"App"}), NEW r \in Reasons,
             DropClient(i, f, r)
      PROVE  HostActs(j)
  <2>1. j = i => HostEnds(i)
    BY Zenon, <1>1, <1>4, DropClientActs DEF HostEnds
  <2>2. Rest
    BY Zenon, <1>4, DropClientActs
  <2> QED
    BY Zenon, <1>2, <2>1, <2>2 DEF HostActs
<1>5. <<>> \in Seq(HostMessages) /\ ~Carries(<<>>, {"App"})
  BY CarriesShort
<1>6. {"ServerFull", "BadSessionCode", "NoCommonCodec", "ProtocolError"} \subseteq Reasons
  BY Zenon DEF Reasons
<1>7. ASSUME HandleClientHello(i, m) PROVE HostActs(j)
  <2>1. ASSUME state[i] = "Connecting", state' = [state EXCEPT ![i] = "Authenticating"],
               input' = [input EXCEPT ![i] = "defaults"],
               UNCHANGED <<toClient, hostEnd, update, ended>>
        PROVE  HostActs(j)
    <3>1. Rest
      BY Zenon, <2>1 DEF HostRests, TypeOK, HostTypeOK
    <3>2. hostEnd[i] # "none"
      BY Zenon, <2>1 DEF ConnectionsAgree, Agree, EndsAgree, HostReads
    <3>3. j = i => HostAdmits(i)
      BY Zenon, <1>1, <2>1, <3>2 DEF HostAdmits, TypeOK, HostTypeOK
    <3> QED
      BY Zenon, <1>2, <3>1, <3>3 DEF HostActs
  <2> QED
    BY Zenon, <1>3, <1>4, <1>5, <1>6, <1>7, <2>1 DEF HandleClientHello
<1>8. ASSUME HandleClientCapabilities(i, m) PROVE HostActs(j)
  <2>1. <<NegotiationResult(FALSE)>> \in Seq(HostMessages) /\ ~Carries(<<NegotiationResult(FALSE)>>, {"App"})
    <3>1. NegotiationResult(FALSE).type # "App"
      BY Zenon DEF NegotiationResult
    <3>2. <<NegotiationResult(FALSE)>> \in Seq(HostMessages)
      BY Zenon, FramesAreMessages, ShortFrames, Zenon
    <3>3. ~Carries(<<NegotiationResult(FALSE)>>, {"App"})
      BY Zenon, <3>1, CarriesShort, Zenon
    <3> QED
      BY Zenon, <3>2, <3>3
  <2>2. ASSUME state[i] = "Authenticating", state' = [state EXCEPT ![i] = "Connected"],
               update' = [update EXCEPT ![i] = "Connected"],
               UNCHANGED <<hostEnd, input, ended>>,
               toClient' = [toClient EXCEPT ![i] =
                 SentToClient(i, <<NegotiationResult(TRUE), InputPermission(input[i])>>)]
        PROVE  HostActs(j)
    <3>1. <<NegotiationResult(TRUE), InputPermission(input[i])>> \in Seq(HostMessages)
      <4>1. input[i] \in Permissions
        BY Zenon DEF TypeOK, HostTypeOK
      <4> QED
        BY Zenon, <4>1, FramesAreMessages, ShortFrames
    <3>2. Rest
      BY Zenon, <2>2, <3>1, ReplySent DEF HostRests, TypeOK, HostTypeOK
    <3>3. Down(i, <<NegotiationResult(TRUE), InputPermission(input[i])>>)
      BY Zenon, <2>2, <3>1, ReplySent
    <3>4. j = i => HostConnects(i)
      BY Zenon, <1>1, <2>2, <3>3 DEF HostConnects, TypeOK, HostTypeOK
    <3> QED
      BY Zenon, <1>2, <3>2, <3>4 DEF HostActs
  <2> QED
    BY Zenon, <1>3, <1>4, <1>6, <1>8, <2>1, <2>2 DEF HandleClientCapabilities
<1>9. ASSUME HandlePing(i, m) PROVE HostActs(j)
  <2>1. <<Pong>> \in Seq(HostMessages) /\ ~Carries(<<Pong>>, {"NegotiationResult", "InputPermission", "App"})
    BY FramesAreMessages, ShortFrames DEF Carries, Pong
  <2>2. Rest /\ Down(i, <<Pong>>) /\ HostRests(i)
    BY Zenon, <1>9, <2>1, ReplySent DEF HandlePing, HostRests
  <2>3. j = i => HostWrites(i)
    BY Zenon, <1>1, <2>1, <2>2 DEF HostWrites
  <2> QED
    BY Zenon, <1>2, <2>2, <2>3 DEF HostActs
<1>10. ASSUME HandlePong(i, m) PROVE HostActs(j)
  BY Zenon, <1>3, <1>10 DEF HandlePong
<1>11. ASSUME HandleAppMessage(i, m) PROVE HostActs(j)
  BY Zenon, <1>3, <1>4, <1>5, <1>6, <1>11 DEF HandleAppMessage
<1>12. ASSUME HandleMalformed(i, m) PROVE HostActs(j)
  BY Zenon, <1>4, <1>5, <1>6, <1>12 DEF HandleMalformed
<1> QED
  BY Zenon, <1>7, <1>8, <1>9, <1>10, <1>11, <1>12 DEF HandleFrame

\* A host step on one connection does one of the named things to each.
LEMMA HostStepActs ==
  ASSUME TypeOK, ConnectionsAgree, NEW i \in Ids, HostStep(i), NEW j \in Ids
  PROVE  HostActs(j)
<1>1. UNCHANGED clientVars
  BY Zenon DEF HostStep
<1>2. CASE HandleNewConnection(i)
  <2>1. j = i => HostAdmits(i)
    BY Zenon, <1>1, <1>2 DEF HandleNewConnection, clientVars, HostAdmits, ClientRests, Drained,
                      TypeOK, TcpTypeOK, HostTypeOK
  <2>2. j # i => Untouched(j)
    BY Zenon, <1>1, <1>2 DEF HandleNewConnection, clientVars, Untouched, HostRests, ClientRests,
                      TypeOK, TcpTypeOK, HostTypeOK
  <2> QED
    BY Zenon, <2>1, <2>2, UntouchedActs DEF HostActs
<1>3. CASE HandleBye(i) \/ HandleClientClosed(i)
  <2>1. CloseHostEnd(i) /\ UNCHANGED <<toClient, clientEnd, link, ended>>
    BY Zenon, <1>3 DEF HandleBye, HandleClientClosed
  <2>2. j = i => HostEnds(i)
    <3>1. ClientRests(i) /\ Drained(i) /\ state'[i] = "none" /\ hostEnd'[i] # "none"
      BY SMTT(30), <1>1, <2>1 DEF CloseHostEnd, clientVars, ClientRests, Drained, TypeOK, TcpTypeOK, HostTypeOK
    <3> QED
      BY Zenon, <2>1, <3>1, NothingSent DEF HostEnds
  <2>3. j # i => Untouched(j)
    BY <1>1, <2>1 DEF CloseHostEnd, clientVars, Untouched, HostRests, ClientRests,
                      TypeOK, TcpTypeOK, HostTypeOK
  <2> QED
    BY Zenon, <2>2, <2>3, UntouchedActs DEF HostActs
<1>4. CASE IgnoreFrame(i)
  <2>1. HostRests(j) /\ ClientRests(j) /\ Drained(j)
    BY Zenon, <1>1, <1>4 DEF IgnoreFrame, HostReceives, hostVars, clientVars, HostRests, ClientRests,
                      Drained, TypeOK, TcpTypeOK
  <2>2. HostWrites(j)
    BY Zenon, <1>4, <2>1, NothingSent DEF HostWrites, IgnoreFrame
  <2> QED
    BY Zenon, <2>2 DEF HostActs
<1> QED
  BY Zenon, <1>1, <1>2, <1>3, <1>4, FrameActs DEF HostStep

\* What the user of the host does.
LEMMA HostCommandActs ==
  ASSUME TypeOK, NEW i \in Ids, HostCommand(i), NEW j \in Ids
  PROVE  HostActs(j)
<1>1. UNCHANGED toHost[j] /\ ClientRests(j) /\ Drained(i)
  BY Zenon DEF HostCommand, clientVars, ClientRests, Drained, ApproveClient, KickClient, SetClientInput,
         SendAppMessage
<1>2. ASSUME j # i, HostRests(j), UNCHANGED toClient[j] PROVE HostActs(j)
  BY Zenon, <1>1, <1>2, UntouchedActs DEF Untouched
<1>3. ASSUME NEW accept \in BOOLEAN, ApproveClient(i, accept) PROVE HostActs(j)
  <2>1. CASE UNCHANGED <<toClient, hostEnd, state, input, update, ended>>
    BY Zenon, <1>1, <2>1, UntouchedActs DEF Untouched, HostRests
  <2>2. CASE DropClient(i, <<>>, "RejectedByHost")
    <3>1. <<>> \in Seq(HostMessages) /\ ~Carries(<<>>, {"App"}) /\ "RejectedByHost" \in Reasons
      BY CarriesShort DEF Reasons
    <3>2. j = i => HostEnds(i)
      BY Zenon, <1>1, <2>2, <3>1, DropClientActs DEF HostEnds
    <3>3. j # i => HostRests(j) /\ UNCHANGED toClient[j]
      BY Zenon, <2>2, <3>1, DropClientActs, Zenon
    <3> QED
      BY Zenon, <1>2, <3>2, <3>3 DEF HostActs
  <2>3. CASE /\ toClient' = [toClient EXCEPT ![i] =
                  SentToClient(i, <<HostApproved, HostCapabilities>>)]
             /\ UNCHANGED <<hostEnd, state, input, update, ended>>
    <3>1. /\ <<HostApproved, HostCapabilities>> \in Seq(HostMessages)
          /\ ~Carries(<<HostApproved, HostCapabilities>>, {"NegotiationResult", "InputPermission", "App"})
      BY FramesAreMessages, ShortFrames DEF Carries, HostApproved, HostCapabilities
    <3>2. /\ Down(i, <<HostApproved, HostCapabilities>>)
          /\ j # i => UNCHANGED toClient[j]
          /\ HostRests(j)
      BY Zenon, <2>3, <3>1, ReplySent DEF HostRests
    <3>3. j = i => HostWrites(i)
      BY Zenon, <1>1, <3>1, <3>2 DEF HostWrites
    <3> QED
      BY Zenon, <1>2, <3>2, <3>3 DEF HostActs
  <2> QED
    BY Zenon, <1>3, <2>1, <2>2, <2>3 DEF ApproveClient
<1>4. CASE KickClient(i)
  <2>1. <<Kick>> \in Seq(HostMessages)
    BY Zenon, FramesAreMessages, ShortFrames
  <2>2. Down(i, <<Kick>>) /\ (j # i => UNCHANGED toClient[j])
    BY Zenon, <1>4, <2>1, ReplySent DEF KickClient
  <2>3. j = i => HostKicks(i)
    BY <1>1, <1>4, <2>2 DEF KickClient, HostKicks, TypeOK, TcpTypeOK, HostTypeOK
  <2>4. j # i => HostRests(j)
    BY Zenon, <1>4, Zenon DEF KickClient, HostRests, TypeOK, TcpTypeOK, HostTypeOK
  <2> QED
    BY Zenon, <1>2, <2>2, <2>3, <2>4 DEF HostActs
<1>5. CASE SetClientInput(i)
  <2>1. PICK p \in Permissions :
          /\ input' = [input EXCEPT ![i] = p]
          /\ toClient' = [toClient EXCEPT ![i] = SentToClient(i, <<InputPermission(p)>>)]
    BY Zenon, <1>5, Zenon DEF SetClientInput, Permissions
  <2>2. <<InputPermission(p)>> \in Seq(HostMessages)
    BY Zenon, FramesAreMessages, ShortFrames
  <2>3. Down(i, <<InputPermission(p)>>) /\ (j # i => UNCHANGED toClient[j])
    BY Zenon, <2>1, <2>2, ReplySent, Zenon
  <2>4. input'[i] = p /\ (j # i => HostRests(j))
    BY Zenon, <1>5, <2>1 DEF SetClientInput, HostRests, TypeOK, HostTypeOK
  <2>5. j = i => HostPermits(i)
    BY Zenon, <1>1, <1>5, <2>3, <2>4 DEF SetClientInput, HostPermits
  <2> QED
    BY Zenon, <1>2, <2>3, <2>4, <2>5, Zenon DEF HostActs
<1>6. ASSUME NEW m \in {AppMessage, KeyReady}, SendAppMessage(i, m) PROVE HostActs(j)
  <2>1. <<m>> \in Seq(HostMessages)
    BY Zenon, FramesAreMessages, ShortFrames, Zenon
  <2>2. Down(i, <<m>>) /\ (j # i => UNCHANGED toClient[j]) /\ HostRests(j)
    BY Zenon, <1>6, <2>1, ReplySent DEF SendAppMessage, hostVars, HostRests
  <2>3. j = i => HostForwards(i)
    BY Zenon, <1>1, <1>6, <2>2 DEF SendAppMessage, HostForwards
  <2> QED
    BY Zenon, <1>2, <2>2, <2>3 DEF HostActs
<1> QED
  BY Zenon, <1>3, <1>4, <1>5, <1>6 DEF HostCommand

\* Housekeeping, stop() and the passage of time.
LEMMA HousekeepingActs ==
  ASSUME TypeOK, Housekeeping, UNCHANGED clientVars, NEW j \in Ids
  PROVE  HostActs(j)
<1> DEFINE before == [i \in Ids |-> IF state[i] = "Connected" THEN <<Ping>> ELSE <<>>]
           dropped == {i \in Ids : TimedOut(i)}
<1>1. <<Ping>> \in Seq(HostMessages) /\ <<>> \in Seq(HostMessages)
  BY FramesAreMessages, ShortFrames
<1>2. before \in [Ids -> Seq(HostMessages)]
  BY Zenon, <1>1
<1>3. \A T \in SUBSET {"NegotiationResult", "InputPermission", "App"} : ~Carries(before[j], T)
  BY DEF Carries, Ping
<1>4. \A i \in Ids : ~Carries(before[i], {"App"})
  BY DEF Carries, Ping
<1>5. DropWith(dropped, before, "InactivityTimeout") /\ dropped \in SUBSET Ids
  BY Zenon DEF Housekeeping
<1>6. "InactivityTimeout" \in Reasons /\ ClientRests(j) /\ Drained(j)
  BY Zenon DEF Reasons, Housekeeping, clientVars, ClientRests, Drained
<1> HIDE DEF before, dropped
<1>7. CASE j \in dropped
  <2>1. HostEnds(j)
    BY Zenon, <1>2, <1>4, <1>5, <1>6, <1>7, DropActs DEF HostEnds
  <2> QED
    BY Zenon, <2>1 DEF HostActs
<1>8. CASE j \notin dropped
  <2>1. HostRests(j) /\ toClient'[j] = SentToClient(j, before[j])
    BY Zenon, <1>5, <1>8 DEF DropWith, HostRests
  <2>2. Down(j, before[j]) /\ ~Carries(before[j], {"NegotiationResult", "InputPermission", "App"})
    BY Zenon, <1>2, <1>3, <2>1 DEF Down
  <2>3. HostWrites(j)
    BY Zenon, <1>6, <2>1, <2>2 DEF HostWrites
  <2> QED
    BY Zenon, <2>3, Zenon DEF HostActs
<1> QED
  BY Zenon, <1>7, <1>8

\* HostSession::stop ends every connection.
LEMMA StopActs ==
  ASSUME TypeOK, Stop, UNCHANGED clientVars, NEW j \in Ids
  PROVE  HostActs(j)
<1>1. ClientRests(j) /\ Drained(j) /\ state'[j] = "none" /\ hostEnd'[j] # "none"
  BY Zenon DEF Stop, clientVars, ClientRests, Drained
<1>2. HostEnds(j)
  BY Zenon, <1>1, NothingSent DEF Stop, HostEnds
<1> QED
  BY Zenon, <1>2 DEF HostActs

\* A client's network thread.
LEMMA ClientStepActs ==
  ASSUME TypeOK, ConnectionsAgree, NEW i \in Ids, ClientStep(i), NEW j \in Ids
  PROVE  HostActs(j) \/ ClientActs(j)
<1> USE DEF TypeOK, TcpTypeOK, ClientTypeOK
<1>1. UNCHANGED hostVars /\ HostRests(j)
  BY Zenon DEF ClientStep, hostVars, HostRests, HandleConnected, ClientHandleFrame, StartHeartbeat,
         HandleClosed
<1>2. CASE j # i
  <2>1. Untouched(j)
    BY ZenonT(30), <1>1, <1>2 DEF ClientStep, HandleConnected, ClientHandleFrame, StartHeartbeat, HandleClosed,
       HandleSilent, HandleHostCapabilities, HandleNegotiation, HandlePingFromHost,
       HandleInputPermission, HandleFarewell, Finish, ClientReceives, Untouched, ClientRests
  <2> QED
    BY Zenon, <2>1, UntouchedActs, Zenon
<1>3. ASSUME j = i, ClientHandleFrame(i) PROVE ClientActs(i)
  <2> DEFINE m == Head(toClient[i])
             Reads == /\ clientEnd[i] = "open" /\ UNCHANGED <<clientEnd[i], link[i]>>
                      /\ toClient[i] # <<>> /\ toClient'[i] = Tail(toClient[i])
  <2>1. <<>> \in Seq(ClientMessages) /\ ~Carries(<<>>, {"App"}) /\ SentToHost(i, <<>>) = toHost[i]
    BY CarriesShort DEF SentToHost
  <2>2. CASE HandleSilent(i, m) \/ HandleNegotiation(i, m) \/ HandleInputPermission(i, m)
    <3>1. Reads /\ m.type # "Kick" /\ UNCHANGED toHost[i]
      BY Zenon, <1>3, <2>2, Zenon DEF ClientHandleFrame, HandleSilent, HandleNegotiation, HandleInputPermission,
                        ClientReceives
    <3>2. /\ cstate'[i] = IF m.type = "NegotiationResult" THEN "Connected" ELSE cstate[i]
          /\ cperm'[i] = IF m.type = "InputPermission" THEN m.perm ELSE cperm[i]
      BY Zenon, <2>2, Zenon DEF HandleSilent, HandleNegotiation, HandleInputPermission
    <3>3. ClientHandles(i)
      BY ZenonT(30), <1>1, <1>3, <2>1, <3>1, <3>2 DEF ClientHandles
    <3> QED
      BY Zenon, <3>3, Zenon DEF ClientActs
  <2>3. CASE HandleHostCapabilities(i, m) \/ HandlePingFromHost(i, m)
    <3>1. Reads /\ m.type \notin {"Kick", "NegotiationResult", "InputPermission"}
      BY Zenon, <1>3, <2>3 DEF ClientHandleFrame, HandleHostCapabilities, HandlePingFromHost,
                        ClientReceives
    <3>2. cstate'[i] = cstate[i] /\ cperm'[i] = cperm[i]
      BY Zenon, <2>3 DEF HandleHostCapabilities, HandlePingFromHost
    <3>3. \E f \in Seq(ClientMessages) : ~Carries(f, {"App"}) /\ toHost'[i] = SentToHost(i, f)
      <4>1. CASE HandleHostCapabilities(i, m)
        <5>1. PICK codecs \in CodecChoices :
                toHost' = [toHost EXCEPT ![i] = SentToHost(i, <<ClientCapabilities(codecs)>>)]
          BY ZenonT(30), <4>1 DEF HandleHostCapabilities
        <5>2. ClientCapabilities(codecs) \in ClientMessages
          BY Zenon, FramesAreMessages, ClientAssumption
        <5>3. <<ClientCapabilities(codecs)>> \in Seq(ClientMessages)
          BY Zenon, <5>2, ShortFrames
        <5>4. ClientCapabilities(codecs).type # "App"
          BY Zenon DEF ClientCapabilities
        <5>5. ~Carries(<<ClientCapabilities(codecs)>>, {"App"})
          BY Zenon, <5>4, CarriesShort
        <5>6. toHost'[i] = SentToHost(i, <<ClientCapabilities(codecs)>>)
          BY Zenon, <5>1
        <5> QED
          BY Zenon, <5>3, <5>5, <5>6, Zenon
      <4>2. CASE HandlePingFromHost(i, m)
        <5>1. <<Pong>> \in Seq(ClientMessages) /\ ~Carries(<<Pong>>, {"App"})
          BY FramesAreMessages, ShortFrames DEF Carries, Pong
        <5>2. toHost'[i] = SentToHost(i, <<Pong>>)
          BY Zenon, <4>2 DEF HandlePingFromHost
        <5> QED
          BY ZenonT(30), <5>1, <5>2
      <4> QED
        BY Zenon, <2>3, <4>1, <4>2
    <3>4. ClientHandles(i)
      BY Zenon, <1>1, <1>3, <3>1, <3>2, <3>3 DEF ClientHandles
    <3> QED
      BY Zenon, <3>4 DEF ClientActs
  <2>4. CASE HandleFarewell(i, m)
    <3>1. ClientEnds(i)
      BY Zenon, <1>1, <1>3, <2>4 DEF ClientHandleFrame, HandleFarewell, Finish, ClientReads, ClientEnds
    <3> QED
      BY Zenon, <3>1 DEF ClientActs
  <2> QED
    BY <1>3, <2>2, <2>3, <2>4 DEF ClientHandleFrame
<1>4. ASSUME j = i, HandleConnected(i) PROVE ClientActs(i)
  <2>1. PICK b \in BOOLEAN : toHost' = [toHost EXCEPT ![i] =
          IF hostEnd[i] # "closed" /\ link[i] THEN @ \o <<ClientHello(b)>> ELSE @]
    BY Zenon, <1>4 DEF HandleConnected
  <2>2. toHost[i] = <<>>
    BY Zenon, <1>4 DEF HandleConnected, ConnectionsAgree, Agree, EndsAgree
  <2>3. toHost'[i] = <<>> \/ toHost'[i] = <<ClientHello(b)>>
    BY <2>1, <2>2
  <2>4. ClientHello(b).type # "App"
    BY Zenon DEF ClientHello
  <2>5. ~Carries(toHost'[i], {"App"})
    BY ZenonT(30), <2>3, <2>4, CarriesShort
  <2>6. ClientOpens(i)
    BY Zenon, <1>1, <1>4, <2>5 DEF HandleConnected, ClientOpens
  <2> QED
    BY Zenon, <2>6, Zenon DEF ClientActs
<1>5. ASSUME j = i, StartHeartbeat(i) PROVE ClientActs(i)
  <2>1. CASE Finish(i) /\ UNCHANGED toHost
    <3>1. ClientEnds(i)
      BY Zenon, <1>1, <1>5, <2>1 DEF StartHeartbeat, Finish, ClientReads, ClientEnds
    <3> QED
      BY Zenon, <3>1 DEF ClientActs
  <2>2. CASE ~Finish(i) \/ ~UNCHANGED toHost
    <3>0. Ping.type # "App"
      BY Zenon DEF Ping
    <3>1. <<Ping>> \in Seq(ClientMessages) /\ ~Carries(<<Ping>>, {"App"})
      BY <3>0, FramesAreMessages, ShortFrames, CarriesShort, Zenon
    <3>2. <<>> \in Seq(ClientMessages) /\ ~Carries(<<>>, {"App"}) /\ SentToHost(i, <<>>) = toHost[i]
      BY CarriesShort DEF SentToHost
    <3>3. /\ UNCHANGED <<toClient[i], clientEnd[i], cstate[i], link[i], cperm[i]>>
          /\ toHost'[i] = SentToHost(i, <<Ping>>) \/ toHost'[i] = toHost[i]
      BY Zenon, <1>5, <2>2, Zenon DEF StartHeartbeat
    <3>4. ClientWrites(i)
      BY ZenonT(30), <1>1, <1>5, <3>1, <3>2, <3>3 DEF ClientWrites, ClientRests
    <3> QED
      BY Zenon, <3>4 DEF ClientActs
  <2> QED
    BY Zenon, <2>1, <2>2
<1>6. ASSUME j = i, HandleClosed(i) PROVE ClientActs(i)
  <2>1. ClientEnds(i)
    BY Zenon, <1>1, <1>6 DEF HandleClosed, ClientEnds
  <2> QED
    BY Zenon, <2>1 DEF ClientActs
<1> QED
  BY Zenon, <1>2, <1>3, <1>4, <1>5, <1>6 DEF ClientStep

\* What a player does, and the network.
LEMMA ClientCommandActs ==
  ASSUME TypeOK, NEW i \in Ids, ClientCommand(i), NEW j \in Ids
  PROVE  HostActs(j) \/ ClientActs(j)
<1> USE DEF TypeOK, TcpTypeOK, ClientTypeOK
<1>1. HostRests(j)
  BY Zenon DEF ClientCommand, hostVars, HostRests, Start, tcpVars, ClientStop, ClientSendsApp
<1>2. CASE j # i
  <2>1. Untouched(j)
    BY Zenon, <1>1, <1>2 DEF ClientCommand, Start, tcpVars, ClientStop, ClientSendsApp, clientVars,
                      Untouched, ClientRests
  <2> QED
    BY Zenon, <2>1, UntouchedActs
<1>3. ASSUME j = i, Start(i) PROVE ClientActs(i)
  BY Zenon, <1>1, <1>3 DEF Start, tcpVars, ClientStarts, ClientActs
<1>4. ASSUME j = i, ClientStop(i) PROVE ClientActs(i)
  <2>1. ClientEnds(i)
    BY Zenon, <1>1, <1>4 DEF ClientStop, ClientEnds
  <2> QED
    BY Zenon, <2>1 DEF ClientActs
<1>5. ASSUME j = i, NEW m \in {AppMessage, KeyReady}, ClientSendsApp(i, m) PROVE ClientActs(i)
  <2>1. <<m>> \in Seq(ClientMessages)
    BY Zenon, FramesAreMessages, ShortFrames
  <2>2. toHost'[i] = SentToHost(i, <<m>>) /\ cstate[i] = "Connected" /\ ClientRests(i)
        /\ UNCHANGED toClient[i]
    BY Zenon, <1>5, Zenon DEF ClientSendsApp, clientVars, ClientRests
  <2>3. ClientWrites(i)
    BY <1>1, <1>5, <2>1, <2>2, Zenon DEF ClientWrites
  <2> QED
    BY Zenon, <2>3 DEF ClientActs
<1> QED
  BY Zenon, <1>2, <1>3, <1>4, <1>5 DEF ClientCommand

\* A network step does one of the named things to each connection.
LEMMA NetworkStepActs ==
  ASSUME TypeOK, ConnectionsAgree, NEW i \in Ids, NetworkStep(i), NEW j \in Ids
  PROVE  HostActs(j) \/ ClientActs(j)
<1> USE DEF TypeOK, TcpTypeOK, ClientTypeOK
<1>1. HostRests(j)
  BY Zenon DEF NetworkStep, hostVars, HostRests, Establish, LoseAfterClose, CutLink, ConnectFails
<1>2. CASE j # i
  <2>1. Untouched(j)
    BY Zenon, <1>1, <1>2 DEF NetworkStep, Establish, LoseAfterClose, CutLink, ConnectFails, clientVars,
                      Untouched, ClientRests
  <2> QED
    BY Zenon, <2>1, UntouchedActs
<1>3. ASSUME j = i, Establish(i), UNCHANGED clientVars PROVE ClientActs(i)
  BY Zenon, <1>1, <1>3 DEF Establish, clientVars, NetworkConnects, ClientActs
<1>4. ASSUME j = i, LoseAfterClose(i) \/ CutLink(i), UNCHANGED clientVars PROVE ClientActs(i)
  <2>1. NetworkLoses(i)
    BY Zenon, <1>1, <1>4, Zenon DEF LoseAfterClose, CutLink, clientVars, NetworkLoses
  <2> QED
    BY Zenon, <2>1, Zenon DEF ClientActs
<1>5. ASSUME j = i, ConnectFails(i) PROVE ClientActs(i)
  <2>1. clientEnd[i] # "open"
    BY Zenon, <1>5 DEF ConnectFails, ConnectionsAgree, Agree, EndsAgree
  <2>2. ClientEnds(i)
    BY Zenon, <1>1, <1>5, <2>1 DEF ConnectFails, ClientEnds
  <2> QED
    BY Zenon, <2>2 DEF ClientActs
<1> QED
  BY Zenon, <1>2, <1>3, <1>4, <1>5 DEF NetworkStep

\* Every step of the channel does one of the named things to each connection.
LEMMA NextActs ==
  ASSUME TypeOK, ConnectionsAgree, [Next]_vars, NEW j \in Ids
  PROVE  HostActs(j) \/ ClientActs(j)
<1>1. CASE Tick \/ UNCHANGED vars
  <2>1. Untouched(j)
    BY Zenon, <1>1 DEF Tick, vars, tcpVars, hostVars, clientVars, Untouched, HostRests, ClientRests
  <2> QED
    BY Zenon, <2>1, UntouchedActs
<1>2. CASE Housekeeping /\ UNCHANGED clientVars
  BY Zenon, <1>2, HousekeepingActs
<1>3. CASE Stop /\ UNCHANGED clientVars
  BY Zenon, <1>3, StopActs
<1>4. ASSUME NEW i \in Ids, HostStep(i) \/ HostCommand(i) \/ ClientStep(i)
                              \/ ClientCommand(i) \/ NetworkStep(i)
      PROVE  HostActs(j) \/ ClientActs(j)
  BY Zenon, <1>4, HostStepActs, HostCommandActs, ClientStepActs, ClientCommandActs, NetworkStepActs
<1> QED
  BY Zenon, <1>1, <1>2, <1>3, <1>4 DEF Next
-----------------------------------------------------------------------------
\* The ends of every connection agree in every reachable state.
LEMMA ConnectionsInvariant == Spec => []ConnectionsAgree
<1>1. Init => ConnectionsAgree
  <2> SUFFICES ASSUME Init, NEW i \in Ids PROVE Agree(i)
    BY Zenon DEF ConnectionsAgree
  <2>1. \A T : ~Carries(<<>>, T)
    BY Zenon, CarriesShort
  <2> QED
    BY Zenon, <2>1 DEF Init, TcpInit, HostInit, ClientInit, Agree, EndsAgree, PermissionFollows,
                MessagesFollow, Past, ClientReads
<1>2. TypeOK /\ RecordsMatchEvents /\ ConnectionsAgree /\ [Next]_vars => ConnectionsAgree'
  <2> SUFFICES ASSUME TypeOK, RecordsMatchEvents, ConnectionsAgree, [Next]_vars, NEW i \in Ids
               PROVE  Agree(i)'
    BY Zenon DEF ConnectionsAgree
  <2> QED
    BY Zenon, NextActs, ActsSuffice DEF ConnectionsAgree
<1> QED
  BY <1>1, <1>2, TypeCorrect, EventsInvariant, PTL DEF Spec

\* PermissionsAgree: for any number of clients and any timing, what a connected
\* client holds or is about to read is the permission in the host's record.
THEOREM PermissionsHold == Spec => []PermissionsAgree
<1>1. ConnectionsAgree => PermissionsAgree
  <2> SUFFICES ASSUME ConnectionsAgree, NEW i \in Ids,
                      state[i] = "Connected", clientEnd[i] = "open", link[i]
               PROVE  PendingPermission(i) = input[i]
    BY Zenon DEF PermissionsAgree
  <2>1. PermissionAfter(cperm[i], toClient[i]) = input[i]
    BY Zenon DEF ConnectionsAgree, Agree, PermissionFollows
  <2> QED
    BY Zenon, <2>1 DEF PermissionAfter, PendingPermission
<1> QED
  BY <1>1, ConnectionsInvariant, PTL

\* AppMessagesAreExpected: the host refuses an application message of a client
\* it has a record of only when the message crossed the host's own KICK.
THEOREM AppMessagesHold == Spec => []AppMessagesAreExpected
<1>1. TypeOK /\ ConnectionsAgree => AppMessagesAreExpected
  <2> SUFFICES ASSUME TypeOK, ConnectionsAgree, NEW i \in Ids, state[i] # "none",
                      toHost[i] # <<>>, Head(toHost[i]).type = "App"
               PROVE  state[i] = "Connected" \/ "Kick" \in ended[i]
    BY Zenon DEF AppMessagesAreExpected
  <2>1. toHost[i] \in Seq(ClientMessages)
    BY Zenon DEF TypeOK, TcpTypeOK
  <2>2. Past(i)
    BY Zenon, <2>1, CarriesHead, Zenon DEF Past
  <2>3. state[i] \in {"Connected", "Disconnected"}
    BY Zenon, <2>2, Zenon DEF ConnectionsAgree, Agree, MessagesFollow, TypeOK, HostTypeOK, HostStates
  <2> QED
    BY Zenon, <2>3, Zenon DEF ConnectionsAgree, Agree, EndsAgree
<1> QED
  BY <1>1, TypeCorrect, ConnectionsInvariant, PTL

\* AppMessagesFindConnected: a client that reads an application message has
\* read the accepted NEGOTIATION_RESULT before.
THEOREM AppFindsConnected == Spec => []AppMessagesFindConnected
<1>1. TypeOK /\ ConnectionsAgree => AppMessagesFindConnected
  <2> SUFFICES ASSUME TypeOK, ConnectionsAgree, NEW i \in Ids, clientEnd[i] = "open",
                      toClient[i] # <<>>, Head(toClient[i]).type = "App"
               PROVE  cstate[i] = "Connected"
    BY Zenon DEF AppMessagesFindConnected
  <2>1. toClient[i] \in Seq(HostMessages)
    BY Zenon DEF TypeOK, TcpTypeOK
  <2>2. ~Led(toClient[i])
    BY Zenon, <2>1, LedHead
  <2> QED
    BY Zenon, <2>2 DEF ConnectionsAgree, Agree, MessagesFollow, ClientReads
<1> QED
  BY <1>1, TypeCorrect, ConnectionsInvariant, PTL
===============================================================================
