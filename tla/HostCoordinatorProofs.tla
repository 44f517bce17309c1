------------------------ MODULE HostCoordinatorProofs -------------------------
(***************************************************************************)
(* The host's coordinator, for any set of clients and any capacity within  *)
(* the player slots: no two players share a slot, no torn-down player      *)
(* comes back, an orphaned streamer stops with its worker, and each        *)
(* message of the key exchange is said once.                               *)
(***************************************************************************)
EXTENDS HostCoordinator, FiniteSetTheorems, SequenceTheorems, WellFoundedInduction, TLAPS

\* What the proofs need of the constants: the session admits no more clients
\* than there are player slots (kMaxClients and the four slots of
\* assignPlayerIndex).
CoordinatorConstants ==
  IsFiniteSet(Clients) /\ Nobody \notin Clients /\ Slots \in Nat /\ MaxClients \in Nat /\ MaxClients <= Slots

QueuedEvent == [kind : Kinds, client : Clients]

\* The streams that are not being torn down.
Seats == {d \in DOMAIN streams : ~(qt.at \in {"stopped", "forgot"} /\ qt.client = d)}

\* Who has a stream when the Qt thread has handled the first k queued events,
\* with the streams of seats now.
CrowdOf(ev, seats, k) ==
  {d \in Clients : /\ d \in seats \/ \E i \in 1 .. k : ev[i] = Event("Connected", d)
                   /\ \A i \in 1 .. k : ev[i] # Event("Disconnected", d)}

\* The queue and the session agree: nobody comes back after it went, who has
\* a stream when the queue is handled is present, and at no point of the
\* queue are there more streams than the session admits clients.
QueueOK(ev, seats, ses) ==
  /\ \A i \in DOMAIN ev : ev[i].kind = "Connected" => ses[ev[i].client] # "absent"
  /\ \A i \in DOMAIN ev : ev[i].kind = "Disconnected" => ses[ev[i].client] = "gone"
  /\ \A i, j \in DOMAIN ev :
       i < j /\ ev[i].kind = "Disconnected" => ev[j] # Event("Connected", ev[i].client)
  /\ \A d \in CrowdOf(ev, seats, Len(ev)) : ses[d] \in {"connected", "kicked"}
  /\ \A k \in 0 .. Len(ev) : Cardinality(CrowdOf(ev, seats, k)) <= MaxClients

\* A kick changes nothing the queue depends on.
SameSessions(ses, new) ==
  \A d \in Clients : /\ new[d] = "absent" <=> ses[d] = "absent"
                     /\ new[d] = "gone" <=> ses[d] = "gone"
                     /\ ses[d] \in {"connected", "kicked"} => new[d] \in {"connected", "kicked"}

\* A crowd is a finite set of clients.
LEMMA CrowdFinite ==
  ASSUME CoordinatorConstants, NEW ev, NEW seats, NEW k
  PROVE  /\ IsFiniteSet(CrowdOf(ev, seats, k)) /\ Cardinality(CrowdOf(ev, seats, k)) \in Nat
         /\ CrowdOf(ev, seats, k) \subseteq Clients
<1>1. CrowdOf(ev, seats, k) \subseteq Clients
  BY Zenon DEF CrowdOf
<1> QED BY Zenon, <1>1, FS_Subset, FS_CardinalityType DEF CoordinatorConstants

\* A smaller crowd is within the limit too.
LEMMA CrowdSmaller ==
  ASSUME CoordinatorConstants, NEW ev, NEW seats, NEW k, Cardinality(CrowdOf(ev, seats, k)) <= MaxClients,
         NEW T \in SUBSET CrowdOf(ev, seats, k)
  PROVE  Cardinality(T) <= MaxClients
<1>1. /\ IsFiniteSet(CrowdOf(ev, seats, k)) /\ Cardinality(CrowdOf(ev, seats, k)) \in Nat
  BY Zenon, CrowdFinite
<1>2. Cardinality(T) \in Nat /\ Cardinality(T) <= Cardinality(CrowdOf(ev, seats, k))
  BY Zenon, <1>1, FS_Subset, FS_CardinalityType
<1> QED BY <1>1, <1>2 DEF CoordinatorConstants

\* The Qt thread handles the head of the queue.
LEMMA QueueAdvances ==
  ASSUME CoordinatorConstants, NEW ev \in Seq(QueuedEvent), ev # <<>>, NEW seats, NEW ses, QueueOK(ev, seats, ses),
         NEW new, SameSessions(ses, new), NEW after \in SUBSET Clients,
         \A d \in after : d \in seats \/ Head(ev) = Event("Connected", d),
         \A d \in Clients : Head(ev) = Event("Disconnected", d) => d \notin after
  PROVE  QueueOK(Tail(ev), after, new)
<1> DEFINE n == Len(ev)
           t == Tail(ev)
<1>1. n \in Nat /\ n >= 1 /\ DOMAIN ev = 1 .. n /\ (\A i \in 1 .. n : ev[i] \in QueuedEvent) /\ Head(ev) = ev[1]
  BY LenProperties, ElementOfSeq, EmptySeq
<1>2. Len(t) = n - 1 /\ DOMAIN t = 1 .. n - 1 /\ \A i \in 1 .. n - 1 : t[i] = ev[i + 1]
  BY Zenon, <1>1, HeadTailProperties, LenProperties
<1>3. Len(ev) = n
  BY Zenon
<1> HIDE DEF n, t
<1>4. \A i \in 1 .. n - 1 : i + 1 \in 1 .. n /\ t[i] = ev[i + 1]
  BY <1>1, <1>2
<1>5. \A i \in 1 .. n : ev[i].kind \in Kinds /\ ev[i].client \in Clients
  BY Zenon, <1>1 DEF QueuedEvent
<1>6. \A i \in DOMAIN t : t[i].kind = "Connected" => new[t[i].client] # "absent"
  <2>1. ASSUME NEW i \in 1 .. n - 1, t[i].kind = "Connected" PROVE new[t[i].client] # "absent"
    <3>1. i + 1 \in 1 .. n /\ t[i] = ev[i + 1]
      BY Zenon, <1>4
    <3>2. ses[t[i].client] # "absent"
      BY Zenon, <1>1, <2>1, <3>1 DEF QueueOK
    <3> QED BY Zenon, <1>5, <3>1, <3>2 DEF SameSessions
  <2> QED BY Zenon, <1>2, <2>1
<1>7. \A i \in DOMAIN t : t[i].kind = "Disconnected" => new[t[i].client] = "gone"
  <2>1. ASSUME NEW i \in 1 .. n - 1, t[i].kind = "Disconnected" PROVE new[t[i].client] = "gone"
    <3>1. i + 1 \in 1 .. n /\ t[i] = ev[i + 1]
      BY Zenon, <1>4
    <3>2. ses[t[i].client] = "gone"
      BY Zenon, <1>1, <2>1, <3>1 DEF QueueOK
    <3> QED BY Zenon, <1>5, <3>1, <3>2 DEF SameSessions
  <2> QED BY Zenon, <1>2, <2>1
<1>8. ASSUME NEW i \in DOMAIN t, NEW j \in DOMAIN t, i < j, t[i].kind = "Disconnected"
      PROVE  t[j] # Event("Connected", t[i].client)
  <2>1. i \in 1 .. n - 1 /\ j \in 1 .. n - 1 /\ i + 1 \in 1 .. n /\ j + 1 \in 1 .. n /\ i + 1 < j + 1
    BY <1>1, <1>2, <1>8
  <2> QED BY <1>1, <1>4, <1>8, <2>1 DEF QueueOK
<1>9. ASSUME NEW k \in 0 .. n - 1 PROVE CrowdOf(t, after, k) \subseteq CrowdOf(ev, seats, k + 1)
  <2>1. \A i \in 1 .. k : i \in 1 .. n - 1 /\ i + 1 \in 1 .. k + 1 /\ t[i] = ev[i + 1]
    BY <1>1, <1>4
  <2>2. 1 \in 1 .. k + 1 /\ \A i \in 1 .. k + 1 : i = 1 \/ (i - 1 \in 1 .. k /\ i = (i - 1) + 1)
    BY <1>1
  <2>3. ASSUME NEW d \in CrowdOf(t, after, k) PROVE d \in CrowdOf(ev, seats, k + 1)
    <3>1. /\ d \in Clients /\ (d \in after \/ \E i \in 1 .. k : t[i] = Event("Connected", d))
          /\ \A i \in 1 .. k : t[i] # Event("Disconnected", d)
      BY Zenon DEF CrowdOf
    <3>2. d \in seats \/ \E i \in 1 .. k + 1 : ev[i] = Event("Connected", d)
      BY Zenon, <1>1, <2>1, <2>2, <3>1
    <3>3. ev[1] # Event("Disconnected", d)
      <4>1. SUFFICES ASSUME ev[1] = Event("Disconnected", d) PROVE FALSE
        BY Zenon
      <4>2. PICK i \in 1 .. k : t[i] = Event("Connected", d)
        BY Zenon, <1>1, <3>1, <4>1
      <4>3. 1 \in 1 .. n /\ i + 1 \in 1 .. n /\ 1 < i + 1 /\ ev[i + 1] = Event("Connected", d)
        BY <1>1, <2>1, <4>2
      <4>4. ev[1].kind = "Disconnected" /\ ev[1].client = d
        BY <4>1 DEF Event
      <4> QED BY Zenon, <1>1, <4>3, <4>4 DEF QueueOK
    <3>4. \A i \in 1 .. k + 1 : ev[i] # Event("Disconnected", d)
      BY Zenon, <2>1, <2>2, <3>1, <3>3
    <3> QED BY Zenon, <3>1, <3>2, <3>4 DEF CrowdOf
  <2> QED BY Zenon, <2>3
<1>10. ASSUME NEW d \in CrowdOf(t, after, Len(t)) PROVE new[d] \in {"connected", "kicked"}
  <2>1. n - 1 \in 0 .. n - 1 /\ Len(t) = n - 1 /\ (n - 1) + 1 = n
    BY <1>1, <1>2
  <2>2. d \in CrowdOf(ev, seats, Len(ev)) /\ d \in Clients
    <3>1. d \in CrowdOf(ev, seats, (n - 1) + 1)
      BY Zenon, <1>9, <2>1
    <3> QED BY Zenon, <1>3, <2>1, <3>1, CrowdFinite
  <2> QED BY Zenon, <2>2 DEF QueueOK, SameSessions
<1>11. ASSUME NEW k \in 0 .. Len(t) PROVE Cardinality(CrowdOf(t, after, k)) <= MaxClients
  <2>1. k \in 0 .. n - 1 /\ k + 1 \in 0 .. n
    BY <1>1, <1>2
  <2>2. Cardinality(CrowdOf(ev, seats, k + 1)) <= MaxClients
    BY Zenon, <1>3, <2>1 DEF QueueOK
  <2> QED BY Zenon, <1>9, <2>1, <2>2, CrowdSmaller
<1>12. QueueOK(t, after, new)
  BY Zenon, <1>6, <1>7, <1>8, <1>10, <1>11 DEF QueueOK
<1> QED BY Zenon, <1>12 DEF t

\* Streams are torn down, or a player is kicked, between two events.
LEMMA QueueStays ==
  ASSUME CoordinatorConstants, NEW ev \in Seq(QueuedEvent), NEW seats, NEW ses, QueueOK(ev, seats, ses),
         NEW new, SameSessions(ses, new), NEW after \in SUBSET seats
  PROVE  QueueOK(ev, after, new)
<1>1. Len(ev) \in Nat /\ DOMAIN ev = 1 .. Len(ev) /\ \A i \in 1 .. Len(ev) : ev[i] \in QueuedEvent
  BY Zenon, LenProperties, ElementOfSeq
<1>2. \A i \in DOMAIN ev : ev[i].client \in Clients
  BY Zenon, <1>1 DEF QueuedEvent
<1>3. \A k \in 0 .. Len(ev) : CrowdOf(ev, after, k) \subseteq CrowdOf(ev, seats, k)
  BY Zenon DEF CrowdOf
<1>4. /\ \A i \in DOMAIN ev : ev[i].kind = "Connected" => new[ev[i].client] # "absent"
      /\ \A i \in DOMAIN ev : ev[i].kind = "Disconnected" => new[ev[i].client] = "gone"
  BY Zenon, <1>2 DEF QueueOK, SameSessions
<1>5. \A d \in CrowdOf(ev, after, Len(ev)) : d \in Clients /\ new[d] \in {"connected", "kicked"}
  <2>1. Len(ev) \in 0 .. Len(ev)
    BY <1>1
  <2>2. \A d \in CrowdOf(ev, after, Len(ev)) : d \in CrowdOf(ev, seats, Len(ev)) /\ d \in Clients
    BY Zenon, <1>3, <2>1, CrowdFinite
  <2> QED BY Zenon, <2>2 DEF QueueOK, SameSessions
<1>6. \A k \in 0 .. Len(ev) : Cardinality(CrowdOf(ev, after, k)) <= MaxClients
  BY Zenon, <1>3, CrowdSmaller DEF QueueOK
<1>7. \A i, j \in DOMAIN ev :
        i < j /\ ev[i].kind = "Disconnected" => ev[j] # Event("Connected", ev[i].client)
  BY Zenon DEF QueueOK
<1> QED BY Zenon, <1>4, <1>5, <1>6, <1>7 DEF QueueOK
\* An event other than Connected is queued; a Disconnected, with the session
\* of its client gone.
LEMMA QueueGrows ==
  ASSUME CoordinatorConstants, NEW ev \in Seq(QueuedEvent), NEW seats, NEW ses, QueueOK(ev, seats, ses),
         NEW e \in QueuedEvent, e.kind # "Connected", NEW new,
         e.kind = "Disconnected" => new[e.client] = "gone",
         \A d \in Clients : /\ new[d] = "absent" <=> ses[d] = "absent"
                            /\ ses[d] = "gone" => new[d] = "gone"
                            /\ ses[d] \in {"connected", "kicked"} =>
                                 new[d] \in {"connected", "kicked"} \/ e = Event("Disconnected", d)
  PROVE  QueueOK(Append(ev, e), seats, new)
<1> DEFINE n == Len(ev)
           a == Append(ev, e)
<1>1. n \in Nat /\ DOMAIN ev = 1 .. n /\ \A i \in 1 .. n : ev[i] \in QueuedEvent
  BY Zenon, LenProperties, ElementOfSeq
<1>2. Len(a) = n + 1 /\ DOMAIN a = 1 .. n + 1 /\ a[n + 1] = e /\ \A i \in 1 .. n : a[i] = ev[i]
  BY <1>1, AppendProperties, LenProperties
<1>3. Len(ev) = n
  BY Zenon
<1> HIDE DEF n, a
<1>4. \A i \in 1 .. n : ev[i].kind \in Kinds /\ ev[i].client \in Clients
  BY Zenon, <1>1 DEF QueuedEvent
<1>5. e.client \in Clients /\ \A d : e # Event("Connected", d)
  BY DEF QueuedEvent, Event
<1>6. \A i \in DOMAIN a : i = n + 1 \/ (i \in 1 .. n /\ a[i] = ev[i])
  BY <1>1, <1>2
<1>7. \A i \in DOMAIN a : a[i].kind = "Connected" => new[a[i].client] # "absent"
  BY <1>1, <1>2, <1>4, <1>6 DEF QueueOK
<1>8. \A i \in DOMAIN a : a[i].kind = "Disconnected" => new[a[i].client] = "gone"
  BY <1>1, <1>2, <1>4, <1>6 DEF QueueOK
<1>9. ASSUME NEW i \in DOMAIN a, NEW j \in DOMAIN a, i < j, a[i].kind = "Disconnected"
      PROVE  a[j] # Event("Connected", a[i].client)
  <2>1. CASE j = n + 1
    BY Zenon, <1>2, <1>5, <2>1
  <2>2. CASE j # n + 1
    <3>1. i \in 1 .. n /\ j \in 1 .. n
      BY <1>1, <1>2, <1>9, <2>2
    <3> QED BY <1>1, <1>2, <1>9, <3>1 DEF QueueOK
  <2> QED BY Zenon, <2>1, <2>2
<1>10. ASSUME NEW k \in 0 .. n PROVE CrowdOf(a, seats, k) \subseteq CrowdOf(ev, seats, k)
  <2>1. \A i \in 1 .. k : a[i] = ev[i]
    BY <1>1, <1>2
  <2> QED BY Zenon, <2>1 DEF CrowdOf
<1>11. CrowdOf(a, seats, n + 1) \subseteq CrowdOf(ev, seats, n)
  <2>1. \A i \in 1 .. n : i \in 1 .. n + 1 /\ a[i] = ev[i]
    BY <1>1, <1>2
  <2>2. \A i \in 1 .. n + 1 : i \in 1 .. n \/ i = n + 1
    BY <1>1
  <2> QED BY Zenon, <1>2, <1>5, <2>1, <2>2 DEF CrowdOf
<1>12. ASSUME NEW k \in 0 .. Len(a) PROVE Cardinality(CrowdOf(a, seats, k)) <= MaxClients
  <2>1. n \in 0 .. n /\ (k \in 0 .. n \/ k = n + 1)
    BY <1>1, <1>2
  <2>2. \A j \in 0 .. n : Cardinality(CrowdOf(ev, seats, j)) <= MaxClients
    BY Zenon, <1>3 DEF QueueOK
  <2> QED BY Zenon, <1>10, <1>11, <2>1, <2>2, CrowdSmaller
<1>13. ASSUME NEW d \in CrowdOf(a, seats, Len(a)) PROVE new[d] \in {"connected", "kicked"}
  <2>1. d \in CrowdOf(ev, seats, Len(ev)) /\ d \in Clients
    BY Zenon, <1>2, <1>3, <1>11, CrowdFinite
  <2>2. ses[d] \in {"connected", "kicked"}
    BY Zenon, <2>1 DEF QueueOK
  <2>3. n + 1 \in 1 .. n + 1
    BY <1>1
  <2>4. e # Event("Disconnected", d)
    BY Zenon, <1>2, <2>3 DEF CrowdOf
  <2> QED BY Zenon, <2>1, <2>2, <2>4
<1>14. QueueOK(a, seats, new)
  BY Zenon, <1>7, <1>8, <1>9, <1>12, <1>13 DEF QueueOK
<1> QED BY Zenon, <1>14 DEF a

\* A client connects while fewer than MaxClients are present.
LEMMA QueueAdmits ==
  ASSUME CoordinatorConstants, NEW ev \in Seq(QueuedEvent), NEW seats, NEW ses, QueueOK(ev, seats, ses),
         NEW c \in Clients, NEW new, ses[c] = "absent", new[c] = "connected",
         \A d \in Clients : d # c => new[d] = ses[d],
         NEW P \in SUBSET Clients, \A d \in Clients : ses[d] \in {"connected", "kicked"} => d \in P,
         Cardinality(P) < MaxClients
  PROVE  QueueOK(Append(ev, Event("Connected", c)), seats, new)
<1> DEFINE n == Len(ev)
           e == Event("Connected", c)
           a == Append(ev, e)
<1>1. n \in Nat /\ DOMAIN ev = 1 .. n /\ \A i \in 1 .. n : ev[i] \in QueuedEvent
  BY Zenon, LenProperties, ElementOfSeq
<1>2. e \in QueuedEvent /\ e.kind = "Connected" /\ e.client = c /\ \A d : e # Event("Disconnected", d)
  BY Zenon DEF Event, QueuedEvent, Kinds, Messages
<1>3. Len(a) = n + 1 /\ DOMAIN a = 1 .. n + 1 /\ a[n + 1] = e /\ \A i \in 1 .. n : a[i] = ev[i]
  <2> HIDE DEF e
  <2> QED BY <1>1, <1>2, AppendProperties, LenProperties
<1>4. Len(ev) = n /\ \A d : e = Event("Connected", d) => d = c
  BY Zenon DEF Event
<1> HIDE DEF n, a
<1>5. \A i \in 1 .. n : ev[i].kind \in Kinds /\ ev[i].client \in Clients
  BY Zenon, <1>1 DEF QueuedEvent
<1>6. \A i \in DOMAIN a : i = n + 1 \/ (i \in 1 .. n /\ a[i] = ev[i])
  BY <1>1, <1>3
<1>7. \A i \in DOMAIN a : a[i].kind = "Connected" => new[a[i].client] # "absent"
  <2>1. \A i \in 1 .. n : ev[i].kind = "Connected" => new[ev[i].client] # "absent"
    BY <1>1, <1>5 DEF QueueOK
  <2> HIDE DEF e
  <2> QED BY Zenon, <1>2, <1>3, <1>6, <2>1
<1>8. \A i \in 1 .. n : ev[i].kind = "Disconnected" => new[ev[i].client] = "gone" /\ ev[i].client # c
  BY Zenon, <1>1, <1>5 DEF QueueOK
<1> HIDE DEF e
<1>9. \A i \in DOMAIN a : a[i].kind = "Disconnected" => new[a[i].client] = "gone"
  BY Zenon, <1>2, <1>3, <1>6, <1>8
<1>10. ASSUME NEW i \in DOMAIN a, NEW j \in DOMAIN a, i < j, a[i].kind = "Disconnected"
      PROVE  a[j] # Event("Connected", a[i].client)
  <2>1. i \in 1 .. n /\ a[i] = ev[i]
    BY Zenon, <1>2, <1>3, <1>6, <1>10
  <2>2. CASE j = n + 1
    BY Zenon, <1>3, <1>4, <1>8, <1>10, <2>1, <2>2
  <2>3. CASE j # n + 1
    <3>1. j \in 1 .. n
      BY <1>1, <1>3, <2>3
    <3> QED BY <1>1, <1>3, <1>10, <2>1, <3>1 DEF QueueOK
  <2> QED BY Zenon, <2>2, <2>3
<1>11. ASSUME NEW k \in 0 .. n PROVE CrowdOf(a, seats, k) \subseteq CrowdOf(ev, seats, k)
  <2>1. \A i \in 1 .. k : a[i] = ev[i]
    BY <1>1, <1>3
  <2> QED BY Zenon, <2>1 DEF CrowdOf
<1>12. CrowdOf(a, seats, n + 1) \subseteq CrowdOf(ev, seats, n) \cup {c}
  <2>1. \A i \in 1 .. n : i \in 1 .. n + 1 /\ a[i] = ev[i]
    BY <1>1, <1>3
  <2>2. \A i \in 1 .. n + 1 : i \in 1 .. n \/ i = n + 1
    BY <1>1
  <2> QED BY Zenon, <1>3, <1>4, <2>1, <2>2 DEF CrowdOf
<1>13. \A d \in CrowdOf(ev, seats, n) : d \in Clients /\ ses[d] \in {"connected", "kicked"}
  BY Zenon, <1>4, CrowdFinite DEF QueueOK
<1>14. ASSUME NEW k \in 0 .. Len(a) PROVE Cardinality(CrowdOf(a, seats, k)) <= MaxClients
  <2>1. CASE k \in 0 .. n
    <3>1. Cardinality(CrowdOf(ev, seats, k)) <= MaxClients
      BY Zenon, <1>4, <2>1 DEF QueueOK
    <3> QED BY Zenon, <1>11, <2>1, <3>1, CrowdSmaller
  <2>2. CASE k = n + 1
    <3>1. IsFiniteSet(P) /\ Cardinality(P) \in Nat
      BY Zenon, FS_Subset, FS_CardinalityType DEF CoordinatorConstants
    <3>2. IsFiniteSet(P \cup {c}) /\ Cardinality(P \cup {c}) \in Nat /\ Cardinality(P \cup {c}) <= Cardinality(P) + 1
      <4>1. IsFiniteSet(P \cup {c})
            /\ Cardinality(P \cup {c}) = IF c \in P THEN Cardinality(P) ELSE Cardinality(P) + 1
        BY Zenon, <3>1, FS_AddElement
      <4> QED BY <3>1, <4>1
    <3>3. CrowdOf(a, seats, k) \subseteq P \cup {c}
      BY Zenon, <1>12, <1>13, <2>2
    <3>4. Cardinality(CrowdOf(a, seats, k)) \in Nat /\ Cardinality(CrowdOf(a, seats, k)) <= Cardinality(P \cup {c})
      BY Zenon, <3>2, <3>3, FS_Subset, FS_CardinalityType
    <3> QED BY <3>1, <3>2, <3>4 DEF CoordinatorConstants
  <2> QED BY <1>1, <1>3, <2>1, <2>2
<1>15. ASSUME NEW d \in CrowdOf(a, seats, Len(a)) PROVE new[d] \in {"connected", "kicked"}
  BY Zenon, <1>3, <1>12, <1>13
<1>16. QueueOK(a, seats, new)
  BY Zenon, <1>7, <1>9, <1>10, <1>14, <1>15 DEF QueueOK
<1> QED BY Zenon, <1>16 DEF a, e
-------------------------------------------------------------------------------
\* What a client's session can have delivered.
BothKeys == <<"KeyExchange", "SessionKeyReady">>
Arrivals == {<<>>, <<"KeyExchange">>, BothKeys}

CoordinatorTypes ==
  /\ host \in BOOLEAN
  /\ session \in [Clients -> {"absent", "connected", "kicked", "gone"}]
  /\ events \in Seq(QueuedEvent)
  /\ qt \in [at : {"idle", "stopped", "forgot", "fatal", "joining"}, client : Clients \cup {Nobody}]
  /\ DOMAIN streams \subseteq Clients /\ \A c \in DOMAIN streams : streams[c] \in Stream
  /\ streamer \in [Clients -> {"none", "made", "running", "dead", "stopped"}]
  /\ worker \in [Clients -> {"none", "spawned", "starting", "started", "exited"}]
  /\ records \subseteq 0 .. Slots - 1
  /\ arrived \in [Clients -> Arrivals]

\* A client confirms its keys once, which starts one worker; what a worker
\* queues when it is done finds it exited.
WorkQueue(ev, w, ar) ==
  /\ \A i \in DOMAIN ev : ev[i].kind = "SessionKeyReady" =>
       w[ev[i].client] = "none" /\ ar[ev[i].client] = BothKeys
  /\ \A i, j \in DOMAIN ev : ev[i].kind = "SessionKeyReady" /\ ev[i] = ev[j] => i = j
  /\ \A i \in DOMAIN ev : ev[i].kind = "Started" => w[ev[i].client] = "exited"

WorkersAgree ==
  /\ WorkQueue(events, worker, arrived)
  /\ \A c \in Clients : /\ worker[c] # "none" => arrived[c] = BothKeys
                        /\ streamer[c] = "running" => worker[c] \in {"started", "exited"}
  /\ \A c \in DOMAIN streams : streams[c].routed => worker[c] = "exited"
  /\ OrphansStop

\* A teardown has stopped the streamer, so that no input brings back the
\* player it forgets.
TeardownAgrees ==
  /\ qt.at \in {"stopped", "forgot", "fatal"} => qt.client \in DOMAIN streams
  /\ qt.at \in {"stopped", "forgot"} => ~(streams[qt.client].routed /\ streamer[qt.client] = "running")
  /\ qt.at = "forgot" => streams[qt.client].player \notin records
  /\ qt.at = "joining" => records = {} /\ \A c \in DOMAIN streams : ~(streams[c].routed /\ streamer[c] = "running")
  /\ ~host => DOMAIN streams = {}

CoordinatorInv ==
  /\ CoordinatorTypes /\ WorkersAgree /\ TeardownAgrees /\ SlotsAreUnique
  /\ host => QueueOK(events, Seats, session)

\* The worker's side of the queue, as the head goes and as an event comes.
LEMMA WorkQueueAdvances ==
  ASSUME NEW ev \in Seq(QueuedEvent), ev # <<>>, NEW w, NEW ar, WorkQueue(ev, w, ar)
  PROVE  /\ WorkQueue(Tail(ev), w, ar)
         /\ \A d \in Clients : Head(ev) = Event("SessionKeyReady", d) =>
              /\ w[d] = "none" /\ ar[d] = BothKeys
              /\ \A i \in DOMAIN Tail(ev) : Tail(ev)[i] # Event("SessionKeyReady", d)
         /\ \A d \in Clients : Head(ev) = Event("Started", d) => w[d] = "exited"
<1> DEFINE n == Len(ev)
           t == Tail(ev)
<1>1. n \in Nat /\ n >= 1 /\ DOMAIN ev = 1 .. n /\ (\A i \in 1 .. n : ev[i] \in QueuedEvent) /\ Head(ev) = ev[1]
  BY LenProperties, ElementOfSeq, EmptySeq
<1>2. DOMAIN t = 1 .. n - 1 /\ \A i \in 1 .. n - 1 : t[i] = ev[i + 1]
  BY Zenon, <1>1, HeadTailProperties, LenProperties
<1> HIDE DEF n, t
<1>3. \A i \in DOMAIN t : i + 1 \in 1 .. n /\ i + 1 # 1 /\ t[i] = ev[i + 1]
  BY <1>1, <1>2
<1>4. 1 \in DOMAIN ev /\ \A i \in DOMAIN t : i \in Nat /\ i + 1 \in DOMAIN ev
  BY <1>1, <1>2, <1>3
<1>5. /\ \A i \in DOMAIN t : t[i].kind = "SessionKeyReady" =>
           w[t[i].client] = "none" /\ ar[t[i].client] = BothKeys
      /\ \A i \in DOMAIN t : t[i].kind = "Started" => w[t[i].client] = "exited"
  <2>1. ASSUME NEW i \in DOMAIN t
        PROVE  /\ t[i].kind = "SessionKeyReady" => w[t[i].client] = "none" /\ ar[t[i].client] = BothKeys
               /\ t[i].kind = "Started" => w[t[i].client] = "exited"
    <3>1. i + 1 \in DOMAIN ev /\ t[i] = ev[i + 1]
      BY Zenon, <1>3, <1>4
    <3> QED BY Zenon, <3>1 DEF WorkQueue
  <2> QED BY Zenon, <2>1
<1>6. \A i, j \in DOMAIN t : t[i].kind = "SessionKeyReady" /\ t[i] = t[j] => i = j
  <2>1. ASSUME NEW i \in DOMAIN t, NEW j \in DOMAIN t, t[i].kind = "SessionKeyReady", t[i] = t[j]
        PROVE  i = j
    <3>1. i + 1 = j + 1
      BY <1>3, <1>4, <2>1 DEF WorkQueue
    <3> QED BY <1>4, <3>1
  <2> QED BY Zenon, <2>1
<1>7. ASSUME NEW d \in Clients, ev[1] = Event("SessionKeyReady", d)
      PROVE  /\ w[d] = "none" /\ ar[d] = BothKeys
             /\ \A i \in DOMAIN t : t[i] # Event("SessionKeyReady", d)
  <2>1. ev[1].kind = "SessionKeyReady" /\ ev[1].client = d
    BY <1>7 DEF Event
  <2>2. w[d] = "none" /\ ar[d] = BothKeys
    BY Zenon, <1>4, <2>1 DEF WorkQueue
  <2>3. ASSUME NEW i \in DOMAIN t, t[i] = Event("SessionKeyReady", d) PROVE FALSE
    <3>1. ev[i + 1] = ev[1] /\ i + 1 \in DOMAIN ev /\ i + 1 # 1
      BY Zenon, <1>3, <1>4, <1>7, <2>3
    <3> QED BY Zenon, <1>4, <2>1, <3>1 DEF WorkQueue
  <2> QED BY Zenon, <2>2, <2>3
<1>8. ASSUME NEW d \in Clients, ev[1] = Event("Started", d) PROVE w[d] = "exited"
  <2>1. ev[1].kind = "Started" /\ ev[1].client = d
    BY <1>8 DEF Event
  <2> QED BY Zenon, <1>4, <2>1 DEF WorkQueue
<1>9. WorkQueue(t, w, ar)
  BY Zenon, <1>5, <1>6 DEF WorkQueue
<1> QED BY Zenon, <1>1, <1>7, <1>8, <1>9 DEF t

\* A queued event that fits its client's worker keeps the queue and the
\* workers in agreement.
LEMMA WorkQueueGrows ==
  ASSUME NEW ev \in Seq(QueuedEvent), NEW w, NEW ar, WorkQueue(ev, w, ar), NEW e \in QueuedEvent,
         e.kind = "SessionKeyReady" =>
           /\ w[e.client] = "none" /\ ar[e.client] = BothKeys
           /\ \A i \in DOMAIN ev : ev[i] # e,
         e.kind = "Started" => w[e.client] = "exited"
  PROVE  WorkQueue(Append(ev, e), w, ar)
<1> DEFINE n == Len(ev)
           a == Append(ev, e)
<1>1. n \in Nat /\ DOMAIN ev = 1 .. n
  BY Zenon, LenProperties
<1>2. DOMAIN a = 1 .. n + 1 /\ a[n + 1] = e /\ \A i \in 1 .. n : a[i] = ev[i]
  BY <1>1, AppendProperties, LenProperties
<1> HIDE DEF n, a
<1>3. \A i \in DOMAIN a : i = n + 1 \/ (i \in DOMAIN ev /\ a[i] = ev[i])
  BY <1>1, <1>2
<1>4. /\ \A i \in DOMAIN a : a[i].kind = "SessionKeyReady" =>
           w[a[i].client] = "none" /\ ar[a[i].client] = BothKeys
      /\ \A i \in DOMAIN a : a[i].kind = "Started" => w[a[i].client] = "exited"
  BY <1>2, <1>3 DEF WorkQueue
<1>5. \A i, j \in DOMAIN a : a[i].kind = "SessionKeyReady" /\ a[i] = a[j] => i = j
  BY <1>2, <1>3 DEF WorkQueue
<1>6. WorkQueue(a, w, ar)
  BY Zenon, <1>4, <1>5 DEF WorkQueue
<1> QED BY Zenon, <1>6 DEF a

\* Workers and deliveries move without touching what is queued.
LEMMA WorkQueueStays ==
  ASSUME NEW ev \in Seq(QueuedEvent), NEW w, NEW ar, WorkQueue(ev, w, ar), NEW w2, NEW ar2, NEW c \in Clients,
         \A d \in Clients : d # c => w2[d] = w[d] /\ ar2[d] = ar[d],
         \A i \in DOMAIN ev : ev[i] # Event("SessionKeyReady", c) \/ (w2[c] = w[c] /\ ar2[c] = ar[c]),
         w[c] = "exited" => w2[c] = "exited"
  PROVE  WorkQueue(ev, w2, ar2)
<1>1. \A i \in DOMAIN ev : ev[i] \in QueuedEvent
  BY Zenon, LenProperties, ElementOfSeq
<1>2. \A i \in DOMAIN ev : ev[i].client \in Clients /\ ev[i] = Event(ev[i].kind, ev[i].client)
  BY Zenon, <1>1 DEF QueuedEvent, Event
<1> QED BY <1>2 DEF WorkQueue

\* The head of the queue is handled, by an idle Qt thread.
LEMMA Handled ==
  ASSUME CoordinatorInv, NEW k, NEW c \in Clients, Handling(k, c), Done
  PROVE  /\ events \in Seq(QueuedEvent) /\ events # <<>> /\ Head(events) = Event(k, c)
         /\ events' = Tail(events) /\ events' \in Seq(QueuedEvent)
         /\ qt = Idle /\ qt.at = "idle" /\ Seats = DOMAIN streams
<1>1. events \in Seq(QueuedEvent) /\ events # <<>> /\ Head(events) = Event(k, c) /\ events' = Tail(events) /\ qt = Idle
  BY Zenon DEF CoordinatorInv, CoordinatorTypes, Handling, Done
<1>2. events' \in Seq(QueuedEvent)
  BY Zenon, <1>1, HeadTailProperties
<1>3. qt.at = "idle"
  BY Zenon, <1>1 DEF Idle
<1>4. Seats = DOMAIN streams
  BY Zenon, <1>3 DEF Seats
<1> QED BY Zenon, <1>1, <1>2, <1>3, <1>4

\* A kick, or nothing, of the session.
LEMMA Kicked ==
  ASSUME CoordinatorTypes, NEW c \in Clients, KickSession(c) \/ UNCHANGED session
  PROVE  /\ session' \in [Clients -> {"absent", "connected", "kicked", "gone"}]
         /\ SameSessions(session, session')
BY Zenon DEF CoordinatorTypes, KickSession, Present, SameSessions

\* Streams that keep their players keep them apart.
LEMMA SlotsKept ==
  ASSUME SlotsAreUnique, DOMAIN streams' = DOMAIN streams,
         \A d \in DOMAIN streams : streams'[d].player = streams[d].player,
         records' \subseteq records \cup Used
  PROVE  SlotsAreUnique'
<1>1. Used' = Used
  BY Zenon DEF Used
<1> QED BY Zenon, <1>1 DEF SlotsAreUnique

\* A handler that changes at most a stream's flags and the records.
LEMMA HandlesQuietly ==
  ASSUME CoordinatorConstants, CoordinatorInv, NEW k, NEW c \in Clients, Handling(k, c), Done,
         k = "Disconnected" => c \notin DOMAIN streams,
         KickSession(c) \/ UNCHANGED session, UNCHANGED <<host, qt, streamer, worker, arrived>>,
         DOMAIN streams' = DOMAIN streams,
         \A d \in DOMAIN streams : /\ streams'[d] \in Stream /\ streams'[d].player = streams[d].player
                                   /\ streams'[d].routed => streams[d].routed \/ worker[d] = "exited",
         records' \subseteq records \cup Used
  PROVE  CoordinatorInv'
<1>1. /\ events \in Seq(QueuedEvent) /\ events # <<>> /\ Head(events) = Event(k, c)
      /\ events' = Tail(events) /\ events' \in Seq(QueuedEvent)
      /\ qt = Idle /\ qt.at = "idle" /\ Seats = DOMAIN streams
  BY Zenon, Handled
<1>2. session' \in [Clients -> {"absent", "connected", "kicked", "gone"}] /\ SameSessions(session, session')
  BY Zenon, Kicked DEF CoordinatorInv
<1>3. SlotsAreUnique'
  BY Zenon, SlotsKept DEF CoordinatorInv
<1>4. CoordinatorTypes'
  <2>1. Used \subseteq 0 .. Slots - 1
    BY DEF Used, CoordinatorInv, CoordinatorTypes, Stream
  <2>2. records' \subseteq 0 .. Slots - 1
    BY Zenon, <2>1 DEF CoordinatorInv, CoordinatorTypes
  <2> QED BY Zenon, <1>1, <1>2, <2>2 DEF CoordinatorInv, CoordinatorTypes
<1>5. WorkersAgree'
  <2>1. WorkQueue(events', worker, arrived)
    BY Zenon, <1>1, WorkQueueAdvances DEF CoordinatorInv, WorkersAgree
  <2> QED BY Zenon, <2>1 DEF CoordinatorInv, WorkersAgree, OrphansStop
<1>6. TeardownAgrees'
  BY Zenon, <1>1 DEF CoordinatorInv, TeardownAgrees
<1>7. host' => QueueOK(events', Seats', session')
  <2>1. Seats' = Seats
    BY Zenon, <1>1 DEF Seats
  <2>2. Seats \in SUBSET Clients
    BY Zenon, <1>1 DEF CoordinatorInv, CoordinatorTypes
  <2>3. \A d \in Clients : Event(k, c) = Event("Disconnected", d) => k = "Disconnected" /\ d = c
    BY Zenon DEF Event
  <2>4. \A d \in Clients : Head(events) = Event("Disconnected", d) => d \notin Seats
    BY Zenon, <1>1, <2>3
  <2>5. host => QueueOK(events', Seats, session')
    BY Zenon, <1>1, <1>2, <2>2, <2>4, QueueAdvances DEF CoordinatorInv
  <2> QED BY Zenon, <2>1, <2>5
<1> QED BY Zenon, <1>3, <1>4, <1>5, <1>6, <1>7 DEF CoordinatorInv

\* A queued change of permissions is handled.
LEMMA CoordPermissions ==
  ASSUME CoordinatorConstants, CoordinatorInv, NEW c \in Clients, OnPermissions(c)
  PROVE  CoordinatorInv'
<1>1. /\ Handling("Permissions", c) /\ Done
      /\ UNCHANGED <<session, host, qt, streamer, worker, arrived, streams>>
      /\ records' = IF c \in DOMAIN streams THEN records \cup {streams[c].player} ELSE records
  BY Zenon DEF OnPermissions, streamVars, linkVars
<1>2. records' \subseteq records \cup Used
  BY Zenon, <1>1 DEF Used
<1>3. \A d \in DOMAIN streams : streams[d] \in Stream
  BY Zenon DEF CoordinatorInv, CoordinatorTypes
<1> QED BY Zenon, <1>1, <1>2, <1>3, HandlesQuietly

\* A client's key is handled: it is answered once, or the player is kicked.
LEMMA CoordKeyExchange ==
  ASSUME CoordinatorConstants, CoordinatorInv, NEW c \in Clients, OnKeyExchange(c)
  PROVE  CoordinatorInv'
<1>1. /\ Handling("KeyExchange", c) /\ Done /\ (KickSession(c) \/ UNCHANGED session)
      /\ UNCHANGED <<host, qt, streamer, worker, arrived, records>>
      /\ streams' = streams \/ (c \in DOMAIN streams /\ streams' = [streams EXCEPT ![c].channel = TRUE])
  BY Zenon DEF OnKeyExchange
<1>2. \A d \in DOMAIN streams : streams[d] \in Stream
  BY Zenon DEF CoordinatorInv, CoordinatorTypes
<1>3. /\ DOMAIN streams' = DOMAIN streams
      /\ \A d \in DOMAIN streams : /\ streams'[d] \in Stream /\ streams'[d].player = streams[d].player
                                   /\ streams'[d].routed => streams[d].routed
  <2>1. CASE streams' = streams
    BY Zenon, <1>2, <2>1
  <2>2. CASE c \in DOMAIN streams /\ streams' = [streams EXCEPT ![c].channel = TRUE]
    BY Zenon, <1>2, <2>2 DEF Stream
  <2> QED BY Zenon, <1>1, <2>1, <2>2
<1> QED BY Zenon, <1>1, <1>3, HandlesQuietly

\* A start that succeeded is handled: input is routed to the player.
LEMMA CoordStarted ==
  ASSUME CoordinatorConstants, CoordinatorInv, NEW c \in Clients, OnStarted(c)
  PROVE  CoordinatorInv'
<1>1. /\ Handling("Started", c) /\ Done
      /\ UNCHANGED <<session, host, qt, streamer, worker, arrived, records>>
      /\ streams' = IF c \in DOMAIN streams THEN [streams EXCEPT ![c].routed = TRUE] ELSE streams
  BY Zenon DEF OnStarted, linkVars
<1>2. \A d \in DOMAIN streams : streams[d] \in Stream
  BY Zenon DEF CoordinatorInv, CoordinatorTypes
<1>3. worker[c] = "exited"
  <2>1. events \in Seq(QueuedEvent) /\ events # <<>> /\ Head(events) = Event("Started", c)
    BY Zenon, <1>1, Handled
  <2> QED BY Zenon, <2>1, WorkQueueAdvances DEF CoordinatorInv, WorkersAgree
<1>4. /\ DOMAIN streams' = DOMAIN streams
      /\ \A d \in DOMAIN streams : /\ streams'[d] \in Stream /\ streams'[d].player = streams[d].player
                                   /\ streams'[d].routed => streams[d].routed \/ worker[d] = "exited"
  BY Zenon, <1>1, <1>2, <1>3 DEF Stream
<1> QED BY Zenon, <1>1, <1>4, HandlesQuietly

\* A start that failed is handled: the player is kicked.
LEMMA CoordStartFailed ==
  ASSUME CoordinatorConstants, CoordinatorInv, NEW c \in Clients, OnStartFailed(c)
  PROVE  CoordinatorInv'
<1>1. /\ Handling("StartFailed", c) /\ Done /\ (KickSession(c) \/ UNCHANGED session)
      /\ UNCHANGED <<host, qt, streamer, worker, arrived, records, streams>>
  BY Zenon DEF OnStartFailed, streamVars
<1>2. \A d \in DOMAIN streams : streams[d] \in Stream
  BY Zenon DEF CoordinatorInv, CoordinatorTypes
<1> QED BY Zenon, <1>1, <1>2, HandlesQuietly

\* The confirmed keys start a streamer and its worker, for the first time.
LEMMA CoordSessionKeyReady ==
  ASSUME CoordinatorConstants, CoordinatorInv, NEW c \in Clients, OnSessionKeyReady(c)
  PROVE  CoordinatorInv'
<1>1. /\ Handling("SessionKeyReady", c) /\ Done
      /\ UNCHANGED <<session, host, qt, arrived, records>>
  BY Zenon DEF OnSessionKeyReady, linkVars
<1>2. \A d \in DOMAIN streams : streams[d] \in Stream
  BY Zenon DEF CoordinatorInv, CoordinatorTypes
<1>3. CASE UNCHANGED streamVars
  BY Zenon, <1>1, <1>2, <1>3, HandlesQuietly DEF streamVars
<1>4. CASE /\ c \in DOMAIN streams
           /\ streams' = [streams EXCEPT ![c].ready = TRUE, ![c].made = TRUE]
           /\ streamer' = [streamer EXCEPT ![c] = "made"]
           /\ worker' = [worker EXCEPT ![c] = "spawned"]
  <2>1. /\ events \in Seq(QueuedEvent) /\ events # <<>> /\ Head(events) = Event("SessionKeyReady", c)
        /\ events' = Tail(events) /\ events' \in Seq(QueuedEvent)
        /\ qt = Idle /\ qt.at = "idle" /\ Seats = DOMAIN streams
    BY Zenon, <1>1, Handled
  <2>2. /\ WorkQueue(Tail(events), worker, arrived)
        /\ worker[c] = "none" /\ arrived[c] = BothKeys
        /\ \A i \in DOMAIN Tail(events) : Tail(events)[i] # Event("SessionKeyReady", c)
    BY <2>1, WorkQueueAdvances DEF CoordinatorInv, WorkersAgree
  <2>3. /\ DOMAIN streams' = DOMAIN streams
        /\ \A d \in DOMAIN streams : /\ streams'[d] \in Stream /\ streams'[d].player = streams[d].player
                                     /\ streams'[d].routed = streams[d].routed
    BY Zenon, <1>2, <1>4 DEF Stream
  <2>4. /\ worker' \in [Clients -> {"none", "spawned", "starting", "started", "exited"}]
        /\ streamer' \in [Clients -> {"none", "made", "running", "dead", "stopped"}]
        /\ worker'[c] = "spawned" /\ streamer'[c] = "made"
        /\ \A d \in Clients : d # c => worker'[d] = worker[d] /\ streamer'[d] = streamer[d]
    BY Zenon, <1>4 DEF CoordinatorInv, CoordinatorTypes
  <2>5. SlotsAreUnique'
    BY Zenon, <1>1, <2>3, SlotsKept DEF CoordinatorInv
  <2>6. CoordinatorTypes'
    BY Zenon, <1>1, <2>1, <2>3, <2>4 DEF CoordinatorInv, CoordinatorTypes
  <2>7. WorkQueue(events', worker', arrived')
    <3>1. WorkQueue(events', worker', arrived)
      BY ZenonT(30), <2>1, <2>2, <2>4, WorkQueueStays
    <3> QED BY Zenon, <1>1, <3>1
  <2>8. WorkersAgree'
    <3>1. \A d \in Clients : /\ worker'[d] # "none" => arrived'[d] = BothKeys
                             /\ streamer'[d] = "running" => worker'[d] \in {"started", "exited"}
      <4>1. ASSUME NEW d \in Clients
            PROVE  /\ worker'[d] # "none" => arrived'[d] = BothKeys
                   /\ streamer'[d] = "running" => worker'[d] \in {"started", "exited"}
        <5>1. CASE d = c
          <6>1. arrived'[c] = BothKeys
            BY Zenon, <1>1, <2>2
          <6> QED BY Zenon, <2>4, <5>1, <6>1
        <5>2. CASE d # c
          <6>1. /\ worker[d] # "none" => arrived[d] = BothKeys
                /\ streamer[d] = "running" => worker[d] \in {"started", "exited"}
            BY Zenon DEF CoordinatorInv, WorkersAgree
          <6>2. arrived' = arrived
            BY Zenon, <1>1
          <6> QED BY Zenon, <2>4, <5>2, <6>1, <6>2
        <5> QED BY Zenon, <5>1, <5>2
      <4> QED BY Zenon, <4>1
    <3>2. \A d \in DOMAIN streams' : streams'[d].routed => worker'[d] = "exited"
      BY <2>2, <2>3, <2>4 DEF CoordinatorInv, CoordinatorTypes, WorkersAgree
    <3>3. OrphansStop'
      BY Zenon, <2>3, <2>4 DEF CoordinatorInv, WorkersAgree, OrphansStop
    <3> QED BY Zenon, <2>7, <3>1, <3>2, <3>3 DEF WorkersAgree
  <2>9. TeardownAgrees'
    BY Zenon, <1>1, <2>1, <2>3 DEF CoordinatorInv, TeardownAgrees
  <2>10. host' => QueueOK(events', Seats', session')
    <3>1. Seats' = Seats
      BY Zenon, <1>1, <2>1, <2>3 DEF Seats
    <3>2. Seats \in SUBSET Clients
      BY Zenon, <2>1 DEF CoordinatorInv, CoordinatorTypes
    <3>3. \A d \in Clients : Head(events) # Event("Disconnected", d)
      BY <2>1 DEF Event
    <3>4. SameSessions(session, session)
      BY Zenon DEF SameSessions
    <3>5. host => QueueOK(events', Seats, session)
      BY Zenon, <2>1, <3>2, <3>3, <3>4, QueueAdvances DEF CoordinatorInv
    <3> QED BY Zenon, <1>1, <3>1, <3>5
  <2> QED BY Zenon, <2>5, <2>6, <2>8, <2>9, <2>10 DEF CoordinatorInv
<1> QED BY Zenon, <1>3, <1>4 DEF OnSessionKeyReady

\* With fewer streams than slots assignPlayerIndex finds a free one.
LEMMA SlotIsFree ==
  ASSUME CoordinatorConstants, CoordinatorTypes, Cardinality(DOMAIN streams) < Slots
  PROVE  AssignPlayerIndex \in 0 .. Slots - 1 /\ AssignPlayerIndex \notin Used
<1> DEFINE free == {i \in 0 .. Slots - 1 : i \notin Used}
           f == [c \in DOMAIN streams |-> streams[c].player]
<1>1. IsFiniteSet(DOMAIN streams) /\ Cardinality(DOMAIN streams) \in Nat
  BY Zenon, FS_Subset, FS_CardinalityType DEF CoordinatorConstants, CoordinatorTypes
<1>2. IsFiniteSet(Used) /\ Cardinality(Used) <= Cardinality(DOMAIN streams) /\ Cardinality(Used) \in Nat
  <2>1. f \in Surjection(DOMAIN streams, Used)
    BY Zenon DEF Surjection, Used
  <2> QED BY Zenon, <1>1, <2>1, FS_Surjection, FS_CardinalityType
<1>3. free # {}
  <2>1. SUFFICES ASSUME free = {} PROVE FALSE
    BY Zenon
  <2>2. 0 .. Slots - 1 \subseteq Used
    BY Zenon, <2>1
  <2>3. Cardinality(0 .. Slots - 1) = Slots
    BY FS_Interval DEF CoordinatorConstants
  <2>4. Cardinality(0 .. Slots - 1) <= Cardinality(Used)
    BY Zenon, <1>2, <2>2, FS_Subset
  <2> QED BY <1>1, <1>2, <2>3, <2>4 DEF CoordinatorConstants
<1>4. PICK m \in free : \A k \in free : ~(<<k, m>> \in OpToRel(<, Nat))
  <2>1. free \subseteq Nat
    BY DEF CoordinatorConstants
  <2> HIDE DEF free
  <2> QED BY Zenon, <1>3, <2>1, WFMin, NatLessThanWellFounded
<1>5. m \in 0 .. Slots - 1 /\ m \notin Used
  BY Zenon
<1>6. ASSUME NEW j \in 0 .. m - 1 PROVE j \in Used
  <2>1. j \in 0 .. Slots - 1 /\ j \in Nat /\ m \in Nat /\ j < m
    BY <1>5 DEF CoordinatorConstants
  <2>2. j \notin free
    BY Zenon, <1>4, <2>1 DEF OpToRel
  <2> QED BY Zenon, <2>1, <2>2
<1>7. \E i \in 0 .. Slots - 1 : i \notin Used /\ \A j \in 0 .. i - 1 : j \in Used
  BY Zenon, <1>5, <1>6
<1> QED BY Zenon, <1>5, <1>7 DEF AssignPlayerIndex

\* beginKeyExchange: the client that connects fits in, because the session
\* had room for it and whoever left before it has been torn down.
LEMMA CoordConnected ==
  ASSUME CoordinatorConstants, CoordinatorInv, NEW c \in Clients, OnConnected(c)
  PROVE  CoordinatorInv'
<1>1. Handling("Connected", c) /\ Done /\ UNCHANGED <<host, qt, streamer, worker, records, arrived>>
  BY Zenon DEF OnConnected, Done
<1>2. \A d \in DOMAIN streams : streams[d] \in Stream
  BY Zenon DEF CoordinatorInv, CoordinatorTypes
<1>3. CASE UNCHANGED streams
  <2>1. KickSession(c) \/ UNCHANGED session
    BY Zenon, <1>3 DEF OnConnected
  <2> QED BY Zenon, <1>1, <1>2, <1>3, <2>1, HandlesQuietly
<1>4. CASE ~(UNCHANGED streams)
  <2> DEFINE new == [player |-> AssignPlayerIndex, channel |-> FALSE, ready |-> FALSE, made |-> FALSE,
                     routed |-> FALSE, torn |-> FALSE]
  <2>1. /\ c \notin DOMAIN streams /\ host /\ UNCHANGED session
        /\ streams' = [d \in DOMAIN streams \cup {c} |-> IF d = c THEN new ELSE streams[d]]
    BY Zenon, <1>4 DEF OnConnected
  <2>2. /\ events \in Seq(QueuedEvent) /\ events # <<>> /\ Head(events) = Event("Connected", c)
        /\ events' = Tail(events) /\ events' \in Seq(QueuedEvent)
        /\ qt = Idle /\ qt.at = "idle" /\ Seats = DOMAIN streams
    BY Zenon, <1>1, Handled
  <2>3. Cardinality(DOMAIN streams) < Slots
    <3>1. QueueOK(events, DOMAIN streams, session)
      BY Zenon, <2>1, <2>2 DEF CoordinatorInv
    <3>2. Len(events) \in Nat /\ Len(events) >= 1 /\ events[1] = Event("Connected", c)
      BY <2>2, LenProperties, EmptySeq
    <3>3. Cardinality(CrowdOf(events, DOMAIN streams, 1)) <= MaxClients
      <4>1. 1 \in 0 .. Len(events)
        BY <3>2
      <4> QED BY Zenon, <3>1, <4>1 DEF QueueOK
    <3>4. DOMAIN streams \cup {c} \subseteq CrowdOf(events, DOMAIN streams, 1)
      <4>1. \A d : events[1] # Event("Disconnected", d)
        BY <3>2 DEF Event
      <4>2. \A i \in 1 .. 1 : i = 1
        OBVIOUS
      <4>3. 1 \in 1 .. 1
        OBVIOUS
      <4> QED BY Zenon, <3>2, <4>1, <4>2, <4>3 DEF CrowdOf, CoordinatorInv, CoordinatorTypes
    <3>5. Cardinality(DOMAIN streams \cup {c}) <= MaxClients
      BY Zenon, <3>3, <3>4, CrowdSmaller
    <3>6. /\ Cardinality(DOMAIN streams) \in Nat
          /\ Cardinality(DOMAIN streams \cup {c}) = Cardinality(DOMAIN streams) + 1
      <4>1. IsFiniteSet(DOMAIN streams)
        BY Zenon, FS_Subset DEF CoordinatorConstants, CoordinatorInv, CoordinatorTypes
      <4> QED BY Zenon, <2>1, <4>1, FS_AddElement, FS_CardinalityType
    <3> QED BY <3>5, <3>6 DEF CoordinatorConstants
  <2>4. AssignPlayerIndex \in 0 .. Slots - 1 /\ AssignPlayerIndex \notin Used
    BY Zenon, <2>3, SlotIsFree DEF CoordinatorInv
  <2>5. new \in Stream /\ new.player = AssignPlayerIndex /\ new.routed = FALSE
    BY Zenon, <2>4 DEF Stream
  <2> HIDE DEF new
  <2>6. /\ DOMAIN streams' = DOMAIN streams \cup {c} /\ streams'[c] = new
        /\ \A d \in DOMAIN streams : streams'[d] = streams[d]
    BY Zenon, <2>1
  <2>7. SlotsAreUnique'
    <3>1. \A d \in DOMAIN streams : streams[d].player \in Used
      BY Zenon DEF Used
    <3>2. Used \subseteq Used'
      BY Zenon, <2>6 DEF Used
    <3>3. \A d, e \in DOMAIN streams' : streams'[d].player = streams'[e].player => d = e
      BY Zenon, <2>4, <2>5, <2>6, <3>1 DEF CoordinatorInv, SlotsAreUnique
    <3> QED BY Zenon, <1>1, <3>2, <3>3 DEF CoordinatorInv, SlotsAreUnique
  <2>8. CoordinatorTypes'
    BY Zenon, <1>1, <2>1, <2>2, <2>5, <2>6 DEF CoordinatorInv, CoordinatorTypes
  <2>9. WorkersAgree'
    <3>1. WorkQueue(events', worker, arrived)
      BY Zenon, <2>2, WorkQueueAdvances DEF CoordinatorInv, WorkersAgree
    <3>2. \A d \in DOMAIN streams' : streams'[d].routed => worker'[d] = "exited"
      BY Zenon, <1>1, <2>5, <2>6 DEF CoordinatorInv, WorkersAgree
    <3>3. OrphansStop'
      BY Zenon, <1>1, <2>6 DEF CoordinatorInv, WorkersAgree, OrphansStop
    <3> QED BY Zenon, <1>1, <3>1, <3>2, <3>3 DEF CoordinatorInv, WorkersAgree
  <2>10. TeardownAgrees'
    BY Zenon, <1>1, <2>1, <2>2 DEF CoordinatorInv, TeardownAgrees
  <2>11. QueueOK(events', Seats', session')
    <3>1. Seats' = DOMAIN streams \cup {c} /\ Seats' \in SUBSET Clients
      BY Zenon, <1>1, <2>2, <2>6 DEF Seats, CoordinatorInv, CoordinatorTypes
    <3>2. \A d \in Seats' : d \in DOMAIN streams \/ Head(events) = Event("Connected", d)
      BY Zenon, <2>2, <3>1
    <3>3. \A d \in Clients : Head(events) # Event("Disconnected", d)
      BY <2>2 DEF Event
    <3>4. SameSessions(session, session') /\ QueueOK(events, DOMAIN streams, session)
      BY Zenon, <2>1, <2>2 DEF SameSessions, CoordinatorInv
    <3> QED BY Zenon, <2>2, <3>1, <3>2, <3>3, <3>4, QueueAdvances
  <2> QED BY Zenon, <2>7, <2>8, <2>9, <2>10, <2>11 DEF CoordinatorInv
<1> QED BY Zenon, <1>3, <1>4

\* Changes of streamers that make none run: all but the running set shrinks.
LEMMA StreamersStop ==
  ASSUME CoordinatorInv, UNCHANGED <<streams, worker, arrived>>, WorkQueue(events', worker, arrived),
         \A d \in Clients : streamer'[d] = "running" => streamer[d] = "running"
  PROVE  WorkersAgree'
<1>1. \A d \in Clients : worker'[d] # "none" => arrived'[d] = BothKeys
  BY Zenon DEF CoordinatorInv, WorkersAgree
<1>2. \A d \in Clients : streamer'[d] = "running" => worker'[d] \in {"started", "exited"}
  BY Zenon DEF CoordinatorInv, WorkersAgree
<1>3. \A d \in DOMAIN streams' : streams'[d].routed => worker'[d] = "exited"
  BY Zenon DEF CoordinatorInv, WorkersAgree
<1>4. OrphansStop'
  BY Zenon DEF CoordinatorInv, WorkersAgree, OrphansStop
<1>5. WorkQueue(events', worker', arrived')
  BY Zenon
<1> QED BY Zenon, <1>1, <1>2, <1>3, <1>4, <1>5 DEF WorkersAgree

\* What stop makes of a streamer is again a state of a streamer.
LEMMA StoppedStops ==
  ASSUME CoordinatorTypes, NEW c \in Clients
  PROVE  Stopped(c) \in {"none", "made", "dead", "stopped"}
BY Zenon DEF Stopped, CoordinatorTypes

\* teardownClient of a client that has a stream, up to the stop.
LEMMA CoordTearsDown ==
  ASSUME CoordinatorConstants, CoordinatorInv, NEW c \in Clients, qt = Idle, c \in DOMAIN streams, TearDown(c),
         KickSession(c) \/ UNCHANGED session,
         \/ UNCHANGED events
         \/ events # <<>> /\ Head(events) = Event("Disconnected", c) /\ events' = Tail(events)
  PROVE  CoordinatorInv'
<1>1. /\ streamer' = [streamer EXCEPT ![c] = Stopped(c)] /\ qt' = [at |-> "stopped", client |-> c]
      /\ UNCHANGED <<host, records, streams, worker, arrived>>
  BY Zenon DEF TearDown
<1>2. /\ session' \in [Clients -> {"absent", "connected", "kicked", "gone"}]
      /\ SameSessions(session, session')
  BY Zenon, Kicked DEF CoordinatorInv
<1>3. events \in Seq(QueuedEvent) /\ events' \in Seq(QueuedEvent)
  <2>1. events \in Seq(QueuedEvent)
    BY Zenon DEF CoordinatorInv, CoordinatorTypes
  <2>2. events # <<>> => Tail(events) \in Seq(QueuedEvent)
    BY Zenon, <2>1, HeadTailProperties
  <2> QED BY Zenon, <2>1, <2>2
<1>4. /\ streamer' \in [Clients -> {"none", "made", "running", "dead", "stopped"}]
      /\ streamer'[c] # "running" /\ \A d \in Clients : d # c => streamer'[d] = streamer[d]
  <2>1. Stopped(c) \in {"none", "made", "dead", "stopped"}
    BY Zenon, StoppedStops DEF CoordinatorInv
  <2> QED BY Zenon, <1>1, <2>1 DEF CoordinatorInv, CoordinatorTypes
<1>5. qt'.at = "stopped" /\ qt'.client = c
  BY Zenon, <1>1
<1>6. CoordinatorTypes'
  <2>1. qt' \in [at : {"idle", "stopped", "forgot", "fatal", "joining"}, client : Clients \cup {Nobody}]
    BY Zenon, <1>1
  <2> QED BY Zenon, <1>1, <1>2, <1>3, <1>4, <2>1 DEF CoordinatorInv, CoordinatorTypes
<1>7. WorkersAgree'
  <2>1. WorkQueue(events, worker, arrived)
    BY Zenon DEF CoordinatorInv, WorkersAgree
  <2>2. events # <<>> => WorkQueue(Tail(events), worker, arrived)
    BY Zenon, <1>3, <2>1, WorkQueueAdvances
  <2>3. WorkQueue(events', worker, arrived)
    <3>1. events' = events \/ (events # <<>> /\ events' = Tail(events))
      BY Zenon
    <3> QED BY Zenon, <2>1, <2>2, <3>1
  <2> QED BY Zenon, <1>1, <1>4, <2>3, StreamersStop
<1>8. TeardownAgrees'
  BY Zenon, <1>1, <1>4, <1>5 DEF CoordinatorInv, TeardownAgrees
<1>9. SlotsAreUnique'
  BY Zenon, <1>1 DEF CoordinatorInv, SlotsAreUnique, Used
<1>10. host' => QueueOK(events', Seats', session')
  <2>1. Seats = DOMAIN streams
    BY Zenon DEF Seats, Idle
  <2>2. Seats' = DOMAIN streams \ {c}
    BY Zenon, <1>1, <1>5 DEF Seats
  <2>3. Seats' \subseteq Seats /\ Seats' \subseteq Clients
    BY Zenon, <2>1, <2>2 DEF CoordinatorInv, CoordinatorTypes
  <2>4. host => QueueOK(events, Seats, session)
    BY Zenon DEF CoordinatorInv
  <2>5. CASE UNCHANGED events
    BY Zenon, <1>1, <1>2, <1>3, <2>3, <2>4, <2>5, QueueStays
  <2>6. CASE events # <<>> /\ Head(events) = Event("Disconnected", c) /\ events' = Tail(events)
    <3>1. \A d \in Clients : Head(events) = Event("Disconnected", d) => d \notin Seats'
      BY <2>2, <2>6 DEF Event
    <3> QED BY Zenon, <1>1, <1>2, <1>3, <2>3, <2>4, <2>6, <3>1, QueueAdvances
  <2> QED BY Zenon, <2>5, <2>6
<1> QED BY Zenon, <1>6, <1>7, <1>8, <1>9, <1>10 DEF CoordinatorInv

\* A queued disconnection is handled: the player is torn down.
LEMMA CoordDisconnected ==
  ASSUME CoordinatorConstants, CoordinatorInv, NEW c \in Clients, OnDisconnected(c)
  PROVE  CoordinatorInv'
<1>1. Handling("Disconnected", c) /\ Done /\ TearDown(c) /\ UNCHANGED session
  BY Zenon DEF OnDisconnected
<1>2. CASE c \in DOMAIN streams
  BY Zenon, <1>1, <1>2, CoordTearsDown DEF Handling, Done
<1>3. CASE c \notin DOMAIN streams
  <2>1. UNCHANGED <<host, qt, streamer, worker, arrived, streams, records>>
    BY Zenon, <1>1, <1>3 DEF TearDown
  <2>2. \A d \in DOMAIN streams : streams[d] \in Stream
    BY Zenon DEF CoordinatorInv, CoordinatorTypes
  <2> QED BY Zenon, <1>1, <1>3, <2>1, <2>2, HandlesQuietly
<1> QED BY Zenon, <1>2, <1>3

\* A step between two events that leaves the threads and streams alone.
LEMMA CoordRests ==
  ASSUME CoordinatorConstants, CoordinatorInv, NEW c \in Clients, KickSession(c) \/ UNCHANGED session,
         UNCHANGED <<host, events, qt, streams, streamer, worker, records, arrived>>
  PROVE  CoordinatorInv'
<1>1. /\ session' \in [Clients -> {"absent", "connected", "kicked", "gone"}]
      /\ SameSessions(session, session')
  BY Zenon, Kicked DEF CoordinatorInv
<1>2. CoordinatorTypes'
  BY Zenon, <1>1 DEF CoordinatorInv, CoordinatorTypes
<1>3. WorkersAgree' /\ TeardownAgrees' /\ SlotsAreUnique'
  BY DEF CoordinatorInv, WorkersAgree, OrphansStop, TeardownAgrees, SlotsAreUnique, Used
<1>4. host' => QueueOK(events', Seats', session')
  <2>1. Seats' = Seats
    BY Zenon DEF Seats
  <2>2. host => QueueOK(events, Seats, session) /\ events \in Seq(QueuedEvent)
    BY Zenon DEF CoordinatorInv, CoordinatorTypes
  <2> QED BY Zenon, <1>1, <2>1, <2>2, QueueStays
<1> QED BY Zenon, <1>2, <1>3, <1>4 DEF CoordinatorInv

\* The user kicks a player, who is torn down at once.
LEMMA CoordKick ==
  ASSUME CoordinatorConstants, CoordinatorInv, NEW c \in Clients, Kick(c)
  PROVE  CoordinatorInv'
<1>1. qt = Idle /\ TearDown(c) /\ KickSession(c) /\ UNCHANGED events
  BY Zenon DEF Kick
<1>2. CASE c \in DOMAIN streams
  BY Zenon, <1>1, <1>2, CoordTearsDown
<1>3. CASE c \notin DOMAIN streams
  <2>1. UNCHANGED <<host, qt, streamer, worker, arrived, streams, records>>
    BY Zenon, <1>1, <1>3 DEF TearDown
  <2> QED BY Zenon, <1>1, <2>1, CoordRests
<1> QED BY Zenon, <1>2, <1>3

\* A fatal error of a streamer is handled: the streamer is stopped.
LEMMA CoordFatal ==
  ASSUME CoordinatorConstants, CoordinatorInv, NEW c \in Clients, OnFatal(c)
  PROVE  CoordinatorInv'
<1>1. /\ Handling("Fatal", c) /\ Done
      /\ UNCHANGED <<host, records, streams, worker, session, arrived>>
  BY Zenon DEF OnFatal, linkVars
<1>2. CASE UNCHANGED <<qt, streamer>>
  <2>1. \A d \in DOMAIN streams : streams[d] \in Stream
    BY Zenon DEF CoordinatorInv, CoordinatorTypes
  <2> QED BY Zenon, <1>1, <1>2, <2>1, HandlesQuietly
<1>3. CASE /\ c \in DOMAIN streams /\ streamer' = [streamer EXCEPT ![c] = "stopped"]
           /\ qt' = [at |-> "fatal", client |-> c]
  <2>1. /\ events \in Seq(QueuedEvent) /\ events # <<>> /\ Head(events) = Event("Fatal", c)
        /\ events' = Tail(events) /\ events' \in Seq(QueuedEvent)
        /\ qt = Idle /\ qt.at = "idle" /\ Seats = DOMAIN streams
    BY Zenon, <1>1, Handled
  <2>2. /\ streamer' \in [Clients -> {"none", "made", "running", "dead", "stopped"}]
        /\ streamer'[c] = "stopped" /\ \A d \in Clients : d # c => streamer'[d] = streamer[d]
    BY Zenon, <1>3 DEF CoordinatorInv, CoordinatorTypes
  <2>3. /\ qt'.at = "fatal" /\ qt'.client = c
        /\ qt' \in [at : {"idle", "stopped", "forgot", "fatal", "joining"}, client : Clients \cup {Nobody}]
    BY Zenon, <1>3
  <2>4. CoordinatorTypes'
    BY Zenon, <1>1, <2>1, <2>2, <2>3 DEF CoordinatorInv, CoordinatorTypes
  <2>5. WorkersAgree'
    <3>1. WorkQueue(events', worker, arrived)
      BY Zenon, <2>1, WorkQueueAdvances DEF CoordinatorInv, WorkersAgree
    <3> QED BY Zenon, <1>1, <2>2, <3>1, StreamersStop
  <2>6. TeardownAgrees'
    BY Zenon, <1>1, <1>3, <2>3 DEF CoordinatorInv, TeardownAgrees
  <2>7. SlotsAreUnique'
    BY Zenon, <1>1 DEF CoordinatorInv, SlotsAreUnique, Used
  <2>8. host' => QueueOK(events', Seats', session')
    <3>1. Seats' = DOMAIN streams /\ DOMAIN streams \in SUBSET Clients
      BY Zenon, <1>1, <2>3 DEF Seats, CoordinatorInv, CoordinatorTypes
    <3>2. \A d \in Clients : Head(events) # Event("Disconnected", d)
      BY <2>1 DEF Event
    <3>3. SameSessions(session, session') /\ (host => QueueOK(events, DOMAIN streams, session))
      BY Zenon, <1>1, <2>1 DEF SameSessions, CoordinatorInv
    <3>4. host' = host
      BY Zenon, <1>1
    <3> QED BY Zenon, <2>1, <3>1, <3>2, <3>3, <3>4, QueueAdvances
  <2> QED BY Zenon, <2>4, <2>5, <2>6, <2>7, <2>8 DEF CoordinatorInv
<1> QED BY Zenon, <1>2, <1>3 DEF OnFatal

\* injector_.clientDisconnected.
LEMMA CoordForgets ==
  ASSUME CoordinatorConstants, CoordinatorInv, Forget
  PROVE  CoordinatorInv'
<1> DEFINE c == qt.client
<1>1. /\ qt.at \in {"stopped", "fatal"} /\ records' = records \ {streams[c].player}
      /\ UNCHANGED <<host, events, streamer, worker, session, arrived>>
  BY Zenon DEF Forget, linkVars
<1>2. c \in DOMAIN streams /\ DOMAIN streams \subseteq Clients /\ \A d \in DOMAIN streams : streams[d] \in Stream
  BY Zenon, <1>1 DEF CoordinatorInv, CoordinatorTypes, TeardownAgrees
<1>3. events \in Seq(QueuedEvent) /\ (host => QueueOK(events, Seats, session)) /\ SameSessions(session, session)
  BY Zenon DEF CoordinatorInv, CoordinatorTypes, SameSessions
<1>4. CASE qt.at = "stopped"
  <2>1. UNCHANGED streams /\ qt' = [qt EXCEPT !.at = "forgot"]
    BY Zenon, <1>4 DEF Forget
  <2>2. /\ qt' \in [at : {"idle", "stopped", "forgot", "fatal", "joining"}, client : Clients \cup {Nobody}]
        /\ qt'.at = "forgot" /\ qt'.client = c
    BY Zenon, <2>1 DEF CoordinatorInv, CoordinatorTypes
  <2>3. CoordinatorTypes'
    BY Zenon, <1>1, <2>1, <2>2 DEF CoordinatorInv, CoordinatorTypes
  <2>4. WorkersAgree' /\ SlotsAreUnique'
    BY <1>1, <2>1 DEF CoordinatorInv, WorkersAgree, OrphansStop, SlotsAreUnique, Used
  <2>5. TeardownAgrees'
    BY Zenon, <1>1, <1>2, <1>4, <2>1, <2>2 DEF CoordinatorInv, TeardownAgrees
  <2>6. Seats' = Seats
    BY Zenon, <1>4, <2>1, <2>2 DEF Seats
  <2> QED BY Zenon, <1>1, <1>3, <2>3, <2>4, <2>5, <2>6 DEF CoordinatorInv
<1>5. CASE qt.at = "fatal"
  <2>1. qt' = Idle /\ streams' = [streams EXCEPT ![c].torn = TRUE]
    BY Zenon, <1>5 DEF Forget
  <2>2. /\ DOMAIN streams' = DOMAIN streams
        /\ \A d \in DOMAIN streams : /\ streams'[d] \in Stream /\ streams'[d].player = streams[d].player
                                     /\ streams'[d].routed = streams[d].routed
    BY Zenon, <1>2, <2>1 DEF Stream
  <2>3. /\ qt' \in [at : {"idle", "stopped", "forgot", "fatal", "joining"}, client : Clients \cup {Nobody}]
        /\ qt'.at = "idle"
    BY Zenon, <2>1 DEF Idle
  <2>4. CoordinatorTypes'
    BY Zenon, <1>1, <2>2, <2>3 DEF CoordinatorInv, CoordinatorTypes
  <2>5. SlotsAreUnique'
    BY Zenon, <1>1, <2>2, SlotsKept DEF CoordinatorInv
  <2>6. WorkersAgree'
    BY Zenon, <1>1, <2>2 DEF CoordinatorInv, WorkersAgree, OrphansStop
  <2>7. TeardownAgrees'
    BY Zenon, <1>1, <2>2, <2>3 DEF CoordinatorInv, TeardownAgrees
  <2>8. Seats' = Seats
    BY Zenon, <1>5, <2>2, <2>3 DEF Seats
  <2> QED BY Zenon, <1>1, <1>3, <2>4, <2>5, <2>6, <2>7, <2>8 DEF CoordinatorInv
<1> QED BY Zenon, <1>1, <1>4, <1>5

\* streams_.erase.
LEMMA CoordErases ==
  ASSUME CoordinatorConstants, CoordinatorInv, Erase
  PROVE  CoordinatorInv'
<1> DEFINE c == qt.client
<1>1. /\ qt.at = "forgot" /\ qt' = Idle
      /\ streams' = [d \in DOMAIN streams \ {c} |-> streams[d]]
      /\ streamer' = [streamer EXCEPT ![c] = AfterErase(c)]
      /\ UNCHANGED <<host, events, records, worker, session, arrived>>
  BY Zenon DEF Erase, linkVars
<1>2. c \in DOMAIN streams /\ c \in Clients /\ streams[c].player \notin records
  BY Zenon, <1>1 DEF CoordinatorInv, CoordinatorTypes, TeardownAgrees
<1>3. DOMAIN streams' = DOMAIN streams \ {c} /\ \A d \in DOMAIN streams \ {c} : streams'[d] = streams[d]
  BY Zenon, <1>1
<1>4. /\ AfterErase(c) \in {"none", "made", "running", "dead", "stopped"}
      /\ AfterErase(c) = "running" => streamer[c] = "running" /\ worker[c] # "exited"
  <2>1. Stopped(c) \in {"none", "made", "dead", "stopped"}
    BY Zenon, <1>2, StoppedStops DEF CoordinatorInv
  <2> QED BY Zenon, <1>2, <2>1 DEF AfterErase, CoordinatorInv, CoordinatorTypes
<1>5. /\ streamer' \in [Clients -> {"none", "made", "running", "dead", "stopped"}]
      /\ streamer'[c] = "running" => streamer[c] = "running" /\ worker[c] # "exited"
      /\ \A d \in Clients : d # c => streamer'[d] = streamer[d]
  BY Zenon, <1>1, <1>2, <1>4 DEF CoordinatorInv, CoordinatorTypes
<1>6. /\ qt' \in [at : {"idle", "stopped", "forgot", "fatal", "joining"}, client : Clients \cup {Nobody}]
      /\ qt'.at = "idle"
  BY Zenon, <1>1 DEF Idle
<1> HIDE DEF c
<1>7. CoordinatorTypes'
  BY Zenon, <1>1, <1>3, <1>5, <1>6 DEF CoordinatorInv, CoordinatorTypes
<1>8. WorkersAgree'
  <2>1. WorkQueue(events', worker', arrived') /\ (\A d \in Clients : worker'[d] # "none" => arrived'[d] = BothKeys)
    BY Zenon, <1>1 DEF CoordinatorInv, WorkersAgree
  <2>2. \A d \in Clients : streamer'[d] = "running" => worker'[d] \in {"started", "exited"}
    BY Zenon, <1>1, <1>2, <1>5 DEF CoordinatorInv, WorkersAgree
  <2>3. \A d \in DOMAIN streams' : streams'[d].routed => worker'[d] = "exited"
    BY Zenon, <1>1, <1>3 DEF CoordinatorInv, WorkersAgree
  <2>4. OrphansStop'
    BY Zenon, <1>1, <1>2, <1>3, <1>5, <2>2 DEF CoordinatorInv, WorkersAgree, OrphansStop
  <2> QED BY Zenon, <2>1, <2>2, <2>3, <2>4 DEF WorkersAgree
<1>9. TeardownAgrees'
  BY Zenon, <1>1, <1>3, <1>6 DEF CoordinatorInv, TeardownAgrees
<1>10. SlotsAreUnique'
  <2>1. \A d, e \in DOMAIN streams' : streams'[d].player = streams'[e].player => d = e
    BY Zenon, <1>3 DEF CoordinatorInv, SlotsAreUnique
  <2>2. records' \subseteq Used'
    BY <1>1, <1>2, <1>3 DEF CoordinatorInv, SlotsAreUnique, Used
  <2> QED BY Zenon, <2>1, <2>2 DEF SlotsAreUnique
<1>11. Seats' = Seats
  BY Zenon, <1>1, <1>3, <1>6 DEF Seats, c
<1> QED BY Zenon, <1>1, <1>7, <1>8, <1>9, <1>10, <1>11 DEF CoordinatorInv

\* stop of the coordinator stops every streamer and forgets its player.
LEMMA CoordStops ==
  ASSUME CoordinatorConstants, CoordinatorInv, StopHosting
  PROVE  CoordinatorInv'
<1>1. /\ qt = Idle
      /\ streamer' = [c \in Clients |-> IF c \in DOMAIN streams THEN Stopped(c) ELSE streamer[c]]
      /\ records' = records \ Used /\ qt' = [at |-> "joining", client |-> Nobody]
      /\ UNCHANGED <<host, events, streams, worker, session, arrived>>
  BY Zenon DEF StopHosting, linkVars
<1>2. \A c \in Clients : Stopped(c) \in {"none", "made", "dead", "stopped"}
  BY Zenon, StoppedStops DEF CoordinatorInv
<1>3. /\ streamer' \in [Clients -> {"none", "made", "running", "dead", "stopped"}]
      /\ \A c \in Clients : streamer'[c] = "running" => streamer[c] = "running" /\ c \notin DOMAIN streams
  BY Zenon, <1>1, <1>2 DEF CoordinatorInv, CoordinatorTypes
<1>4. /\ qt' \in [at : {"idle", "stopped", "forgot", "fatal", "joining"}, client : Clients \cup {Nobody}]
      /\ qt'.at = "joining" /\ qt.at = "idle"
  BY Zenon, <1>1 DEF Idle
<1>5. records' = {}
  BY Zenon, <1>1 DEF CoordinatorInv, SlotsAreUnique
<1>6. CoordinatorTypes'
  BY Zenon, <1>1, <1>3, <1>4, <1>5 DEF CoordinatorInv, CoordinatorTypes
<1>7. WorkersAgree'
  BY Zenon, <1>1, <1>3, StreamersStop DEF CoordinatorInv, WorkersAgree
<1>8. TeardownAgrees'
  BY Zenon, <1>1, <1>3, <1>4, <1>5 DEF CoordinatorInv, CoordinatorTypes, TeardownAgrees
<1>9. SlotsAreUnique'
  BY Zenon, <1>1, <1>5 DEF CoordinatorInv, SlotsAreUnique
<1>10. Seats' = Seats
  BY Zenon, <1>1, <1>4 DEF Seats
<1> QED BY Zenon, <1>1, <1>6, <1>7, <1>8, <1>9, <1>10 DEF CoordinatorInv

\* stop of the coordinator has joined the workers and drops map and session.
LEMMA CoordFinishesStop ==
  ASSUME CoordinatorConstants, CoordinatorInv, FinishStop
  PROVE  CoordinatorInv'
<1>1. /\ qt.at = "joining" /\ AllJoined /\ DOMAIN streams' = {} /\ host' = FALSE /\ qt' = Idle
      /\ streamer' = [c \in Clients |-> IF c \in DOMAIN streams THEN Stopped(c) ELSE streamer[c]]
      /\ session' = [c \in Clients |-> IF Present(c) THEN "gone" ELSE session[c]]
      /\ UNCHANGED <<events, records, worker, arrived>>
  BY Zenon DEF FinishStop
<1>2. \A c \in Clients : Stopped(c) \in {"none", "made", "dead", "stopped"}
  BY Zenon, StoppedStops DEF CoordinatorInv
<1>3. /\ streamer' \in [Clients -> {"none", "made", "running", "dead", "stopped"}]
      /\ \A c \in Clients : streamer'[c] # "running"
  <2>1. \A c \in Clients : c \notin DOMAIN streams => streamer[c] # "running"
    BY Zenon, <1>1 DEF CoordinatorInv, WorkersAgree, OrphansStop, AllJoined
  <2> QED BY Zenon, <1>1, <1>2, <2>1 DEF CoordinatorInv, CoordinatorTypes
<1>4. /\ qt' \in [at : {"idle", "stopped", "forgot", "fatal", "joining"}, client : Clients \cup {Nobody}]
      /\ qt'.at = "idle"
  BY Zenon, <1>1 DEF Idle
<1>5. session' \in [Clients -> {"absent", "connected", "kicked", "gone"}] /\ records' = {}
  BY Zenon, <1>1 DEF CoordinatorInv, CoordinatorTypes, TeardownAgrees
<1>6. CoordinatorTypes'
  BY Zenon, <1>1, <1>3, <1>4, <1>5 DEF CoordinatorInv, CoordinatorTypes
<1>7. WorkersAgree'
  <2>1. WorkQueue(events', worker', arrived') /\ (\A d \in Clients : worker'[d] # "none" => arrived'[d] = BothKeys)
    BY Zenon, <1>1 DEF CoordinatorInv, WorkersAgree
  <2> QED BY Zenon, <1>1, <1>3, <2>1 DEF WorkersAgree, OrphansStop
<1>8. TeardownAgrees' /\ SlotsAreUnique'
  BY Zenon, <1>1, <1>4, <1>5 DEF TeardownAgrees, SlotsAreUnique
<1> QED BY Zenon, <1>1, <1>6, <1>7, <1>8 DEF CoordinatorInv

\* A step that leaves alone all the invariant is about.
LEMMA CoordStutters ==
  ASSUME CoordinatorInv, UNCHANGED <<host, events, qt, streams, streamer, worker, records, session, arrived>>
  PROVE  CoordinatorInv'
<1>1. Seats' = Seats
  BY Zenon DEF Seats
<1> QED BY <1>1 DEF CoordinatorInv, CoordinatorTypes, WorkersAgree, OrphansStop, TeardownAgrees, SlotsAreUnique, Used

\* An event of a kind about a client has that kind and that client.
LEMMA EventQueued ==
  ASSUME NEW k \in Kinds, NEW c \in Clients
  PROVE  Event(k, c) \in QueuedEvent /\ Event(k, c).kind = k /\ Event(k, c).client = c
BY Zenon DEF Event, QueuedEvent

\* A client whose worker was spawned has no confirmation in the queue.
LEMMA ConfirmedOnce ==
  ASSUME CoordinatorInv, NEW c \in Clients, worker[c] # "none" \/ arrived[c] # BothKeys
  PROVE  \A i \in DOMAIN events : events[i] # Event("SessionKeyReady", c)
BY DEF CoordinatorInv, WorkersAgree, WorkQueue, Event

\* An event other than Connected and Disconnected is queued.
LEMMA CoordPosts ==
  ASSUME CoordinatorConstants, CoordinatorInv, NEW c \in Clients, NEW k \in Kinds \ {"Connected", "Disconnected"},
         Post(k, c), UNCHANGED <<host, qt, streams, session>>
  PROVE  /\ events' = Append(events, Event(k, c)) /\ events' \in Seq(QueuedEvent)
         /\ host' => QueueOK(events', Seats', session')
<1>1. Event(k, c) \in QueuedEvent /\ Event(k, c).kind = k
  BY Zenon, EventQueued
<1>2. events \in Seq(QueuedEvent) /\ (host => QueueOK(events, Seats, session))
  BY Zenon DEF CoordinatorInv, CoordinatorTypes
<1>3. events' = Append(events, Event(k, c))
  BY Zenon DEF Post
<1>4. events' \in Seq(QueuedEvent)
  BY Zenon, <1>1, <1>2, <1>3, AppendProperties
<1>5. Seats' = Seats
  BY Zenon DEF Seats
<1>6. ASSUME host PROVE QueueOK(Append(events, Event(k, c)), Seats, session)
  BY Zenon, <1>1, <1>2, <1>6, QueueGrows
<1> QED BY Zenon, <1>3, <1>4, <1>5, <1>6

\* The user toggles a player's input.
LEMMA CoordInputToggled ==
  ASSUME CoordinatorConstants, CoordinatorInv, NEW c \in Clients, InputToggled(c)
  PROVE  CoordinatorInv'
<1>1. Post("Permissions", c) /\ UNCHANGED <<host, qt, records, streams, streamer, worker, session, arrived>>
  BY Zenon DEF InputToggled, streamVars, linkVars
<1>2. "Permissions" \in Kinds \ {"Connected", "Disconnected"}
  BY Zenon DEF Kinds, Messages
<1>3. /\ events' = Append(events, Event("Permissions", c)) /\ events' \in Seq(QueuedEvent)
      /\ host' => QueueOK(events', Seats', session')
  BY Zenon, <1>1, <1>2, CoordPosts
<1>4. WorkQueue(events', worker, arrived)
  <2>1. Event("Permissions", c) \in QueuedEvent /\ Event("Permissions", c).kind = "Permissions"
    BY Zenon, <1>2, EventQueued
  <2> QED BY Zenon, <1>3, <2>1, WorkQueueGrows DEF CoordinatorInv, CoordinatorTypes, WorkersAgree
<1>5. WorkersAgree'
  BY Zenon, <1>1, <1>4, StreamersStop
<1>6. CoordinatorTypes' /\ TeardownAgrees' /\ SlotsAreUnique'
  BY <1>1, <1>3 DEF CoordinatorInv, CoordinatorTypes, TeardownAgrees, SlotsAreUnique, Used
<1> QED BY Zenon, <1>3, <1>5, <1>6 DEF CoordinatorInv

\* The capture thread gives up.
LEMMA CoordStreamerDies ==
  ASSUME CoordinatorConstants, CoordinatorInv, NEW c \in Clients, StreamerDies(c)
  PROVE  CoordinatorInv'
<1>1. /\ streamer' = [streamer EXCEPT ![c] = "dead"]
      /\ Post("Fatal", c) /\ UNCHANGED <<host, qt, records, streams, worker, session, arrived>>
  BY Zenon DEF StreamerDies, linkVars
<1>2. "Fatal" \in Kinds \ {"Connected", "Disconnected"}
  BY Zenon DEF Kinds, Messages
<1>3. /\ events' = Append(events, Event("Fatal", c)) /\ events' \in Seq(QueuedEvent)
      /\ host' => QueueOK(events', Seats', session')
  BY Zenon, <1>1, <1>2, CoordPosts
<1>4. WorkQueue(events', worker, arrived)
  <2>1. Event("Fatal", c) \in QueuedEvent /\ Event("Fatal", c).kind = "Fatal"
    BY Zenon, <1>2, EventQueued
  <2> QED BY Zenon, <1>3, <2>1, WorkQueueGrows DEF CoordinatorInv, CoordinatorTypes, WorkersAgree
<1>5. /\ streamer' \in [Clients -> {"none", "made", "running", "dead", "stopped"}]
      /\ \A d \in Clients : streamer'[d] = "running" => streamer[d] = "running"
  BY Zenon, <1>1 DEF CoordinatorInv, CoordinatorTypes
<1>6. WorkersAgree'
  BY Zenon, <1>1, <1>4, <1>5, StreamersStop
<1>7. CoordinatorTypes' /\ SlotsAreUnique'
  BY <1>1, <1>3, <1>5 DEF CoordinatorInv, CoordinatorTypes, SlotsAreUnique, Used
<1>8. TeardownAgrees'
  BY Zenon, <1>1, <1>5 DEF CoordinatorInv, CoordinatorTypes, TeardownAgrees
<1> QED BY Zenon, <1>3, <1>6, <1>7, <1>8 DEF CoordinatorInv

\* Input reaches the injector on the io thread of a streamer.
LEMMA CoordAppliesInput ==
  ASSUME CoordinatorConstants, CoordinatorInv, NEW c \in Clients, ApplyInput(c)
  PROVE  CoordinatorInv'
<1>1. /\ streamer[c] = "running" /\ c \in DOMAIN streams /\ streams[c].routed
      /\ records' = records \cup {streams[c].player}
      /\ UNCHANGED <<host, events, qt, streams, streamer, worker, session, arrived>>
  BY Zenon DEF ApplyInput, streamVars, linkVars
<1>2. streams[c].player \in 0 .. Slots - 1
  BY Zenon, <1>1 DEF CoordinatorInv, CoordinatorTypes, Stream
<1>3. CoordinatorTypes'
  BY Zenon, <1>1, <1>2 DEF CoordinatorInv, CoordinatorTypes
<1>4. SlotsAreUnique'
  BY Zenon, <1>1 DEF CoordinatorInv, SlotsAreUnique, Used
<1>5. TeardownAgrees'
  <2>1. qt.at = "forgot" => qt.client \in DOMAIN streams /\ qt.client # c
    BY Zenon, <1>1 DEF CoordinatorInv, TeardownAgrees
  <2>2. qt.at = "forgot" => streams[qt.client].player # streams[c].player
    BY Zenon, <1>1, <2>1 DEF CoordinatorInv, SlotsAreUnique
  <2>3. qt.at # "joining"
    BY Zenon, <1>1 DEF CoordinatorInv, TeardownAgrees
  <2> QED BY Zenon, <1>1, <2>2, <2>3 DEF CoordinatorInv, TeardownAgrees
<1>6. WorkersAgree' /\ Seats' = Seats
  BY Zenon, <1>1 DEF CoordinatorInv, WorkersAgree, OrphansStop, Seats
<1> QED BY Zenon, <1>1, <1>3, <1>4, <1>5, <1>6 DEF CoordinatorInv

\* A worker at work goes on to v.
LEMMA WorkerMoves ==
  ASSUME CoordinatorInv, NEW c \in Clients, worker[c] \in {"spawned", "starting", "started"},
         NEW v \in {"starting", "started", "exited"}, worker' = [worker EXCEPT ![c] = v],
         UNCHANGED <<streams, arrived>>, \A d \in Clients : d # c => streamer'[d] = streamer[d],
         streamer'[c] = "running" => v \in {"started", "exited"} /\ (c \notin DOMAIN streams => v = "started")
  PROVE  /\ worker' \in [Clients -> {"none", "spawned", "starting", "started", "exited"}]
         /\ WorkQueue(events, worker', arrived)
         /\ WorkQueue(events', worker', arrived) => WorkersAgree'
         /\ \A d \in DOMAIN streams : ~(streams[d].routed /\ streamer[d] = "running") =>
              ~(streams'[d].routed /\ streamer'[d] = "running")
<1>1. /\ worker' \in [Clients -> {"none", "spawned", "starting", "started", "exited"}]
      /\ worker'[c] = v /\ \A d \in Clients : d # c => worker'[d] = worker[d]
  BY Zenon DEF CoordinatorInv, CoordinatorTypes
<1>2. \A i \in DOMAIN events : events[i] # Event("SessionKeyReady", c)
  BY Zenon, ConfirmedOnce
<1>3. WorkQueue(events, worker', arrived)
  <2>1. events \in Seq(QueuedEvent) /\ WorkQueue(events, worker, arrived)
    BY Zenon DEF CoordinatorInv, CoordinatorTypes, WorkersAgree
  <2> DEFINE w2 == worker'
  <2>2. (\A d \in Clients : d # c => w2[d] = worker[d]) /\ worker[c] # "exited"
    BY Zenon, <1>1
  <2> HIDE DEF w2
  <2>3. WorkQueue(events, w2, arrived)
    BY Zenon, <1>2, <2>1, <2>2, WorkQueueStays
  <2> QED BY Zenon, <2>3 DEF w2
<1>4. DOMAIN streams \subseteq Clients /\ (c \in DOMAIN streams => ~streams[c].routed) /\ arrived[c] = BothKeys
  BY Zenon DEF CoordinatorInv, CoordinatorTypes, WorkersAgree
<1>5. \A d \in Clients : worker'[d] # "none" => arrived'[d] = BothKeys
  BY Zenon, <1>1, <1>4 DEF CoordinatorInv, WorkersAgree
<1>6. \A d \in Clients : streamer'[d] = "running" => worker'[d] \in {"started", "exited"}
  BY Zenon, <1>1 DEF CoordinatorInv, WorkersAgree
<1>7. \A d \in DOMAIN streams' : streams'[d].routed => worker'[d] = "exited"
  BY Zenon, <1>1, <1>4 DEF CoordinatorInv, WorkersAgree
<1>8. OrphansStop'
  BY Zenon, <1>1 DEF CoordinatorInv, WorkersAgree, OrphansStop
<1>9. WorkQueue(events', worker', arrived) => WorkersAgree'
  BY Zenon, <1>5, <1>6, <1>7, <1>8 DEF WorkersAgree
<1>10. \A d \in DOMAIN streams : ~(streams[d].routed /\ streamer[d] = "running") =>
         ~(streams'[d].routed /\ streamer'[d] = "running")
  BY Zenon, <1>4
<1> QED BY Zenon, <1>1, <1>3, <1>9, <1>10

\* What is left of the invariant when a worker moves.
LEMMA WorkerLeaves ==
  ASSUME CoordinatorInv, UNCHANGED <<host, qt, records, streams, session, arrived>>,
         events' \in Seq(QueuedEvent),
         worker' \in [Clients -> {"none", "spawned", "starting", "started", "exited"}],
         streamer' \in [Clients -> {"none", "made", "running", "dead", "stopped"}],
         \A d \in DOMAIN streams : ~(streams[d].routed /\ streamer[d] = "running") =>
           ~(streams'[d].routed /\ streamer'[d] = "running")
  PROVE  CoordinatorTypes' /\ TeardownAgrees' /\ SlotsAreUnique' /\ Seats' = Seats
<1>1. CoordinatorTypes'
  BY Zenon DEF CoordinatorInv, CoordinatorTypes
<1>2. TeardownAgrees'
  BY Zenon DEF CoordinatorInv, TeardownAgrees
<1>3. SlotsAreUnique' /\ Seats' = Seats
  BY Zenon DEF CoordinatorInv, SlotsAreUnique, Used, Seats
<1> QED BY Zenon, <1>1, <1>2, <1>3

\* A worker calls start of its streamer.
LEMMA CoordWorkerStarts ==
  ASSUME CoordinatorConstants, CoordinatorInv, NEW c \in Clients, WorkerStarts(c)
  PROVE  CoordinatorInv'
<1>1. /\ worker[c] = "spawned" /\ worker' = [worker EXCEPT ![c] = "starting"]
      /\ UNCHANGED <<host, events, qt, records, streams, streamer, session, arrived>>
  BY Zenon DEF WorkerStarts, linkVars
<1>2. streamer[c] # "running" /\ events \in Seq(QueuedEvent)
      /\ streamer \in [Clients -> {"none", "made", "running", "dead", "stopped"}]
  BY Zenon, <1>1 DEF CoordinatorInv, CoordinatorTypes, WorkersAgree
<1>3. /\ worker' \in [Clients -> {"none", "spawned", "starting", "started", "exited"}]
      /\ WorkQueue(events, worker', arrived)
      /\ WorkQueue(events', worker', arrived) => WorkersAgree'
      /\ \A d \in DOMAIN streams : ~(streams[d].routed /\ streamer[d] = "running") =>
           ~(streams'[d].routed /\ streamer'[d] = "running")
  BY Zenon, <1>1, <1>2, WorkerMoves
<1>4. CoordinatorTypes' /\ TeardownAgrees' /\ SlotsAreUnique' /\ Seats' = Seats
  BY Zenon, <1>1, <1>2, <1>3, WorkerLeaves
<1> QED BY Zenon, <1>1, <1>3, <1>4 DEF CoordinatorInv

\* A worker's start succeeds and announces the stream.
LEMMA CoordWorkerSucceeds ==
  ASSUME CoordinatorConstants, CoordinatorInv, NEW c \in Clients, WorkerSucceeds(c)
  PROVE  CoordinatorInv'
<1>1. /\ worker[c] = "starting" /\ worker' = [worker EXCEPT ![c] = "started"]
      /\ streamer' = [streamer EXCEPT ![c] = "running"]
      /\ UNCHANGED <<host, events, qt, records, streams, session, arrived>>
  BY Zenon DEF WorkerSucceeds
<1>2. /\ events \in Seq(QueuedEvent)
      /\ streamer' \in [Clients -> {"none", "made", "running", "dead", "stopped"}]
      /\ \A d \in Clients : d # c => streamer'[d] = streamer[d]
  BY Zenon, <1>1 DEF CoordinatorInv, CoordinatorTypes
<1>3. /\ worker' \in [Clients -> {"none", "spawned", "starting", "started", "exited"}]
      /\ WorkQueue(events, worker', arrived)
      /\ WorkQueue(events', worker', arrived) => WorkersAgree'
      /\ \A d \in DOMAIN streams : ~(streams[d].routed /\ streamer[d] = "running") =>
           ~(streams'[d].routed /\ streamer'[d] = "running")
  BY Zenon, <1>1, <1>2, WorkerMoves
<1>4. CoordinatorTypes' /\ TeardownAgrees' /\ SlotsAreUnique' /\ Seats' = Seats
  BY Zenon, <1>1, <1>2, <1>3, WorkerLeaves
<1> QED BY Zenon, <1>1, <1>3, <1>4 DEF CoordinatorInv

\* A worker's start fails, which it posts before it exits.
LEMMA CoordWorkerFails ==
  ASSUME CoordinatorConstants, CoordinatorInv, NEW c \in Clients, WorkerFails(c)
  PROVE  CoordinatorInv'
<1>1. /\ worker[c] = "starting" /\ worker' = [worker EXCEPT ![c] = "exited"] /\ Post("StartFailed", c)
      /\ UNCHANGED <<host, qt, records, streams, streamer, session, arrived>>
  BY Zenon DEF WorkerFails, linkVars
<1>2. streamer[c] # "running" /\ streamer \in [Clients -> {"none", "made", "running", "dead", "stopped"}]
  BY Zenon, <1>1 DEF CoordinatorInv, CoordinatorTypes, WorkersAgree
<1>3. "StartFailed" \in Kinds \ {"Connected", "Disconnected"}
  BY Zenon DEF Kinds, Messages
<1>4. /\ events' = Append(events, Event("StartFailed", c)) /\ events' \in Seq(QueuedEvent)
      /\ host' => QueueOK(events', Seats', session')
  BY Zenon, <1>1, <1>3, CoordPosts
<1>5. /\ worker' \in [Clients -> {"none", "spawned", "starting", "started", "exited"}]
      /\ WorkQueue(events, worker', arrived)
      /\ WorkQueue(events', worker', arrived) => WorkersAgree'
      /\ \A d \in DOMAIN streams : ~(streams[d].routed /\ streamer[d] = "running") =>
           ~(streams'[d].routed /\ streamer'[d] = "running")
  BY Zenon, <1>1, <1>2, WorkerMoves
<1>6. WorkQueue(events', worker', arrived)
  <2>1. Event("StartFailed", c) \in QueuedEvent /\ Event("StartFailed", c).kind = "StartFailed"
    BY Zenon, <1>3, EventQueued
  <2> QED BY Zenon, <1>4, <1>5, <2>1, WorkQueueGrows DEF CoordinatorInv, CoordinatorTypes
<1>7. CoordinatorTypes' /\ TeardownAgrees' /\ SlotsAreUnique' /\ Seats' = Seats
  BY Zenon, <1>1, <1>2, <1>4, <1>5, WorkerLeaves
<1> QED BY Zenon, <1>4, <1>5, <1>6, <1>7 DEF CoordinatorInv

\* A worker that started its streamer posts so and exits.
LEMMA CoordWorkerExits ==
  ASSUME CoordinatorConstants, CoordinatorInv, NEW c \in Clients, WorkerExits(c)
  PROVE  CoordinatorInv'
<1>1. /\ worker[c] = "started" /\ worker' = [worker EXCEPT ![c] = "exited"] /\ Post("Started", c)
      /\ streamer' = [streamer EXCEPT ![c] = AfterWorker(c)]
      /\ UNCHANGED <<host, qt, records, streams, session, arrived>>
  BY Zenon DEF WorkerExits, linkVars
<1>2. /\ AfterWorker(c) \in {"none", "made", "running", "dead", "stopped"}
      /\ c \notin DOMAIN streams => AfterWorker(c) # "running"
  BY Zenon, StoppedStops DEF AfterWorker, CoordinatorInv, CoordinatorTypes
<1>3. /\ streamer' \in [Clients -> {"none", "made", "running", "dead", "stopped"}]
      /\ c \notin DOMAIN streams => streamer'[c] # "running"
      /\ \A d \in Clients : d # c => streamer'[d] = streamer[d]
  BY Zenon, <1>1, <1>2 DEF CoordinatorInv, CoordinatorTypes
<1>4. "Started" \in Kinds \ {"Connected", "Disconnected"}
  BY Zenon DEF Kinds, Messages
<1>5. /\ events' = Append(events, Event("Started", c)) /\ events' \in Seq(QueuedEvent)
      /\ host' => QueueOK(events', Seats', session')
  BY Zenon, <1>1, <1>4, CoordPosts
<1>6. /\ worker' \in [Clients -> {"none", "spawned", "starting", "started", "exited"}]
      /\ WorkQueue(events, worker', arrived)
      /\ WorkQueue(events', worker', arrived) => WorkersAgree'
      /\ \A d \in DOMAIN streams : ~(streams[d].routed /\ streamer[d] = "running") =>
           ~(streams'[d].routed /\ streamer'[d] = "running")
  BY Zenon, <1>1, <1>3, WorkerMoves
<1>7. WorkQueue(events', worker', arrived)
  <2>1. /\ Event("Started", c) \in QueuedEvent
        /\ Event("Started", c).kind = "Started" /\ Event("Started", c).client = c
    BY Zenon, <1>4, EventQueued
  <2>2. worker'[c] = "exited"
    BY Zenon, <1>1 DEF CoordinatorInv, CoordinatorTypes
  <2> QED BY Zenon, <1>5, <1>6, <2>1, <2>2, WorkQueueGrows DEF CoordinatorInv, CoordinatorTypes
<1>8. CoordinatorTypes' /\ TeardownAgrees' /\ SlotsAreUnique' /\ Seats' = Seats
  BY Zenon, <1>1, <1>3, <1>5, <1>6, WorkerLeaves
<1> QED BY Zenon, <1>5, <1>6, <1>7, <1>8 DEF CoordinatorInv

\* What the io thread changes: the queue, a session and what has arrived.
LEMMA SessionLeaves ==
  ASSUME CoordinatorInv, UNCHANGED <<host, qt, records, streams, streamer, worker>>,
         events' \in Seq(QueuedEvent),
         session' \in [Clients -> {"absent", "connected", "kicked", "gone"}],
         arrived' \in [Clients -> Arrivals]
  PROVE  CoordinatorTypes' /\ TeardownAgrees' /\ SlotsAreUnique' /\ Seats' = Seats
<1>1. CoordinatorTypes' /\ TeardownAgrees'
  BY Zenon DEF CoordinatorInv, CoordinatorTypes, TeardownAgrees
<1>2. SlotsAreUnique' /\ Seats' = Seats
  BY Zenon DEF CoordinatorInv, SlotsAreUnique, Used, Seats
<1> QED BY Zenon, <1>1, <1>2

\* The session reports a client gone.
LEMMA CoordSessionEnds ==
  ASSUME CoordinatorConstants, CoordinatorInv, NEW c \in Clients, SessionEnds(c)
  PROVE  CoordinatorInv'
<1> DEFINE e == Event("Disconnected", c)
<1>1. /\ Present(c) /\ session' = [session EXCEPT ![c] = "gone"] /\ events' = Append(events, e)
      /\ UNCHANGED <<host, qt, records, streams, streamer, worker, arrived>>
  BY Zenon DEF SessionEnds, streamVars, Post
<1>2. e \in QueuedEvent /\ e.kind = "Disconnected" /\ e.client = c
  <2>1. "Disconnected" \in Kinds
    BY Zenon DEF Kinds, Messages
  <2> QED BY Zenon, <2>1, EventQueued
<1>3. events \in Seq(QueuedEvent) /\ events' \in Seq(QueuedEvent)
  BY Zenon, <1>1, <1>2, AppendProperties DEF CoordinatorInv, CoordinatorTypes
<1>4. /\ session' \in [Clients -> {"absent", "connected", "kicked", "gone"}]
      /\ session'[c] = "gone" /\ session[c] # "absent" /\ \A d \in Clients : d # c => session'[d] = session[d]
  BY Zenon, <1>1 DEF CoordinatorInv, CoordinatorTypes, Present
<1>5. CoordinatorTypes' /\ TeardownAgrees' /\ SlotsAreUnique' /\ Seats' = Seats
  BY Zenon, <1>1, <1>3, <1>4, SessionLeaves DEF CoordinatorInv, CoordinatorTypes
<1>6. WorkersAgree'
  <2>1. WorkQueue(events, worker, arrived)
    BY Zenon DEF CoordinatorInv, WorkersAgree
  <2>2. WorkQueue(events', worker, arrived)
    BY Zenon, <1>1, <1>2, <1>3, <2>1, WorkQueueGrows
  <2> QED BY Zenon, <1>1, <2>2, StreamersStop
<1>7. host' => QueueOK(events', Seats', session')
  <2>1. host => QueueOK(events, Seats, session)
    BY Zenon DEF CoordinatorInv
  <2> HIDE DEF e
  <2>2. \A d \in Clients : /\ session'[d] = "absent" <=> session[d] = "absent"
                           /\ session[d] = "gone" => session'[d] = "gone"
                           /\ session[d] \in {"connected", "kicked"} =>
                                session'[d] \in {"connected", "kicked"} \/ e = Event("Disconnected", d)
    BY Zenon, <1>4 DEF e
  <2>3. ASSUME host PROVE QueueOK(Append(events, e), Seats, session')
    BY Zenon, <1>2, <1>3, <1>4, <2>1, <2>2, <2>3, QueueGrows
  <2> QED BY Zenon, <1>1, <1>5, <2>3
<1> QED BY Zenon, <1>5, <1>6, <1>7 DEF CoordinatorInv

\* Two events are queued one after the other.
LEMMA TwoEvents ==
  ASSUME NEW ev \in Seq(QueuedEvent), NEW a \in QueuedEvent, NEW b \in QueuedEvent
  PROVE  ev \o <<a, b>> = Append(Append(ev, a), b) /\ Append(ev, a) \in Seq(QueuedEvent)
         /\ Append(Append(ev, a), b) \in Seq(QueuedEvent)
<1>1. Append(ev, a) \in Seq(QueuedEvent) /\ Append(Append(ev, a), b) \in Seq(QueuedEvent)
  BY Zenon, AppendProperties
<1>2. ev \o <<a, b>> = Append(Append(ev, a), b)
  OBVIOUS
<1> QED BY Zenon, <1>1, <1>2

\* The session reports a client connected.
LEMMA CoordSessionConnects ==
  ASSUME CoordinatorConstants, CoordinatorInv, NEW c \in Clients, SessionConnects(c)
  PROVE  CoordinatorInv'
<1> DEFINE a == Event("Connected", c)
           b == Event("Permissions", c)
           P == {d \in Clients : Present(d)}
<1>1. /\ host /\ session[c] = "absent" /\ Cardinality(P) < MaxClients
      /\ session' = [session EXCEPT ![c] = "connected"] /\ events' = events \o <<a, b>>
      /\ UNCHANGED <<host, qt, records, streams, streamer, worker, arrived>>
  BY Zenon DEF SessionConnects, streamVars
<1>2. /\ a \in QueuedEvent /\ a.kind = "Connected" /\ a.client = c
      /\ b \in QueuedEvent /\ b.kind = "Permissions" /\ b.client = c
  <2>1. "Connected" \in Kinds /\ "Permissions" \in Kinds
    BY Zenon DEF Kinds, Messages
  <2> QED BY Zenon, <2>1, EventQueued
<1>3. P \in SUBSET Clients /\ \A d \in Clients : session[d] \in {"connected", "kicked"} => d \in P
  BY Zenon DEF Present
<1>4. /\ session' \in [Clients -> {"absent", "connected", "kicked", "gone"}]
      /\ session'[c] = "connected" /\ \A d \in Clients : d # c => session'[d] = session[d]
  BY Zenon, <1>1 DEF CoordinatorInv, CoordinatorTypes
<1>5. events \in Seq(QueuedEvent) /\ QueueOK(events, Seats, session) /\ WorkQueue(events, worker, arrived)
  BY Zenon, <1>1 DEF CoordinatorInv, CoordinatorTypes, WorkersAgree
<1>6. QueueOK(Append(events, a), Seats, session')
  <2> HIDE DEF P
  <2> QED BY Zenon, <1>1, <1>3, <1>4, <1>5, QueueAdmits
<1> HIDE DEF a, b, P
<1>7. /\ events' = Append(Append(events, a), b) /\ Append(events, a) \in Seq(QueuedEvent)
      /\ events' \in Seq(QueuedEvent)
  BY Zenon, <1>1, <1>2, <1>5, TwoEvents
<1>8. QueueOK(Append(Append(events, a), b), Seats, session')
  <2> DEFINE q == Append(events, a)
  <2>1. q \in Seq(QueuedEvent) /\ QueueOK(q, Seats, session')
    BY Zenon, <1>6, <1>7
  <2> HIDE DEF q
  <2>2. QueueOK(Append(q, b), Seats, session')
    BY Zenon, <1>2, <2>1, QueueGrows
  <2> QED BY Zenon, <2>2 DEF q
<1>9. WorkQueue(events', worker, arrived)
  <2> DEFINE q == Append(events, a)
  <2>1. q \in Seq(QueuedEvent) /\ WorkQueue(q, worker, arrived)
    BY Zenon, <1>2, <1>5, <1>7, WorkQueueGrows
  <2> HIDE DEF q
  <2>2. WorkQueue(Append(q, b), worker, arrived)
    BY Zenon, <1>2, <2>1, WorkQueueGrows
  <2> QED BY Zenon, <1>7, <2>2 DEF q
<1>10. WorkersAgree'
  BY Zenon, <1>1, <1>9, StreamersStop
<1>11. CoordinatorTypes' /\ TeardownAgrees' /\ SlotsAreUnique' /\ Seats' = Seats
  BY Zenon, <1>1, <1>4, <1>7, SessionLeaves DEF CoordinatorInv, CoordinatorTypes
<1> QED BY Zenon, <1>7, <1>8, <1>10, <1>11 DEF CoordinatorInv

\* A client's messages come in the order in which it sends them: the key, then
\* the confirmation.
InTurn(c, m) ==
  \/ m = "KeyExchange" /\ arrived[c] = <<>>
  \/ m = "SessionKeyReady" /\ arrived[c] = <<"KeyExchange">>

\* A message of a client arrives, in the order the client sends them.
LEMMA CoordArrives ==
  ASSUME CoordinatorConstants, CoordinatorInv, NEW c \in Clients, NEW m, InTurn(c, m), Arrive(c, m)
  PROVE  CoordinatorInv'
<1> DEFINE e == Event(m, c)
<1>1. /\ arrived' = [arrived EXCEPT ![c] = Append(@, m)] /\ Post(m, c)
      /\ UNCHANGED <<host, qt, records, streams, streamer, worker, session>>
  BY Zenon DEF Arrive, streamVars
<1>2. m \in {"KeyExchange", "SessionKeyReady"} /\ m \in Kinds \ {"Connected", "Disconnected"}
  BY Zenon DEF InTurn, Kinds, Messages
<1>3. /\ events' = Append(events, e) /\ events' \in Seq(QueuedEvent)
      /\ host' => QueueOK(events', Seats', session')
  BY Zenon, <1>1, <1>2, CoordPosts
<1>4. /\ arrived[c] # BothKeys /\ Append(arrived[c], m) \in Arrivals
      /\ m = "SessionKeyReady" => Append(arrived[c], m) = BothKeys
  <2>1. /\ <<>> # BothKeys /\ Append(<<>>, "KeyExchange") \in Arrivals
        /\ <<"KeyExchange">> # BothKeys /\ Append(<<"KeyExchange">>, "SessionKeyReady") = BothKeys
        /\ BothKeys \in Arrivals
    <3>1. Len(<<>>) = 0 /\ Len(<<"KeyExchange">>) = 1 /\ Len(BothKeys) = 2
      BY Zenon DEF BothKeys
    <3>2. Append(<<>>, "KeyExchange") = <<"KeyExchange">>
      OBVIOUS
    <3>3. Append(<<"KeyExchange">>, "SessionKeyReady") = BothKeys
      <4> DEFINE s == Append(<<"KeyExchange">>, "SessionKeyReady")
      <4>1. s \in Seq(Messages) /\ Len(s) = 2 /\ s[1] = "KeyExchange" /\ s[2] = "SessionKeyReady"
        BY DEF Messages
      <4>2. /\ BothKeys \in Seq(Messages) /\ Len(BothKeys) = 2
            /\ BothKeys[1] = "KeyExchange" /\ BothKeys[2] = "SessionKeyReady"
        BY DEF BothKeys, Messages
      <4> HIDE DEF s
      <4>3. \A i \in 1 .. Len(s) : s[i] = BothKeys[i]
        BY <4>1, <4>2
      <4> QED BY Zenon, <4>1, <4>2, <4>3, SeqEqual DEF s
    <3> QED BY <3>1, <3>2, <3>3 DEF Arrivals
  <2>2. CASE m = "KeyExchange" /\ arrived[c] = <<>>
    BY Zenon, <2>1, <2>2
  <2>3. CASE m = "SessionKeyReady" /\ arrived[c] = <<"KeyExchange">>
    BY Zenon, <2>1, <2>3
  <2> QED BY Zenon, <2>2, <2>3 DEF InTurn
<1>5. /\ arrived' \in [Clients -> Arrivals] /\ (m = "SessionKeyReady" => arrived'[c] = BothKeys)
      /\ \A d \in Clients : d # c => arrived'[d] = arrived[d]
  BY Zenon, <1>1, <1>4 DEF CoordinatorInv, CoordinatorTypes
<1>6. worker[c] = "none"
  BY Zenon, <1>4 DEF CoordinatorInv, WorkersAgree
<1>7. \A i \in DOMAIN events : events[i] # Event("SessionKeyReady", c)
  BY Zenon, <1>4, ConfirmedOnce
<1>8. events \in Seq(QueuedEvent) /\ WorkQueue(events, worker, arrived)
  BY Zenon DEF CoordinatorInv, CoordinatorTypes, WorkersAgree
<1>9. WorkQueue(events, worker, arrived')
  <2>1. \A d \in Clients : d # c => worker[d] = worker[d] /\ arrived'[d] = arrived[d]
    BY Zenon, <1>5
  <2>2. \A i \in DOMAIN events :
          events[i] # Event("SessionKeyReady", c) \/ (worker[c] = worker[c] /\ arrived'[c] = arrived[c])
    BY Zenon, <1>7
  <2>3. worker[c] = "exited" => worker[c] = "exited"
    BY Zenon
  <2> QED BY Zenon, <1>8, <2>1, <2>2, <2>3, WorkQueueStays
<1>10. WorkQueue(events', worker', arrived')
  <2>1. e \in QueuedEvent /\ e.kind = m /\ e.client = c
    BY Zenon, <1>2, EventQueued
  <2>2. e.kind = "SessionKeyReady" =>
          /\ worker[e.client] = "none" /\ arrived'[e.client] = BothKeys
          /\ \A i \in DOMAIN events : events[i] # e
    BY Zenon, <1>5, <1>6, <1>7, <2>1
  <2>3. e.kind # "Started"
    BY Zenon, <1>2, <2>1
  <2> HIDE DEF e
  <2> QED BY Zenon, <1>1, <1>3, <1>8, <1>9, <2>1, <2>2, <2>3, WorkQueueGrows
<1>11. WorkersAgree'
  <2>1. \A d \in Clients : worker'[d] # "none" => arrived'[d] = BothKeys
    BY Zenon, <1>1, <1>5, <1>6 DEF CoordinatorInv, WorkersAgree
  <2>2. /\ \A d \in Clients : streamer'[d] = "running" => worker'[d] \in {"started", "exited"}
        /\ \A d \in DOMAIN streams' : streams'[d].routed => worker'[d] = "exited"
        /\ OrphansStop'
    BY Zenon, <1>1 DEF CoordinatorInv, WorkersAgree, OrphansStop
  <2> QED BY Zenon, <1>10, <2>1, <2>2 DEF WorkersAgree
<1>12. CoordinatorTypes' /\ TeardownAgrees' /\ SlotsAreUnique' /\ Seats' = Seats
  BY Zenon, <1>1, <1>3, <1>5, SessionLeaves DEF CoordinatorInv, CoordinatorTypes
<1> QED BY Zenon, <1>3, <1>11, <1>12 DEF CoordinatorInv

-------------------------------------------------------------------------------
\* The coordinator's invariant holds before hosting.
LEMMA CoordinatorStarts ==
  ASSUME CoordinatorConstants, HostInit
  PROVE  CoordinatorInv
<1>1. /\ host = TRUE /\ events = <<>> /\ qt = Idle /\ session = [c \in Clients |-> "absent"]
      /\ DOMAIN streams = {} /\ streamer = [c \in Clients |-> "none"] /\ worker = [c \in Clients |-> "none"]
      /\ records = {} /\ arrived = [c \in Clients |-> <<>>]
  BY Zenon DEF HostInit
<1>2. events \in Seq(QueuedEvent) /\ DOMAIN events = {} /\ Len(events) = 0
  BY <1>1
<1>3. qt \in [at : {"idle", "stopped", "forgot", "fatal", "joining"}, client : Clients \cup {Nobody}] /\ qt.at = "idle"
  BY Zenon, <1>1 DEF Idle
<1>4. CoordinatorTypes
  BY Zenon, <1>1, <1>2, <1>3 DEF CoordinatorTypes, Arrivals
<1>5. WorkersAgree
  BY Zenon, <1>1, <1>2 DEF WorkersAgree, WorkQueue, OrphansStop
<1>6. TeardownAgrees /\ SlotsAreUnique
  BY Zenon, <1>1, <1>3 DEF TeardownAgrees, SlotsAreUnique
<1>7. QueueOK(events, Seats, session)
  <2>1. \A k \in 0 .. Len(events) : CrowdOf(events, Seats, k) = {}
    BY <1>1, <1>2 DEF CrowdOf, Seats
  <2>2. Cardinality({}) <= MaxClients
    BY FS_EmptySet DEF CoordinatorConstants
  <2>3. CrowdOf(events, Seats, Len(events)) = {}
    BY <1>2, <2>1
  <2> QED BY Zenon, <1>2, <2>1, <2>2, <2>3 DEF QueueOK
<1> QED BY Zenon, <1>4, <1>5, <1>6, <1>7 DEF CoordinatorInv

\* The Qt thread handles any queued event.
LEMMA CoordinatorHandles ==
  ASSUME CoordinatorConstants, CoordinatorInv, NEW c \in Clients, HandleEvent(c)
  PROVE  CoordinatorInv'
BY Zenon, CoordConnected, CoordPermissions, CoordKeyExchange, CoordSessionKeyReady, CoordStarted, CoordStartFailed,
   CoordDisconnected, CoordFatal DEF HandleEvent

\* The steps of the host's own threads.
LEMMA CoordinatorSteps ==
  ASSUME CoordinatorConstants, CoordinatorInv, QtThread \/ User \/ Rumble \/ Session \/ Media
  PROVE  CoordinatorInv'
<1>1. CASE QtThread
  BY Zenon, <1>1, CoordForgets, CoordErases, CoordFinishesStop, CoordinatorHandles DEF QtThread
<1>2. CASE User
  BY Zenon, <1>2, CoordStops, CoordKick, CoordInputToggled DEF User
<1>3. CASE Rumble
  <2>1. UNCHANGED <<host, events, qt, streams, streamer, worker, records, session, arrived>>
    BY Zenon, <1>3 DEF Rumble, RumbleSends, RumbleFinds, streamVars, linkVars
  <2> QED BY Zenon, <2>1, CoordStutters
<1>4. CASE Session
  BY Zenon, <1>4, CoordSessionConnects, CoordSessionEnds DEF Session
<1>5. CASE Media
  BY Zenon, <1>5, CoordStreamerDies, CoordAppliesInput DEF Media
<1> QED BY Zenon, <1>1, <1>2, <1>3, <1>4, <1>5

\* A worker takes any step.
LEMMA CoordinatorWorks ==
  ASSUME CoordinatorConstants, CoordinatorInv, NEW c \in Clients, Worker(c)
  PROVE  CoordinatorInv'
BY Zenon, CoordWorkerStarts, CoordWorkerSucceeds, CoordWorkerFails, CoordWorkerExits DEF Worker

\* Every step of the host keeps the coordinator's invariant.
LEMMA CoordinatorKeeps ==
  ASSUME CoordinatorConstants, CoordinatorInv, HostNext
  PROVE  CoordinatorInv'
<1>1. CASE \E c \in Clients, m \in Messages : ClientSays(c, m) /\ Arrive(c, m)
  BY Zenon, <1>1, CoordArrives DEF ClientSays, InTurn
<1> QED BY Zenon, <1>1, CoordinatorSteps, CoordinatorWorks DEF HostNext

\* The invariant implies what is promised of slots and orphans.
LEMMA CoordinatorIsSafe ==
  CoordinatorInv => SlotsAreUnique /\ OrphansStop
BY Zenon DEF CoordinatorInv, WorkersAgree

\* No two players share a slot and no torn-down player comes back in the
\* injector (assignPlayerIndex, clientDisconnected), and a streamer whose client
\* was torn down in the middle of its start stops with its worker, for every
\* number of clients the session can admit within the slots.
THEOREM PlayersKeepTheirSlots ==
  CoordinatorConstants => (HostSpec => [](SlotsAreUnique /\ OrphansStop))
<1> SUFFICES ASSUME CoordinatorConstants PROVE HostSpec => [](SlotsAreUnique /\ OrphansStop)
  BY Zenon
<1>1. HostInit => CoordinatorInv
  BY Zenon, CoordinatorStarts
<1>2. CoordinatorInv /\ [HostNext]_hostVars => CoordinatorInv'
  BY Zenon, CoordinatorKeeps, CoordStutters DEF hostVars, streamVars, linkVars
<1> QED BY <1>1, <1>2, CoordinatorIsSafe, PTL DEF HostSpec

-------------------------------------------------------------------------------
(***************************************************************************)
(* What the host says.  Each message of the set-up goes to a client at most *)
(* once, and STREAM_START after the client has confirmed the keys.         *)
(***************************************************************************)

HostMessages == Messages \cup {"StreamStart"}
Named(ev, e) == \E i \in DOMAIN ev : ev[i] = e
NamedOnce(ev, e) == \A i, j \in DOMAIN ev : ev[i] = e /\ ev[j] = e => i = j
AllDistinct(s) == \A i, j \in DOMAIN s : s[i] = s[j] => i = j

\* The host says each of its messages to a client at most once: its key when
\* the client has connected, the confirmation for the client's key, and the
\* stream's start by the worker that started it.
SaysOnce(c) ==
  /\ AllDistinct(sent[c])
  /\ NamedOnce(events, Event("Connected", c)) /\ NamedOnce(events, Event("KeyExchange", c))
  /\ session[c] = "absent" => ~Named(events, Event("Connected", c)) /\ ~Named(sent[c], "KeyExchange")
  /\ Named(sent[c], "KeyExchange") => ~Named(events, Event("Connected", c))
  /\ Named(events, Event("KeyExchange", c)) => arrived[c] # <<>>
  /\ Named(sent[c], "SessionKeyReady") => ~Named(events, Event("KeyExchange", c)) /\ arrived[c] # <<>>
  /\ Named(sent[c], "StreamStart") => worker[c] \in {"started", "exited"}

SayingInv ==
  CoordinatorInv /\ sent \in [Clients -> Seq(HostMessages)] /\ \A c \in Clients : SaysOnce(c)

\* What remains named once the head of a queue is taken.
LEMMA NamesTail ==
  ASSUME NEW S, NEW q \in Seq(S), q # <<>>
  PROVE  /\ Tail(q) \in Seq(S) /\ Named(q, Head(q))
         /\ \A e : Named(Tail(q), e) => Named(q, e)
         /\ \A e : NamedOnce(q, e) => NamedOnce(Tail(q), e)
         /\ NamedOnce(q, Head(q)) => ~Named(Tail(q), Head(q))
<1>1. /\ Tail(q) \in Seq(S) /\ Len(q) \in Nat /\ Len(q) > 0
      /\ DOMAIN q = 1 .. Len(q) /\ DOMAIN Tail(q) = 1 .. (Len(q) - 1) /\ Head(q) = q[1]
      /\ \A i \in 1 .. (Len(q) - 1) : Tail(q)[i] = q[i + 1]
  BY HeadTailProperties, LenProperties, EmptySeq
<1>2. \A i \in DOMAIN Tail(q) : i \in Nat /\ i + 1 \in DOMAIN q /\ i + 1 # 1 /\ Tail(q)[i] = q[i + 1]
  BY <1>1
<1>3. 1 \in DOMAIN q
  BY <1>1
<1>4. Named(q, Head(q))
  BY Zenon, <1>1, <1>3 DEF Named
<1>5. \A e : Named(Tail(q), e) => Named(q, e)
  BY Zenon, <1>2 DEF Named
<1>6. \A e : NamedOnce(q, e) => NamedOnce(Tail(q), e)
  <2> SUFFICES ASSUME NEW e, NamedOnce(q, e), NEW i \in DOMAIN Tail(q), NEW j \in DOMAIN Tail(q),
                      Tail(q)[i] = e, Tail(q)[j] = e
               PROVE  i = j
    BY Zenon DEF NamedOnce
  <2>1. i + 1 = j + 1
    BY Zenon, <1>2 DEF NamedOnce
  <2> QED BY <1>2, <2>1
<1>7. NamedOnce(q, Head(q)) => ~Named(Tail(q), Head(q))
  BY Zenon, <1>1, <1>2, <1>3 DEF NamedOnce, Named
<1> QED BY Zenon, <1>1, <1>4, <1>5, <1>6, <1>7

\* What is named once an element is added to a queue.
LEMMA NamesAppend ==
  ASSUME NEW S, NEW q \in Seq(S), NEW x \in S
  PROVE  /\ Append(q, x) \in Seq(S)
         /\ \A e : Named(Append(q, x), e) <=> Named(q, e) \/ e = x
         /\ \A e : NamedOnce(q, e) /\ (e # x \/ ~Named(q, e)) => NamedOnce(Append(q, x), e)
         /\ AllDistinct(q) /\ ~Named(q, x) => AllDistinct(Append(q, x))
<1> DEFINE n == Len(q)
<1>1. /\ Append(q, x) \in Seq(S) /\ n \in Nat /\ DOMAIN q = 1 .. n /\ DOMAIN Append(q, x) = 1 .. n + 1
      /\ \A i \in 1 .. n : Append(q, x)[i] = q[i]
      /\ Append(q, x)[n + 1] = x
  BY AppendProperties, LenProperties
<1> HIDE DEF n
<1>2. \A i \in DOMAIN Append(q, x) : (i \in DOMAIN q /\ Append(q, x)[i] = q[i]) \/ (i = n + 1 /\ Append(q, x)[i] = x)
  BY <1>1
<1>3. (n + 1) \in DOMAIN Append(q, x) /\ DOMAIN q \subseteq DOMAIN Append(q, x)
  BY <1>1
<1>4. \A e : Named(Append(q, x), e) <=> Named(q, e) \/ e = x
  BY Zenon, <1>1, <1>2, <1>3 DEF Named
<1>5. \A e : NamedOnce(q, e) /\ (e # x \/ ~Named(q, e)) => NamedOnce(Append(q, x), e)
  BY Zenon, <1>2 DEF Named, NamedOnce
<1>6. AllDistinct(q) /\ ~Named(q, x) => AllDistinct(Append(q, x))
  BY Zenon, <1>2 DEF Named, AllDistinct
<1> QED BY Zenon, <1>1, <1>4, <1>5, <1>6

\* Events are equal when kind and client are.
LEMMA EventsDiffer ==
  \A k, l, c, d : Event(k, c) = Event(l, d) <=> k = l /\ c = d
BY Zenon DEF Event

\* A step in which nothing is said and neither Connected nor a key is queued.
LEMMA SaysNothing ==
  ASSUME SayingInv, UNCHANGED <<sent, arrived>>,
         \/ UNCHANGED events
         \/ events # <<>> /\ events' = Tail(events)
         \/ \E k \in Kinds \ {"Connected", "KeyExchange"}, c \in Clients : events' = Append(events, Event(k, c)),
         \A c \in Clients : session'[c] = "absent" => session[c] = "absent",
         \A c \in Clients : worker[c] \in {"started", "exited"} => worker'[c] \in {"started", "exited"}
  PROVE  sent' \in [Clients -> Seq(HostMessages)] /\ \A c \in Clients : SaysOnce(c)'
<1>0. events \in Seq(QueuedEvent)
  BY Zenon DEF SayingInv, CoordinatorInv, CoordinatorTypes
<1>1. \A k \in {"Connected", "KeyExchange"}, d \in Clients :
        /\ Named(events', Event(k, d)) => Named(events, Event(k, d))
        /\ NamedOnce(events, Event(k, d)) => NamedOnce(events', Event(k, d))
  <2>1. CASE UNCHANGED events
    BY Zenon, <2>1
  <2>2. CASE events # <<>> /\ events' = Tail(events)
    BY Zenon, <1>0, <2>2, NamesTail
  <2>3. ASSUME NEW l \in Kinds \ {"Connected", "KeyExchange"}, NEW c \in Clients, events' = Append(events, Event(l, c)),
               NEW k \in {"Connected", "KeyExchange"}, NEW d \in Clients
        PROVE  /\ Named(events', Event(k, d)) => Named(events, Event(k, d))
               /\ NamedOnce(events, Event(k, d)) => NamedOnce(events', Event(k, d))
    <3>1. Event(l, c) \in QueuedEvent /\ Event(k, d) # Event(l, c)
      BY EventQueued, EventsDiffer
    <3> QED BY <1>0, <2>3, <3>1, NamesAppend
  <2> QED BY Zenon, <2>1, <2>2, <2>3
<1>2. ASSUME NEW c \in Clients PROVE SaysOnce(c)'
  <2>1. SaysOnce(c)
    BY Zenon DEF SayingInv
  <2> QED BY Zenon, <1>1, <2>1 DEF SaysOnce
<1> QED BY Zenon, <1>2 DEF SayingInv

\* A message that was not said before is said to c.
LEMMA SendsOnce ==
  ASSUME SayingInv, NEW c \in Clients, NEW m \in HostMessages, Send(c, m), ~Named(sent[c], m)
  PROVE  /\ sent' \in [Clients -> Seq(HostMessages)] /\ AllDistinct(sent'[c])
         /\ \A k : Named(sent'[c], k) => Named(sent[c], k) \/ (k = m /\ session[c] # "absent")
         /\ \A d \in Clients : d # c => sent'[d] = sent[d]
<1>0. sent \in [Clients -> Seq(HostMessages)] /\ AllDistinct(sent[c]) /\ sent[c] \in Seq(HostMessages)
  BY Zenon DEF SayingInv, SaysOnce
<1>1. CASE ~Present(c)
  BY Zenon, <1>0, <1>1 DEF Send
<1>2. CASE Present(c)
  <2>1. sent' = [sent EXCEPT ![c] = Append(sent[c], m)] /\ session[c] # "absent"
    BY Zenon, <1>2 DEF Send, Present
  <2>2. /\ Append(sent[c], m) \in Seq(HostMessages) /\ AllDistinct(Append(sent[c], m))
        /\ \A k : Named(Append(sent[c], m), k) <=> Named(sent[c], k) \/ k = m
    BY Zenon, <1>0, NamesAppend
  <2>3. sent'[c] = Append(sent[c], m)
    BY Zenon, <1>0, <2>1
  <2> QED BY Zenon, <1>0, <2>1, <2>2, <2>3
<1> QED BY Zenon, <1>1, <1>2

\* The types that SayingInv holds.
LEMMA SayingTypes ==
  ASSUME SayingInv
  PROVE  /\ CoordinatorInv /\ events \in Seq(QueuedEvent)
         /\ session \in [Clients -> {"absent", "connected", "kicked", "gone"}]
         /\ worker \in [Clients -> {"none", "spawned", "starting", "started", "exited"}]
         /\ sent \in [Clients -> Seq(HostMessages)] /\ arrived \in [Clients -> Arrivals]
BY Zenon DEF SayingInv, CoordinatorInv, CoordinatorTypes

\* Kicked clients were there before.
LEMMA KickedWasThere ==
  ASSUME SayingInv, NEW c \in Clients, KickSession(c) \/ UNCHANGED session
  PROVE  \A d \in Clients : session'[d] = "absent" => session[d] = "absent"
<1>1. session \in [Clients -> {"absent", "connected", "kicked", "gone"}]
  BY Zenon, SayingTypes
<1>2. CASE KickSession(c)
  BY Zenon, <1>1, <1>2 DEF KickSession, Present
<1> QED BY Zenon, <1>2

\* Handlers that say nothing.
LEMMA QuietHandlers ==
  ASSUME SayingInv, NEW c \in Clients,
         OnPermissions(c) \/ OnSessionKeyReady(c) \/ OnStarted(c) \/ OnStartFailed(c) \/ OnDisconnected(c) \/ OnFatal(c)
  PROVE  sent' \in [Clients -> Seq(HostMessages)] /\ \A d \in Clients : SaysOnce(d)'
<1>0. /\ CoordinatorInv /\ events \in Seq(QueuedEvent)
      /\ worker \in [Clients -> {"none", "spawned", "starting", "started", "exited"}]
  BY Zenon, SayingTypes
<1>1. events # <<>> /\ events' = Tail(events)
  BY Zenon DEF OnPermissions, OnSessionKeyReady, OnStarted, OnStartFailed, OnDisconnected, OnFatal, Handling, Done
<1>2. UNCHANGED <<sent, arrived>>
  BY Zenon DEF OnPermissions, OnSessionKeyReady, OnStarted, OnStartFailed, OnDisconnected, OnFatal, TearDown, linkVars
<1>3. KickSession(c) \/ UNCHANGED session
  BY Zenon DEF OnPermissions, OnSessionKeyReady, OnStarted, OnStartFailed, OnDisconnected, OnFatal, TearDown, linkVars
<1>4. \A d \in Clients : worker[d] \in {"started", "exited"} => worker'[d] \in {"started", "exited"}
  <2>1. CASE OnSessionKeyReady(c)
    <3>1. worker[c] = "none"
      <4>1. Head(events) = Event("SessionKeyReady", c) /\ events # <<>>
        BY Zenon, <2>1 DEF OnSessionKeyReady, Handling
      <4> QED BY Zenon, <1>0, <4>1, WorkQueueAdvances DEF CoordinatorInv, WorkersAgree
    <3>2. worker' = worker \/ worker' = [worker EXCEPT ![c] = "spawned"]
      BY Zenon, <2>1 DEF OnSessionKeyReady, streamVars
    <3> QED BY Zenon, <1>0, <3>1, <3>2
  <2>2. CASE OnPermissions(c) \/ OnStarted(c) \/ OnStartFailed(c) \/ OnDisconnected(c) \/ OnFatal(c)
    BY Zenon, <2>2 DEF OnPermissions, OnStarted, OnStartFailed, OnDisconnected, OnFatal, TearDown, streamVars
  <2> QED BY Zenon, <2>1, <2>2
<1>5. \A d \in Clients : session'[d] = "absent" => session[d] = "absent"
  BY Zenon, <1>3, KickedWasThere
<1> QED BY Zenon, <1>1, <1>2, <1>4, <1>5, SaysNothing

\* The rest of a teardown, the end of hosting, the user and the rumble.
LEMMA QuietSteps ==
  ASSUME SayingInv, Forget \/ Erase \/ FinishStop \/ User \/ Rumble \/ Media
  PROVE  sent' \in [Clients -> Seq(HostMessages)] /\ \A d \in Clients : SaysOnce(d)'
<1>0. session \in [Clients -> {"absent", "connected", "kicked", "gone"}]
  BY Zenon, SayingTypes
<1>1. CASE Forget \/ Erase
  BY Zenon, <1>1, SaysNothing DEF Forget, Erase, linkVars
<1>2. CASE FinishStop
  <2>1. session' = [c \in Clients |-> IF Present(c) THEN "gone" ELSE session[c]] /\ UNCHANGED <<events, worker, sent, arrived>>
    BY Zenon, <1>2 DEF FinishStop
  <2>2. \A d \in Clients : session'[d] = "absent" => session[d] = "absent"
    BY Zenon, <1>0, <2>1
  <2> QED BY Zenon, <2>1, <2>2, SaysNothing
<1>3. CASE StopHosting
  BY Zenon, <1>3, SaysNothing DEF StopHosting, linkVars
<1>4. ASSUME NEW c \in Clients, Kick(c) PROVE sent' \in [Clients -> Seq(HostMessages)] /\ \A d \in Clients : SaysOnce(d)'
  <2>1. KickSession(c) /\ UNCHANGED <<events, worker, sent, arrived>>
    BY Zenon, <1>4 DEF Kick, TearDown
  <2>2. \A d \in Clients : session'[d] = "absent" => session[d] = "absent"
    BY Zenon, <2>1, KickedWasThere
  <2> QED BY Zenon, <2>1, <2>2, SaysNothing
<1>5. ASSUME NEW c \in Clients, InputToggled(c)
      PROVE  sent' \in [Clients -> Seq(HostMessages)] /\ \A d \in Clients : SaysOnce(d)'
  <2>1. events' = Append(events, Event("Permissions", c)) /\ UNCHANGED <<worker, session, sent, arrived>>
    BY Zenon, <1>5 DEF InputToggled, Post, streamVars, linkVars
  <2>2. "Permissions" \in Kinds \ {"Connected", "KeyExchange"}
    BY Zenon DEF Kinds
  <2> QED BY Zenon, <2>1, <2>2, SaysNothing
<1>6. CASE Rumble
  BY Zenon, <1>6, SaysNothing DEF Rumble, RumbleSends, RumbleFinds, streamVars, linkVars
<1>7. ASSUME NEW c \in Clients, StreamerDies(c)
      PROVE  sent' \in [Clients -> Seq(HostMessages)] /\ \A d \in Clients : SaysOnce(d)'
  <2>1. events' = Append(events, Event("Fatal", c)) /\ UNCHANGED <<worker, session, sent, arrived>>
    BY Zenon, <1>7 DEF StreamerDies, Post, linkVars
  <2>2. "Fatal" \in Kinds \ {"Connected", "KeyExchange"}
    BY Zenon DEF Kinds
  <2> QED BY Zenon, <2>1, <2>2, SaysNothing
<1>8. ASSUME NEW c \in Clients, ApplyInput(c)
      PROVE  sent' \in [Clients -> Seq(HostMessages)] /\ \A d \in Clients : SaysOnce(d)'
  BY Zenon, <1>8, SaysNothing DEF ApplyInput, streamVars, linkVars
<1> QED BY Zenon, <1>1, <1>2, <1>3, <1>4, <1>5, <1>6, <1>7, <1>8 DEF User, Media

\* beginKeyExchange says the host's key.
LEMMA SaysKey ==
  ASSUME SayingInv, NEW c \in Clients, OnConnected(c)
  PROVE  sent' \in [Clients -> Seq(HostMessages)] /\ \A d \in Clients : SaysOnce(d)'
<1>0. events \in Seq(QueuedEvent) /\ SaysOnce(c) /\ \A d \in Clients : SaysOnce(d)
  BY Zenon, SayingTypes DEF SayingInv
<1>1. /\ events # <<>> /\ Head(events) = Event("Connected", c) /\ events' = Tail(events)
      /\ UNCHANGED <<worker, arrived>>
  BY Zenon DEF OnConnected, Handling, Done
<1>2. /\ \A e : Named(events', e) => Named(events, e)
      /\ \A e : NamedOnce(events, e) => NamedOnce(events', e)
      /\ Named(events, Event("Connected", c)) /\ ~Named(events', Event("Connected", c))
  BY <1>0, <1>1, NamesTail DEF SaysOnce
<1>3. CASE UNCHANGED sent /\ (KickSession(c) \/ UNCHANGED session)
  <2>1. \A d \in Clients : session'[d] = "absent" => session[d] = "absent"
    BY Zenon, <1>3, KickedWasThere
  <2> QED BY Zenon, <1>1, <1>3, <2>1, SaysNothing
<1>4. CASE Send(c, "KeyExchange") /\ UNCHANGED session
  <2>1. "KeyExchange" \in HostMessages /\ ~Named(sent[c], "KeyExchange")
    BY Zenon, <1>0, <1>2 DEF SaysOnce, HostMessages, Messages
  <2>2. /\ sent' \in [Clients -> Seq(HostMessages)] /\ AllDistinct(sent'[c])
        /\ \A k : Named(sent'[c], k) => Named(sent[c], k) \/ (k = "KeyExchange" /\ session[c] # "absent")
        /\ \A d \in Clients : d # c => sent'[d] = sent[d]
    BY Zenon, <1>4, <2>1, SendsOnce
  <2>3. ASSUME NEW d \in Clients PROVE SaysOnce(d)'
    <3>1. CASE d = c
      <4>1. NamedOnce(events', Event("Connected", c)) /\ NamedOnce(events', Event("KeyExchange", c))
        BY Zenon, <1>0, <1>2 DEF SaysOnce
      <4>2. session'[c] = "absent" => ~Named(sent'[c], "KeyExchange")
        BY Zenon, <1>0, <1>4, <2>2 DEF SaysOnce
      <4>3. /\ Named(sent'[c], "SessionKeyReady") => Named(sent[c], "SessionKeyReady")
            /\ Named(sent'[c], "StreamStart") => Named(sent[c], "StreamStart")
        BY <2>2
      <4>4. SaysOnce(c)'
        BY Zenon, <1>0, <1>1, <1>2, <2>2, <4>1, <4>2, <4>3 DEF SaysOnce
      <4> QED BY Zenon, <3>1, <4>4
    <3>2. CASE d # c
      BY Zenon, <1>0, <1>1, <1>2, <1>4, <2>2, <3>2 DEF SaysOnce
    <3> QED BY Zenon, <3>1, <3>2
  <2> QED BY Zenon, <2>2, <2>3
<1> QED BY Zenon, <1>3, <1>4 DEF OnConnected

\* The client's key is confirmed.
LEMMA SaysKeyReady ==
  ASSUME SayingInv, NEW c \in Clients, OnKeyExchange(c)
  PROVE  sent' \in [Clients -> Seq(HostMessages)] /\ \A d \in Clients : SaysOnce(d)'
<1>0. events \in Seq(QueuedEvent) /\ SaysOnce(c) /\ \A d \in Clients : SaysOnce(d)
  BY Zenon, SayingTypes DEF SayingInv
<1>1. /\ events # <<>> /\ Head(events) = Event("KeyExchange", c) /\ events' = Tail(events)
      /\ UNCHANGED <<worker, arrived>>
  BY Zenon DEF OnKeyExchange, Handling, Done
<1>2. /\ \A e : Named(events', e) => Named(events, e)
      /\ \A e : NamedOnce(events, e) => NamedOnce(events', e)
      /\ Named(events, Event("KeyExchange", c)) /\ ~Named(events', Event("KeyExchange", c))
  BY <1>0, <1>1, NamesTail DEF SaysOnce
<1>3. CASE UNCHANGED sent /\ (KickSession(c) \/ UNCHANGED session)
  <2>1. \A d \in Clients : session'[d] = "absent" => session[d] = "absent"
    BY Zenon, <1>3, KickedWasThere
  <2> QED BY Zenon, <1>1, <1>3, <2>1, SaysNothing
<1>4. CASE Send(c, "SessionKeyReady") /\ UNCHANGED session
  <2>1. "SessionKeyReady" \in HostMessages /\ ~Named(sent[c], "SessionKeyReady") /\ arrived[c] # <<>>
    BY Zenon, <1>0, <1>2 DEF SaysOnce, HostMessages, Messages
  <2>2. /\ sent' \in [Clients -> Seq(HostMessages)] /\ AllDistinct(sent'[c])
        /\ \A k : Named(sent'[c], k) => Named(sent[c], k) \/ (k = "SessionKeyReady" /\ session[c] # "absent")
        /\ \A d \in Clients : d # c => sent'[d] = sent[d]
    BY Zenon, <1>4, <2>1, SendsOnce
  <2>3. ASSUME NEW d \in Clients PROVE SaysOnce(d)'
    <3>1. CASE d = c
      BY Zenon, <1>0, <1>1, <1>2, <1>4, <2>1, <2>2, <3>1 DEF SaysOnce
    <3>2. CASE d # c
      BY Zenon, <1>0, <1>1, <1>2, <1>4, <2>2, <3>2 DEF SaysOnce
    <3> QED BY Zenon, <3>1, <3>2
  <2> QED BY Zenon, <2>2, <2>3
<1> QED BY Zenon, <1>3, <1>4 DEF OnKeyExchange

\* The worker announces the stream.
LEMMA SaysStart ==
  ASSUME SayingInv, NEW c \in Clients, Worker(c)
  PROVE  sent' \in [Clients -> Seq(HostMessages)] /\ \A d \in Clients : SaysOnce(d)'
<1>0. /\ \A d \in Clients : SaysOnce(d)
      /\ worker \in [Clients -> {"none", "spawned", "starting", "started", "exited"}]
  BY Zenon, SayingTypes DEF SayingInv
<1>1. CASE WorkerStarts(c)
  <2>1. worker[c] = "spawned" /\ worker' = [worker EXCEPT ![c] = "starting"] /\ UNCHANGED <<events, session, sent, arrived>>
    BY Zenon, <1>1 DEF WorkerStarts, linkVars
  <2>2. \A d \in Clients : worker[d] \in {"started", "exited"} => worker'[d] \in {"started", "exited"}
    BY Zenon, <1>0, <2>1
  <2> QED BY Zenon, <2>1, <2>2, SaysNothing
<1>2. ASSUME NEW k \in {"StartFailed", "Started"}, worker' = [worker EXCEPT ![c] = "exited"], Post(k, c),
             UNCHANGED linkVars
      PROVE  sent' \in [Clients -> Seq(HostMessages)] /\ \A d \in Clients : SaysOnce(d)'
  <2>1. events' = Append(events, Event(k, c)) /\ UNCHANGED <<session, sent, arrived>>
    BY Zenon, <1>2 DEF Post, linkVars
  <2>2. \A d \in Clients : worker[d] \in {"started", "exited"} => worker'[d] \in {"started", "exited"}
    BY Zenon, <1>0, <1>2
  <2>3. k \in Kinds \ {"Connected", "KeyExchange"}
    BY Zenon DEF Kinds
  <2> QED BY Zenon, <2>1, <2>2, <2>3, SaysNothing
<1>3. CASE WorkerFails(c)
  BY Zenon, <1>2, <1>3 DEF WorkerFails
<1>4. CASE WorkerExits(c)
  BY Zenon, <1>2, <1>4 DEF WorkerExits
<1>5. CASE WorkerSucceeds(c)
  <2>1. /\ worker[c] = "starting" /\ worker' = [worker EXCEPT ![c] = "started"]
        /\ Send(c, "StreamStart") /\ UNCHANGED <<events, session, arrived>>
    BY Zenon, <1>5 DEF WorkerSucceeds
  <2>2. "StreamStart" \in HostMessages /\ ~Named(sent[c], "StreamStart")
    BY Zenon, <1>0, <2>1 DEF SaysOnce, HostMessages
  <2>3. /\ sent' \in [Clients -> Seq(HostMessages)] /\ AllDistinct(sent'[c])
        /\ \A k : Named(sent'[c], k) => Named(sent[c], k) \/ (k = "StreamStart" /\ session[c] # "absent")
        /\ \A d \in Clients : d # c => sent'[d] = sent[d]
    BY Zenon, <2>1, <2>2, SendsOnce
  <2>4. worker'[c] = "started" /\ \A d \in Clients : d # c => worker'[d] = worker[d]
    BY Zenon, <1>0, <2>1
  <2>5. ASSUME NEW d \in Clients PROVE SaysOnce(d)'
    <3>1. CASE d = c
      BY <1>0, <2>1, <2>3, <2>4, <3>1 DEF SaysOnce
    <3>2. CASE d # c
      BY Zenon, <1>0, <2>1, <2>3, <2>4, <3>2 DEF SaysOnce
    <3> QED BY Zenon, <3>1, <3>2
  <2> QED BY Zenon, <2>3, <2>5
<1> QED BY Zenon, <1>1, <1>3, <1>4, <1>5 DEF Worker

\* A client connects or goes.
LEMMA SaysWithSession ==
  ASSUME SayingInv, NEW c \in Clients, SessionConnects(c) \/ SessionEnds(c)
  PROVE  sent' \in [Clients -> Seq(HostMessages)] /\ \A d \in Clients : SaysOnce(d)'
<1>0. /\ \A d \in Clients : SaysOnce(d)
      /\ events \in Seq(QueuedEvent) /\ sent \in [Clients -> Seq(HostMessages)]
      /\ session \in [Clients -> {"absent", "connected", "kicked", "gone"}]
  BY Zenon, SayingTypes DEF SayingInv
<1>1. CASE SessionEnds(c)
  <2>1. events' = Append(events, Event("Disconnected", c)) /\ session' = [session EXCEPT ![c] = "gone"]
        /\ UNCHANGED <<worker, sent, arrived>>
    BY Zenon, <1>1 DEF SessionEnds, Post, streamVars
  <2>2. \A d \in Clients : session'[d] = "absent" => session[d] = "absent"
    BY Zenon, <1>0, <2>1
  <2>3. "Disconnected" \in Kinds \ {"Connected", "KeyExchange"}
    BY Zenon DEF Kinds
  <2> QED BY Zenon, <2>1, <2>2, <2>3, SaysNothing
<1>2. CASE SessionConnects(c)
  <2> DEFINE a == Event("Connected", c)
             b == Event("Permissions", c)
             ev == Append(events, a)
  <2>1. /\ session[c] = "absent" /\ session' = [session EXCEPT ![c] = "connected"]
        /\ events' = events \o <<a, b>> /\ UNCHANGED <<worker, sent, arrived>>
    BY Zenon, <1>2 DEF SessionConnects, streamVars
  <2>2. a \in QueuedEvent /\ b \in QueuedEvent
    BY Zenon, EventQueued DEF Kinds
  <2>3. \A k \in {"Connected", "KeyExchange"}, d \in Clients : Event(k, d) # b
    BY EventsDiffer
  <2>4. \A k \in {"Connected", "KeyExchange"}, d \in Clients : Event(k, d) = a => k = "Connected" /\ d = c
    BY EventsDiffer
  <2> HIDE DEF a, b
  <2>5. events' = Append(ev, b) /\ ev \in Seq(QueuedEvent)
    BY Zenon, <1>0, <2>1, <2>2, TwoEvents
  <2>6. /\ \A e : Named(ev, e) <=> Named(events, e) \/ e = a
        /\ \A e : NamedOnce(events, e) /\ (e # a \/ ~Named(events, e)) => NamedOnce(ev, e)
    BY Zenon, <1>0, <2>2, NamesAppend
  <2> HIDE DEF ev
  <2>7. /\ \A e : Named(events', e) <=> Named(ev, e) \/ e = b
        /\ \A e : NamedOnce(ev, e) /\ (e # b \/ ~Named(ev, e)) => NamedOnce(events', e)
    BY Zenon, <2>2, <2>5, NamesAppend
  <2>8. session'[c] = "connected" /\ \A d \in Clients : d # c => session'[d] = session[d]
    BY Zenon, <1>0, <2>1
  <2>9. ASSUME NEW d \in Clients PROVE SaysOnce(d)'
    <3>1. CASE d = c
      <4>1. ~Named(events, Event("Connected", c)) /\ ~Named(sent[c], "KeyExchange") /\ a = Event("Connected", c)
        BY Zenon, <1>0, <2>1 DEF SaysOnce, a
      <4>2. NamedOnce(events', Event("Connected", c)) /\ NamedOnce(events', Event("KeyExchange", c))
        BY Zenon, <1>0, <2>3, <2>4, <2>6, <2>7, <4>1 DEF SaysOnce
      <4>3. Named(events', Event("KeyExchange", c)) => Named(events, Event("KeyExchange", c))
        BY Zenon, <2>3, <2>4, <2>6, <2>7
      <4> QED BY Zenon, <1>0, <2>1, <2>8, <3>1, <4>1, <4>2, <4>3 DEF SaysOnce
    <3>2. CASE d # c
      <4>1. \A k \in {"Connected", "KeyExchange"} :
              /\ Named(events', Event(k, d)) => Named(events, Event(k, d))
              /\ NamedOnce(events, Event(k, d)) => NamedOnce(events', Event(k, d))
        BY Zenon, <2>3, <2>4, <2>6, <2>7, <3>2
      <4> QED BY Zenon, <1>0, <2>1, <2>8, <3>2, <4>1 DEF SaysOnce
    <3> QED BY Zenon, <3>1, <3>2
  <2> QED BY Zenon, <1>0, <2>1, <2>9
<1> QED BY Zenon, <1>1, <1>2

\* A message of the client's, in turn.
LEMMA SaysWhenHeard ==
  ASSUME SayingInv, NEW c \in Clients, NEW m, InTurn(c, m), Arrive(c, m)
  PROVE  sent' \in [Clients -> Seq(HostMessages)] /\ \A d \in Clients : SaysOnce(d)'
<1>0. /\ \A d \in Clients : SaysOnce(d)
      /\ events \in Seq(QueuedEvent) /\ sent \in [Clients -> Seq(HostMessages)]
      /\ arrived \in [Clients -> Arrivals]
  BY Zenon, SayingTypes DEF SayingInv
<1>1. /\ events' = Append(events, Event(m, c)) /\ arrived' = [arrived EXCEPT ![c] = Append(arrived[c], m)]
      /\ UNCHANGED <<worker, sent, session>>
  BY Zenon DEF Arrive, Post, streamVars
<1>2. m \in {"KeyExchange", "SessionKeyReady"} /\ Event(m, c) \in QueuedEvent
  BY Zenon, EventQueued DEF InTurn, Kinds, Messages
<1>3. /\ \A e : Named(events', e) <=> Named(events, e) \/ e = Event(m, c)
      /\ \A e : NamedOnce(events, e) /\ (e # Event(m, c) \/ ~Named(events, e)) => NamedOnce(events', e)
  BY <1>0, <1>1, <1>2, NamesAppend
<1>4. arrived'[c] # <<>> /\ \A d \in Clients : d # c => arrived'[d] = arrived[d]
  <2>1. arrived[c] \in Seq(Messages) /\ m \in Messages
    <3>1. m \in Messages /\ <<>> \in Seq(Messages) /\ <<"KeyExchange">> \in Seq(Messages)
      BY <1>2 DEF Messages
    <3>2. arrived[c] = <<>> \/ arrived[c] = <<"KeyExchange">>
      BY Zenon DEF InTurn
    <3> QED BY Zenon, <3>1, <3>2
  <2>2. Append(arrived[c], m) # <<>>
    BY <2>1, AppendProperties
  <2> QED BY Zenon, <1>0, <1>1, <2>2
<1>5. ASSUME NEW d \in Clients PROVE SaysOnce(d)'
  <2>1. \A e : Named(events', Event("Connected", d)) => Named(events, Event("Connected", d))
    BY <1>2, <1>3, EventsDiffer
  <2>2. NamedOnce(events', Event("Connected", d))
    BY SMTT(30), <1>0, <1>2, <1>3, EventsDiffer DEF SaysOnce
  <2>3. CASE d = c /\ m = "KeyExchange"
    <3>1. arrived[c] = <<>>
      BY Zenon, <2>3 DEF InTurn
    <3>2. ~Named(events, Event("KeyExchange", c)) /\ ~Named(sent[c], "SessionKeyReady")
      BY Zenon, <1>0, <3>1 DEF SaysOnce
    <3>3. NamedOnce(events', Event("KeyExchange", c))
      BY Zenon, <1>0, <1>3, <3>2 DEF SaysOnce
    <3> QED BY Zenon, <1>0, <1>1, <1>4, <2>1, <2>2, <2>3, <3>2, <3>3 DEF SaysOnce
  <2>4. CASE ~(d = c /\ m = "KeyExchange")
    <3>1. Event("KeyExchange", d) # Event(m, c)
      BY <2>4, EventsDiffer
    <3>2. /\ Named(events', Event("KeyExchange", d)) => Named(events, Event("KeyExchange", d))
          /\ NamedOnce(events', Event("KeyExchange", d))
      BY Zenon, <1>0, <1>3, <3>1 DEF SaysOnce
    <3>3. arrived[d] # <<>> => arrived'[d] # <<>>
      BY Zenon, <1>4
    <3> QED BY Zenon, <1>0, <1>1, <2>1, <2>2, <3>2, <3>3 DEF SaysOnce
  <2> QED BY Zenon, <2>3, <2>4
<1> QED BY Zenon, <1>0, <1>1, <1>5

\* Nothing was said before hosting.
LEMMA SayingStarts ==
  ASSUME CoordinatorConstants, HostInit
  PROVE  SayingInv
<1>1. CoordinatorInv
  BY Zenon, CoordinatorStarts
<1>2. events = <<>> /\ sent = [c \in Clients |-> <<>>]
  BY Zenon DEF HostInit
<1>3. sent \in [Clients -> Seq(HostMessages)]
  BY Zenon, <1>2, EmptySeq
<1>4. ASSUME NEW c \in Clients PROVE SaysOnce(c)
  <2>1. sent[c] = <<>>
    BY Zenon, <1>2
  <2>2. /\ AllDistinct(<<>>) /\ \A e : ~Named(<<>>, e) /\ NamedOnce(<<>>, e)
    BY DEF AllDistinct, Named, NamedOnce
  <2> QED BY Zenon, <1>2, <2>1, <2>2 DEF SaysOnce
<1> QED BY Zenon, <1>1, <1>3, <1>4 DEF SayingInv

\* The Qt thread, the user, the session and the media say each message once.
LEMMA SayingSteps ==
  ASSUME CoordinatorConstants, SayingInv, QtThread \/ User \/ Rumble \/ Session \/ Media
  PROVE  SayingInv'
<1>1. CoordinatorInv'
  BY Zenon, CoordinatorSteps DEF SayingInv
<1>2. sent' \in [Clients -> Seq(HostMessages)] /\ \A d \in Clients : SaysOnce(d)'
  <2>1. ASSUME NEW c \in Clients, HandleEvent(c)
        PROVE  sent' \in [Clients -> Seq(HostMessages)] /\ \A d \in Clients : SaysOnce(d)'
    BY Zenon, <2>1, SaysKey, SaysKeyReady, QuietHandlers DEF HandleEvent
  <2>2. CASE QtThread
    BY Zenon, <2>1, <2>2, QuietSteps DEF QtThread
  <2>3. CASE Session
    BY Zenon, <2>3, SaysWithSession DEF Session
  <2> QED BY Zenon, <2>2, <2>3, QuietSteps
<1> QED BY Zenon, <1>1, <1>2 DEF SayingInv

\* A worker says STREAM_START once.
LEMMA SayingWorks ==
  ASSUME CoordinatorConstants, SayingInv, NEW c \in Clients, Worker(c)
  PROVE  SayingInv'
<1>1. CoordinatorInv'
  BY Zenon, CoordinatorWorks DEF SayingInv
<1> QED BY Zenon, <1>1, SaysStart DEF SayingInv

\* A message that arrives is answered once.
LEMMA SayingHears ==
  ASSUME CoordinatorConstants, SayingInv, NEW c \in Clients, NEW m, InTurn(c, m), Arrive(c, m)
  PROVE  SayingInv'
<1>1. CoordinatorInv'
  BY Zenon, CoordArrives DEF SayingInv
<1> QED BY Zenon, <1>1, SaysWhenHeard DEF SayingInv

\* A step that touches nothing of the coordinator keeps SayingInv.
LEMMA SayingStutters ==
  ASSUME SayingInv, UNCHANGED <<host, events, qt, streams, streamer, worker, records, session, sent, arrived>>
  PROVE  SayingInv'
<1>1. CoordinatorInv'
  BY Zenon, CoordStutters DEF SayingInv
<1>2. sent' \in [Clients -> Seq(HostMessages)] /\ \A d \in Clients : SaysOnce(d)'
  BY Zenon, SaysNothing
<1> QED BY Zenon, <1>1, <1>2 DEF SayingInv

Extends(s, t) == Len(s) <= Len(t) /\ \A i \in 1 .. Len(s) : t[i] = s[i]

\* The host's own steps take nothing back that was said, and hear nothing.
LEMMA HostOnlyAdds ==
  ASSUME SayingInv, QtThread \/ User \/ Rumble \/ Session \/ Media \/ \E c \in Clients : Worker(c)
  PROVE  UNCHANGED arrived /\ \A c \in Clients : Extends(sent[c], sent'[c])
<1>0. sent \in [Clients -> Seq(HostMessages)]
  BY Zenon, SayingTypes
<1>1. ASSUME UNCHANGED sent PROVE \A c \in Clients : Extends(sent[c], sent'[c])
  <2> TAKE c \in Clients
  <2>1. Len(sent[c]) \in Nat
    BY Zenon, <1>0, LenProperties
  <2> QED BY <1>1, <2>1 DEF Extends
<1>2. ASSUME NEW d \in Clients, NEW m \in HostMessages, Send(d, m)
      PROVE  \A c \in Clients : Extends(sent[c], sent'[c])
  <2>1. CASE ~Present(d)
    BY Zenon, <1>1, <1>2, <2>1 DEF Send
  <2>2. CASE Present(d)
    <3> TAKE c \in Clients
    <3>1. sent' = [sent EXCEPT ![d] = Append(sent[d], m)]
      BY Zenon, <1>2, <2>2 DEF Send
    <3>2. sent[c] \in Seq(HostMessages) /\ Len(sent[c]) \in Nat
      BY Zenon, <1>0, LenProperties
    <3>3. CASE c = d
      <4>1. sent'[c] = Append(sent[c], m)
        BY Zenon, <1>0, <3>1, <3>3
      <4>2. /\ Len(Append(sent[c], m)) = Len(sent[c]) + 1
            /\ \A i \in 1 .. Len(sent[c]) : Append(sent[c], m)[i] = sent[c][i]
        BY <3>2, AppendProperties
      <4> QED BY <3>2, <4>1, <4>2 DEF Extends
    <3>4. CASE c # d
      <4>1. sent'[c] = sent[c]
        BY Zenon, <1>0, <3>1, <3>4
      <4> QED BY <3>2, <4>1 DEF Extends
    <3> QED BY Zenon, <3>3, <3>4
  <2> QED BY Zenon, <2>1, <2>2
<1>3. "KeyExchange" \in HostMessages /\ "SessionKeyReady" \in HostMessages /\ "StreamStart" \in HostMessages
  BY Zenon DEF HostMessages, Messages
<1>4. ASSUME NEW c \in Clients, HandleEvent(c) PROVE UNCHANGED arrived /\ \A d \in Clients : Extends(sent[d], sent'[d])
  <2>1. CASE OnConnected(c)
    BY Zenon, <1>1, <1>2, <1>3, <2>1 DEF OnConnected
  <2>2. CASE OnKeyExchange(c)
    BY Zenon, <1>1, <1>2, <1>3, <2>2 DEF OnKeyExchange
  <2>3. CASE OnPermissions(c) \/ OnSessionKeyReady(c) \/ OnStarted(c) \/ OnStartFailed(c) \/ OnDisconnected(c) \/ OnFatal(c)
    <3>1. UNCHANGED <<sent, arrived>>
      BY Zenon, <2>3 DEF OnPermissions, OnSessionKeyReady, OnStarted, OnStartFailed, OnDisconnected, OnFatal, TearDown, linkVars
    <3> QED BY Zenon, <1>1, <3>1
  <2> QED BY Zenon, <1>4, <2>1, <2>2, <2>3 DEF HandleEvent
<1>5. CASE Forget \/ Erase \/ FinishStop \/ User \/ Rumble \/ Session \/ Media
  <2>1. UNCHANGED <<sent, arrived>>
    BY Zenon, <1>5 DEF Forget, Erase, FinishStop, User, StopHosting, Kick, InputToggled, TearDown, Rumble, RumbleSends, RumbleFinds,
       Session, SessionConnects, SessionEnds, Media, StreamerDies, ApplyInput, linkVars
  <2> QED BY Zenon, <1>1, <2>1
<1>6. ASSUME NEW c \in Clients, Worker(c) PROVE UNCHANGED arrived /\ \A d \in Clients : Extends(sent[d], sent'[d])
  <2>1. CASE WorkerSucceeds(c)
    BY Zenon, <1>2, <1>3, <2>1 DEF WorkerSucceeds
  <2>2. CASE WorkerStarts(c) \/ WorkerFails(c) \/ WorkerExits(c)
    <3>1. UNCHANGED <<sent, arrived>>
      BY Zenon, <2>2 DEF WorkerStarts, WorkerFails, WorkerExits, linkVars
    <3> QED BY Zenon, <1>1, <3>1
  <2> QED BY Zenon, <1>6, <2>1, <2>2 DEF Worker
<1> QED BY Zenon, <1>4, <1>5, <1>6 DEF QtThread

\* Who is told of a stream has confirmed the keys.
LEMMA HostTellsInTurn ==
  ASSUME SayingInv, NEW c \in Clients
  PROVE  /\ arrived \in [Clients -> Arrivals] /\ sent[c] \in Seq(HostMessages) /\ AllDistinct(sent[c])
         /\ Named(sent[c], "StreamStart") => arrived[c] = BothKeys
         /\ worker[c] # "none" => arrived[c] = BothKeys
<1>1. CoordinatorInv /\ SaysOnce(c) /\ sent[c] \in Seq(HostMessages)
  BY Zenon DEF SayingInv
<1>2. arrived \in [Clients -> Arrivals]
  BY Zenon, <1>1 DEF CoordinatorInv, CoordinatorTypes
<1>3. worker[c] # "none" => arrived[c] = BothKeys
  BY Zenon, <1>1 DEF CoordinatorInv, WorkersAgree
<1>4. Named(sent[c], "StreamStart") => worker[c] # "none"
  BY Zenon, <1>1 DEF SaysOnce
<1>5. AllDistinct(sent[c])
  BY Zenon, <1>1 DEF SaysOnce
<1> QED BY Zenon, <1>1, <1>2, <1>3, <1>4, <1>5

\* A client that says its key and then its confirmation is heard in turn.
LEMMA HostHearsInTurn ==
  ASSUME SayingInv, NEW c \in Clients, NEW s \in {<<>>, <<"KeyExchange">>, BothKeys}, Len(arrived[c]) + 1 <= Len(s)
  PROVE  InTurn(c, s[Len(arrived[c]) + 1])
<1>1. arrived[c] \in {<<>>, <<"KeyExchange">>, BothKeys}
  BY Zenon, HostTellsInTurn DEF Arrivals
<1>2. Len(<<>>) = 0 /\ Len(<<"KeyExchange">>) = 1 /\ Len(BothKeys) = 2
  BY Zenon DEF BothKeys
<1>3. CASE arrived[c] = <<>>
  <2>1. s \in {<<"KeyExchange">>, BothKeys} /\ Len(arrived[c]) + 1 = 1
    BY <1>2, <1>3
  <2>2. s[1] = "KeyExchange"
    BY <2>1 DEF BothKeys
  <2> QED BY Zenon, <1>3, <2>1, <2>2 DEF InTurn
<1>4. CASE arrived[c] = <<"KeyExchange">>
  <2>a. Len(arrived[c]) = 1
    BY Zenon, <1>2, <1>4
  <2>b. Len(s) >= 2
    BY <2>a, <1>2
  <2>1. s = BothKeys /\ Len(arrived[c]) + 1 = 2
    BY <1>2, <2>a, <2>b
  <2>2. s[2] = "SessionKeyReady"
    BY Zenon, <2>1 DEF BothKeys
  <2> QED BY Zenon, <1>4, <2>1, <2>2 DEF InTurn
<1>5. CASE arrived[c] = BothKeys
  BY <1>2, <1>5
<1> QED BY Zenon, <1>1, <1>3, <1>4, <1>5
===============================================================================
