-------------------------- MODULE HostServicesProofs --------------------------
(***************************************************************************)
(* What serves a host, part by part: the signaling server for any          *)
(* connections and slots; the input injector for any players, keys and     *)
(* pads; the streamer's start, stop and teardown for any number of stops   *)
(* and failures; the letterbox of the software scaler for every pair of    *)
(* sizes; and the hysteresis of the adaptive bitrate controller for every  *)
(* range and every choice of thresholds.  The parts share no state.        *)
(***************************************************************************)
EXTENDS SignalingServer, AdaptiveBitrate, HostStreamer, Letterbox, InputInjector, FiniteSetTheorems, TLAPS

-------------------------------------------------------------------------------
(* SignalingServer *)

Hosts(r) == {c \in Conns : r[c] = "host"}

\* A connection in a slot of a session is a player of that session, and has
\* one slot; a player that has not left has a slot.
SeatsAgree ==
  /\ \A s \in Conns : \A i \in DOMAIN clients[s] :
       role[clients[s][i]] = "client" /\ session[clients[s][i]] = s
  /\ \A s \in Conns : \A i, j \in DOMAIN clients[s] : clients[s][i] = clients[s][j] => i = j
  /\ \A c \in Conns : role[c] = "client" /\ pc[c] \in {"joining", "reading"} =>
       session[c] \in Conns /\ \E i \in DOMAIN clients[session[c]] : clients[session[c]][i] = c

\* Where the coroutine of a connection can wait.
RolesAgree ==
  \A c \in Conns :
    /\ pc[c] = "joining" => role[c] = "client"
    /\ pc[c] \in {"relays", "closing"} => role[c] = "host"
    /\ role[c] = "host" /\ pc[c] \in {"relays", "reading"} => session[c] = c

\* A session under construction is registered and has no player; a session
\* whose host is leaving is registered unless it expired.
RegistryAgrees ==
  /\ \A s \in Conns :
       /\ pc[s] = "relays" => s \in by_code /\ ~old[s] /\ relays[s] = "none"
       /\ role[s] = "none" => ~old[s] /\ relays[s] = "none"
       /\ relays[s] = "none" => DOMAIN clients[s] = {}
       /\ pc[s] = "closing" /\ ~old[s] => s \in by_code
  /\ Cardinality(DOMAIN by_id) <= Cardinality(Hosts(role))

\* The iterator of a leaving host's loop.  Its entries are players; unless
\* one joined meanwhile, a player is still ahead of it or was told
\* session_closed; and unless one came or went it expects what is there.
Expects(s, it) ==
  /\ it.ahead \subseteq DOMAIN clients[s]
  /\ "joined" \notin late[s] => \A i \in DOMAIN clients[s] : i \in it.ahead \/ clients[s][i] \in closed
  /\ late[s] = {} => it.used = Cardinality(DOMAIN clients[s]) /\ it.len = Cardinality(it.ahead)

IteratorAgrees ==
  \A s \in Conns : IF pc[s] = "closing" THEN Expects(s, iterated[s]) ELSE iterated[s].ahead = {}

Iterators == [used : 0 .. MAX_PLAYERS, len : 0 .. MAX_PLAYERS, ahead : SUBSET Slots]

SignalingInv ==
  /\ SignalingTypeOK /\ SeatsAgree /\ RolesAgree /\ RegistryAgrees /\ IteratorAgrees
  /\ HostKnowsPlayers /\ RegistryFollowsHosts

USE SignalingAssumption

\* A table of slots maps slots to connections.
LEMMA SlotMapIs ==
  ASSUME NEW f \in SlotMaps
  PROVE  DOMAIN f \subseteq Slots /\ f \in [DOMAIN f -> Conns]
BY Zenon DEF SlotMaps

\* A function from slots to connections is a table of slots.
LEMMA IsSlotMap ==
  ASSUME NEW S \in SUBSET Slots, NEW f \in [S -> Conns]
  PROVE  f \in SlotMaps
BY Zenon DEF SlotMaps

\* A set of slots has at most MAX_PLAYERS members.
LEMMA SlotsFinite ==
  ASSUME NEW S \in SUBSET Slots
  PROVE  Cardinality(S) \in 0 .. MAX_PLAYERS
<1>1. IsFiniteSet(Slots) /\ Cardinality(Slots) = MAX_PLAYERS
  BY FS_Interval DEF Slots
<1>2. Cardinality(S) \in Nat /\ Cardinality(S) <= MAX_PLAYERS
  BY Zenon, <1>1, FS_Subset, FS_CardinalityType
<1> QED BY <1>2

\* The lowest free slot is a free slot.
LEMMA LowestFree ==
  ASSUME NEW s \in Conns, FreeSlots(s) # {}
  PROVE  Min(FreeSlots(s)) \in Slots /\ Min(FreeSlots(s)) \notin DOMAIN clients[s]
<1> DEFINE T == FreeSlots(s)
<1>1. T \subseteq Nat /\ T # {}
  BY DEF FreeSlots, Slots
<1>2. PICK m \in T : \A k \in T : ~(<<k, m>> \in OpToRel(<, Nat))
  <2> HIDE DEF T
  <2> QED BY Zenon, <1>1, WFMin, NatLessThanWellFounded
<1>3. \A k \in T : m <= k
  <2>1. m \in Nat /\ \A k \in T : k \in Nat
    BY Zenon, <1>1
  <2> HIDE DEF T
  <2>2. \A k \in T : ~(k < m)
    BY Zenon, <1>2, <2>1 DEF OpToRel
  <2> QED BY <2>1, <2>2
<1>4. Min(T) \in T
  <2> HIDE DEF T
  <2> QED BY Zenon, <1>3 DEF Min
<1> QED BY Zenon, <1>4 DEF FreeSlots

\* The slot of a player is the one it holds.
LEMMA SlotOfPlayer ==
  ASSUME NEW c, NEW s, \E i \in DOMAIN clients[s] : clients[s][i] = c
  PROVE  SlotOf(c, s) \in DOMAIN clients[s] /\ clients[s][SlotOf(c, s)] = c
BY Zenon DEF SlotOf

\* The number of hosts bounds the ids that are given.
LEMMA HostsFinite ==
  ASSUME NEW r
  PROVE  IsFiniteSet(Hosts(r)) /\ Cardinality(Hosts(r)) \in Nat /\ Cardinality(Hosts(r)) <= Cardinality(Conns)
         /\ Cardinality(Conns) \in Nat
BY Zenon, FS_Subset, FS_CardinalityType DEF Hosts

\* What the registry's remove leaves.
LEMMA IdsLeftOver ==
  ASSUME SignalingInv, NEW S
  PROVE  /\ DOMAIN IdsLeft(S) \subseteq DOMAIN by_id
         /\ \A i \in DOMAIN IdsLeft(S) : IdsLeft(S)[i] \in Conns
         /\ IsFiniteSet(DOMAIN IdsLeft(S))
         /\ Cardinality(DOMAIN IdsLeft(S)) \in Nat
         /\ Cardinality(DOMAIN IdsLeft(S)) <= Cardinality(Hosts(role))
<1>1. /\ DOMAIN IdsLeft(S) \subseteq DOMAIN by_id
      /\ \A i \in DOMAIN IdsLeft(S) : IdsLeft(S)[i] = by_id[i]
  BY Zenon DEF IdsLeft, Drop, Restrict
<1>2. DOMAIN by_id \subseteq 1 .. Cardinality(Conns) /\ \A i \in DOMAIN by_id : by_id[i] \in Conns
  BY Zenon DEF SignalingInv, SignalingTypeOK
<1>3. IsFiniteSet(DOMAIN by_id) /\ Cardinality(DOMAIN by_id) \in Nat
  <2>1. Cardinality(Conns) \in Nat
    BY Zenon, FS_CardinalityType
  <2>2. IsFiniteSet(1 .. Cardinality(Conns))
    BY <2>1, FS_Interval
  <2> QED BY Zenon, <1>2, <2>2, FS_Subset, FS_CardinalityType
<1>4. /\ IsFiniteSet(DOMAIN IdsLeft(S)) /\ Cardinality(DOMAIN IdsLeft(S)) \in Nat
      /\ Cardinality(DOMAIN IdsLeft(S)) <= Cardinality(DOMAIN by_id)
  BY Zenon, <1>1, <1>3, FS_Subset, FS_CardinalityType
<1>5. Cardinality(DOMAIN by_id) <= Cardinality(Hosts(role)) /\ Cardinality(Hosts(role)) \in Nat
  BY Zenon, HostsFinite DEF SignalingInv, RegistryAgrees
<1> QED BY <1>1, <1>2, <1>3, <1>4, <1>5

\* Removing sessions closes their relays and touches no others.
LEMMA RelaysLeftOver ==
  ASSUME SignalingInv, NEW S
  PROVE  /\ RelaysLeft(S) \in [Conns -> {"none", "open", "closed"}]
         /\ \A s \in Conns : RelaysLeft(S)[s] = "none" <=> relays[s] = "none"
         /\ \A s \in Conns : s \notin S => RelaysLeft(S)[s] = relays[s]
BY Zenon DEF RelaysLeft, SignalingInv, SignalingTypeOK

\* Removing sessions: the registry loses them, their relays close, and no
\* session is registered that was not.
LEMMA RemoveSessionsRemoves ==
  ASSUME SignalingInv, NEW S, RemoveSessions(S)
  PROVE  /\ by_code' = by_code \ S
         /\ DOMAIN by_id' \subseteq 1 .. Cardinality(Conns) /\ \A i \in DOMAIN by_id' : by_id'[i] \in Conns
         /\ Cardinality(DOMAIN by_id') <= Cardinality(Hosts(role))
         /\ relays' \in [Conns -> {"none", "open", "closed"}]
         /\ \A s \in Conns : relays'[s] = "none" <=> relays[s] = "none"
         /\ \A s \in Conns : s \notin S => relays'[s] = relays[s]
<1>1. by_code' = by_code \ S /\ by_id' = IdsLeft(S) /\ relays' = RelaysLeft(S)
  BY Zenon DEF RemoveSessions
<1>2. DOMAIN by_id \subseteq 1 .. Cardinality(Conns)
  BY Zenon DEF SignalingInv, SignalingTypeOK
<1> QED BY Zenon, <1>1, <1>2, IdsLeftOver, RelaysLeftOver

\* The server starts with its tables empty and in agreement.
LEMMA SignalingStarts == SignalingInit => SignalingInv
<1> SUFFICES ASSUME SignalingInit PROVE SignalingInv
  BY Zenon
<1>1. Nothing \in SlotMaps /\ DOMAIN Nothing = {}
  <2>1. DOMAIN Nothing = {} /\ Nothing \in [{} -> Conns]
    BY Zenon DEF Nothing
  <2> QED BY Zenon, <2>1, IsSlotMap
<1>2. /\ role = [c \in Conns |-> "none"] /\ session = [c \in Conns |-> Nobody]
      /\ pc = [c \in Conns |-> "reading"] /\ iterated = [c \in Conns |-> NotLeaving]
      /\ by_id = Nothing /\ by_code = {}
      /\ session_id = [s \in Conns |-> 0] /\ clients = [s \in Conns |-> Nothing]
      /\ relays = [s \in Conns |-> "none"] /\ old = [s \in Conns |-> FALSE]
      /\ informed = [s \in Conns |-> {}] /\ closed = {} /\ late = [s \in Conns |-> {}]
      /\ endpoints = [s \in Conns |-> Nothing]
  BY Zenon DEF SignalingInit
<1>3. Cardinality(DOMAIN by_id) = 0 /\ Cardinality(Hosts(role)) \in Nat /\ Cardinality(Conns) \in Nat
  BY Zenon, <1>1, <1>2, FS_EmptySet, HostsFinite
<1>4. NotLeaving \in Iterators /\ NotLeaving.ahead = {}
  BY DEF NotLeaving, Iterator, Iterators
<1>5. SignalingTypeOK
  <2>1. clients \in [Conns -> SlotMaps] /\ endpoints \in [Conns -> SlotMaps]
    BY Zenon, <1>1, <1>2
  <2>2. iterated \in [Conns -> Iterators]
    BY Zenon, <1>2, <1>4
  <2>3. session_id \in [Conns -> 0 .. Cardinality(Conns)]
    BY <1>2, <1>3
  <2> QED BY Zenon, <1>1, <1>2, <2>1, <2>2, <2>3 DEF SignalingTypeOK, Iterators
<1>6. \A s \in Conns : DOMAIN clients[s] = {} /\ role[s] = "none" /\ pc[s] = "reading" /\ iterated[s].ahead = {}
      /\ informed[s] = {} /\ ~old[s] /\ relays[s] = "none"
  BY Zenon, <1>1, <1>2, <1>4
<1>7. SeatsAgree /\ RolesAgree /\ IteratorAgrees /\ HostKnowsPlayers /\ RegistryFollowsHosts
  BY Zenon, <1>6 DEF SeatsAgree, RolesAgree, IteratorAgrees, HostKnowsPlayers, RegistryFollowsHosts
<1>8. RegistryAgrees
  BY <1>3, <1>6 DEF RegistryAgrees
<1> QED BY Zenon, <1>5, <1>7, <1>8 DEF SignalingInv
\* A step of a connection that holds no slot, before or after it, leaves the
\* slots and what the host knows of them as they were.
LEMMA OthersKeepSeats ==
  ASSUME SignalingInv, NEW c \in Conns, role[c] # "client", role'[c] # "client",
         UNCHANGED <<clients, informed>>,
         \A d \in Conns : d # c => role'[d] = role[d] /\ session'[d] = session[d] /\ pc'[d] = pc[d]
  PROVE  SeatsAgree' /\ HostKnowsPlayers'
<1>1. \A s \in Conns : \A i \in DOMAIN clients[s] : clients[s][i] \in Conns /\ clients[s][i] # c
  BY SlotMapIs DEF SignalingInv, SignalingTypeOK, SeatsAgree
<1>2. SeatsAgree'
  BY <1>1 DEF SignalingInv, SeatsAgree
<1>3. ASSUME NEW s \in Conns
      PROVE  informed'[s] = {i \in DOMAIN clients'[s] : pc'[clients'[s][i]] # "joining"}
  <2>1. informed[s] = {i \in DOMAIN clients[s] : pc[clients[s][i]] # "joining"}
    BY Zenon DEF SignalingInv, HostKnowsPlayers
  <2>2. \A i \in DOMAIN clients[s] : pc'[clients[s][i]] = pc[clients[s][i]]
    BY Zenon, <1>1
  <2> QED BY Zenon, <2>1, <2>2
<1> QED BY Zenon, <1>2, <1>3 DEF HostKnowsPlayers

\* A step that neither touches players and iterators nor begins a loop keeps
\* the loops in agreement.
LEMMA LoopsUndisturbed ==
  ASSUME SignalingInv, UNCHANGED <<clients, iterated, closed, late>>,
         \A d \in Conns : pc'[d] = "closing" <=> pc[d] = "closing"
  PROVE  IteratorAgrees'
<1>1. ASSUME NEW s \in Conns, Expects(s, iterated[s]) PROVE Expects(s, iterated[s])'
  BY Zenon, <1>1 DEF Expects
<1>2. ASSUME NEW s \in Conns
      PROVE  IF pc'[s] = "closing" THEN Expects(s, iterated[s])' ELSE iterated'[s].ahead = {}
  BY Zenon, <1>1 DEF SignalingInv, IteratorAgrees
<1> QED BY Zenon, <1>2 DEF IteratorAgrees

\* The expiry task removes old sessions only.
LEMMA SignalingExpires ==
  ASSUME SignalingInv, Expire
  PROVE  SignalingInv'
<1>1. UNCHANGED <<connVars, session_id, clients, old, peerVars, endpoints>> /\ RemoveSessions(Expired)
  BY Zenon DEF Expire
<1>2. \A s \in Expired : old[s]
  BY Zenon DEF Expired
<1>3. /\ by_code' = by_code \ Expired
      /\ DOMAIN by_id' \subseteq 1 .. Cardinality(Conns) /\ \A i \in DOMAIN by_id' : by_id'[i] \in Conns
      /\ Cardinality(DOMAIN by_id') <= Cardinality(Hosts(role))
      /\ relays' \in [Conns -> {"none", "open", "closed"}]
      /\ \A s \in Conns : relays'[s] = "none" <=> relays[s] = "none"
      /\ \A s \in Conns : s \notin Expired => relays'[s] = relays[s]
  BY Zenon, <1>1, RemoveSessionsRemoves
<1>4. SignalingTypeOK'
  BY Zenon, <1>1, <1>3 DEF SignalingInv, SignalingTypeOK, connVars, peerVars
<1>5. SeatsAgree' /\ RolesAgree' /\ HostKnowsPlayers'
  BY <1>1 DEF SignalingInv, SeatsAgree, RolesAgree, HostKnowsPlayers, connVars, peerVars
<1>6. RegistryAgrees'
  BY Zenon, <1>1, <1>2, <1>3 DEF SignalingInv, RegistryAgrees, connVars, peerVars
<1>7. RegistryFollowsHosts'
  BY <1>1, <1>2, <1>3 DEF SignalingInv, RegistryFollowsHosts, Players, connVars, peerVars
<1>8. IteratorAgrees'
  BY Zenon, <1>1, LoopsUndisturbed DEF connVars, peerVars
<1> QED BY Zenon, <1>4, <1>5, <1>6, <1>7, <1>8 DEF SignalingInv

\* A session that grows old keeps the tables in agreement.
LEMMA SignalingAges ==
  ASSUME SignalingInv, NEW s \in Conns, Age(s)
  PROVE  SignalingInv'
<1>1. /\ UNCHANGED <<connVars, registryVars, session_id, clients, relays, peerVars, endpoints>>
      /\ relays[s] = "open" /\ old' = [old EXCEPT ![s] = TRUE]
  BY Zenon DEF Age
<1>2. old' \in [Conns -> BOOLEAN] /\ (\A t \in Conns : t # s => old'[t] = old[t]) /\ old'[s]
  BY Zenon, <1>1 DEF SignalingInv, SignalingTypeOK
<1>3. SignalingTypeOK'
  BY Zenon, <1>1, <1>2 DEF SignalingInv, SignalingTypeOK, connVars, registryVars, peerVars
<1>4. SeatsAgree' /\ RolesAgree' /\ HostKnowsPlayers'
  BY <1>1 DEF SignalingInv, SeatsAgree, RolesAgree, HostKnowsPlayers, connVars, peerVars
<1>5. RegistryAgrees'
  BY Zenon, <1>1, <1>2 DEF SignalingInv, RegistryAgrees, connVars, registryVars, peerVars
<1>6. RegistryFollowsHosts'
  BY <1>1, <1>2 DEF SignalingInv, RegistryFollowsHosts, Players, connVars, registryVars, peerVars
<1>7. IteratorAgrees'
  BY Zenon, <1>1, LoopsUndisturbed DEF connVars, peerVars
<1> QED BY Zenon, <1>3, <1>4, <1>5, <1>6, <1>7 DEF SignalingInv

\* on_host_register: a new session under a fresh code and a counted id.
LEMMA SignalingRegisters ==
  ASSUME SignalingInv, NEW c \in Conns, OnHostRegister(c)
  PROVE  SignalingInv'
<1> DEFINE ids == IdsLeft(Expired)
           id == NextId(ids)
<1>1. /\ role[c] = "none" /\ pc[c] = "reading"
      /\ role' = [role EXCEPT ![c] = "host"] /\ session' = [session EXCEPT ![c] = c]
      /\ pc' = [pc EXCEPT ![c] = "relays"]
      /\ session_id' = [session_id EXCEPT ![c] = id]
      /\ by_id' = [i \in DOMAIN ids \cup {id} |-> IF i = id THEN c ELSE ids[i]]
      /\ by_code' = (by_code \ Expired) \cup {c} /\ relays' = RelaysLeft(Expired)
      /\ UNCHANGED <<iterated, clients, old, informed, closed, late, endpoints>>
  BY Zenon DEF OnHostRegister, peerVars
<1>2. /\ DOMAIN ids \subseteq DOMAIN by_id /\ \A i \in DOMAIN ids : ids[i] \in Conns
      /\ IsFiniteSet(DOMAIN ids) /\ Cardinality(DOMAIN ids) \in Nat
      /\ Cardinality(DOMAIN ids) <= Cardinality(Hosts(role))
  BY Zenon, IdsLeftOver
<1>3. id = Cardinality(DOMAIN ids) + 1
  BY Zenon DEF NextId
<1> HIDE DEF ids, id
<1>4. /\ relays' \in [Conns -> {"none", "open", "closed"}]
      /\ \A s \in Conns : relays'[s] = "none" <=> relays[s] = "none"
      /\ \A s \in Conns : s \notin Expired => relays'[s] = relays[s]
  BY Zenon, <1>1, RelaysLeftOver
<1>5. /\ role' \in [Conns -> {"none", "host", "client"}] /\ role'[c] = "host"
      /\ session' \in [Conns -> Conns \cup {Nobody}] /\ session'[c] = c
      /\ pc' \in [Conns -> {"reading", "relays", "joining", "closing", "done"}] /\ pc'[c] = "relays"
      /\ \A d \in Conns : d # c => role'[d] = role[d] /\ session'[d] = session[d] /\ pc'[d] = pc[d]
  BY Zenon, <1>1 DEF SignalingInv, SignalingTypeOK
<1>6. /\ Cardinality(Hosts(role')) = Cardinality(Hosts(role)) + 1
      /\ Cardinality(Hosts(role')) <= Cardinality(Conns)
      /\ Cardinality(Hosts(role)) \in Nat /\ Cardinality(Conns) \in Nat
  <2>1. Hosts(role') = Hosts(role) \cup {c} /\ c \notin Hosts(role)
    BY <1>1, <1>5 DEF Hosts
  <2>2. IsFiniteSet(Hosts(role)) /\ Cardinality(Hosts(role)) \in Nat
    BY Zenon, HostsFinite
  <2>3. Cardinality(Hosts(role')) <= Cardinality(Conns) /\ Cardinality(Conns) \in Nat
    BY Zenon, HostsFinite
  <2>4. Cardinality(Hosts(role) \cup {c}) = Cardinality(Hosts(role)) + 1
    BY Zenon, <2>1, <2>2, FS_AddElement
  <2> QED BY Zenon, <2>1, <2>2, <2>3, <2>4
<1>7. /\ id \in 1 .. Cardinality(Conns)
      /\ Cardinality(DOMAIN ids \cup {id}) <= Cardinality(Hosts(role'))
  <2>1. Cardinality(DOMAIN ids \cup {id}) <= Cardinality(DOMAIN ids) + 1
    <3>1. Cardinality(DOMAIN ids \cup {id}) = IF id \in DOMAIN ids THEN Cardinality(DOMAIN ids)
                                              ELSE Cardinality(DOMAIN ids) + 1
      BY Zenon, <1>2, FS_AddElement
    <3> QED BY <1>2, <3>1
  <2>2. Cardinality(DOMAIN ids \cup {id}) \in Nat
    BY Zenon, <1>2, FS_AddElement, FS_CardinalityType
  <2> QED BY <1>2, <1>3, <1>6, <2>1, <2>2
<1>8. DOMAIN by_id' = DOMAIN ids \cup {id} /\ \A i \in DOMAIN by_id' : by_id'[i] \in Conns
  BY Zenon, <1>1, <1>2
<1>9. SignalingTypeOK'
  <2>1. session_id' \in [Conns -> 0 .. Cardinality(Conns)]
    BY <1>1, <1>7 DEF SignalingInv, SignalingTypeOK
  <2>2. DOMAIN by_id' \subseteq 1 .. Cardinality(Conns)
    BY Zenon, <1>2, <1>7, <1>8 DEF SignalingInv, SignalingTypeOK
  <2>3. by_code' \subseteq Conns
    BY Zenon, <1>1 DEF SignalingInv, SignalingTypeOK
  <2> QED BY Zenon, <1>1, <1>4, <1>5, <1>8, <2>1, <2>2, <2>3 DEF SignalingInv, SignalingTypeOK
<1>10. SeatsAgree' /\ HostKnowsPlayers'
  BY Zenon, <1>1, <1>5, OthersKeepSeats
<1>11. RolesAgree'
  BY Zenon, <1>5 DEF SignalingInv, RolesAgree
<1>12. \A s \in Expired : old[s]
  BY Zenon DEF Expired
<1>13. ~old[c] /\ relays'[c] = "none"
  BY Zenon, <1>1, <1>4 DEF SignalingInv, RegistryAgrees
<1>14. RegistryAgrees'
  <2>1. \A s \in Conns : s \in by_code /\ ~old[s] => s \in by_code'
    BY Zenon, <1>1, <1>12
  <2>2. ASSUME NEW s \in Conns
        PROVE  /\ pc'[s] = "relays" => s \in by_code' /\ ~old'[s] /\ relays'[s] = "none"
               /\ role'[s] = "none" => ~old'[s] /\ relays'[s] = "none"
               /\ relays'[s] = "none" => DOMAIN clients'[s] = {}
               /\ pc'[s] = "closing" /\ ~old'[s] => s \in by_code'
    <3>1. CASE s = c
      BY Zenon, <1>1, <1>4, <1>5, <1>13, <3>1 DEF SignalingInv, RegistryAgrees
    <3>2. CASE s # c
      BY <1>1, <1>4, <1>5, <2>1, <3>2 DEF SignalingInv, RegistryAgrees
    <3> QED BY Zenon, <3>1, <3>2
  <2> QED BY Zenon, <1>7, <1>8, <2>2 DEF RegistryAgrees
<1>15. RegistryFollowsHosts'
  <2>1. \A s \in Conns : Players(s)' = Players(s)
    BY Zenon, <1>1 DEF Players
  <2>2. ASSUME NEW s \in Conns, s # c, ~old[s]
        PROVE  (s \in by_code' <=> s \in by_code) /\ relays'[s] = relays[s]
    BY Zenon, <1>1, <1>4, <1>12, <2>2
  <2> QED BY <1>1, <1>5, <2>1, <2>2 DEF SignalingInv, RegistryFollowsHosts
<1>16. IteratorAgrees'
  BY Zenon, <1>1, <1>5, LoopsUndisturbed
<1> QED BY Zenon, <1>9, <1>10, <1>11, <1>14, <1>15, <1>16 DEF SignalingInv

\* The relays of a session are opened after it was registered.
LEMMA SignalingOpensRelays ==
  ASSUME SignalingInv, NEW c \in Conns, StartSessionRelays(c)
  PROVE  SignalingInv'
<1>1. /\ pc[c] = "relays" /\ relays' = [relays EXCEPT ![c] = "open"] /\ pc' = [pc EXCEPT ![c] = "reading"]
      /\ UNCHANGED <<role, session, iterated, by_id, by_code, session_id, clients, old, informed, closed, late,
                     endpoints>>
  BY Zenon DEF StartSessionRelays, registryVars, peerVars
<1>2. role[c] = "host" /\ session[c] = c /\ c \in by_code /\ ~old[c]
  BY Zenon, <1>1 DEF SignalingInv, RolesAgree, RegistryAgrees
<1>3. /\ relays' \in [Conns -> {"none", "open", "closed"}] /\ relays'[c] = "open"
      /\ pc' \in [Conns -> {"reading", "relays", "joining", "closing", "done"}] /\ pc'[c] = "reading"
      /\ \A d \in Conns : d # c => relays'[d] = relays[d] /\ pc'[d] = pc[d]
  BY Zenon, <1>1 DEF SignalingInv, SignalingTypeOK
<1>4. SignalingTypeOK'
  BY Zenon, <1>1, <1>3 DEF SignalingInv, SignalingTypeOK
<1>5. SeatsAgree' /\ HostKnowsPlayers'
  BY Zenon, <1>1, <1>2, <1>3, OthersKeepSeats
<1>6. RolesAgree'
  BY Zenon, <1>1, <1>2, <1>3 DEF SignalingInv, RolesAgree
<1>7. RegistryAgrees'
  BY <1>1, <1>2, <1>3 DEF SignalingInv, RegistryAgrees
<1>8. RegistryFollowsHosts'
  BY <1>1, <1>2, <1>3 DEF SignalingInv, RegistryFollowsHosts, Players
<1>9. IteratorAgrees'
  BY Zenon, <1>1, <1>3, LoopsUndisturbed
<1> QED BY Zenon, <1>4, <1>5, <1>6, <1>7, <1>8, <1>9 DEF SignalingInv

\* When they cannot be opened the session is removed again.
LEMMA SignalingRelaysFail ==
  ASSUME SignalingInv, NEW c \in Conns, RelaysFail(c)
  PROVE  SignalingInv'
<1>1. /\ pc[c] = "relays" /\ RemoveSessions({c})
      /\ session' = [session EXCEPT ![c] = Nobody] /\ pc' = [pc EXCEPT ![c] = "done"]
      /\ UNCHANGED <<role, iterated, session_id, clients, old, informed, closed, late, endpoints>>
  BY Zenon DEF RelaysFail, peerVars
<1>2. role[c] = "host" /\ DOMAIN clients[c] = {}
  BY Zenon, <1>1 DEF SignalingInv, RolesAgree, RegistryAgrees
<1>3. /\ session' \in [Conns -> Conns \cup {Nobody}]
      /\ pc' \in [Conns -> {"reading", "relays", "joining", "closing", "done"}] /\ pc'[c] = "done"
      /\ \A d \in Conns : d # c => session'[d] = session[d] /\ pc'[d] = pc[d]
  BY Zenon, <1>1 DEF SignalingInv, SignalingTypeOK
<1>4. /\ by_code' = by_code \ {c}
      /\ DOMAIN by_id' \subseteq 1 .. Cardinality(Conns) /\ \A i \in DOMAIN by_id' : by_id'[i] \in Conns
      /\ Cardinality(DOMAIN by_id') <= Cardinality(Hosts(role))
      /\ relays' \in [Conns -> {"none", "open", "closed"}]
      /\ \A s \in Conns : relays'[s] = "none" <=> relays[s] = "none"
      /\ \A s \in Conns : s \notin {c} => relays'[s] = relays[s]
  BY Zenon, <1>1, RemoveSessionsRemoves
<1>5. SignalingTypeOK'
  BY Zenon, <1>1, <1>3, <1>4 DEF SignalingInv, SignalingTypeOK
<1>6. SeatsAgree' /\ HostKnowsPlayers'
  BY Zenon, <1>1, <1>2, <1>3, OthersKeepSeats
<1>7. RolesAgree'
  BY Zenon, <1>1, <1>2, <1>3 DEF SignalingInv, RolesAgree
<1>8. RegistryAgrees'
  BY <1>1, <1>2, <1>3, <1>4 DEF SignalingInv, RegistryAgrees
<1>9. RegistryFollowsHosts'
  BY <1>1, <1>2, <1>3, <1>4 DEF SignalingInv, RegistryFollowsHosts, Players
<1>10. IteratorAgrees'
  BY Zenon, <1>1, <1>3, LoopsUndisturbed
<1> QED BY Zenon, <1>5, <1>6, <1>7, <1>8, <1>9, <1>10 DEF SignalingInv

\* What happens while a host leaves is noted, and nothing else.
LEMMA LateNotes ==
  ASSUME SignalingInv, NEW s \in Conns, NEW what \in {"joined", "left"}, late' = Late(s, what)
  PROVE  /\ late' \in [Conns -> SUBSET {"joined", "left"}]
         /\ \A t \in Conns : t # s \/ pc[t] # "closing" => late'[t] = late[t]
         /\ pc[s] = "closing" => late'[s] = late[s] \cup {what}
BY Zenon DEF Late, SignalingInv, SignalingTypeOK

\* An insertion moves entries of one iterator only, and of a running one.
LEMMA InsertInserts ==
  ASSUME SignalingInv, NEW s \in Conns, NEW idx \in Slots, Insert(s, idx)
  PROVE  /\ iterated' \in [Conns -> Iterators]
         /\ \A t \in Conns : t # s \/ pc[t] # "closing" => iterated'[t] = iterated[t]
         /\ iterated'[s].ahead \subseteq iterated[s].ahead \cup {idx}
<1>1. iterated \in [Conns -> Iterators]
  BY Zenon DEF SignalingInv, SignalingTypeOK, Iterators
<1>2. CASE pc[s] # "closing" /\ iterated' = iterated
  BY Zenon, <1>1, <1>2
<1>3. ASSUME NEW ahead \in SUBSET (iterated[s].ahead \cup {idx}), pc[s] = "closing",
             iterated' = [iterated EXCEPT ![s].ahead = ahead]
      PROVE  /\ iterated' \in [Conns -> Iterators]
             /\ \A t \in Conns : t # s \/ pc[t] # "closing" => iterated'[t] = iterated[t]
             /\ iterated'[s].ahead \subseteq iterated[s].ahead \cup {idx}
  BY <1>1, <1>3 DEF Iterators
<1> QED BY Zenon, <1>2, <1>3 DEF Insert

\* join: the lowest free slot is taken, and the host is not told yet.
LEMMA SignalingJoins ==
  ASSUME SignalingInv, NEW c \in Conns, NEW s \in Conns, OnJoin(c, s)
  PROVE  SignalingInv'
<1> DEFINE idx == Min(FreeSlots(s))
           new == [i \in DOMAIN clients[s] \cup {idx} |-> IF i = idx THEN c ELSE clients[s][i]]
<1>1. /\ role[c] = "none" /\ s \in by_code /\ relays[s] = "open"
      /\ role' = [role EXCEPT ![c] = "client"] /\ session' = [session EXCEPT ![c] = s]
      /\ clients' = [clients EXCEPT ![s] = new]
      /\ pc' = [pc EXCEPT ![c] = "joining"] /\ pc[c] = "reading"
      /\ Insert(s, idx) /\ late' = Late(s, "joined")
      /\ UNCHANGED <<by_id, by_code, session_id, relays, old, informed, closed, endpoints>>
  BY Zenon DEF OnJoin, registryVars
<1>2. idx \in Slots /\ idx \notin DOMAIN clients[s]
  BY Zenon, LowestFree DEF OnJoin
<1>3. /\ DOMAIN new = DOMAIN clients[s] \cup {idx} /\ new[idx] = c
      /\ \A i \in DOMAIN clients[s] : new[i] = clients[s][i]
  BY Zenon, <1>2
<1> HIDE DEF idx, new
<1>4. DOMAIN clients[s] \subseteq Slots /\ clients[s] \in [DOMAIN clients[s] -> Conns]
  BY Zenon, SlotMapIs DEF SignalingInv, SignalingTypeOK
<1>5. new \in SlotMaps
  <2>1. DOMAIN clients[s] \cup {idx} \in SUBSET Slots
    BY Zenon, <1>2, <1>4
  <2>2. new \in [DOMAIN clients[s] \cup {idx} -> Conns]
    BY Zenon, <1>4 DEF new
  <2> QED BY Zenon, <2>1, <2>2, IsSlotMap
<1>6. /\ role' \in [Conns -> {"none", "host", "client"}] /\ role'[c] = "client"
      /\ session' \in [Conns -> Conns \cup {Nobody}] /\ session'[c] = s
      /\ pc' \in [Conns -> {"reading", "relays", "joining", "closing", "done"}] /\ pc'[c] = "joining"
      /\ \A d \in Conns : d # c => role'[d] = role[d] /\ session'[d] = session[d] /\ pc'[d] = pc[d]
      /\ clients' \in [Conns -> SlotMaps] /\ clients'[s] = new
      /\ \A t \in Conns : t # s => clients'[t] = clients[t]
  BY Zenon, <1>1, <1>5 DEF SignalingInv, SignalingTypeOK
<1>7. SignalingTypeOK'
  <2>1. iterated' \in [Conns -> Iterators]
    BY Zenon, <1>1, <1>2, <1>4, InsertInserts
  <2>2. late' \in [Conns -> SUBSET {"joined", "left"}]
    BY Zenon, <1>1, LateNotes
  <2> QED BY Zenon, <1>1, <1>6, <2>1, <2>2 DEF SignalingInv, SignalingTypeOK, Iterators
<1>8. \A t \in Conns : \A i \in DOMAIN clients[t] : clients[t][i] \in Conns /\ clients[t][i] # c
  BY <1>1, SlotMapIs DEF SignalingInv, SignalingTypeOK, SeatsAgree
<1>9. SeatsAgree'
  <2>1. ASSUME NEW t \in Conns, NEW i \in DOMAIN clients'[t]
        PROVE  role'[clients'[t][i]] = "client" /\ session'[clients'[t][i]] = t
    BY <1>3, <1>6, <1>8, <2>1 DEF SignalingInv, SeatsAgree
  <2>2. ASSUME NEW t \in Conns, NEW i \in DOMAIN clients'[t], NEW j \in DOMAIN clients'[t],
               clients'[t][i] = clients'[t][j]
        PROVE  i = j
    BY <1>3, <1>6, <1>8, <2>2 DEF SignalingInv, SeatsAgree
  <2>3. ASSUME NEW d \in Conns, role'[d] = "client", pc'[d] \in {"joining", "reading"}
        PROVE  session'[d] \in Conns /\ \E i \in DOMAIN clients'[session'[d]] : clients'[session'[d]][i] = d
    <3>1. CASE d = c
      BY Zenon, <1>3, <1>6, <3>1
    <3>2. CASE d # c
      <4>1. session'[d] = session[d] /\ session[d] \in Conns
        BY Zenon, <1>6, <2>3, <3>2 DEF SignalingInv, SeatsAgree
      <4>2. PICK i \in DOMAIN clients[session[d]] : clients[session[d]][i] = d
        BY <1>6, <2>3, <3>2 DEF SignalingInv, SeatsAgree
      <4> QED BY <1>3, <1>6, <4>1, <4>2
    <3> QED BY Zenon, <3>1, <3>2
  <2> QED BY Zenon, <2>1, <2>2, <2>3 DEF SeatsAgree
<1>10. RolesAgree'
  BY Zenon, <1>6 DEF SignalingInv, RolesAgree
<1>11. RegistryAgrees'
  <2>1. Hosts(role') = Hosts(role)
    BY Zenon, <1>1, <1>6 DEF Hosts
  <2> QED BY <1>1, <1>6, <2>1 DEF SignalingInv, RegistryAgrees
<1>12. ASSUME NEW t \in Conns
       PROVE  informed'[t] = {i \in DOMAIN clients'[t] : pc'[clients'[t][i]] # "joining"}
  <2>1. informed[t] = {i \in DOMAIN clients[t] : pc[clients[t][i]] # "joining"}
    BY Zenon DEF SignalingInv, HostKnowsPlayers
  <2>2. \A i \in DOMAIN clients[t] : pc'[clients[t][i]] = pc[clients[t][i]]
    BY Zenon, <1>6, <1>8
  <2>3. CASE t # s
    BY <1>1, <1>6, <2>1, <2>2, <2>3
  <2>4. CASE t = s
    <3>1. DOMAIN clients'[t] = DOMAIN clients[t] \cup {idx} /\ pc'[clients'[t][idx]] = "joining"
          /\ \A i \in DOMAIN clients[t] : clients'[t][i] = clients[t][i]
      BY <1>3, <1>6, <2>4
    <3> QED BY <1>1, <2>1, <2>2, <3>1
  <2> QED BY Zenon, <2>3, <2>4
<1>13. RegistryFollowsHosts'
  <2>1. \A t \in Conns : t # s => Players(t)' = Players(t)
    BY SMTT(30), <1>6 DEF Players
  <2>2. \A t \in Conns : pc[t] # "closing" => late'[t] = late[t]
    BY Zenon, <1>1, LateNotes
  <2> QED BY <1>1, <1>6, <2>1, <2>2 DEF SignalingInv, RegistryFollowsHosts
<1>14. ASSUME NEW t \in Conns
       PROVE  IF pc'[t] = "closing" THEN Expects(t, iterated[t])' ELSE iterated'[t].ahead = {}
  <2>1. pc'[t] = "closing" <=> pc[t] = "closing"
    BY Zenon, <1>1, <1>6
  <2>2. CASE t = s /\ pc[t] = "closing"
    <3>1. late'[t] = late[t] \cup {"joined"}
      BY Zenon, <1>1, <2>2, LateNotes
    <3>2. iterated'[t].ahead \subseteq iterated[t].ahead \cup {idx}
      BY Zenon, <1>1, <1>2, <1>4, <2>2, InsertInserts
    <3>3. iterated[t].ahead \subseteq DOMAIN clients[t]
      BY Zenon, <2>2 DEF SignalingInv, IteratorAgrees, Expects
    <3>4. iterated'[t].ahead \subseteq DOMAIN clients'[t]
      BY Zenon, <1>3, <1>6, <2>2, <3>2, <3>3
    <3> QED BY Zenon, <2>1, <2>2, <3>1, <3>4 DEF Expects
  <2>3. CASE t # s /\ pc[t] = "closing"
    <3>1. late'[t] = late[t] /\ iterated'[t] = iterated[t] /\ clients'[t] = clients[t] /\ closed' = closed
      <4>1. late'[t] = late[t]
        BY Zenon, <1>1, <2>3, LateNotes
      <4>2. iterated'[t] = iterated[t]
        BY Zenon, <1>1, <1>2, <2>3, InsertInserts
      <4> QED BY Zenon, <1>1, <1>6, <2>3, <4>1, <4>2
    <3>2. Expects(t, iterated[t])
      BY Zenon, <2>3 DEF SignalingInv, IteratorAgrees
    <3> QED BY Zenon, <2>1, <2>3, <3>1, <3>2 DEF Expects
  <2>4. CASE pc[t] # "closing"
    <3>1. iterated'[t] = iterated[t]
      BY Zenon, <1>1, <1>2, <1>4, <2>4, InsertInserts
    <3> QED BY Zenon, <2>1, <2>4, <3>1 DEF SignalingInv, IteratorAgrees
  <2> QED BY Zenon, <2>2, <2>3, <2>4
<1>15. IteratorAgrees'
  BY Zenon, <1>14 DEF IteratorAgrees
<1> QED BY Zenon, <1>7, <1>9, <1>10, <1>11, <1>12, <1>13, <1>15 DEF SignalingInv, HostKnowsPlayers

\* The host learns the slot of the player whose joined reply has drained.
LEMMA SignalingTells ==
  ASSUME SignalingInv, NEW c \in Conns, JoinTellsHost(c)
  PROVE  SignalingInv'
<1> DEFINE s == session[c]
           idx == SlotOf(c, s)
<1>1. /\ pc[c] = "joining" /\ informed' = [informed EXCEPT ![s] = @ \cup {idx}]
      /\ pc' = [pc EXCEPT ![c] = "reading"]
      /\ UNCHANGED <<role, session, iterated, by_id, by_code, session_id, clients, relays, old, closed, late,
                     endpoints>>
  BY Zenon DEF JoinTellsHost, registryVars, sessionVars
<1>2. role[c] = "client" /\ session[c] = s
  BY Zenon, <1>1 DEF SignalingInv, RolesAgree
<1>3. s \in Conns /\ \E i \in DOMAIN clients[s] : clients[s][i] = c
  BY Zenon, <1>1, <1>2 DEF SignalingInv, SeatsAgree
<1>4. idx \in DOMAIN clients[s] /\ clients[s][idx] = c
  BY Zenon, <1>3, SlotOfPlayer
<1> HIDE DEF s, idx
<1>5. DOMAIN clients[s] \subseteq Slots
  BY Zenon, <1>3, SlotMapIs DEF SignalingInv, SignalingTypeOK
<1>6. /\ pc' \in [Conns -> {"reading", "relays", "joining", "closing", "done"}] /\ pc'[c] = "reading"
      /\ \A d \in Conns : d # c => pc'[d] = pc[d]
      /\ informed' \in [Conns -> SUBSET Slots] /\ informed'[s] = informed[s] \cup {idx}
      /\ \A t \in Conns : t # s => informed'[t] = informed[t]
  BY Zenon, <1>1, <1>3, <1>4, <1>5 DEF SignalingInv, SignalingTypeOK
<1>7. SignalingTypeOK'
  BY Zenon, <1>1, <1>6 DEF SignalingInv, SignalingTypeOK
<1>8. SeatsAgree' /\ RolesAgree'
  <2>1. \A d \in Conns : pc'[d] \in {"joining", "reading"} => pc[d] \in {"joining", "reading"}
    BY Zenon, <1>1, <1>6
  <2>2. SeatsAgree'
    BY <1>1, <2>1 DEF SignalingInv, SeatsAgree
  <2>3. ASSUME NEW d \in Conns
        PROVE  /\ pc'[d] = "joining" => role[d] = "client"
               /\ pc'[d] \in {"relays", "closing"} => role[d] = "host"
               /\ role[d] = "host" /\ pc'[d] \in {"relays", "reading"} => session[d] = d
    <3>1. CASE d = c
      BY Zenon, <1>2, <1>6, <3>1
    <3>2. CASE d # c
      BY Zenon, <1>6, <3>2 DEF SignalingInv, RolesAgree
    <3> QED BY Zenon, <3>1, <3>2
  <2> QED BY Zenon, <1>1, <2>2, <2>3 DEF RolesAgree
<1>9. RegistryAgrees'
  BY Zenon, <1>1, <1>6 DEF SignalingInv, RegistryAgrees
<1>10. RegistryFollowsHosts'
  <2>1. \A d \in Conns : Players(d)' = Players(d)
    BY Zenon, <1>1 DEF Players
  <2>2. \A d \in Conns : role[d] = "host" => d # c /\ pc'[d] = pc[d]
    BY Zenon, <1>2, <1>6
  <2> QED BY Zenon, <1>1, <2>1, <2>2 DEF SignalingInv, RegistryFollowsHosts
<1>11. ASSUME NEW t \in Conns
       PROVE  informed'[t] = {i \in DOMAIN clients'[t] : pc'[clients'[t][i]] # "joining"}
  <2>1. informed[t] = {i \in DOMAIN clients[t] : pc[clients[t][i]] # "joining"}
    BY Zenon DEF SignalingInv, HostKnowsPlayers
  <2>2. \A i \in DOMAIN clients[t] : clients[t][i] \in Conns
    BY SMTT(30), SlotMapIs DEF SignalingInv, SignalingTypeOK
  <2>3. CASE t # s
    <3>1. \A i \in DOMAIN clients[t] : clients[t][i] # c
      BY <1>2, <2>3 DEF SignalingInv, SeatsAgree
    <3>2. \A i \in DOMAIN clients[t] : pc'[clients[t][i]] = pc[clients[t][i]]
      BY Zenon, <1>6, <2>2, <3>1
    <3>3. informed'[t] = informed[t] /\ clients'[t] = clients[t]
      BY Zenon, <1>1, <1>6, <2>3
    <3> QED BY Zenon, <2>1, <3>2, <3>3
  <2>4. CASE t = s
    <3>1. \A i \in DOMAIN clients[t] : i # idx => clients[t][i] # c
      BY Zenon, <1>3, <1>4, <2>4 DEF SignalingInv, SeatsAgree
    <3>2. \A i \in DOMAIN clients[t] : i # idx => pc'[clients[t][i]] = pc[clients[t][i]]
      BY Zenon, <1>6, <2>2, <3>1
    <3>3. idx \in DOMAIN clients[t] /\ pc'[clients[t][idx]] = "reading"
      BY Zenon, <1>4, <1>6, <2>4
    <3>4. informed'[t] = informed[t] \cup {idx} /\ clients'[t] = clients[t]
      BY Zenon, <1>1, <1>6, <2>4
    <3> QED BY SMTT(30), <2>1, <3>2, <3>3, <3>4
  <2> QED BY Zenon, <2>3, <2>4
<1>12. IteratorAgrees'
  BY Zenon, <1>1, <1>6, LoopsUndisturbed
<1> QED BY Zenon, <1>7, <1>8, <1>9, <1>10, <1>11, <1>12 DEF SignalingInv, HostKnowsPlayers

\* on_leave of a player: its slot is free and the host was told so.
LEMMA SignalingPlayerLeaves ==
  ASSUME SignalingInv, NEW c \in Conns, ClientLeaves(c)
  PROVE  SignalingInv'
<1> DEFINE s == session[c]
           idx == SlotOf(c, s)
           left == Drop(clients[s], {idx})
<1>1. /\ pc[c] = "reading" /\ role[c] = "client"
      /\ clients' = [clients EXCEPT ![s] = left]
      /\ informed' = [informed EXCEPT ![s] = @ \ {idx}]
      /\ session' = [session EXCEPT ![c] = Nobody] /\ pc' = [pc EXCEPT ![c] = "done"]
      /\ iterated' = [iterated EXCEPT ![s].ahead = @ \ {idx}] /\ late' = Late(s, "left")
      /\ UNCHANGED <<role, by_id, by_code, session_id, relays, old, closed, endpoints>>
  BY Zenon DEF ClientLeaves, registryVars
<1>2. session[c] = s
  BY Zenon
<1>3. s \in Conns /\ \E i \in DOMAIN clients[s] : clients[s][i] = c
  BY Zenon, <1>1, <1>2 DEF SignalingInv, SeatsAgree
<1>4. idx \in DOMAIN clients[s] /\ clients[s][idx] = c
  BY Zenon, <1>3, SlotOfPlayer
<1>5. DOMAIN left = DOMAIN clients[s] \ {idx} /\ \A i \in DOMAIN left : left[i] = clients[s][i]
  BY Zenon DEF Drop, Restrict
<1>6. left \in [DOMAIN clients[s] \ {idx} -> Conns] /\ DOMAIN clients[s] \ {idx} \in SUBSET Slots
  <2>1. DOMAIN clients[s] \subseteq Slots /\ clients[s] \in [DOMAIN clients[s] -> Conns]
    BY Zenon, <1>3, SlotMapIs DEF SignalingInv, SignalingTypeOK
  <2> QED BY Zenon, <2>1 DEF Drop, Restrict
<1> HIDE DEF s, idx, left
<1>7. left \in SlotMaps
  BY Zenon, <1>6, IsSlotMap
<1>8. /\ session' \in [Conns -> Conns \cup {Nobody}]
      /\ pc' \in [Conns -> {"reading", "relays", "joining", "closing", "done"}] /\ pc'[c] = "done"
      /\ \A d \in Conns : d # c => session'[d] = session[d] /\ pc'[d] = pc[d]
      /\ clients' \in [Conns -> SlotMaps] /\ clients'[s] = left
      /\ \A t \in Conns : t # s => clients'[t] = clients[t] /\ informed'[t] = informed[t]
      /\ informed' \in [Conns -> SUBSET Slots] /\ informed'[s] = informed[s] \ {idx}
  BY Zenon, <1>1, <1>3, <1>7 DEF SignalingInv, SignalingTypeOK
<1>16. /\ iterated' \in [Conns -> Iterators] /\ iterated'[s].ahead = iterated[s].ahead \ {idx}
       /\ \A t \in Conns : t # s => iterated'[t] = iterated[t]
  <2>1. iterated \in [Conns -> Iterators]
    BY Zenon DEF SignalingInv, SignalingTypeOK, Iterators
  <2> QED BY <1>1, <1>3, <2>1 DEF Iterators
<1>17. /\ late' \in [Conns -> SUBSET {"joined", "left"}]
       /\ \A t \in Conns : t # s \/ pc[t] # "closing" => late'[t] = late[t]
       /\ pc[s] = "closing" => late'[s] = late[s] \cup {"left"}
  BY Zenon, <1>1, <1>3, LateNotes
<1>9. SignalingTypeOK'
  BY Zenon, <1>1, <1>8, <1>16, <1>17 DEF SignalingInv, SignalingTypeOK, Iterators
<1>10. \A t \in Conns : \A i \in DOMAIN clients'[t] :
         i \in DOMAIN clients[t] /\ clients'[t][i] = clients[t][i] /\ clients[t][i] \in Conns /\ clients[t][i] # c
  <2>1. ASSUME NEW t \in Conns, NEW i \in DOMAIN clients[t], clients[t][i] = c PROVE t = s /\ i = idx
    BY <1>2, <1>3, <1>4, <2>1 DEF SignalingInv, SeatsAgree
  <2>2. \A t \in Conns : \A i \in DOMAIN clients[t] : clients[t][i] \in Conns
    BY SlotMapIs DEF SignalingInv, SignalingTypeOK
  <2> QED BY SMTT(30), <1>5, <1>8, <2>1, <2>2
<1>11. SeatsAgree'
  <2>1. ASSUME NEW d \in Conns, role'[d] = "client", pc'[d] \in {"joining", "reading"}
        PROVE  session'[d] \in Conns /\ \E i \in DOMAIN clients'[session'[d]] : clients'[session'[d]][i] = d
    <3>1. d # c /\ session'[d] = session[d]
      BY Zenon, <1>8, <2>1
    <3>2. session[d] \in Conns /\ \E i \in DOMAIN clients[session[d]] : clients[session[d]][i] = d
      BY Zenon, <1>1, <1>8, <2>1, <3>1 DEF SignalingInv, SeatsAgree
    <3>3. PICK i \in DOMAIN clients[session[d]] : clients[session[d]][i] = d
      BY Zenon, <3>2
    <3>4. i \in DOMAIN clients'[session[d]] /\ clients'[session[d]][i] = d
      BY Zenon, <1>4, <1>5, <1>8, <3>1, <3>2, <3>3
    <3> QED BY Zenon, <3>1, <3>2, <3>4
  <2>2. ASSUME NEW t \in Conns, NEW i \in DOMAIN clients'[t]
        PROVE  role'[clients'[t][i]] = "client" /\ session'[clients'[t][i]] = t
    <3>1. /\ i \in DOMAIN clients[t] /\ clients'[t][i] = clients[t][i]
          /\ clients[t][i] \in Conns /\ clients[t][i] # c
      BY Zenon, <1>10, <2>2
    <3>2. role[clients[t][i]] = "client" /\ session[clients[t][i]] = t
      BY Zenon, <2>2, <3>1 DEF SignalingInv, SeatsAgree
    <3> QED BY Zenon, <1>1, <1>8, <3>1, <3>2
  <2>3. ASSUME NEW t \in Conns, NEW i \in DOMAIN clients'[t], NEW j \in DOMAIN clients'[t],
               clients'[t][i] = clients'[t][j]
        PROVE  i = j
    <3>1. i \in DOMAIN clients[t] /\ j \in DOMAIN clients[t] /\ clients[t][i] = clients[t][j]
      BY Zenon, <1>10, <2>3
    <3> QED BY Zenon, <2>3, <3>1 DEF SignalingInv, SeatsAgree
  <2> QED BY Zenon, <2>1, <2>2, <2>3 DEF SeatsAgree
<1>12. RolesAgree'
  BY Zenon, <1>1, <1>8 DEF SignalingInv, RolesAgree
<1>13. RegistryAgrees'
  <2>1. RegistryAgrees /\ Hosts(role') = Hosts(role)
    BY Zenon, <1>1 DEF SignalingInv
  <2>2. ASSUME NEW t \in Conns PROVE relays'[t] = "none" => DOMAIN clients'[t] = {}
    BY Zenon, <1>1, <1>10, <2>1 DEF RegistryAgrees
  <2>3. ASSUME NEW t \in Conns, pc'[t] \in {"relays", "closing"} PROVE t # c /\ pc'[t] = pc[t]
    BY Zenon, <1>8, <2>3
  <2> QED BY Zenon, <1>1, <2>1, <2>2, <2>3 DEF RegistryAgrees
<1>14. RegistryFollowsHosts'
  <2>1. \A t \in Conns : Players(t)' \subseteq Players(t)
    BY Zenon, <1>10 DEF Players
  <2>2. \A t \in Conns : role[t] = "host" => t # c /\ pc'[t] = pc[t] /\ session'[t] = session[t]
    BY Zenon, <1>1, <1>8
  <2> QED BY Zenon, <1>1, <1>17, <2>1, <2>2 DEF SignalingInv, RegistryFollowsHosts
<1>18. IteratorAgrees'
  <2>1. ASSUME NEW t \in Conns
        PROVE  IF pc'[t] = "closing" THEN Expects(t, iterated[t])' ELSE iterated'[t].ahead = {}
    <3>1. pc'[t] = "closing" <=> pc[t] = "closing"
      BY Zenon, <1>1, <1>8
    <3>2. CASE t = s /\ pc[t] = "closing"
      <4>1. Expects(t, iterated[t]) /\ late'[t] = late[t] \cup {"left"}
        BY Zenon, <1>17, <3>2 DEF SignalingInv, IteratorAgrees
      <4>2. iterated'[t].ahead = iterated[t].ahead \ {idx} /\ DOMAIN clients'[t] = DOMAIN clients[t] \ {idx}
        BY Zenon, <1>5, <1>8, <1>16, <3>2
      <4>3. \A i \in DOMAIN clients'[t] : clients'[t][i] = clients[t][i]
        BY Zenon, <1>10
      <4>4. iterated'[t].ahead \subseteq DOMAIN clients'[t]
        BY Zenon, <4>1, <4>2 DEF Expects
      <4>5. ASSUME "joined" \notin late'[t], NEW i \in DOMAIN clients'[t]
            PROVE  i \in iterated'[t].ahead \/ clients'[t][i] \in closed'
        <5>1. "joined" \notin late[t] /\ i \in DOMAIN clients[t] /\ i # idx /\ clients'[t][i] = clients[t][i]
          BY Zenon, <4>1, <4>2, <4>3, <4>5
        <5>2. i \in iterated[t].ahead \/ clients[t][i] \in closed
          BY Zenon, <4>1, <5>1 DEF Expects
        <5>3. CASE i \in iterated[t].ahead
          BY Zenon, <4>2, <5>1, <5>3
        <5>4. CASE clients[t][i] \in closed
          <6>1. closed' = closed
            BY Zenon, <1>1
          <6> QED BY Zenon, <5>1, <5>4, <6>1
        <5> QED BY Zenon, <5>2, <5>3, <5>4
      <4>6. late'[t] # {}
        BY Zenon, <4>1
      <4> QED BY Zenon, <3>1, <3>2, <4>4, <4>5, <4>6 DEF Expects
    <3>3. CASE t # s /\ pc[t] = "closing"
      <4>1. late'[t] = late[t] /\ iterated'[t] = iterated[t] /\ clients'[t] = clients[t] /\ closed' = closed
        BY Zenon, <1>1, <1>8, <1>16, <1>17, <3>3
      <4>2. Expects(t, iterated[t])
        BY Zenon, <3>3 DEF SignalingInv, IteratorAgrees
      <4> QED BY Zenon, <3>1, <3>3, <4>1, <4>2 DEF Expects
    <3>4. CASE pc[t] # "closing"
      <4>1. iterated[t].ahead = {}
        BY Zenon, <3>4 DEF SignalingInv, IteratorAgrees
      <4>2. iterated'[t].ahead = {}
        BY Zenon, <1>16, <4>1
      <4> QED BY Zenon, <3>1, <3>4, <4>2
    <3> QED BY Zenon, <3>2, <3>3, <3>4
  <2> QED BY Zenon, <2>1 DEF IteratorAgrees
<1>15. ASSUME NEW t \in Conns
       PROVE  informed'[t] = {i \in DOMAIN clients'[t] : pc'[clients'[t][i]] # "joining"}
  <2>1. informed[t] = {i \in DOMAIN clients[t] : pc[clients[t][i]] # "joining"}
    BY Zenon DEF SignalingInv, HostKnowsPlayers
  <2>2. \A i \in DOMAIN clients'[t] : pc'[clients'[t][i]] = pc[clients[t][i]]
    BY <1>8, <1>10
  <2>3. CASE t # s
    BY <1>8, <2>1, <2>2, <2>3
  <2>4. CASE t = s
    <3>1. DOMAIN clients'[t] = DOMAIN clients[t] \ {idx} /\ informed'[t] = informed[t] \ {idx}
      BY Zenon, <1>5, <1>8, <2>4
    <3> QED BY Zenon, <2>1, <2>2, <3>1
  <2> QED BY Zenon, <2>3, <2>4
<1> QED BY Zenon, <1>9, <1>11, <1>12, <1>13, <1>14, <1>15, <1>18 DEF SignalingInv, HostKnowsPlayers

\* What lies ahead of an iterator is a finite set of slots.
LEMMA AheadFinite ==
  ASSUME NEW it \in Iterators
  PROVE  IsFiniteSet(it.ahead)
<1>1. it.ahead \subseteq Slots
  BY DEF Iterators
<1>2. IsFiniteSet(Slots)
  BY FS_Interval DEF Slots
<1> QED BY Zenon, <1>1, <1>2, FS_Subset

\* A turn of the loop that visits a player: the player is told, and the
\* iterator expects one entry less.
LEMMA LoopVisits ==
  ASSUME SignalingInv, NEW c \in Conns, NEW it \in Iterators, Expects(c, it), it.len > 0,
         CloseVisits(c, it), UNCHANGED <<clients, late>>
  PROVE  /\ closed \subseteq closed' /\ closed' \subseteq Conns
         /\ iterated' \in [Conns -> Iterators] /\ Expects(c, iterated[c])'
         /\ \A d \in Conns : d # c => iterated'[d] = iterated[d]
<1>1. PICK i \in it.ahead : /\ closed' = closed \cup {clients[c][i]}
                            /\ iterated' = [iterated EXCEPT ![c] = Iterator(it.used, it.len - 1, it.ahead \ {i})]
  BY Zenon DEF CloseVisits
<1> DEFINE next == Iterator(it.used, it.len - 1, it.ahead \ {i})
<1>2. it.ahead \subseteq DOMAIN clients[c] /\ IsFiniteSet(it.ahead)
  BY Zenon, AheadFinite DEF Expects
<1>3. clients[c][i] \in Conns /\ closed \subseteq Conns
  <2>1. clients[c] \in SlotMaps /\ closed \subseteq Conns
    BY Zenon DEF SignalingInv, SignalingTypeOK
  <2>2. clients[c] \in [DOMAIN clients[c] -> Conns]
    BY Zenon, <2>1, SlotMapIs
  <2> QED BY Zenon, <1>2, <2>1, <2>2
<1>4. next.used = it.used /\ next.len = it.len - 1 /\ next.ahead = it.ahead \ {i} /\ next \in Iterators
  BY DEF Iterator, Iterators
<1>5. Cardinality(it.ahead \ {i}) = Cardinality(it.ahead) - 1
  BY Zenon, <1>2, FS_RemoveElement
<1> HIDE DEF next
<1>6. iterated' = [iterated EXCEPT ![c] = next]
  BY Zenon, <1>1 DEF next
<1>7. iterated' \in [Conns -> Iterators] /\ iterated'[c] = next /\ \A d \in Conns : d # c => iterated'[d] = iterated[d]
  <2>1. iterated \in [Conns -> Iterators]
    BY Zenon DEF SignalingInv, SignalingTypeOK, Iterators
  <2> QED BY Zenon, <1>4, <1>6, <2>1
<1>8. next.ahead \subseteq DOMAIN clients'[c]
  BY Zenon, <1>2, <1>4
<1>9. "joined" \notin late'[c] => \A j \in DOMAIN clients'[c] : j \in next.ahead \/ clients'[c][j] \in closed'
  BY Zenon, <1>1, <1>4 DEF Expects
<1>10. late'[c] = {} => next.used = Cardinality(DOMAIN clients'[c]) /\ next.len = Cardinality(next.ahead)
  BY Zenon, <1>4, <1>5 DEF Expects
<1>11. Expects(c, iterated[c])'
  BY Zenon, <1>7, <1>8, <1>9, <1>10 DEF Expects
<1> QED BY Zenon, <1>1, <1>3, <1>7, <1>11

\* The iterator raises only when a player came or went.
LEMMA LoopRaises ==
  ASSUME SignalingInv, NEW c \in Conns, NEW it \in Iterators, Expects(c, it),
         Changed(c, it) \/ (it.ahead # {} /\ it.len = 0)
  PROVE  late[c] # {}
<1> SUFFICES ASSUME late[c] = {} PROVE FALSE
  BY Zenon
<1>1. it.used = Cardinality(DOMAIN clients[c]) /\ it.len = Cardinality(it.ahead)
  BY Zenon DEF Expects
<1>2. it.ahead # {} /\ Cardinality(it.ahead) = 0
  BY Zenon, <1>1 DEF Changed
<1>3. IsFiniteSet(it.ahead)
  BY Zenon, AheadFinite
<1> QED BY Zenon, <1>2, <1>3, FS_EmptySet

\* A turn of the leaving host's loop.  Whoever it visits is told; it ends with
\* the session removed when no player is left, or, when a player came or went,
\* with the session still registered.
LEMMA SignalingCloses ==
  ASSUME SignalingInv, NEW c \in Conns, role[c] = "host", ~old[c] => c \in by_code,
         NEW it \in Iterators, Expects(c, it), CloseNext(c, it),
         session' \in [Conns -> Conns \cup {Nobody}], \A d \in Conns : d # c => session'[d] = session[d],
         UNCHANGED <<role, session_id, clients, old, informed, late, endpoints>>
  PROVE  SignalingInv'
<1> DEFINE visits == it.len > 0 /\ CloseVisits(c, it)
           removes == it.ahead = {} /\ RemoveSessions({c}) /\ CloseEnds(c)
           raises == (Changed(c, it) \/ (it.ahead # {} /\ it.len = 0)) /\ CloseEnds(c) /\ UNCHANGED <<registryVars, relays>>
<1>1. visits \/ removes \/ raises
  BY Zenon DEF CloseNext
<1>2. /\ pc' \in [Conns -> {"reading", "relays", "joining", "closing", "done"}]
      /\ pc'[c] \in {"closing", "done"} /\ \A d \in Conns : d # c => pc'[d] = pc[d]
  BY Zenon, <1>1 DEF CloseVisits, CloseEnds, SignalingInv, SignalingTypeOK
<1>3. /\ closed \subseteq closed' /\ closed' \subseteq Conns /\ iterated' \in [Conns -> Iterators]
      /\ IF pc'[c] = "closing" THEN Expects(c, iterated[c])' ELSE iterated'[c].ahead = {}
      /\ \A d \in Conns : d # c => iterated'[d] = iterated[d]
  <2>1. CASE visits
    <3>1. pc'[c] = "closing"
      BY Zenon, <2>1 DEF CloseVisits, SignalingInv, SignalingTypeOK
    <3> QED BY Zenon, <2>1, <3>1, LoopVisits
  <2>2. CASE CloseEnds(c)
    <3>1. pc'[c] = "done" /\ closed' = closed /\ iterated' = [iterated EXCEPT ![c] = NotLeaving]
      BY Zenon, <2>2 DEF CloseEnds, SignalingInv, SignalingTypeOK
    <3>2. NotLeaving \in Iterators /\ NotLeaving.ahead = {}
      BY DEF NotLeaving, Iterator, Iterators
    <3>3. iterated \in [Conns -> Iterators] /\ closed \subseteq Conns
      BY Zenon DEF SignalingInv, SignalingTypeOK, Iterators
    <3> QED BY Zenon, <3>1, <3>2, <3>3
  <2> QED BY Zenon, <1>1, <2>1, <2>2
<1>4. \/ UNCHANGED <<registryVars, relays>> /\ (pc'[c] = "done" => late[c] # {})
      \/ RemoveSessions({c}) /\ pc'[c] = "done" /\ ("joined" \notin late[c] => Players(c) \subseteq closed)
  <2>1. CASE visits
    BY Zenon, <2>1 DEF CloseVisits, SignalingInv, SignalingTypeOK
  <2>2. CASE raises
    BY Zenon, <2>2, LoopRaises
  <2>3. CASE removes
    <3>1. pc'[c] = "done" /\ it.ahead = {}
      BY Zenon, <2>3 DEF CloseEnds, SignalingInv, SignalingTypeOK
    <3>2. ASSUME "joined" \notin late[c], NEW p \in Players(c) PROVE p \in closed
      <4>1. PICK i \in DOMAIN clients[c] : p = clients[c][i]
        BY Zenon, <3>2 DEF Players
      <4>2. i \in it.ahead \/ clients[c][i] \in closed
        BY Zenon, <3>2 DEF Expects
      <4> QED BY Zenon, <3>1, <4>1, <4>2
    <3> QED BY Zenon, <2>3, <3>1, <3>2
  <2> QED BY Zenon, <1>1, <2>1, <2>2, <2>3
<1> HIDE DEF visits, removes, raises
<1>5. /\ \/ by_code' = by_code /\ (pc'[c] = "done" => late[c] # {})
         \/ by_code' = by_code \ {c} /\ pc'[c] = "done" /\ ("joined" \notin late[c] => Players(c) \subseteq closed)
      /\ DOMAIN by_id' \subseteq 1 .. Cardinality(Conns) /\ \A i \in DOMAIN by_id' : by_id'[i] \in Conns
      /\ Cardinality(DOMAIN by_id') <= Cardinality(Hosts(role))
      /\ relays' \in [Conns -> {"none", "open", "closed"}]
      /\ \A s \in Conns : relays'[s] = "none" <=> relays[s] = "none"
      /\ \A s \in Conns : s \notin {c} => relays'[s] = relays[s]
  <2>1. CASE UNCHANGED <<registryVars, relays>> /\ (pc'[c] = "done" => late[c] # {})
    BY Zenon, <2>1 DEF registryVars, SignalingInv, SignalingTypeOK, RegistryAgrees
  <2>2. CASE RemoveSessions({c}) /\ pc'[c] = "done" /\ ("joined" \notin late[c] => Players(c) \subseteq closed)
    BY Zenon, <2>2, RemoveSessionsRemoves
  <2> QED BY Zenon, <1>4, <2>1, <2>2
<1>6. SignalingTypeOK'
  <2>1. by_code' \subseteq Conns
    BY Zenon, <1>5 DEF SignalingInv, SignalingTypeOK
  <2> QED BY Zenon, <1>2, <1>3, <1>5, <2>1 DEF SignalingInv, SignalingTypeOK, Iterators
<1>7. SeatsAgree' /\ HostKnowsPlayers'
  BY Zenon, <1>2, OthersKeepSeats
<1>8. RolesAgree'
  BY Zenon, <1>2 DEF SignalingInv, RolesAgree
<1>9. RegistryAgrees'
  BY Zenon, <1>2, <1>3, <1>5 DEF SignalingInv, RegistryAgrees
<1>10. RegistryFollowsHosts'
  <2>1. \A s \in Conns : Players(s)' = Players(s)
    BY Zenon DEF Players
  <2> QED BY SMTT(30), <1>2, <1>3, <1>5, <2>1 DEF SignalingInv, RegistryFollowsHosts
<1>11. IteratorAgrees'
  <2>1. ASSUME NEW d \in Conns, d # c
        PROVE  IF pc'[d] = "closing" THEN Expects(d, iterated[d])' ELSE iterated'[d].ahead = {}
    BY Zenon, <1>2, <1>3, <2>1 DEF SignalingInv, IteratorAgrees, Expects
  <2> QED BY Zenon, <1>3, <2>1 DEF IteratorAgrees
<1> QED BY Zenon, <1>6, <1>7, <1>8, <1>9, <1>10, <1>11 DEF SignalingInv

\* on_leave of a host: the loop over its players begins.
LEMMA SignalingHostLeaves ==
  ASSUME SignalingInv, NEW c \in Conns, HostLeaves(c)
  PROVE  SignalingInv'
<1> DEFINE size == Cardinality(DOMAIN clients[c])
           it == Iterator(size, size, DOMAIN clients[c])
<1>1. /\ pc[c] = "reading" /\ role[c] = "host" /\ session' = [session EXCEPT ![c] = Nobody]
      /\ CloseNext(c, it)
      /\ UNCHANGED <<role, session_id, clients, old, informed, late, endpoints>>
  BY Zenon DEF HostLeaves
<1>2. session' \in [Conns -> Conns \cup {Nobody}] /\ \A d \in Conns : d # c => session'[d] = session[d]
  BY Zenon, <1>1 DEF SignalingInv, SignalingTypeOK
<1>3. ~old[c] => c \in by_code
  BY Zenon, <1>1 DEF SignalingInv, RolesAgree, RegistryFollowsHosts
<1>4. size \in 0 .. MAX_PLAYERS /\ DOMAIN clients[c] \subseteq Slots
  BY Zenon, SlotMapIs, SlotsFinite DEF SignalingInv, SignalingTypeOK
<1>5. it \in Iterators /\ it.used = size /\ it.len = size /\ it.ahead = DOMAIN clients[c]
  <2> HIDE DEF size
  <2> QED BY <1>4 DEF Iterator, Iterators
<1>6. Expects(c, it)
  <2> HIDE DEF it
  <2> QED BY Zenon, <1>5 DEF Expects
<1> HIDE DEF it
<1> QED BY SMTT(30), <1>1, <1>2, <1>3, <1>5, <1>6, SignalingCloses

\* The loop goes on, ends, or is broken by a table that changed.
LEMMA SignalingHostLeavesOn ==
  ASSUME SignalingInv, NEW c \in Conns, HostLeavesOn(c)
  PROVE  SignalingInv'
<1>1. /\ pc[c] = "closing" /\ CloseNext(c, iterated[c])
      /\ UNCHANGED <<role, session, session_id, clients, old, informed, late, endpoints>>
  BY Zenon DEF HostLeavesOn
<1>2. session' \in [Conns -> Conns \cup {Nobody}] /\ \A d \in Conns : session'[d] = session[d]
  BY Zenon, <1>1 DEF SignalingInv, SignalingTypeOK
<1>3. role[c] = "host" /\ (~old[c] => c \in by_code) /\ Expects(c, iterated[c])
  BY Zenon, <1>1 DEF SignalingInv, RolesAgree, RegistryAgrees, IteratorAgrees
<1>4. iterated[c] \in Iterators
  BY Zenon DEF SignalingInv, SignalingTypeOK, Iterators
<1> QED BY Zenon, <1>1, <1>2, <1>3, <1>4, SignalingCloses

\* on_leave of a connection with no session.
LEMMA SignalingNobodyLeaves ==
  ASSUME SignalingInv, NEW c \in Conns, NobodyLeaves(c)
  PROVE  SignalingInv'
<1>1. /\ pc[c] = "reading" /\ role[c] = "none" /\ pc' = [pc EXCEPT ![c] = "done"]
      /\ UNCHANGED <<role, session, iterated, by_id, by_code, session_id, clients, relays, old, informed, closed, late,
                     endpoints>>
  BY Zenon DEF NobodyLeaves, registryVars, sessionVars, peerVars
<1>2. /\ pc' \in [Conns -> {"reading", "relays", "joining", "closing", "done"}] /\ pc'[c] = "done"
      /\ \A d \in Conns : d # c => pc'[d] = pc[d]
  BY Zenon, <1>1 DEF SignalingInv, SignalingTypeOK
<1>3. SignalingTypeOK'
  BY Zenon, <1>1, <1>2 DEF SignalingInv, SignalingTypeOK
<1>4. SeatsAgree' /\ HostKnowsPlayers'
  BY Zenon, <1>1, <1>2, OthersKeepSeats
<1>5. RolesAgree' /\ RegistryAgrees'
  BY Zenon, <1>1, <1>2 DEF SignalingInv, RolesAgree, RegistryAgrees
<1>6. RegistryFollowsHosts'
  BY <1>1, <1>2 DEF SignalingInv, RegistryFollowsHosts, Players
<1>7. IteratorAgrees'
  BY Zenon, <1>1, <1>2, LoopsUndisturbed
<1> QED BY Zenon, <1>3, <1>4, <1>5, <1>6, <1>7 DEF SignalingInv

\* A player's datagram binds its endpoint in the relay.
LEMMA SignalingBinds ==
  ASSUME SignalingInv, NEW c \in Conns, NEW s \in Conns, Bind(c, s)
  PROVE  SignalingInv'
<1> DEFINE idx == SlotOf(c, s)
           new == [i \in DOMAIN endpoints[s] \cup {idx} |-> IF i = idx THEN c ELSE endpoints[s][i]]
<1>1. /\ c \in Players(s) /\ endpoints' = [endpoints EXCEPT ![s] = new]
      /\ UNCHANGED <<connVars, registryVars, sessionVars, peerVars>>
  BY Zenon DEF Bind
<1>2. idx \in DOMAIN clients[s]
  BY Zenon, <1>1, SlotOfPlayer DEF Players
<1>3. DOMAIN clients[s] \subseteq Slots /\ DOMAIN endpoints[s] \subseteq Slots
      /\ endpoints[s] \in [DOMAIN endpoints[s] -> Conns]
  BY Zenon, SlotMapIs DEF SignalingInv, SignalingTypeOK
<1>4. new \in [DOMAIN endpoints[s] \cup {idx} -> Conns] /\ DOMAIN endpoints[s] \cup {idx} \in SUBSET Slots
  <2> HIDE DEF idx
  <2> QED BY Zenon, <1>2, <1>3
<1> HIDE DEF idx, new
<1>5. new \in SlotMaps
  BY Zenon, <1>4, IsSlotMap
<1>6. SignalingTypeOK'
  BY Zenon, <1>1, <1>5 DEF SignalingInv, SignalingTypeOK, connVars, registryVars, sessionVars, peerVars
<1>7. SeatsAgree' /\ RolesAgree' /\ RegistryAgrees'
  BY SMTT(30), <1>1 DEF SignalingInv, SeatsAgree, RolesAgree, RegistryAgrees, connVars, registryVars, sessionVars, peerVars
<1>8. HostKnowsPlayers' /\ RegistryFollowsHosts'
  BY Zenon, <1>1 DEF SignalingInv, HostKnowsPlayers, RegistryFollowsHosts, Players, connVars, registryVars, sessionVars,
              peerVars
<1>9. IteratorAgrees'
  BY Zenon, <1>1, LoopsUndisturbed DEF connVars, sessionVars, peerVars
<1> QED BY Zenon, <1>6, <1>7, <1>8, <1>9 DEF SignalingInv

\* Every step of the server keeps its tables in agreement.
LEMMA SignalingSteps ==
  ASSUME SignalingInv, [SignalingNext]_signalingVars
  PROVE  SignalingInv'
<1>1. CASE Expire
  BY Zenon, <1>1, SignalingExpires
<1>2. ASSUME NEW c \in Conns,
             \/ Age(c) \/ OnHostRegister(c) \/ StartSessionRelays(c) \/ RelaysFail(c)
             \/ JoinTellsHost(c) \/ ClientLeaves(c) \/ HostLeaves(c) \/ HostLeavesOn(c)
             \/ NobodyLeaves(c)
      PROVE  SignalingInv'
  BY Zenon, <1>2, SignalingAges, SignalingRegisters, SignalingOpensRelays, SignalingRelaysFail, SignalingTells,
     SignalingPlayerLeaves, SignalingHostLeaves, SignalingHostLeavesOn, SignalingNobodyLeaves
<1>3. ASSUME NEW c \in Conns, NEW s \in Conns, OnJoin(c, s) \/ Bind(c, s)
      PROVE  SignalingInv'
  BY Zenon, <1>3, SignalingJoins, SignalingBinds
<1>4. CASE UNCHANGED signalingVars
  <2>1. UNCHANGED <<role, session, pc, iterated, by_id, by_code, session_id, clients, relays, old, informed, closed,
                    late, endpoints>>
    BY Zenon, <1>4 DEF signalingVars, connVars, registryVars, sessionVars, peerVars
  <2>2. SignalingTypeOK'
    BY Zenon, <2>1 DEF SignalingInv, SignalingTypeOK
  <2>3. SeatsAgree' /\ RolesAgree' /\ RegistryAgrees'
    BY SMTT(30), <2>1 DEF SignalingInv, SeatsAgree, RolesAgree, RegistryAgrees
  <2>4. HostKnowsPlayers' /\ RegistryFollowsHosts'
    BY Zenon, <2>1 DEF SignalingInv, HostKnowsPlayers, RegistryFollowsHosts, Players
  <2>5. IteratorAgrees'
    BY Zenon, <2>1, LoopsUndisturbed
  <2> QED BY Zenon, <2>2, <2>3, <2>4, <2>5 DEF SignalingInv
<1> QED BY Zenon, <1>1, <1>2, <1>3, <1>4 DEF SignalingNext

\* What the host was told by client_joined and client_left is the table of
\* players less those whose joined reply still drains, for any number of
\* connections and slots (on_join and on_leave of server.py).
THEOREM HostIsToldOfPlayers == SignalingSpec => [](SignalingTypeOK /\ HostKnowsPlayers)
<1>1. SignalingInit => SignalingInv
  BY Zenon, SignalingStarts
<1>2. SignalingInv /\ [SignalingNext]_signalingVars => SignalingInv'
  BY Zenon, SignalingSteps
<1>3. SignalingInv => SignalingTypeOK /\ HostKnowsPlayers
  BY Zenon DEF SignalingInv
<1> QED BY <1>1, <1>2, <1>3, PTL DEF SignalingSpec

\* A served host's session that has not grown old is found under its code
\* with its relays open.  A host that left while no player came or went left
\* no session behind; and unless a player joined while it left, a session
\* taken out of the registry has no player that was not told (on_host_register,
\* the expiry task, and the loop of on_leave in server.py, with the errors of
\* its iterator), for any number of connections and slots.
THEOREM RegistryIsKept == SignalingSpec => []RegistryFollowsHosts
<1>1. SignalingInit => SignalingInv
  BY Zenon, SignalingStarts
<1>2. SignalingInv /\ [SignalingNext]_signalingVars => SignalingInv'
  BY Zenon, SignalingSteps
<1>3. SignalingInv => RegistryFollowsHosts
  BY Zenon DEF SignalingInv
<1> QED BY <1>1, <1>2, <1>3, PTL DEF SignalingSpec

HIDE SignalingAssumption

-------------------------------------------------------------------------------
(* InputInjector *)

\* A key that is held is one its player may still press, and a virtual pad
\* belongs to a known player with the controller permission.
InputIsPermitted ==
  /\ \A p \in DOMAIN clients_ : clients_[p].held \cap Keys # {} => clients_[p].perms.keyboard
  /\ \A p \in pads : p \in DOMAIN clients_ /\ clients_[p].perms.controller

\* A plain key or a button that is down is held by a known player.
PlainHeld == \A x \in keysDown \ ExtendedKeys : \E p \in DOMAIN clients_ : x \in clients_[p].held

\* The inductive invariant of the injector.  A release that SendInput refused
\* leaves a key down that nobody holds.
InjectorInv == InjectorTypeOK /\ InputIsPermitted /\ (~InputFails => PlainHeld)

USE InjectorAssumption

\* The record of a player, known or not.
LEMMA KnownIsRecord ==
  ASSUME InjectorInv, NEW p \in PlayerIndexes
  PROVE  /\ Known(p) \in ClientRecord
         /\ Known(p).held \cap Keys # {} => Known(p).perms.keyboard
<1>1. CASE p \in DOMAIN clients_
  BY Zenon, <1>1 DEF Known, InjectorInv, InjectorTypeOK, InputIsPermitted
<1>2. CASE p \notin DOMAIN clients_
  BY Zenon, <1>2 DEF Known, NewClient, ClientRecord, Permissions
<1> QED BY Zenon, <1>1, <1>2

\* One player's record replaced, the others as they were.
LEMMA WithReplaces ==
  ASSUME NEW p \in PlayerIndexes, NEW c, clients_' = With(p, c)
  PROVE  /\ DOMAIN clients_' = DOMAIN clients_ \cup {p}
         /\ clients_'[p] = c
         /\ \A q \in DOMAIN clients_ : q # p => clients_'[q] = clients_[q]
BY Zenon DEF With

\* Replacing a record keeps the types, and the permissions when the record
\* and the pads agree with them.
LEMMA ReplaceKeeps ==
  ASSUME InjectorInv, NEW p \in PlayerIndexes, NEW c \in ClientRecord, clients_' = With(p, c),
         c.held \cap Keys # {} => c.perms.keyboard,
         pads' \subseteq pads \cup {p}, p \in pads' => c.perms.controller,
         pads' \subseteq PlayerIndexes, Cardinality(pads') <= MaxPads,
         keysDown' \subseteq Keys \cup Buttons,
         rumbleSender' \in PlayerIndexes \cup {NoPlayer}
  PROVE  InjectorTypeOK' /\ InputIsPermitted'
<1>1. /\ DOMAIN clients_' = DOMAIN clients_ \cup {p}
      /\ clients_'[p] = c
      /\ \A q \in DOMAIN clients_ : q # p => clients_'[q] = clients_[q]
  BY Zenon, WithReplaces
<1>2. InjectorTypeOK'
  BY Zenon, <1>1 DEF InjectorInv, InjectorTypeOK
<1>3. InputIsPermitted'
  BY Zenon, <1>1 DEF InjectorInv, InputIsPermitted
<1> QED BY Zenon, <1>2, <1>3

\* addPlayer and removePlayer keep the number of pads within ViGEm's limit.
LEMMA PadsBounded ==
  ASSUME InjectorInv, NEW p \in PlayerIndexes, NEW was \in BOOLEAN, NEW now \in BOOLEAN,
         NEW new \in PadsAfter(p, was, now)
  PROVE  /\ new \subseteq PlayerIndexes /\ Cardinality(new) <= MaxPads
         /\ new \subseteq pads \cup {p}
         /\ was /\ ~now => p \notin new
         /\ ~now => new \subseteq pads
<1>1. IsFiniteSet(pads) /\ Cardinality(pads) \in Nat /\ Cardinality(pads) <= MaxPads /\ pads \subseteq PlayerIndexes
  BY Zenon, FS_Subset, FS_CardinalityType DEF InjectorInv, InjectorTypeOK
<1>2. new = pads \/ (new = pads \ {p} /\ was /\ ~now)
      \/ (new = pads \cup {p} /\ now /\ Cardinality(pads) < MaxPads /\ p \notin pads)
  BY <1>1 DEF PadsAfter, AddPlayer
<1>3. was /\ ~now => new = pads \ {p}
  BY Zenon DEF PadsAfter
<1>4. CASE new = pads
  BY Zenon, <1>1, <1>3, <1>4
<1>5. CASE new = pads \ {p} /\ was /\ ~now
  <2>1. Cardinality(pads \ {p}) <= Cardinality(pads) /\ Cardinality(pads \ {p}) \in Nat
    BY Zenon, <1>1, FS_Subset, FS_CardinalityType
  <2> QED BY <1>1, <1>5, <2>1
<1>6. CASE new = pads \cup {p} /\ now /\ Cardinality(pads) < MaxPads /\ p \notin pads
  <2>1. Cardinality(pads \cup {p}) = Cardinality(pads) + 1
    BY Zenon, <1>1, <1>6, FS_AddElement
  <2> QED BY <1>1, <1>6, <2>1
<1> QED BY Zenon, <1>2, <1>4, <1>5, <1>6

\* Released plain keys and buttons are up, unless SendInput failed.
LEMMA ReleaseFrees ==
  ASSUME NEW keys, Release(keys)
  PROVE  /\ keysDown' \subseteq keysDown
         /\ ~InputFails => keysDown' = keysDown \ (keys \ ExtendedKeys)
BY Zenon DEF Release

\* The injector starts with nobody known and nothing held.
LEMMA InjectorStarts == InjInit => InjectorInv
<1> SUFFICES ASSUME InjInit PROVE InjectorInv
  BY Zenon
<1>1. DOMAIN clients_ = {} /\ Cardinality(pads) = 0
  BY Zenon, FS_EmptySet DEF InjInit
<1> QED BY <1>1 DEF InjInit, InjectorInv, InjectorTypeOK, InputIsPermitted, PlainHeld

\* setPermissions releases what is no longer permitted, and adds or
\* removes the pad.
LEMMA InjectorSetsPermissions ==
  ASSUME InjectorInv, NEW p \in PlayerIndexes, NEW perms \in PermissionSets, NEW streaming \in BOOLEAN,
         SetPermissions(p, perms, streaming)
  PROVE  InjectorInv'
<1> DEFINE c == Known(p)
           held == HeldAfter(c, perms)
           new == [perms |-> perms, held |-> held]
<1>1. c \in ClientRecord /\ perms \in Permissions
  BY Zenon, KnownIsRecord
<1>2. /\ clients_' = With(p, new)
      /\ pads' \in PadsAfter(p, c.perms.controller, perms.controller)
      /\ Release(c.held \ held)
      /\ rumbleSender' = IF streaming /\ perms.controller THEN p ELSE rumbleSender
  BY Zenon DEF SetPermissions
<1>3. new \in ClientRecord /\ new.perms = perms /\ new.held = held /\ (~perms.keyboard => held = {})
  BY Zenon, <1>1 DEF HeldAfter, ClientRecord
<1> HIDE DEF c, held, new
<1>4. c.perms.controller \in BOOLEAN /\ perms.controller \in BOOLEAN
  BY Zenon, <1>1 DEF ClientRecord, Permissions
<1>5. /\ pads' \subseteq PlayerIndexes /\ Cardinality(pads') <= MaxPads
      /\ pads' \subseteq pads \cup {p}
      /\ c.perms.controller /\ ~perms.controller => p \notin pads'
      /\ ~perms.controller => pads' \subseteq pads
  <2>1. pads' \in PadsAfter(p, c.perms.controller, perms.controller)
    BY Zenon, <1>2
  <2> QED BY ZenonT(30), <1>4, <2>1, PadsBounded
<1>6. p \in pads' => perms.controller
  <2>1. p \in pads => c.perms.controller
    BY Zenon DEF InjectorInv, InputIsPermitted, c, Known
  <2> QED BY Zenon, <1>5, <2>1
<1>7. keysDown' \subseteq keysDown /\ (~InputFails => keysDown' = keysDown \ ((c.held \ held) \ ExtendedKeys))
  BY Zenon, <1>2, ReleaseFrees
<1>8. rumbleSender' \in PlayerIndexes \cup {NoPlayer} /\ keysDown' \subseteq Keys \cup Buttons
  BY Zenon, <1>2, <1>7 DEF InjectorInv, InjectorTypeOK
<1>9. InjectorTypeOK' /\ InputIsPermitted'
  BY Zenon, <1>2, <1>3, <1>5, <1>6, <1>8, ReplaceKeeps
<1>10. ASSUME ~InputFails, NEW x \in keysDown' \ ExtendedKeys PROVE \E q \in DOMAIN clients_' : x \in clients_'[q].held
  <2>1. PICK q \in DOMAIN clients_ : x \in clients_[q].held
    BY Zenon, <1>7, <1>10 DEF InjectorInv, PlainHeld
  <2>2. /\ DOMAIN clients_' = DOMAIN clients_ \cup {p} /\ clients_'[p] = new
        /\ \A r \in DOMAIN clients_ : r # p => clients_'[r] = clients_[r]
    BY Zenon, <1>2, WithReplaces
  <2>3. CASE q # p
    BY Zenon, <2>1, <2>2, <2>3
  <2>4. CASE q = p
    <3>1. c = clients_[p]
      BY Zenon, <2>1, <2>4 DEF c, Known
    <3>2. x \in held
      BY Zenon, <1>7, <1>10, <2>1, <2>4, <3>1
    <3> QED BY Zenon, <1>3, <2>2, <3>2
  <2> QED BY Zenon, <2>3, <2>4
<1> QED BY Zenon, <1>9, <1>10 DEF InjectorInv, PlainHeld

\* A controller state, or an event that is not permitted: the player is known
\* from now on and nothing else changes.
LEMMA InjectorNotes ==
  ASSUME InjectorInv, NEW p \in PlayerIndexes, clients_' = With(p, Known(p)),
         UNCHANGED <<pads, keysDown, rumbleSender>>
  PROVE  InjectorInv'
<1> DEFINE c == Known(p)
<1>1. c \in ClientRecord /\ (c.held \cap Keys # {} => c.perms.keyboard)
  BY Zenon, KnownIsRecord
<1>2. p \in pads => c.perms.controller
  BY Zenon DEF InjectorInv, InputIsPermitted, Known
<1>3. p \in DOMAIN clients_ => c = clients_[p]
  BY Zenon DEF Known
<1> HIDE DEF c
<1>4. InjectorTypeOK' /\ InputIsPermitted'
  <2>1. clients_' = With(p, c)
    BY Zenon DEF c
  <2> QED BY Zenon, <1>1, <1>2, <2>1, ReplaceKeeps DEF InjectorInv, InjectorTypeOK
<1>5. /\ DOMAIN clients_' = DOMAIN clients_ \cup {p} /\ clients_'[p] = c
      /\ \A r \in DOMAIN clients_ : r # p => clients_'[r] = clients_[r]
  BY Zenon, WithReplaces DEF c
<1>6. \A r \in DOMAIN clients_ : clients_'[r] = clients_[r]
  BY Zenon, <1>3, <1>5
<1> QED BY Zenon, <1>4, <1>5, <1>6 DEF InjectorInv, PlainHeld

\* A key or button event that is permitted.  The record changes whether or
\* not SendInput succeeds; when it does, the key follows the record.
LEMMA InjectorKeyEvent ==
  ASSUME InjectorInv, NEW p \in PlayerIndexes, NEW x \in Keys \cup Buttons, NEW isDown \in BOOLEAN,
         NEW ok \in {TRUE, ~InputFails}, Permitted(p, x), KeyEvent(p, x, isDown, ok),
         UNCHANGED <<pads, rumbleSender>>
  PROVE  InjectorInv'
<1> DEFINE c == Known(p)
           held == IF isDown THEN c.held \cup {x} ELSE c.held \ {x}
           new == [c EXCEPT !.held = held]
<1>1. c \in ClientRecord /\ (c.held \cap Keys # {} => c.perms.keyboard)
  BY Zenon, KnownIsRecord
<1>2. /\ clients_' = With(p, new)
      /\ keysDown' = IF ~ok THEN keysDown ELSE IF isDown THEN keysDown \cup {x} ELSE keysDown \ {x}
  BY Zenon DEF KeyEvent
<1>3. new \in ClientRecord /\ new.perms = c.perms /\ new.held = held
  BY Zenon, <1>1 DEF ClientRecord
<1>4. held \cap Keys # {} => c.perms.keyboard
  BY Zenon, <1>1 DEF Permitted
<1>5. p \in pads => c.perms.controller
  BY Zenon DEF InjectorInv, InputIsPermitted, Known
<1>6. p \in DOMAIN clients_ => c = clients_[p]
  BY Zenon DEF Known
<1>7. /\ isDown => held = c.held \cup {x}
      /\ ~isDown => held = c.held \ {x}
  BY Zenon
<1> HIDE DEF c, held, new
<1>8. keysDown' \subseteq Keys \cup Buttons
  BY Zenon, <1>2 DEF InjectorInv, InjectorTypeOK
<1>9. InjectorTypeOK' /\ InputIsPermitted'
  BY Zenon, <1>2, <1>3, <1>4, <1>5, <1>8, ReplaceKeeps DEF InjectorInv, InjectorTypeOK
<1>10. /\ DOMAIN clients_' = DOMAIN clients_ \cup {p} /\ clients_'[p] = new
       /\ \A r \in DOMAIN clients_ : r # p => clients_'[r] = clients_[r]
  BY Zenon, <1>2, WithReplaces
<1>11. ASSUME ~InputFails, NEW y \in keysDown' \ ExtendedKeys PROVE \E q \in DOMAIN clients_' : y \in clients_'[q].held
  <2>1. keysDown' = IF isDown THEN keysDown \cup {x} ELSE keysDown \ {x}
    BY Zenon, <1>2, <1>11
  <2>2. CASE isDown /\ y = x
    BY Zenon, <1>3, <1>7, <1>10, <2>2
  <2>3. CASE ~(isDown /\ y = x)
    <3>1. y \in keysDown \ ExtendedKeys /\ (~isDown => y # x)
      BY Zenon, <1>11, <2>1, <2>3
    <3>2. PICK q \in DOMAIN clients_ : y \in clients_[q].held
      BY Zenon, <1>11, <3>1 DEF InjectorInv, PlainHeld
    <3>3. CASE q # p
      BY Zenon, <1>10, <3>2, <3>3
    <3>4. CASE q = p
      <4>1. y \in held
        BY Zenon, <1>6, <1>7, <3>1, <3>2, <3>4
      <4> QED BY Zenon, <1>3, <1>10, <4>1
    <3> QED BY Zenon, <3>3, <3>4
  <2> QED BY Zenon, <2>2, <2>3
<1> QED BY Zenon, <1>9, <1>11 DEF InjectorInv, PlainHeld

\* clientDisconnected releases the player's keys and removes the pad.
LEMMA InjectorDisconnects ==
  ASSUME InjectorInv, NEW p \in PlayerIndexes, ClientDisconnected(p)
  PROVE  InjectorInv'
<1>1. /\ DOMAIN clients_' = DOMAIN clients_ \ {p}
      /\ \A q \in DOMAIN clients_ \ {p} : clients_'[q] = clients_[q]
  BY Zenon DEF ClientDisconnected, Without
<1>2. pads' = pads \ {p} /\ rumbleSender' = rumbleSender
  BY Zenon DEF ClientDisconnected
<1>3. Cardinality(pads') <= MaxPads
  <2>1. IsFiniteSet(pads) /\ Cardinality(pads) \in Nat /\ Cardinality(pads) <= MaxPads
    BY Zenon, FS_Subset, FS_CardinalityType DEF InjectorInv, InjectorTypeOK
  <2>2. Cardinality(pads \ {p}) <= Cardinality(pads) /\ Cardinality(pads \ {p}) \in Nat
    BY Zenon, <2>1, FS_Subset, FS_CardinalityType
  <2> QED BY <1>2, <2>1, <2>2
<1>4. keysDown' \subseteq keysDown /\ (~InputFails => keysDown' = keysDown \ (Known(p).held \ ExtendedKeys))
  BY Zenon, ReleaseFrees DEF ClientDisconnected
<1>5. InjectorTypeOK'
  BY Zenon, <1>1, <1>2, <1>3, <1>4 DEF InjectorInv, InjectorTypeOK
<1>6. InputIsPermitted'
  BY Zenon, <1>1, <1>2 DEF InjectorInv, InputIsPermitted
<1>7. ASSUME ~InputFails, NEW y \in keysDown' \ ExtendedKeys PROVE \E q \in DOMAIN clients_' : y \in clients_'[q].held
  <2>1. PICK q \in DOMAIN clients_ : y \in clients_[q].held
    BY Zenon, <1>4, <1>7 DEF InjectorInv, PlainHeld
  <2>2. q # p
    BY Zenon, <1>4, <1>7, <2>1 DEF Known
  <2> QED BY Zenon, <1>1, <2>1, <2>2
<1> QED BY Zenon, <1>5, <1>6, <1>7 DEF InjectorInv, PlainHeld

\* shutdown releases everybody's keys and removes every pad.
LEMMA InjectorShutsDown ==
  ASSUME InjectorInv, Shutdown
  PROVE  InjectorInv'
<1> DEFINE all == UNION {clients_[p].held : p \in DOMAIN clients_}
<1>1. DOMAIN clients_' = {} /\ pads' = {} /\ rumbleSender' = NoPlayer /\ Cardinality(pads') = 0
  BY Zenon, FS_EmptySet DEF Shutdown
<1>2. keysDown' \subseteq keysDown /\ (~InputFails => keysDown' = keysDown \ (all \ ExtendedKeys))
  BY Zenon, ReleaseFrees DEF Shutdown
<1>3. ~InputFails => keysDown' \subseteq ExtendedKeys
  <2>1. ~InputFails => keysDown \ ExtendedKeys \subseteq all
    BY Zenon DEF InjectorInv, PlainHeld
  <2> QED BY Zenon, <1>2, <2>1
<1>4. InjectorTypeOK'
  <2>1. Cardinality(pads') <= MaxPads
    BY <1>1
  <2> QED BY Zenon, <1>1, <1>2, <2>1 DEF InjectorInv, InjectorTypeOK
<1>5. InputIsPermitted'
  BY Zenon, <1>1 DEF InputIsPermitted
<1> QED BY Zenon, <1>3, <1>4, <1>5 DEF InjectorInv, PlainHeld

\* Every operation of the injector keeps its invariant.
LEMMA InjectorSteps ==
  ASSUME InjectorInv, [InjNext]_injVars
  PROVE  InjectorInv'
<1>1. CASE Shutdown
  BY Zenon, <1>1, InjectorShutsDown
<1>2. ASSUME NEW p \in PlayerIndexes, NEW perms \in PermissionSets, NEW streaming \in BOOLEAN,
             SetPermissions(p, perms, streaming)
      PROVE  InjectorInv'
  BY Zenon, <1>2, InjectorSetsPermissions
<1>3. ASSUME NEW p \in PlayerIndexes, ApplyController(p) PROVE InjectorInv'
  BY Zenon, <1>3, InjectorNotes DEF ApplyController
<1>4. ASSUME NEW p \in PlayerIndexes, NEW x \in Keys \cup Buttons, NEW isDown \in BOOLEAN,
             ApplyEvent(p, x, isDown)
      PROVE  InjectorInv'
  BY Zenon, <1>4, InjectorNotes, InjectorKeyEvent DEF ApplyEvent
<1>5. ASSUME NEW p \in PlayerIndexes, ClientDisconnected(p) PROVE InjectorInv'
  BY Zenon, <1>5, InjectorDisconnects
<1>6. CASE UNCHANGED injVars
  BY Zenon, <1>6 DEF injVars, InjectorInv, InjectorTypeOK, InputIsPermitted, PlainHeld
<1> QED BY Zenon, <1>1, <1>2, <1>3, <1>4, <1>5, <1>6 DEF InjNext

\* What a player's input does ends with the permission for it and with the
\* player: every key that is held is one its player may still press, and a
\* virtual pad belongs to a known player with the controller permission,
\* whatever SendInput answers (setPermissions, applyInput and
\* clientDisconnected of the input injector).
THEOREM InputStaysPermitted == InjSpec => [](InjectorTypeOK /\ InputIsPermitted)
<1>1. InjInit => InjectorInv
  BY Zenon, InjectorStarts
<1>2. InjectorInv /\ [InjNext]_injVars => InjectorInv'
  BY Zenon, InjectorSteps
<1>3. InjectorInv => InjectorTypeOK /\ InputIsPermitted
  BY Zenon DEF InjectorInv
<1> QED BY <1>1, <1>2, <1>3, PTL DEF InjSpec

\* As long as SendInput does not fail, a plain key or a button that is down on
\* the host is also held by a player the injector still knows: none stays down
\* after a player leaves or the injector is destroyed, whoever else holds it
\* and whichever permissions were taken (releaseAllKeys).  Of the extended
\* keys, which it releases under another code, nothing is said.
THEOREM KeysAreReleased == ~InputFails => (InjSpec => []InputFollowsPermissions)
<1>1. InjInit => InjectorInv
  BY Zenon, InjectorStarts
<1>2. InjectorInv /\ [InjNext]_injVars => InjectorInv'
  BY Zenon, InjectorSteps
<1>3. ASSUME ~InputFails PROVE InjSpec => []InputFollowsPermissions
  <2>1. InjectorInv => InputFollowsPermissions
    BY Zenon, <1>3 DEF InjectorInv, InputIsPermitted, PlainHeld, InputFollowsPermissions
  <2> QED BY <1>1, <1>2, <2>1, PTL DEF InjSpec
<1> QED BY Zenon, <1>3

HIDE InjectorAssumption

-------------------------------------------------------------------------------
(* HostStreamer: start, stop and teardown *)

\* stopMutex_ is held by the one call that is past its lock.
MutexHeld ==
  /\ \A t \in Stoppers : stopper[t].pc \in {"join", "teardown", "transport", "reset"} <=> stopMutex = t
  /\ stopMutex = "worker" <=> worker \in {"transport", "capture", "encoder", "media"}

\* What start has built at each of its steps.
StartBuilds ==
  /\ worker \in {"new", "transport", "failed"} => NothingLeft /\ captureThread = "none"
  /\ worker = "capture" => transport /\ ~capture /\ ~encoder /\ ~audio /\ captureThread = "none"
  /\ worker = "encoder" => transport /\ capture /\ ~encoder /\ ~audio /\ captureThread = "none"
  /\ worker = "media" => transport /\ capture /\ encoder /\ captureThread = "none"

\* What stop has taken down at each of its steps; only the io thread can
\* reach the last one with the io thread running.
StopTakesDown ==
  \A t \in Stoppers :
    /\ stopper[t].pc \in {"teardown", "transport", "reset"} => captureThread = "none"
    /\ stopper[t].pc \in {"transport", "reset"} => ~audio /\ ~encoder
    /\ stopper[t].pc = "reset" /\ t # "io" => ioThread = "none"
    /\ stopper[t].last => t # "io"

\* Without a transport there is no io thread, unless destroying the transport
\* ended the process.
TransportOwnsThread == ~transport /\ ~terminated => ioThread = "none"

\* The inductive invariant of start and stop.
StreamerInv ==
  /\ StreamerTypeOK /\ MutexHeld /\ StartBuilds /\ StopTakesDown /\ TransportOwnsThread
  /\ CaptureKeepsMembers /\ TeardownIsComplete

\* The records of the calls of stop.
StopRecords == [pc : {"idle", "lock", "join", "teardown", "transport", "reset"}, was : BOOLEAN, last : BOOLEAN]

USE StreamerAssumption

\* A step of stop changes its own position only.
LEMMA StepMoves ==
  ASSUME stopper \in [Stoppers -> StopRecords], NEW t \in Stoppers,
         NEW s \in {"idle", "lock", "join", "teardown", "transport", "reset"}, Step(t, s)
  PROVE  /\ stopper' \in [Stoppers -> StopRecords]
         /\ stopper'[t].pc = s /\ stopper'[t].was = stopper[t].was /\ stopper'[t].last = stopper[t].last
         /\ \A u \in Stoppers : u # t => stopper'[u] = stopper[u]
<1>1. stopper[t] \in StopRecords
  BY Zenon
<1>2. [stopper[t] EXCEPT !.pc = s] \in StopRecords
  BY Zenon, <1>1 DEF StopRecords
<1>3. stopper' = [stopper EXCEPT ![t] = [stopper[t] EXCEPT !.pc = s]]
  BY Zenon DEF Step
<1> QED BY Zenon, <1>1, <1>2, <1>3 DEF StopRecords

\* The streamer's invariant holds before start.
LEMMA StreamerStarts == HostInit => StreamerInv
<1> SUFFICES ASSUME HostInit PROVE StreamerInv
  BY Zenon
<1>1. StreamerTypeOK
  <2>1. stopper \in [Stoppers -> StopRecords]
    BY Zenon DEF HostInit, StopRecords
  <2>2. failures \in 0 .. MaxFailures - 1 /\ stops \in 0 .. MaxStops + 1
    BY DEF HostInit
  <2> QED BY Zenon, <2>1, <2>2 DEF HostInit, StreamerTypeOK, StopRecords
<1>2. MutexHeld /\ StartBuilds /\ StopTakesDown
  BY Zenon DEF HostInit, MutexHeld, StartBuilds, StopTakesDown, NothingLeft
<1>3. TransportOwnsThread /\ CaptureKeepsMembers /\ TeardownIsComplete
  BY Zenon DEF HostInit, TransportOwnsThread, CaptureKeepsMembers, TeardownIsComplete
<1> QED BY Zenon, <1>1, <1>2, <1>3 DEF StreamerInv

\* The steps of start, each of which may fail.
LEMMA StreamerStartSteps ==
  ASSUME StreamerInv, StartSteps
  PROVE  StreamerInv'
<1> USE DEF StreamerInv, StreamerTypeOK, MutexHeld, StartBuilds, StopTakesDown, TransportOwnsThread,
            CaptureKeepsMembers, TeardownIsComplete, NothingLeft, Alive, memberVars, threadVars, historyVars
<1>1. CASE StartBegins
  BY Zenon, <1>1 DEF StartBegins
<1>2. CASE StartTransport
  <2>1. StreamerTypeOK'
    BY Zenon, <1>2 DEF StartTransport, StartGivesUp
  <2>2. MutexHeld' /\ StartBuilds'
    BY <1>2 DEF StartTransport, StartGivesUp
  <2>3. StopTakesDown'
    BY Zenon, <1>2 DEF StartTransport, StartGivesUp
  <2>4. TransportOwnsThread' /\ CaptureKeepsMembers' /\ TeardownIsComplete'
    BY Zenon, <1>2 DEF StartTransport, StartGivesUp
  <2> QED BY Zenon, <2>1, <2>2, <2>3, <2>4
<1>3. CASE StartCapture
  <2>1. CASE StartGivesUp
    BY Zenon, <1>3, <2>1 DEF StartCapture, StartGivesUp
  <2>2. CASE ~StartGivesUp
    <3>1. /\ capture' /\ transport' = transport /\ encoder' = encoder /\ worker' = "encoder"
          /\ audio' = audio /\ captureThread' = captureThread /\ ioThread' = ioThread
      BY Zenon, <1>3, <2>2 DEF StartCapture
    <3>2. /\ UNCHANGED <<running, stopMutex, transportRuns, stopper, restartRequested, failures, stops>>
          /\ ~destroyed' /\ destroyed' = destroyed /\ terminated' = terminated
          /\ worker = "capture"
      BY Zenon, <1>3, <2>2 DEF StartCapture
    <3>3. StreamerTypeOK'
      BY Zenon, <3>1, <3>2
    <3>4. MutexHeld'
      BY Zenon, <3>1, <3>2
    <3>5. StartBuilds'
      BY Zenon, <3>1, <3>2
    <3>6. StopTakesDown'
      BY Zenon, <3>1, <3>2
    <3>7. TransportOwnsThread' /\ CaptureKeepsMembers' /\ TeardownIsComplete'
      BY Zenon, <3>1, <3>2
    <3> QED BY Zenon, <3>3, <3>4, <3>5, <3>6, <3>7
  <2> QED BY Zenon, <2>1, <2>2
<1>4. CASE StartEncoder
  <2>1. CASE StartGivesUp
    BY Zenon, <1>4, <2>1 DEF StartEncoder, StartGivesUp
  <2>2. CASE ~StartGivesUp
    <3>1. /\ encoder' /\ transport' = transport /\ capture' = capture /\ worker' = "media"
          /\ audio' = audio /\ captureThread' = captureThread /\ ioThread' = ioThread
      BY Zenon, <1>4, <2>2 DEF StartEncoder
    <3>2. /\ UNCHANGED <<running, stopMutex, transportRuns, stopper, restartRequested, failures, stops>>
          /\ ~destroyed' /\ destroyed' = destroyed /\ terminated' = terminated
          /\ worker = "encoder"
      BY Zenon, <1>4, <2>2 DEF StartEncoder
    <3>3. StreamerTypeOK'
      BY Zenon, <3>1, <3>2
    <3>4. MutexHeld'
      BY Zenon, <3>1, <3>2
    <3>5. StartBuilds'
      BY Zenon, <3>1, <3>2
    <3>6. StopTakesDown'
      BY Zenon, <3>1, <3>2
    <3>7. TransportOwnsThread' /\ CaptureKeepsMembers' /\ TeardownIsComplete'
      BY Zenon, <3>1, <3>2
    <3> QED BY Zenon, <3>3, <3>4, <3>5, <3>6, <3>7
  <2> QED BY Zenon, <2>1, <2>2
<1>5. CASE StartMedia
  BY Zenon, <1>5 DEF StartMedia
<1> QED BY Zenon, <1>1, <1>2, <1>3, <1>4, <1>5 DEF StartSteps

\* stop is called, by the Qt thread or by the io thread.
LEMMA StreamerStopBegins ==
  ASSUME StreamerInv, NEW t \in Stoppers, NEW last \in BOOLEAN, StopBegins(t, last)
  PROVE  StreamerInv'
<1> USE DEF StreamerInv, StreamerTypeOK, MutexHeld, StartBuilds, StopTakesDown, TransportOwnsThread,
            CaptureKeepsMembers, TeardownIsComplete, NothingLeft, Alive, memberVars, threadVars, historyVars
<1>1. StreamerTypeOK'
  <2>1. stopper' \in [Stoppers -> StopRecords]
    <3>1. [pc |-> "lock", was |-> running, last |-> last] \in StopRecords
      BY Zenon DEF StopRecords
    <3> QED BY Zenon, <3>1 DEF StopBegins, StopRecords
  <2>2. stops' \in 0 .. MaxStops + 1
    BY DEF StopBegins
  <2> QED BY ZenonT(30), <2>1, <2>2 DEF StopBegins, StopRecords
<1>2. MutexHeld' /\ StartBuilds'
  BY Zenon DEF StopBegins
<1>3. StopTakesDown'
  BY Zenon DEF StopBegins
<1>4. TransportOwnsThread' /\ CaptureKeepsMembers' /\ TeardownIsComplete'
  BY Zenon DEF StopBegins
<1> QED BY Zenon, <1>1, <1>2, <1>3, <1>4

\* The steps of stop.
LEMMA StreamerStopSteps ==
  ASSUME StreamerInv, NEW t \in Stoppers, StopSteps(t)
  PROVE  StreamerInv'
<1> USE DEF StreamerInv, StreamerTypeOK, MutexHeld, StartBuilds, StopTakesDown, TransportOwnsThread,
            CaptureKeepsMembers, TeardownIsComplete, NothingLeft, Alive, memberVars, threadVars, historyVars
<1>1. CASE StopLocks(t)
  <2>1. StreamerTypeOK'
    <3>1. stopper' \in [Stoppers -> StopRecords]
      BY Zenon, <1>1, StepMoves DEF StopLocks, StopRecords
    <3> QED BY <1>1, <3>1 DEF StopLocks, StopRecords
  <2>2. MutexHeld' /\ StartBuilds'
    BY <1>1 DEF StopLocks, Step
  <2>3. StopTakesDown'
    BY <1>1 DEF StopLocks, Step
  <2>4. TransportOwnsThread' /\ CaptureKeepsMembers' /\ TeardownIsComplete'
    BY Zenon, <1>1 DEF StopLocks, Step
  <2> QED BY Zenon, <2>1, <2>2, <2>3, <2>4
<1>2. CASE StopJoins(t)
  <2>1. StreamerTypeOK'
    <3>1. stopper' \in [Stoppers -> StopRecords]
      BY Zenon, <1>2, StepMoves DEF StopJoins, Leave, StopRecords
    <3> QED BY <1>2, <3>1 DEF StopJoins, Leave, StopRecords
  <2>2. MutexHeld' /\ StartBuilds'
    BY <1>2 DEF StopJoins, Step, Leave
  <2>3. StopTakesDown'
    BY <1>2 DEF StopJoins, Step, Leave
  <2>4. TransportOwnsThread' /\ CaptureKeepsMembers' /\ TeardownIsComplete'
    BY Zenon, <1>2 DEF StopJoins, Step, Leave
  <2> QED BY Zenon, <2>1, <2>2, <2>3, <2>4
<1>3. CASE StopTearsDown(t)
  <2>1. StreamerTypeOK'
    <3>1. stopper' \in [Stoppers -> StopRecords]
      BY Zenon, <1>3, StepMoves DEF StopTearsDown, StopRecords
    <3> QED BY Zenon, <1>3, <3>1 DEF StopTearsDown, StopRecords
  <2>2. MutexHeld' /\ StartBuilds'
    BY <1>3 DEF StopTearsDown, Step
  <2>3. StopTakesDown'
    BY <1>3 DEF StopTearsDown, Step
  <2>4. TransportOwnsThread' /\ CaptureKeepsMembers' /\ TeardownIsComplete'
    BY Zenon, <1>3 DEF StopTearsDown, Step
  <2> QED BY Zenon, <2>1, <2>2, <2>3, <2>4
<1>4. CASE StopTransport(t)
  <2>1. StreamerTypeOK'
    <3>1. stopper' \in [Stoppers -> StopRecords]
      BY Zenon, <1>4, StepMoves DEF StopTransport, StopRecords
    <3> QED BY ZenonT(30), <1>4, <3>1 DEF StopTransport, IoJoinable, StopRecords
  <2>2. MutexHeld' /\ StartBuilds'
    BY <1>4 DEF StopTransport, Step, IoJoinable
  <2>3. StopTakesDown'
    BY <1>4 DEF StopTransport, Step, IoJoinable
  <2>4. TransportOwnsThread' /\ CaptureKeepsMembers' /\ TeardownIsComplete'
    BY Zenon, <1>4 DEF StopTransport, Step, IoJoinable
  <2> QED BY Zenon, <2>1, <2>2, <2>3, <2>4
<1>5. CASE StopResets(t)
  <2>1. StreamerTypeOK'
    <3>1. stopper' \in [Stoppers -> StopRecords]
      BY Zenon, <1>5, StepMoves DEF StopResets, Leave, StopRecords
    <3> QED BY Zenon, <1>5, <3>1 DEF StopResets, Leave, StopRecords
  <2>2. MutexHeld' /\ StartBuilds'
    BY <1>5 DEF StopResets, Step, Leave
  <2>3. StopTakesDown'
    BY <1>5 DEF StopResets, Step, Leave
  <2>4. TransportOwnsThread' /\ CaptureKeepsMembers' /\ TeardownIsComplete'
    BY Zenon, <1>5 DEF StopResets, Step, Leave
  <2> QED BY Zenon, <2>1, <2>2, <2>3, <2>4
<1> QED BY Zenon, <1>1, <1>2, <1>3, <1>4, <1>5 DEF StopSteps

\* The capture loop, and the request that makes it restart the encoder.
LEMMA StreamerLoopSteps ==
  ASSUME StreamerInv, LoopEnds \/ LoopRestarts \/ LoopCaptures \/ RequestRestart
  PROVE  StreamerInv'
<1> USE DEF StreamerInv, StreamerTypeOK, MutexHeld, StartBuilds, StopTakesDown, TransportOwnsThread,
            CaptureKeepsMembers, TeardownIsComplete, NothingLeft, Alive, memberVars, threadVars, historyVars
<1>1. CASE LoopEnds
  <2>1. StreamerTypeOK'
    BY Zenon, <1>1 DEF LoopEnds
  <2>2. MutexHeld' /\ StartBuilds'
    BY Zenon, <1>1 DEF LoopEnds
  <2>3. StopTakesDown'
    BY Zenon, <1>1 DEF LoopEnds
  <2>4. TransportOwnsThread' /\ CaptureKeepsMembers' /\ TeardownIsComplete'
    BY Zenon, <1>1 DEF LoopEnds
  <2> QED BY Zenon, <2>1, <2>2, <2>3, <2>4
<1>2. CASE LoopRestarts
  <2>1. StreamerTypeOK'
    BY Zenon, <1>2 DEF LoopRestarts
  <2>2. MutexHeld' /\ StartBuilds'
    BY Zenon, <1>2 DEF LoopRestarts
  <2>3. StopTakesDown'
    BY Zenon, <1>2 DEF LoopRestarts
  <2>4. TransportOwnsThread' /\ CaptureKeepsMembers' /\ TeardownIsComplete'
    BY Zenon, <1>2 DEF LoopRestarts
  <2> QED BY Zenon, <2>1, <2>2, <2>3, <2>4
<1>3. CASE LoopCaptures
  <2>1. StreamerTypeOK'
    <3>1. failures' \in 0 .. MaxFailures - 1
      <4>1. failures' = 0 \/ failures' = failures \/ (failures + 1 < MaxFailures /\ failures' = failures + 1)
        BY Zenon, <1>3, Zenon DEF LoopCaptures
      <4>2. failures \in 0 .. MaxFailures - 1 /\ MaxFailures \in Nat \ {0}
        BY Zenon
      <4> HIDE DEF StreamerInv, StreamerTypeOK, MutexHeld, StartBuilds, StopTakesDown, TransportOwnsThread,
                   CaptureKeepsMembers, TeardownIsComplete
      <4> QED BY <4>1, <4>2
    <3>2. running' \in BOOLEAN /\ restartRequested' \in BOOLEAN /\ captureThread' \in {"none", "running", "exited"}
      BY Zenon, <1>3 DEF LoopCaptures
    <3> QED BY Zenon, <1>3, <3>1, <3>2 DEF LoopCaptures
  <2>2. MutexHeld' /\ StartBuilds'
    BY Zenon, <1>3 DEF LoopCaptures
  <2>3. StopTakesDown'
    BY Zenon, <1>3 DEF LoopCaptures
  <2>4. TransportOwnsThread' /\ CaptureKeepsMembers' /\ TeardownIsComplete'
    BY Zenon, <1>3 DEF LoopCaptures
  <2> QED BY Zenon, <2>1, <2>2, <2>3, <2>4
<1>4. CASE RequestRestart
  <2>1. StreamerTypeOK'
    BY Zenon, <1>4 DEF RequestRestart
  <2>2. MutexHeld' /\ StartBuilds'
    BY Zenon, <1>4 DEF RequestRestart
  <2>3. StopTakesDown'
    BY Zenon, <1>4 DEF RequestRestart
  <2>4. TransportOwnsThread' /\ CaptureKeepsMembers' /\ TeardownIsComplete'
    BY Zenon, <1>4 DEF RequestRestart
  <2> QED BY Zenon, <2>1, <2>2, <2>3, <2>4
<1> QED BY Zenon, <1>1, <1>2, <1>3, <1>4

\* Every step of the streamer keeps its invariant.
LEMMA StreamerSteps == StreamerInv /\ [HostNext]_hostVars => StreamerInv'
<1> SUFFICES ASSUME StreamerInv, [HostNext]_hostVars PROVE StreamerInv'
  BY Zenon
<1>1. CASE StartSteps
  BY Zenon, <1>1, StreamerStartSteps
<1>2. ASSUME NEW t \in Stoppers, StopBegins(t, FALSE) \/ StopSteps(t) PROVE StreamerInv'
  BY Zenon, <1>2, StreamerStopBegins, StreamerStopSteps
<1>3. CASE StopBegins("qt", TRUE)
  BY Zenon, <1>3, StreamerStopBegins
<1>4. CASE LoopEnds \/ LoopRestarts \/ LoopCaptures \/ RequestRestart
  BY Zenon, <1>4, StreamerLoopSteps
<1>5. CASE UNCHANGED hostVars
  <2>1. StreamerTypeOK
    BY Zenon DEF StreamerInv
  <2>2. StreamerTypeOK'
    BY SMTT(30), <1>5, <2>1 DEF hostVars, StreamerTypeOK
  <2>3. MutexHeld'
    BY Zenon, <1>5 DEF hostVars, StreamerInv, MutexHeld
  <2>4. StartBuilds'
    BY Zenon, <1>5 DEF hostVars, StreamerInv, StartBuilds, NothingLeft
  <2>5. StopTakesDown' /\ TransportOwnsThread'
    BY Zenon, <1>5 DEF hostVars, StreamerInv, StopTakesDown, TransportOwnsThread
  <2>6. CaptureKeepsMembers' /\ TeardownIsComplete'
    BY Zenon, <1>5 DEF hostVars, StreamerInv, CaptureKeepsMembers, TeardownIsComplete, NothingLeft
  <2> QED BY Zenon, <2>2, <2>3, <2>4, <2>5, <2>6 DEF StreamerInv
<1> QED BY Zenon, <1>1, <1>2, <1>3, <1>4, <1>5 DEF HostNext

\* The streamer's invariant holds in every reachable state.
LEMMA StreamerInvariant == HostSpec => []StreamerInv
BY StreamerStarts, StreamerSteps, PTL DEF HostSpec

\* HostStreamer::start and stop: whichever threads stop the stream and in
\* whatever order, the capture loop never finds a member reset under it.
THEOREM StreamerIsSafe == HostSpec => [](StreamerTypeOK /\ CaptureKeepsMembers)
<1>1. StreamerInv => StreamerTypeOK /\ CaptureKeepsMembers
  BY Zenon DEF StreamerInv
<1> QED BY <1>1, StreamerInvariant, PTL

\* A destroyed HostStreamer left no thread behind and no member alive,
\* whatever start had built when it failed and whoever called stop.
THEOREM TeardownHolds == HostSpec => []TeardownIsComplete
<1>1. StreamerInv => TeardownIsComplete
  BY Zenon DEF StreamerInv
<1> QED BY <1>1, StreamerInvariant, PTL

HIDE StreamerAssumption

-------------------------------------------------------------------------------
(* Letterbox: the picture within the frame *)

\* Rounding down to even loses at most one.
LEMMA EvenBounds ==
  ASSUME NEW n \in Nat
  PROVE  /\ Even(n) \in Nat /\ Even(n) <= n /\ n <= Even(n) + 1
         /\ Even(n) \div 2 = n \div 2 /\ Even(n) = 2 * (n \div 2) /\ n \div 2 \in Nat
BY DEF Even

\* Division with rounding up, in terms of products.
LEMMA CeilBounds ==
  ASSUME NEW a \in Nat \ {0}, NEW b \in Nat \ {0}
  PROVE  /\ Ceil(a, b) \in Nat \ {0}
         /\ b * Ceil(a, b) < a + b /\ a <= b * Ceil(a, b)
<1> DEFINE n == a + b - 1
           q == n \div b
           r == n % b
<1>1. n \in Nat /\ n >= b
  OBVIOUS
<1>2. q \in Int /\ r \in Int /\ n = b * q + r /\ 0 <= r /\ r < b
  BY <1>1
<1>3. Ceil(a, b) = q
  BY Zenon DEF Ceil
<1> HIDE DEF q, r
<1>4. b * q > 0
  BY <1>1, <1>2
<1>5. q > 0
  BY <1>2, <1>4
<1>6. b * q \in Int
  BY <1>2
<1>7. b * q < a + b /\ a <= b * q
  BY <1>2, <1>6
<1> QED BY <1>2, <1>3, <1>5, <1>7

\* The side that is scaled down: t times a source of proportions n to d.
LEMMA SideFits ==
  ASSUME NEW t \in Nat \ {0}, NEW limit \in Nat \ {0}, NEW n \in Nat \ {0}, NEW d \in Nat \ {0},
         t * n <= limit * d
  PROVE  LET side == Even(Clip(Ceil(t * n, d), limit))
         IN  /\ side \in Nat /\ side <= limit
             /\ side * d < t * n + d /\ (side + 2) * d > t * n
<1> DEFINE a == t * n
           q == Ceil(a, d)
           side == Even(Clip(q, limit))
<1>1. a \in Nat \ {0} /\ a <= limit * d
  OBVIOUS
<1> HIDE DEF a
<1>2. q \in Nat \ {0} /\ d * q < a + d /\ a <= d * q
  BY Zenon, <1>1, CeilBounds
<1> HIDE DEF q
<1>3. q <= limit
  <2>1. d * q < d * (limit + 1)
    BY <1>1, <1>2
  <2> QED BY <1>2, <2>1
<1>4. side = Even(q)
  BY <1>2, <1>3 DEF Clip
<1>5. side \in Nat /\ side <= q /\ q <= side + 1
  BY Zenon, <1>2, <1>4, EvenBounds
<1> HIDE DEF side
<1>6. side * d <= d * q /\ (side + 2) * d >= d * q + d
  <2>1. d * q = q * d /\ (q + 1) * d = d * q + d
    BY <1>2
  <2>2. \A x, y \in Nat : x <= y => x * d <= y * d
    OBVIOUS
  <2> QED BY <1>2, <1>5, <2>1, <2>2
<1>7. side * d \in Int /\ (side + 2) * d \in Int /\ d * q \in Int
  BY <1>2, <1>5
<1>8. side * d < a + d /\ (side + 2) * d > a
  BY <1>1, <1>2, <1>6, <1>7
<1> QED BY <1>3, <1>2, <1>5, <1>8 DEF side, q, a

\* The bars: the offset and the fitted size together stay inside, in luma and
\* in the half-size chroma planes.
LEMMA BarsFit ==
  ASSUME NEW t \in Nat, NEW n \in Nat, Even(n) <= t
  PROVE  LET off == Even((t - Even(n)) \div 2)
         IN  off + Even(n) <= t /\ off \div 2 + Even(n) \div 2 <= t \div 2
<1> DEFINE f == Even(n)
           x == (t - f) \div 2
<1>1. f \in Nat /\ f = 2 * (n \div 2) /\ f \div 2 = n \div 2 /\ n \div 2 \in Nat
  BY Zenon, EvenBounds
<1> HIDE DEF f
<1>2. x \in Nat /\ 2 * x <= t - f
  BY <1>1 DEF f
<1> HIDE DEF x
<1>3. Even(x) \in Nat /\ Even(x) <= x /\ Even(x) = 2 * (x \div 2) /\ Even(x) \div 2 = x \div 2 /\ x \div 2 \in Nat
  BY Zenon, <1>2, EvenBounds
<1>4. Even(x) + f <= t
  BY <1>1, <1>2, <1>3
<1> DEFINE m == x \div 2
           k == n \div 2
<1>5. m \in Nat /\ k \in Nat /\ 2 * m + 2 * k <= t
  BY Zenon, <1>1, <1>3, <1>4
<1>6. m + k <= t \div 2
  <2> HIDE DEF m, k
  <2> QED BY <1>5
<1> QED BY Zenon, <1>1, <1>3, <1>4, <1>6 DEF x, f

SourceSize == [w : Nat \ {0}, h : Nat \ {0}]

\* The fitted size: even, inside the target, and of the source's proportions.
LEMMA FitFits ==
  ASSUME NEW s \in SourceSize
  PROVE  /\ \E n \in Nat : Fit(s).w = Even(n)
         /\ \E n \in Nat : Fit(s).h = Even(n)
         /\ Fit(s).w <= TargetW /\ Fit(s).h <= TargetH
         /\ \/ /\ Fit(s).h = Even(TargetH)
               /\ Fit(s).w * s.h < s.w * TargetH + s.h /\ (Fit(s).w + 2) * s.h > s.w * TargetH
            \/ /\ Fit(s).w = Even(TargetW)
               /\ Fit(s).h * s.w < s.h * TargetW + s.w /\ (Fit(s).h + 2) * s.w > s.h * TargetW
<1> DEFINE w == s.w
           h == s.h
<1>1. w \in Nat \ {0} /\ h \in Nat \ {0} /\ TargetW \in Nat \ {0} /\ TargetH \in Nat \ {0}
  BY Zenon, LetterboxAssumption DEF SourceSize
<1>2. Even(TargetW) <= TargetW /\ Even(TargetH) <= TargetH
  BY Zenon, <1>1, EvenBounds
<1>3. CASE w * TargetH >= h * TargetW
  <2> DEFINE side == Even(Clip(Ceil(TargetW * h, w), TargetH))
  <2>1. Fit(s).w = Even(TargetW) /\ Fit(s).h = side
    BY Zenon, <1>3 DEF Fit, Size
  <2> HIDE DEF w, h
  <2>2. TargetW * h <= TargetH * w /\ TargetW * h = h * TargetW
    BY <1>1, <1>3
  <2>3. side \in Nat /\ side <= TargetH /\ side * w < TargetW * h + w /\ (side + 2) * w > TargetW * h
    BY Zenon, <1>1, <2>2, SideFits
  <2>4. Clip(Ceil(TargetW * h, w), TargetH) \in Nat
    <3>1. TargetW * h \in Nat \ {0}
      BY <1>1
    <3>2. Ceil(TargetW * h, w) \in Nat
      BY Zenon, <1>1, <3>1, CeilBounds
    <3> QED BY Zenon, <1>1, <3>2 DEF Clip
  <2>5. \E n \in Nat : side = Even(n)
    BY Zenon, <2>4
  <2> HIDE DEF side
  <2> QED BY Zenon, <1>1, <1>2, <2>1, <2>2, <2>3, <2>5 DEF w, h
<1>4. CASE ~(w * TargetH >= h * TargetW)
  <2> DEFINE side == Even(Clip(Ceil(TargetH * w, h), TargetW))
  <2>1. Fit(s).h = Even(TargetH) /\ Fit(s).w = side
    BY Zenon, <1>4 DEF Fit, Size
  <2> HIDE DEF w, h
  <2>2. TargetH * w <= TargetW * h /\ TargetH * w = w * TargetH
    BY <1>1, <1>4
  <2>3. side \in Nat /\ side <= TargetW /\ side * h < TargetH * w + h /\ (side + 2) * h > TargetH * w
    BY Zenon, <1>1, <2>2, SideFits
  <2>4. Clip(Ceil(TargetH * w, h), TargetW) \in Nat
    <3>1. TargetH * w \in Nat \ {0}
      BY <1>1
    <3>2. Ceil(TargetH * w, h) \in Nat
      BY Zenon, <1>1, <3>1, CeilBounds
    <3> QED BY Zenon, <1>1, <3>2 DEF Clip
  <2>5. \E n \in Nat : side = Even(n)
    BY Zenon, <2>4
  <2> HIDE DEF side
  <2> QED BY Zenon, <1>1, <1>2, <2>1, <2>2, <2>3, <2>5 DEF w, h
<1> QED BY Zenon, <1>3, <1>4

\* The fitted picture lies inside the frame and keeps its proportions.
LEMMA PictureInside ==
  ASSUME source \in SourceSize
  PROVE  BlitStaysInside /\ KeepsAspect
<1>1. PICK n \in Nat, m \in Nat : Fit(source).w = Even(n) /\ Fit(source).h = Even(m)
  BY Zenon, FitFits
<1>2. Even(n) <= TargetW /\ Even(m) <= TargetH
  BY Zenon, <1>1, FitFits
<1>3. TargetW \in Nat /\ TargetH \in Nat
  BY Zenon, LetterboxAssumption
<1>4. /\ Offset(source).w = Even((TargetW - Even(n)) \div 2)
      /\ Offset(source).h = Even((TargetH - Even(m)) \div 2)
  BY Zenon, <1>1 DEF Offset, Size
<1>5. BlitStaysInside
  BY Zenon, <1>1, <1>2, <1>3, <1>4, BarsFit DEF BlitStaysInside
<1>6. KeepsAspect
  BY Zenon, FitFits DEF KeepsAspect
<1> QED BY Zenon, <1>5, <1>6

\* The scaler that exists was built for the present fit, and its buffer holds
\* what it writes.
BoxInv ==
  /\ source \in SourceSize \cup {NoSize} /\ bufSize \in Nat
  /\ scaler # NoSize => bufSize >= YuvSize(lastFit) /\ YuvSize(lastFit) \in Nat
  /\ source # NoSize /\ scaler # NoSize => lastFit = Fit(source)

\* Every frame scaled keeps the picture and its buffer right.
LEMMA BoxSteps ==
  ASSUME BoxInv, [BoxNext]_boxVars
  PROVE  BoxInv'
<1>1. CASE UNCHANGED boxVars
  BY Zenon, <1>1 DEF BoxInv, boxVars
<1>2. CASE Reopen
  BY Zenon, <1>2 DEF BoxInv, Reopen
<1>3. ASSUME NEW w \in Widths, NEW h \in Heights, Encode(Size(w, h)) PROVE BoxInv'
  <2> DEFINE s == Size(w, h)
             fit == Fit(s)
             size == YuvSize(fit)
  <2>1. s \in SourceSize
    BY Zenon, LetterboxAssumption DEF SourceSize, Size
  <2>2. size \in Nat
    <3>1. \A n \in Nat : Even(n) \in Nat /\ Even(n) \div 2 \in Nat
      BY Zenon, EvenBounds
    <3>2. fit.w \in Nat /\ fit.h \in Nat /\ fit.w \div 2 \in Nat /\ fit.h \div 2 \in Nat
      BY Zenon, <2>1, <3>1, FitFits
    <3> HIDE DEF fit
    <3> DEFINE a == fit.w
               b == fit.h
               c == fit.w \div 2
               d == fit.h \div 2
    <3>3. size = a * b + 2 * (c * d)
      BY Zenon DEF YuvSize
    <3>4. a \in Nat /\ b \in Nat /\ c \in Nat /\ d \in Nat
      BY Zenon, <3>2
    <3> HIDE DEF a, b, c, d, size
    <3>5. a * b \in Nat /\ c * d \in Nat
      BY <3>4
    <3> QED BY <3>3, <3>5
  <2>3. /\ source' = s
        /\ IF scaler = NoSize \/ lastFit # fit THEN Rebuild(s, fit) ELSE UNCHANGED <<scaler, lastFit, bufSize>>
    BY Zenon, <1>3 DEF Encode
  <2> HIDE DEF s, fit
  <2>4. CASE scaler = NoSize \/ lastFit # fit
    <3>1. /\ bufSize' = Grown(size)
          /\ scaler' # NoSize => lastFit' = fit
      BY Zenon, <2>3, <2>4 DEF Rebuild
    <3>2. bufSize' \in Nat /\ bufSize' >= size
      BY <2>2, <3>1 DEF Grown, BoxInv
    <3> QED BY Zenon, <2>1, <2>2, <2>3, <3>1, <3>2 DEF BoxInv, fit
  <2>5. CASE ~(scaler = NoSize \/ lastFit # fit)
    BY Zenon, <2>1, <2>3, <2>5 DEF BoxInv, fit
  <2> QED BY Zenon, <2>4, <2>5
<1> QED BY Zenon, <1>1, <1>2, <1>3 DEF BoxNext

\* VideoEncoder::encode writes inside the encoder's picture, keeps the source's
\* proportions and never overruns its intermediate buffer, for every target
\* size and every sequence of source sizes.
THEOREM PicturesFit == BoxSpec => []PictureFits
<1>1. BoxInit => BoxInv
  BY DEF BoxInit, BoxInv
<1>2. BoxInv /\ [BoxNext]_boxVars => BoxInv'
  BY Zenon, BoxSteps
<1>3. BoxInv => PictureFits
  BY Zenon, PictureInside DEF BoxInv, PictureFits
<1> QED BY <1>1, <1>2, <1>3, PTL DEF BoxSpec

-------------------------------------------------------------------------------
(* AdaptiveBitrate: the hysteresis *)

\* What the streaks and the cooldown remember of the samples: a streak is
\* part of the present run and began after the last change, and the cooldown
\* is what the samples since then leave of it.
Hysteresis ==
  /\ downStreak > 0 => run.kind = "bad" /\ run.length >= downStreak
  /\ upStreak > 0 => run.kind = "good" /\ run.length >= upStreak
  /\ since >= downStreak
  /\ since >= upStreak
  /\ since + cooldown >= CooldownSamples
  /\ cooldown > 0 => downStreak + cooldown <= CooldownSamples
  /\ cooldown = 0 => downStreak < DownStreakNeeded

\* The inductive invariant of the controller.
AbrIInv == AbrTypeOK /\ Hysteresis

\* The cap on the history is beyond everything it is compared with.
LEMMA HistoryIsLong ==
  /\ HistoryCap \in Nat
  /\ HistoryCap >= UpStreakNeeded
  /\ HistoryCap >= DownStreakNeeded + CooldownSamples
BY ThresholdAssumption DEF HistoryCap, AtLeast

\* A clamped rate is in the range (std::clamp in the constructor and in
\* setManual).
LEMMA ClampInRange ==
  ASSUME NEW kbps \in Int
  PROVE  Clamp(kbps) \in MinKbps .. MaxKbps
BY RangeAssumption DEF Clamp, AtMost, AtLeast

\* A step of update() goes in its direction and stays in the range.
LEMMA StepsInRange ==
  ASSUME currentKbps \in MinKbps .. MaxKbps
  PROVE  /\ StepDown \in MinKbps .. currentKbps
         /\ StepUp \in currentKbps .. MaxKbps
         /\ currentKbps > MinKbps => StepDown # currentKbps
         /\ currentKbps < MaxKbps => StepUp # currentKbps
<1>1. (currentKbps * 15) \div 100 \in Int /\ (currentKbps * 10) \div 100 \in Int
  BY RangeAssumption
<1>. DEFINE down == (currentKbps * 15) \div 100
            up == (currentKbps * 10) \div 100
<1>2. AtLeast(250, down) \in Nat \ {0} /\ AtLeast(250, up) \in Nat \ {0}
  <2>. HIDE DEF down, up
  <2>. QED  BY <1>1 DEF AtLeast, down, up
<1>. DEFINE downStep == AtLeast(250, down)
            upStep == AtLeast(250, up)
<1>3. StepDown = AtLeast(MinKbps, currentKbps - downStep)
  BY Zenon DEF StepDown
<1>4. StepUp = AtMost(MaxKbps, currentKbps + upStep)
  BY Zenon DEF StepUp
<1>5. downStep \in Nat \ {0} /\ upStep \in Nat \ {0}
  BY Zenon, <1>2
<1>. HIDE DEF downStep, upStep
<1>. QED  BY <1>3, <1>4, <1>5, RangeAssumption DEF AtLeast, AtMost

\* The controller starts in its invariant.
LEMMA AbrStart == AbrInit => AbrIInv
<1>. SUFFICES ASSUME AbrInit PROVE AbrIInv
  BY Zenon
<1>1. PICK kbps \in Requests : StartAt(kbps)
  BY Zenon DEF AbrInit
<1>2. currentKbps \in MinKbps .. MaxKbps
  BY <1>1, ClampInRange, InputAssumption DEF StartAt
<1>3. run = [kind |-> "neutral", length |-> 0] /\ since = HistoryCap
  BY Zenon DEF AbrInit
<1>4. downStreak = 0 /\ upStreak = 0 /\ cooldown = 0
  BY Zenon, <1>1 DEF StartAt
<1>. QED
  BY <1>2, <1>3, <1>4, HistoryIsLong, ThresholdAssumption
  DEF AbrIInv, AbrTypeOK, Hysteresis

\* What a sample does to the rate and to the hysteresis.
LEMMA UpdateKeeps ==
  ASSUME AbrIInv, NEW s \in Samples, Update(s)
  PROVE  /\ AbrIInv'
         /\ currentKbps' < currentKbps =>
              /\ run'.kind = "bad" /\ run'.length >= DownStreakNeeded
              /\ since + 1 >= AtLeast(CooldownSamples, DownStreakNeeded)
         /\ currentKbps' > currentKbps =>
              /\ run'.kind = "good" /\ run'.length >= UpStreakNeeded
              /\ since + 1 >= AtLeast(CooldownSamples, UpStreakNeeded)
<1>. DEFINE cooled == IF cooldown > 0 THEN cooldown - 1 ELSE 0
<1>1. AbrTypeOK /\ Hysteresis
  BY Zenon DEF AbrIInv
<1>2. /\ currentKbps \in MinKbps .. MaxKbps
      /\ MinKbps \in Nat /\ MaxKbps \in Nat
      /\ downStreak \in Nat /\ upStreak \in 0 .. UpStreakNeeded
      /\ cooldown \in 0 .. CooldownSamples
      /\ run.length \in 0 .. HistoryCap /\ since \in 0 .. HistoryCap
      /\ run.kind \in {"bad", "good", "neutral"}
  BY <1>1, RangeAssumption, ThresholdAssumption DEF AbrTypeOK
<1>3. /\ run' = [kind   |-> Kind(s),
                 length |-> AtMost(HistoryCap, IF run.kind = Kind(s) THEN run.length + 1 ELSE 1)]
      /\ since' = IF currentKbps' # currentKbps THEN 0 ELSE AtMost(HistoryCap, since + 1)
  BY Zenon DEF Update
<1>4. /\ run' \in [kind : {"bad", "good", "neutral"}, length : 0 .. HistoryCap]
      /\ run'.kind = Kind(s)
      /\ run'.length = AtMost(HistoryCap, IF run.kind = Kind(s) THEN run.length + 1 ELSE 1)
  BY <1>2, <1>3, HistoryIsLong DEF Kind, AtMost
<1>5. since' \in 0 .. HistoryCap
  BY SMTT(30), <1>2, <1>3, HistoryIsLong DEF AtMost
<1>6. cooled \in 0 .. CooldownSamples /\ cooled <= cooldown /\ cooled + 1 >= cooldown
  BY <1>2, ThresholdAssumption
<1>7. StepDown \in MinKbps .. currentKbps /\ StepUp \in currentKbps .. MaxKbps
  BY Zenon, <1>2, StepsInRange
<1>8. CASE IsBad(s) /\ UpdateBad(cooled)
  <2>1. Kind(s) = "bad" /\ upStreak' = 0
    BY Zenon, <1>8 DEF Kind, UpdateBad
  <2>2. CASE downStreak + 1 >= DownStreakNeeded /\ cooled = 0
    <3>1. /\ downStreak' = 0 /\ currentKbps' = StepDown
          /\ cooldown' = IF StepDown # currentKbps THEN CooldownSamples ELSE cooled
      BY Zenon, <1>8, <2>2 DEF UpdateBad, ChangeTo
    <3>2. run'.length >= DownStreakNeeded
      BY SMTT(30), <1>1, <1>2, <1>4, <2>1, <2>2, HistoryIsLong, ThresholdAssumption DEF Hysteresis, AtMost
    <3>3. since + 1 >= AtLeast(CooldownSamples, DownStreakNeeded)
      BY <1>1, <1>2, <1>6, <2>2, ThresholdAssumption DEF Hysteresis, AtLeast
    <3>4. AbrTypeOK'
      BY SMTT(30), <1>2, <1>4, <1>5, <1>6, <1>7, <2>1, <3>1, ThresholdAssumption DEF AbrTypeOK
    <3>5. Hysteresis'
      BY SMTT(30), <1>1, <1>2, <1>3, <1>5, <1>6, <1>7, <2>1, <2>2, <3>1, HistoryIsLong, ThresholdAssumption
      DEF Hysteresis, AtMost
    <3>. QED  BY <1>2, <1>4, <1>7, <2>1, <3>1, <3>2, <3>3, <3>4, <3>5 DEF AbrIInv
  <2>3. CASE ~(downStreak + 1 >= DownStreakNeeded /\ cooled = 0)
    <3>1. downStreak' = downStreak + 1 /\ currentKbps' = currentKbps /\ cooldown' = cooled
      BY Zenon, <1>8, <2>3 DEF UpdateBad, Keep
    <3>2. downStreak + 1 <= DownStreakNeeded + CooldownSamples
      BY <1>1, <1>2, <2>3, ThresholdAssumption DEF Hysteresis
    <3>3. AbrTypeOK'
      BY SMTT(30), <1>2, <1>4, <1>5, <1>6, <2>1, <3>1, <3>2, ThresholdAssumption DEF AbrTypeOK
    <3>4. /\ run'.kind = "bad" /\ run'.length >= downStreak + 1
          /\ since' >= downStreak + 1
          /\ since' + cooled >= CooldownSamples
      BY SMTT(30), <1>1, <1>2, <1>3, <1>4, <1>6, <2>1, <3>1, <3>2, HistoryIsLong, ThresholdAssumption
      DEF Hysteresis, AtMost
    <3>5. cooled = 0 => downStreak + 1 < DownStreakNeeded
      BY <1>2, <2>3, ThresholdAssumption
    <3>6. cooled > 0 => downStreak + 1 + cooled <= CooldownSamples
      BY <1>1, <1>2, <1>6, ThresholdAssumption DEF Hysteresis
    <3>7. since' >= 0
      BY <1>5, HistoryIsLong
    <3>8. Hysteresis'
      BY <2>1, <3>1, <3>4, <3>5, <3>6, <3>7 DEF Hysteresis
    <3>. QED  BY <1>2, <3>1, <3>3, <3>8 DEF AbrIInv
  <2>. QED  BY Zenon, <2>2, <2>3
<1>9. CASE ~IsBad(s) /\ IsGood(s) /\ UpdateGood(cooled)
  <2>1. Kind(s) = "good" /\ downStreak' = 0
    BY Zenon, <1>9 DEF Kind, UpdateGood
  <2>2. CASE upStreak + 1 >= UpStreakNeeded /\ cooled = 0 /\ currentKbps < MaxKbps
    <3>1. /\ upStreak' = 0 /\ currentKbps' = StepUp
          /\ cooldown' = IF StepUp # currentKbps THEN CooldownSamples ELSE cooled
      BY Zenon, <1>9, <2>2 DEF UpdateGood, ChangeTo
    <3>2. run'.length >= UpStreakNeeded
      BY <1>1, <1>2, <1>4, <2>1, <2>2, HistoryIsLong, ThresholdAssumption DEF Hysteresis, AtMost
    <3>3. since + 1 >= AtLeast(CooldownSamples, UpStreakNeeded)
      BY <1>1, <1>2, <1>6, <2>2, ThresholdAssumption DEF Hysteresis, AtLeast
    <3>4. AbrTypeOK'
      BY SMTT(30), <1>2, <1>4, <1>5, <1>6, <1>7, <2>1, <3>1, ThresholdAssumption DEF AbrTypeOK
    <3>5. Hysteresis'
      BY SMTT(30), <1>1, <1>2, <1>3, <1>5, <1>6, <1>7, <2>1, <2>2, <3>1, HistoryIsLong, ThresholdAssumption
      DEF Hysteresis, AtMost
    <3>. QED  BY <1>2, <1>4, <1>7, <2>1, <3>1, <3>2, <3>3, <3>4, <3>5 DEF AbrIInv
  <2>3. CASE ~(upStreak + 1 >= UpStreakNeeded /\ cooled = 0 /\ currentKbps < MaxKbps)
    <3>1. /\ upStreak' = AtMost(UpStreakNeeded, upStreak + 1)
          /\ currentKbps' = currentKbps /\ cooldown' = cooled
      BY Zenon, <1>9, <2>3 DEF UpdateGood, Keep
    <3>2. upStreak' \in 0 .. UpStreakNeeded /\ upStreak' <= upStreak + 1
      BY <1>2, <3>1, ThresholdAssumption DEF AtMost
    <3>3. AbrTypeOK'
      BY SMTT(30), <1>2, <1>4, <1>5, <1>6, <2>1, <3>1, <3>2, ThresholdAssumption DEF AbrTypeOK
    <3>4. /\ run'.kind = "good" /\ run'.length >= upStreak'
          /\ since' >= upStreak'
          /\ since' + cooled >= CooldownSamples
      BY SMTT(30), <1>1, <1>2, <1>3, <1>4, <1>6, <2>1, <3>1, <3>2, HistoryIsLong, ThresholdAssumption
      DEF Hysteresis, AtMost
    <3>5. cooled = 0 => 0 < DownStreakNeeded
      BY ThresholdAssumption
    <3>6. cooled > 0 => 0 + cooled <= CooldownSamples
      BY <1>6, ThresholdAssumption
    <3>7. since' >= 0
      BY <1>5, HistoryIsLong
    <3>8. Hysteresis'
      BY <2>1, <3>1, <3>4, <3>5, <3>6, <3>7 DEF Hysteresis
    <3>. QED  BY <1>2, <3>1, <3>3, <3>8 DEF AbrIInv
  <2>. QED  BY Zenon, <2>2, <2>3
<1>10. CASE ~IsBad(s) /\ ~IsGood(s) /\ UpdateNeutral(cooled)
  <2>1. downStreak' = 0 /\ upStreak' = 0 /\ currentKbps' = currentKbps /\ cooldown' = cooled
    BY Zenon, <1>10 DEF UpdateNeutral, Keep
  <2>2. AbrTypeOK'
    BY SMTT(30), <1>2, <1>4, <1>5, <1>6, <2>1, ThresholdAssumption DEF AbrTypeOK
  <2>3. Hysteresis'
    BY SMTT(30), <1>1, <1>2, <1>3, <1>5, <1>6, <2>1, HistoryIsLong, ThresholdAssumption DEF Hysteresis, AtMost
  <2>. QED  BY <1>2, <2>1, <2>2, <2>3 DEF AbrIInv
<1>. QED  BY Zenon, <1>8, <1>9, <1>10 DEF Update

\* A rate set by the host starts the hysteresis afresh.
LEMMA SetManualKeeps ==
  ASSUME AbrIInv, NEW kbps \in Requests, SetManual(kbps)
  PROVE  AbrIInv'
<1>1. currentKbps' \in MinKbps .. MaxKbps
  BY ClampInRange, InputAssumption DEF SetManual
<1>. QED
  BY <1>1, HistoryIsLong, ThresholdAssumption DEF AbrIInv, AbrTypeOK, Hysteresis, SetManual

\* The invariant holds forever.
THEOREM AbrInvariant == AbrSpec => []AbrIInv
<1>1. ASSUME AbrIInv, [AbrNext]_abrVars PROVE AbrIInv'
  <2>1. CASE Sampled
    BY Zenon, <1>1, <2>1, UpdateKeeps DEF Sampled
  <2>2. CASE Requested
    BY Zenon, <1>1, <2>2, SetManualKeeps DEF Requested
  <2>3. CASE UNCHANGED abrVars
    BY Zenon, <1>1, <2>3 DEF AbrIInv, AbrTypeOK, Hysteresis, abrVars
  <2>. QED  BY Zenon, <1>1, <2>1, <2>2, <2>3 DEF AbrNext
<1>. QED  BY <1>1, AbrStart, PTL DEF AbrSpec

\* The target stays between the floor and the ceiling, and the counters of
\* update() stay bounded.
THEOREM AbrTypeCorrect == AbrSpec => []AbrTypeOK
<1>1. AbrIInv => AbrTypeOK
  BY Zenon DEF AbrIInv
<1>. QED  BY <1>1, AbrInvariant, PTL

\* Whatever the thresholds, update() moves the rate only at the end of a full
\* run of degraded or of healthy samples.
THEOREM StepsHold == AbrSpec => StepsFollowStreaks
<1>1. ASSUME AbrIInv, [AbrNext]_abrVars
      PROVE  [Sampled => /\ currentKbps' < currentKbps =>
                              run'.kind = "bad" /\ run'.length >= DownStreakNeeded
                         /\ currentKbps' > currentKbps =>
                              run'.kind = "good" /\ run'.length >= UpStreakNeeded]_abrVars
  BY Zenon, <1>1, UpdateKeeps DEF Sampled
<1>. QED  BY <1>1, AbrInvariant, PTL DEF AbrSpec, StepsFollowStreaks

\* Whatever the thresholds, a change by update() is a cooldown and a full
\* streak away from the change before it.
THEOREM SpacingHolds == AbrSpec => ChangesAreSpaced
<1>1. ASSUME AbrIInv, [AbrNext]_abrVars
      PROVE  [Sampled => /\ currentKbps' < currentKbps =>
                              since + 1 >= AtLeast(CooldownSamples, DownStreakNeeded)
                         /\ currentKbps' > currentKbps =>
                              since + 1 >= AtLeast(CooldownSamples, UpStreakNeeded)]_abrVars
  BY Zenon, <1>1, UpdateKeeps DEF Sampled
<1>. QED  BY <1>1, AbrInvariant, PTL DEF AbrSpec, ChangesAreSpaced

\* Why the rate cannot stay short of its bounds: the cooldown never outlasts
\* the samples since the change, a streak that is long enough is used at once,
\* and away from the bound the streak has counted every sample of the run.
Settling ==
  /\ cooldown > 0 => since + cooldown <= CooldownSamples
  /\ cooldown = 0 /\ currentKbps < MaxKbps => upStreak < UpStreakNeeded
  /\ run.kind = "bad" /\ currentKbps > MinKbps =>
       \/ downStreak >= DownStreakNeeded
       \/ downStreak >= run.length
       \/ downStreak >= since
  /\ run.kind = "good" /\ currentKbps < MaxKbps =>
       \/ upStreak >= UpStreakNeeded
       \/ upStreak >= run.length
       \/ upStreak >= since

\* A sample keeps the controller settling.
LEMMA UpdateSettles ==
  ASSUME AbrIInv, Settling, NEW s \in Samples, Update(s)
  PROVE  Settling'
<1>. DEFINE cooled == IF cooldown > 0 THEN cooldown - 1 ELSE 0
<1>1. /\ currentKbps \in MinKbps .. MaxKbps
      /\ MinKbps \in Nat /\ MaxKbps \in Nat
      /\ downStreak \in Nat /\ upStreak \in 0 .. UpStreakNeeded
      /\ cooldown \in 0 .. CooldownSamples
      /\ run.length \in Nat /\ since \in Nat
  BY RangeAssumption, ThresholdAssumption, HistoryIsLong DEF AbrIInv, AbrTypeOK
<1>2. /\ run'.kind = Kind(s)
      /\ run'.length = AtMost(HistoryCap, IF run.kind = Kind(s) THEN run.length + 1 ELSE 1)
      /\ since' = IF currentKbps' # currentKbps THEN 0 ELSE AtMost(HistoryCap, since + 1)
  BY Zenon DEF Update
<1>3. /\ run'.length \in Nat /\ since' \in Nat
      /\ run.kind = Kind(s) => run'.length <= run.length + 1
      /\ run.kind # Kind(s) => run'.length <= 1
      /\ since' <= since + 1
      /\ currentKbps' # currentKbps => since' = 0
  <2>1. HistoryCap \in Nat
    BY HistoryIsLong
  <2>2. \A n \in Nat : AtMost(HistoryCap, n) \in Nat /\ AtMost(HistoryCap, n) <= n
    BY <2>1 DEF AtMost
  <2>3. /\ run.length + 1 \in Nat /\ since + 1 \in Nat
        /\ 0 \in Nat /\ 1 \in Nat /\ 0 <= since + 1
    BY <1>1
  <2>4. /\ since' \in Nat /\ since' <= since + 1
        /\ currentKbps' # currentKbps => since' = 0
    BY Zenon, <1>2, <2>2, <2>3
  <2>5. CASE run.kind = Kind(s)
    BY Zenon, <1>2, <2>2, <2>3, <2>4, <2>5
  <2>6. CASE run.kind # Kind(s)
    BY Zenon, <1>2, <2>2, <2>3, <2>4, <2>6
  <2>. QED  BY Zenon, <2>5, <2>6
<1>4. cooled \in 0 .. CooldownSamples /\ (cooled > 0 => cooldown = cooled + 1)
  BY <1>1, ThresholdAssumption
<1>5. cooled > 0 => since' + cooled <= CooldownSamples
  <2>. SUFFICES ASSUME cooled > 0 PROVE since' + cooled <= CooldownSamples
    BY Zenon
  <2>1. cooled \in Nat /\ CooldownSamples \in Nat /\ cooldown = cooled + 1
    BY <1>4, ThresholdAssumption
  <2>2. since + cooldown <= CooldownSamples
    BY <1>1, <2>1 DEF Settling
  <2>3. since \in Nat /\ since' \in Nat /\ since' <= since + 1
    BY Zenon, <1>1, <1>3
  <2>4. \A a, b, c, d \in Nat : b <= a + 1 /\ a + (c + 1) <= d => b + c <= d
    OBVIOUS
  <2>. HIDE DEF cooled
  <2>. QED  BY Zenon, <2>1, <2>2, <2>3, <2>4
<1>6. /\ StepDown \in MinKbps .. currentKbps /\ StepUp \in currentKbps .. MaxKbps
      /\ currentKbps > MinKbps => StepDown # currentKbps
      /\ currentKbps < MaxKbps => StepUp # currentKbps
  BY Zenon, <1>1, StepsInRange
<1>7. CASE IsBad(s) /\ UpdateBad(cooled)
  <2>1. Kind(s) = "bad" /\ upStreak' = 0
    BY Zenon, <1>7 DEF Kind, UpdateBad
  <2>2. CASE downStreak + 1 >= DownStreakNeeded /\ cooled = 0
    <3>1. /\ downStreak' = 0 /\ currentKbps' = StepDown
          /\ cooldown' = IF StepDown # currentKbps THEN CooldownSamples ELSE cooled
      BY Zenon, <1>7, <2>2 DEF UpdateBad, ChangeTo
    <3>2. currentKbps' > MinKbps => since' = 0
      BY Zenon, <1>1, <1>3, <1>6, <3>1
    <3>3. cooldown' > 0 => since' + cooldown' <= CooldownSamples
      <4>. HIDE DEF cooled
      <4>1. CASE StepDown # currentKbps
        BY <1>3, <3>1, <4>1, ThresholdAssumption
      <4>2. CASE StepDown = currentKbps
        BY SMTT(30), <2>2, <3>1, <4>2
      <4>. QED  BY Zenon, <4>1, <4>2
    <3>. QED  BY <1>2, <2>1, <3>1, <3>2, <3>3, ThresholdAssumption DEF Settling
  <2>3. CASE ~(downStreak + 1 >= DownStreakNeeded /\ cooled = 0)
    <3>1. downStreak' = downStreak + 1 /\ currentKbps' = currentKbps /\ cooldown' = cooled
      BY Zenon, <1>7, <2>3 DEF UpdateBad, Keep
    <3>2. currentKbps > MinKbps => \/ downStreak + 1 >= DownStreakNeeded
                                   \/ downStreak + 1 >= run'.length
                                   \/ downStreak + 1 >= since'
      BY <1>1, <1>3, <2>1, ThresholdAssumption DEF Settling
    <3>. QED  BY <1>2, <1>5, <2>1, <3>1, <3>2, ThresholdAssumption DEF Settling
  <2>. QED  BY Zenon, <2>2, <2>3
<1>8. CASE ~IsBad(s) /\ IsGood(s) /\ UpdateGood(cooled)
  <2>1. Kind(s) = "good" /\ downStreak' = 0
    BY Zenon, <1>8 DEF Kind, UpdateGood
  <2>2. CASE upStreak + 1 >= UpStreakNeeded /\ cooled = 0 /\ currentKbps < MaxKbps
    <3>1. /\ upStreak' = 0 /\ currentKbps' = StepUp
          /\ cooldown' = IF StepUp # currentKbps THEN CooldownSamples ELSE cooled
      BY Zenon, <1>8, <2>2 DEF UpdateGood, ChangeTo
    <3>2. since' = 0
      BY Zenon, <1>1, <1>3, <1>6, <2>2, <3>1
    <3>3. cooldown' > 0 => since' + cooldown' <= CooldownSamples
      <4>. HIDE DEF cooled
      <4>. QED  BY <1>1, <1>3, <1>5, <1>6, <2>2, <3>1, ThresholdAssumption
    <3>. QED  BY <1>2, <2>1, <3>1, <3>2, <3>3, ThresholdAssumption DEF Settling
  <2>3. CASE ~(upStreak + 1 >= UpStreakNeeded /\ cooled = 0 /\ currentKbps < MaxKbps)
    <3>1. /\ upStreak' = AtMost(UpStreakNeeded, upStreak + 1)
          /\ currentKbps' = currentKbps /\ cooldown' = cooled
      BY Zenon, <1>8, <2>3 DEF UpdateGood, Keep
    <3>2. currentKbps < MaxKbps => \/ upStreak' >= UpStreakNeeded
                                   \/ upStreak' >= run'.length
                                   \/ upStreak' >= since'
      BY <1>1, <1>3, <2>1, <3>1, ThresholdAssumption DEF Settling, AtMost
    <3>3. cooled = 0 /\ currentKbps < MaxKbps => upStreak' < UpStreakNeeded
      BY SMTT(30), <1>1, <2>3, <3>1, ThresholdAssumption DEF AtMost
    <3>. QED  BY Zenon, <1>2, <1>5, <2>1, <3>1, <3>2, <3>3 DEF Settling
  <2>. QED  BY Zenon, <2>2, <2>3
<1>9. CASE ~IsBad(s) /\ ~IsGood(s) /\ UpdateNeutral(cooled)
  <2>1. Kind(s) = "neutral" /\ upStreak' = 0 /\ currentKbps' = currentKbps /\ cooldown' = cooled
    BY Zenon, <1>9 DEF Kind, UpdateNeutral, Keep
  <2>. QED  BY <1>2, <1>5, <2>1, ThresholdAssumption DEF Settling
<1>. QED  BY Zenon, <1>7, <1>8, <1>9 DEF Update

\* On a steady link update() never leaves the rate alone for longer than its
\* thresholds ask for, unless it is at the floor or at the ceiling.
THEOREM SettlingHolds == AbrSpec => []SteadyLinkSettles
<1>1. AbrInit => Settling
  <2>. SUFFICES ASSUME AbrInit PROVE Settling
    BY Zenon
  <2>1. run = [kind |-> "neutral", length |-> 0] /\ upStreak = 0 /\ cooldown = 0
    BY Zenon DEF AbrInit, StartAt
  <2>. QED  BY <2>1, ThresholdAssumption DEF Settling
<1>2. ASSUME AbrIInv, Settling, [AbrNext]_abrVars PROVE Settling'
  <2>1. CASE Sampled
    BY Zenon, <1>2, <2>1, UpdateSettles DEF Sampled
  <2>2. CASE Requested
    <3>1. downStreak' = 0 /\ upStreak' = 0 /\ cooldown' = CooldownSamples /\ since' = 0
      BY Zenon, <2>2 DEF Requested, SetManual
    <3>. QED  BY <3>1, ThresholdAssumption DEF Settling
  <2>3. CASE UNCHANGED abrVars
    BY Zenon, <1>2, <2>3 DEF Settling, abrVars
  <2>. QED  BY Zenon, <1>2, <2>1, <2>2, <2>3 DEF AbrNext
<1>3. ASSUME AbrIInv, Settling PROVE SteadyLinkSettles
  <2>1. /\ currentKbps \in MinKbps .. MaxKbps
        /\ MinKbps \in Nat /\ MaxKbps \in Nat
        /\ downStreak \in Nat /\ upStreak \in Nat /\ cooldown \in Nat
        /\ run.length \in Nat /\ since \in Nat
    BY <1>3, RangeAssumption, ThresholdAssumption, HistoryIsLong DEF AbrIInv, AbrTypeOK
  <2>2. cooldown = 0 => downStreak < DownStreakNeeded
    BY Zenon, <1>3 DEF AbrIInv, Hysteresis
  <2>. QED
    BY <1>3, <2>1, <2>2, ThresholdAssumption DEF SteadyLinkSettles, Settling, AtLeast
<1>. QED  BY <1>1, <1>2, <1>3, AbrInvariant, PTL DEF AbrSpec
===============================================================================
