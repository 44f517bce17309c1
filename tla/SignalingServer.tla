--------------------------- MODULE SignalingServer ---------------------------
(***************************************************************************)
(* The signaling half of server.py: the registry of sessions, one          *)
(* coroutine per signaling connection, and the endpoint table of each      *)
(* session's UDP relay.  asyncio runs one coroutine at a time, so a step   *)
(* lasts from one await to the next; send_json writes before it awaits     *)
(* drain(), and the drain of a slow connection lets the others run.  A     *)
(* connection registers or joins at most once (role is never cleared), so  *)
(* a session, its code and its host token go by the connection of its      *)
(* host, and a player's token by the connection of the player.  Requests   *)
(* that are only answered (rejected, already registered, keepalive) leave  *)
(* the state as it is.                                                     *)
(***************************************************************************)
EXTENDS Naturals, FiniteSets, Functions, FiniteSetsExt

CONSTANTS Conns,                       \* signaling connections
          MAX_PLAYERS,                 \* slots of a session
          UdpUsed,                     \* peers bind at the UDP relay
          TimePasses                   \* sessions grow older than SESSION_TTL_SECONDS

ASSUME SignalingAssumption ==
  /\ IsFiniteSet(Conns) /\ MAX_PLAYERS \in Nat \ {0}
  /\ UdpUsed \in BOOLEAN /\ TimePasses \in BOOLEAN

VARIABLES role, session, pc,           \* of a connection: role, session, where its coroutine awaits
          by_id, by_code,              \* the registry's dictionaries
          session_id, clients,         \* of a session: its id, its players by slot
          relays, old,                 \* of a session: relay sockets; past its time to live
          iterated,                    \* of a host leaving: the iterator over its players
          informed,                    \* players the host has been told of, less those that left
          closed,                      \* players told session_closed
          late,                        \* what became of a session while its host was leaving
          endpoints                    \* of a session: client_endpoints

connVars == <<role, session, pc, iterated>>
registryVars == <<by_id, by_code>>
sessionVars == <<session_id, clients, relays, old>>
peerVars == <<informed, closed, late>>
signalingVars == <<connVars, registryVars, sessionVars, peerVars, endpoints>>

Nobody == "nobody"
Slots == 0 .. MAX_PLAYERS - 1
Nothing == [i \in {} |-> Nobody]
\* The iterator over s.clients.values(): the size the dictionary must have, how
\* many entries it still expects, and the entries that lie ahead of it.
Iterator(used, len, ahead) == [used |-> used, len |-> len, ahead |-> ahead]
NotLeaving == Iterator(0, 0, {})
Players(s) == {clients[s][i] : i \in DOMAIN clients[s]}
SlotMaps == UNION {[S -> Conns] : S \in SUBSET Slots}

\* Type invariant: a session has at most MAX_PLAYERS players, ids are at
\* most the number of sessions, and the host is only told of real slots.
SignalingTypeOK ==
  /\ role \in [Conns -> {"none", "host", "client"}]
  /\ session \in [Conns -> Conns \cup {Nobody}]
  /\ pc \in [Conns -> {"reading", "relays", "joining", "closing", "done"}]
  /\ DOMAIN by_id \subseteq 1 .. Cardinality(Conns) /\ \A i \in DOMAIN by_id : by_id[i] \in Conns
  /\ by_code \subseteq Conns
  /\ session_id \in [Conns -> 0 .. Cardinality(Conns)]
  /\ clients \in [Conns -> SlotMaps] /\ endpoints \in [Conns -> SlotMaps]
  /\ relays \in [Conns -> {"none", "open", "closed"}] /\ old \in [Conns -> BOOLEAN]
  /\ iterated \in [Conns -> [used : 0 .. MAX_PLAYERS, len : 0 .. MAX_PLAYERS, ahead : SUBSET Slots]]
  /\ informed \in [Conns -> SUBSET Slots] /\ closed \subseteq Conns
  /\ late \in [Conns -> SUBSET {"joined", "left"}]

SignalingInit ==
  /\ role = [c \in Conns |-> "none"] /\ session = [c \in Conns |-> Nobody]
  /\ pc = [c \in Conns |-> "reading"] /\ iterated = [c \in Conns |-> NotLeaving]
  /\ by_id = Nothing /\ by_code = {}
  /\ session_id = [s \in Conns |-> 0] /\ clients = [s \in Conns |-> Nothing]
  /\ relays = [s \in Conns |-> "none"] /\ old = [s \in Conns |-> FALSE]
  /\ informed = [s \in Conns |-> {}] /\ closed = {} /\ late = [s \in Conns |-> {}]
  /\ endpoints = [s \in Conns |-> Nothing]

-------------------------------------------------------------------------------
(* Registry *)

Drop(f, S) == Restrict(f, DOMAIN f \ S)
Values(f) == {f[x] : x \in DOMAIN f}
Expired == {s \in Values(by_id) : old[s]}
IdsLeft(S) == Drop(by_id, {session_id[s] : s \in S})
RelaysLeft(S) == [s \in Conns |-> IF s \in S /\ relays[s] = "open" THEN "closed" ELSE relays[s]]

RemoveSessions(S) ==
  /\ by_code' = by_code \ S
  /\ by_id' = IdsLeft(S)
  /\ relays' = RelaysLeft(S)

NextId(ids) == Cardinality(DOMAIN ids) + 1
FreeSlots(s) == Slots \ DOMAIN clients[s]

\* The expiry loop's pass, every five minutes.
Expire ==
  /\ Expired # {}
  /\ RemoveSessions(Expired)
  /\ UNCHANGED <<connVars, session_id, clients, old, peerVars, endpoints>>

\* Six hours have gone by since the session was created.
Age(s) ==
  /\ TimePasses /\ relays[s] = "open" /\ ~old[s]
  /\ old' = [old EXCEPT ![s] = TRUE]
  /\ UNCHANGED <<connVars, registryVars, session_id, clients, relays, peerVars, endpoints>>

-------------------------------------------------------------------------------
(* Handlers of a connection *)

\* host_register, as far as the await for the relay sockets.
OnHostRegister(c) ==
  /\ pc[c] = "reading" /\ role[c] = "none"
  /\ role' = [role EXCEPT ![c] = "host"] /\ session' = [session EXCEPT ![c] = c]
  /\ pc' = [pc EXCEPT ![c] = "relays"]
  /\ LET ids == IdsLeft(Expired)
         id == NextId(ids) IN
       /\ session_id' = [session_id EXCEPT ![c] = id]
       /\ by_id' = [i \in DOMAIN ids \cup {id} |-> IF i = id THEN c ELSE ids[i]]
  /\ by_code' = (by_code \ Expired) \cup {c}
  /\ relays' = RelaysLeft(Expired)
  /\ UNCHANGED <<iterated, clients, old, peerVars, endpoints>>

\* The relay sockets are open; host_registered carries the code and the ports.
StartSessionRelays(c) ==
  /\ pc[c] = "relays"
  /\ relays' = [relays EXCEPT ![c] = "open"]
  /\ pc' = [pc EXCEPT ![c] = "reading"]
  /\ UNCHANGED <<role, session, iterated, registryVars, session_id, clients, old, peerVars, endpoints>>

\* A socket could not be opened: run() ends, and on_leave removes the
\* session, whose code nobody has been given.
RelaysFail(c) ==
  /\ pc[c] = "relays"
  /\ RemoveSessions({c})
  /\ session' = [session EXCEPT ![c] = Nobody]
  /\ pc' = [pc EXCEPT ![c] = "done"]
  /\ UNCHANGED <<role, iterated, session_id, clients, old, peerVars, endpoints>>

Late(s, what) == [late EXCEPT ![s] = IF pc[s] = "closing" THEN @ \cup {what} ELSE @]

\* s.clients[idx] = slot, for the iterator of a host that is leaving: the new
\* entry comes last, but a dictionary with no room behind its last entry is
\* compacted first, and any entry may then come to lie behind the iterator.
Insert(s, idx) ==
  \/ pc[s] # "closing" /\ UNCHANGED iterated
  \/ /\ pc[s] = "closing"
     /\ \E ahead \in SUBSET (iterated[s].ahead \cup {idx}) :
          iterated' = [iterated EXCEPT ![s].ahead = ahead]

\* join: the lowest free slot, with no await between finding and taking it.
\* The code is known once host_registered is out, hence with the relays open.
OnJoin(c, s) ==
  /\ pc[c] = "reading" /\ role[c] = "none"
  /\ s \in by_code /\ relays[s] = "open" /\ FreeSlots(s) # {}
  /\ role' = [role EXCEPT ![c] = "client"] /\ session' = [session EXCEPT ![c] = s]
  /\ LET idx == Min(FreeSlots(s)) IN
       /\ clients' = [clients EXCEPT ![s] = [i \in DOMAIN @ \cup {idx} |-> IF i = idx THEN c ELSE @[i]]]
       /\ Insert(s, idx)
  /\ pc' = [pc EXCEPT ![c] = "joining"] /\ late' = Late(s, "joined")
  /\ UNCHANGED <<registryVars, session_id, relays, old, informed, closed, endpoints>>

SlotOf(c, s) == CHOOSE i \in DOMAIN clients[s] : clients[s][i] = c

\* The joined reply has drained; the host is told of the player.
JoinTellsHost(c) ==
  /\ pc[c] = "joining"
  /\ informed' = [informed EXCEPT ![session[c]] = @ \cup {SlotOf(c, session[c])}]
  /\ pc' = [pc EXCEPT ![c] = "reading"]
  /\ UNCHANGED <<role, session, iterated, registryVars, sessionVars, closed, late, endpoints>>

\* For comparison: the host is not told.
ClientLeavesQuietly(c) ==
  /\ pc[c] = "reading" /\ role[c] = "client" /\ session[c] # Nobody
  /\ LET s == session[c] IN clients' = [clients EXCEPT ![s] = Drop(@, {SlotOf(c, s)})]
  /\ session' = [session EXCEPT ![c] = Nobody] /\ pc' = [pc EXCEPT ![c] = "done"]
  /\ UNCHANGED <<role, iterated, registryVars, session_id, relays, old, peerVars, endpoints>>

\* on_leave of a player: by a leave message or at the end of the
\* connection.  Its role stays, so nothing more can come of the connection.
ClientLeaves(c) ==
  /\ pc[c] = "reading" /\ role[c] = "client" /\ session[c] # Nobody
  /\ LET s == session[c]
         idx == SlotOf(c, s) IN
       /\ clients' = [clients EXCEPT ![s] = Drop(@, {idx})]
       /\ iterated' = [iterated EXCEPT ![s].ahead = @ \ {idx}]
       /\ informed' = [informed EXCEPT ![s] = @ \ {idx}]
       /\ late' = Late(s, "left")
  /\ session' = [session EXCEPT ![c] = Nobody]
  /\ pc' = [pc EXCEPT ![c] = "done"]
  /\ UNCHANGED <<role, registryVars, session_id, relays, old, closed, endpoints>>

CloseVisits(c, it) ==
  /\ \E i \in it.ahead :
       /\ closed' = closed \cup {clients[c][i]}
       /\ iterated' = [iterated EXCEPT ![c] = Iterator(it.used, it.len - 1, it.ahead \ {i})]
  /\ pc' = [pc EXCEPT ![c] = "closing"]
  /\ UNCHANGED <<registryVars, relays>>

CloseEnds(c) ==
  /\ iterated' = [iterated EXCEPT ![c] = NotLeaving]
  /\ pc' = [pc EXCEPT ![c] = "done"]
  /\ UNCHANGED closed

Changed(c, it) == it.used # Cardinality(DOMAIN clients[c])

\* For comparison: an iterator that raises does not keep the session.
CloseNextAlwaysRemoves(c, it) ==
  \/ ~Changed(c, it) /\ it.len > 0 /\ CloseVisits(c, it)
  \/ (Changed(c, it) \/ it.len = 0 \/ it.ahead = {}) /\ RemoveSessions({c}) /\ CloseEnds(c)

\* One turn of the loop over s.clients.values().  The iterator raises when the
\* dictionary has not the size it had at the start, or has an entry left when
\* none is expected; REGISTRY.remove is then not reached.  The order of the
\* entries is left out.
CloseNext(c, it) ==
  \/ ~Changed(c, it) /\ it.len > 0 /\ CloseVisits(c, it)
  \/ ~Changed(c, it) /\ it.ahead = {} /\ RemoveSessions({c}) /\ CloseEnds(c)
  \/ /\ Changed(c, it) \/ (it.ahead # {} /\ it.len = 0)
     /\ CloseEnds(c) /\ UNCHANGED <<registryVars, relays>>

\* on_leave of a host, as far as the first await of the loop.
HostLeaves(c) ==
  /\ pc[c] = "reading" /\ role[c] = "host" /\ session[c] # Nobody
  /\ session' = [session EXCEPT ![c] = Nobody]
  /\ LET size == Cardinality(DOMAIN clients[c]) IN CloseNext(c, Iterator(size, size, DOMAIN clients[c]))
  /\ UNCHANGED <<role, session_id, clients, old, informed, late, endpoints>>

HostLeavesOn(c) ==
  /\ pc[c] = "closing"
  /\ CloseNext(c, iterated[c])
  /\ UNCHANGED <<role, session, session_id, clients, old, informed, late, endpoints>>

\* A connection that never registered or joined ends.
NobodyLeaves(c) ==
  /\ pc[c] = "reading" /\ role[c] = "none"
  /\ pc' = [pc EXCEPT ![c] = "done"]
  /\ UNCHANGED <<role, session, iterated, registryVars, sessionVars, peerVars, endpoints>>

-------------------------------------------------------------------------------
(* UDP relay *)

\* RPBIND with the token of a player that holds a slot (token_owner).
Bind(c, s) ==
  /\ UdpUsed /\ relays[s] = "open" /\ c \in Players(s)
  /\ LET idx == SlotOf(c, s) IN
       endpoints' = [endpoints EXCEPT ![s] = [i \in DOMAIN @ \cup {idx} |-> IF i = idx THEN c ELSE @[i]]]
  /\ UNCHANGED <<connVars, registryVars, sessionVars, peerVars>>

SignalingNext ==
  \/ Expire
  \/ \E c \in Conns :
       \/ Age(c) \/ OnHostRegister(c) \/ StartSessionRelays(c) \/ RelaysFail(c)
       \/ JoinTellsHost(c) \/ ClientLeaves(c) \/ HostLeaves(c) \/ HostLeavesOn(c)
       \/ NobodyLeaves(c)
       \/ \E s \in Conns : OnJoin(c, s) \/ Bind(c, s)

\* The event loop runs every coroutine that can run and the expiry task; when
\* peers come, go or send is theirs to choose.
SignalingFairness ==
  /\ WF_signalingVars(Expire)
  /\ \A c \in Conns : WF_signalingVars(StartSessionRelays(c)) /\ WF_signalingVars(JoinTellsHost(c))
                      /\ WF_signalingVars(HostLeavesOn(c))

SignalingSpec == SignalingInit /\ [][SignalingNext]_signalingVars /\ SignalingFairness

-------------------------------------------------------------------------------
(* Properties *)

\* What the host was told by client_joined and client_left, in the order it
\* was written, is the table of players less those whose own joined reply is
\* still draining, although slots are given up and given again meanwhile.
HostKnowsPlayers ==
  \A s \in Conns :
    informed[s] = {i \in DOMAIN clients[s] : pc[clients[s][i]] # "joining"}

\* The registry follows the hosts.  A served host's session that was not
\* expired is found under its code, its relay sockets open.  A host that has
\* left without a player joining or leaving in the meantime has left no
\* session behind; and unless a player joined in the meantime, a session that
\* its leaving took out of the registry has no player that was not told
\* session_closed, whoever left while the replies were draining.
RegistryFollowsHosts ==
  \A s \in Conns :
    /\ (role[s] = "host" /\ pc[s] = "reading" /\ session[s] = s /\ ~old[s]) =>
         s \in by_code /\ relays[s] = "open"
    /\ (role[s] = "host" /\ pc[s] = "done" /\ ~old[s]) =>
         /\ late[s] = {} => s \notin by_code
         /\ "joined" \notin late[s] /\ s \notin by_code => Players(s) \subseteq closed

-------------------------------------------------------------------------------
(* Statements of comments, tests and documents that the code does not keep *)

\* A session whose players were told session_closed because the host left is
\* closed: once on_leave of the host is over its code leads nowhere.  It does
\* when the iterator raised.
ClosedMeansClosed ==
  \A s \in Conns : (role[s] = "host" /\ pc[s] = "done") => s \notin by_code

\* A session past its time to live is expired in the end.
OldSessionsExpire ==
  \A s \in Conns : (old[s] /\ s \in by_code) ~> (s \notin by_code)

\* A session is expired for inactivity only: a session that Expire removes
\* has neither a served host nor a player.
ActiveSessionsStay ==
  [][\A s \in by_code \ by_code' :
       (pc[s] = "reading" /\ session[s] = s /\ Players(s) # {}) => session'[s] = Nobody]_signalingVars

\* Media of a session goes to the endpoints of its players: whoever is in
\* client_endpoints holds that slot.
MediaStaysInSession ==
  \A s \in Conns : relays[s] = "open" =>
    \A i \in DOMAIN endpoints[s] : i \in DOMAIN clients[s] /\ clients[s][i] = endpoints[s][i]
=============================================================================
