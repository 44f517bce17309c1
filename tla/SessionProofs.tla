---------------------------- MODULE SessionProofs -----------------------------
(***************************************************************************)
(* The session run as a whole: every part keeps the invariants of the two  *)
(* coordinators, so slots stay unique and media follows the session.       *)
(***************************************************************************)
EXTENDS MCSession, MediaSetupProofs

\* What every part of the session run keeps: the invariants of both
\* coordinators and, while a player's media is set up, of the two together.
SessionInv ==
  HostProof!CoordinatorInv /\ ClientInv /\ part \in Parts /\ (part = "setup" => SetupInv)

\* The session run starts with both coordinators at rest.
LEMMA SessionStarts ==
  ASSUME MCInit
  PROVE  SessionInv
<1>1. HostProof!HostInit /\ ClientInit /\ part \in Parts
  BY Zenon, HostIsTheSame DEF MCInit, SetupInit
<1>2. HostProof!SayingInv /\ HostProof!CoordinatorInv
  BY Zenon, <1>1, SeatsSuffice, HostProof!SayingStarts DEF HostProof!SayingInv
<1>3. ClientInv
  BY Zenon, <1>1, ClientStarts
<1>4. /\ joins = 0 /\ client = "none" /\ sent = <<>> /\ qt = "idle"
  BY Zenon, <1>1 DEF ClientInit
<1>5. hArrived[player] = <<>>
  BY Zenon, <1>1, SetupAssumption DEF HostProof!HostInit
<1>6. joins \in 0 .. 1
  BY SMTT(30), <1>4
<1>7. SetupInv
  BY Zenon, <1>2, <1>3, <1>4, <1>5, <1>6 DEF SetupInv, Live, Rejoins
<1> QED BY Zenon, <1>1, <1>2, <1>3, <1>7 DEF SessionInv

\* A step of any part of the run keeps the invariants of both coordinators.
LEMMA SessionSteps ==
  ASSUME SessionInv, [MCNext]_mcVars
  PROVE  SessionInv'
<1>0. HostProof!CoordinatorInv /\ ClientInv /\ part \in Parts
  BY Zenon DEF SessionInv
<1>1. ASSUME UNCHANGED hostSide PROVE (HostProof!CoordinatorInv)'
  <2>1. UNCHANGED <<host, hEvents, hQt, streams, hStreamer, hWorker, records, hSession, hArrived>>
    BY Zenon, <1>1 DEF hostSide
  <2> QED BY Zenon, <1>0, <2>1, HostProof!CoordStutters
<1>2. ASSUME UNCHANGED clientVars PROVE ClientInv'
  <2>1. UNCHANGED <<qt, then, events, client, streamingUi, ecdh, channel, streamer, crypto, running,
                    transport, worker, sent, arrived>>
    BY Zenon, <1>2 DEF clientVars, keyVars, mediaVars, linkVars
  <2> QED BY Zenon, <1>0, <2>1, ClientStutters
<1>3. CASE Setup
  <2>1. part = "setup" /\ part' = "setup" /\ SetupInv /\ SetupNext
    BY Zenon, <1>3 DEF Setup, SessionInv
  <2>2. SetupInv'
    BY Zenon, <2>1, SetupSteps
  <2> QED BY Zenon, <2>1, <2>2 DEF SessionInv, SetupInv, HostProof!SayingInv, Parts
<1>4. CASE Callbacks \/ Crowded
  <2>1. Host!HostNext /\ UNCHANGED clientVars /\ part' = part /\ part # "setup"
    BY Zenon, <1>4 DEF Callbacks, Crowded
  <2>2. (HostProof!CoordinatorInv)'
    BY Zenon, <1>0, <2>1, HostIsTheSame, SeatsSuffice, HostProof!CoordinatorKeeps
  <2> QED BY Zenon, <1>0, <1>2, <2>1, <2>2 DEF SessionInv
<1>5. CASE Joining
  <2>1. ClientNext /\ UNCHANGED hostSide /\ part' = part /\ part # "setup"
    BY Zenon, <1>5 DEF Joining
  <2> QED BY Zenon, <1>0, <1>1, <2>1, ClientKeeps DEF SessionInv
<1>6. CASE Injector \/ Server \/ Relay \/ SignalingSide
  <2>1. UNCHANGED setupVars /\ part' = part /\ part # "setup"
    BY Zenon, <1>6 DEF Injector, Server, Relay, SignalingSide
  <2> QED BY Zenon, <1>0, <1>1, <1>2, <2>1 DEF SessionInv, setupVars
<1>7. CASE UNCHANGED mcVars
  <2>1. UNCHANGED hostSide /\ UNCHANGED clientVars /\ part' = part
    BY Zenon, <1>7 DEF mcVars, setupVars
  <2>2. (HostProof!CoordinatorInv)' /\ ClientInv'
    BY Zenon, <1>1, <1>2, <2>1
  <2>3. part = "setup" => SetupInv'
    <3> HAVE part = "setup"
    <3>1. SetupInv
      BY Zenon DEF SessionInv
    <3>2. UNCHANGED <<host, hEvents, hQt, streams, hStreamer, hWorker, records, hSession, hSent, hArrived>>
      BY Zenon, <2>1 DEF hostSide
    <3>3. UNCHANGED <<qt, then, client, sent, arrived, joins>>
      BY Zenon, <2>1 DEF clientVars, linkVars
    <3>4. (HostProof!SayingInv)'
      BY Zenon, <3>1, <3>2, HostProof!SayingStutters DEF SetupInv
    <3> QED BY Zenon, <2>2, <3>1, <3>2, <3>3, <3>4 DEF SetupInv, Live, Rejoins
  <2> QED BY Zenon, <1>0, <2>1, <2>2, <2>3 DEF SessionInv
<1> QED BY Zenon, <1>3, <1>4, <1>5, <1>6, <1>7 DEF MCNext

\* The invariant implies what the run checks of slots and media.
LEMMA SessionIsSafe ==
  SessionInv => SlotsAreUnique /\ MediaFollowsSession
<1> SUFFICES ASSUME SessionInv PROVE SlotsAreUnique /\ MediaFollowsSession
  BY Zenon
<1>1. HostProof!CoordinatorInv /\ ClientInv
  BY Zenon DEF SessionInv
<1>2. SlotsAreUnique /\ Host!OrphansStop
  BY Zenon, <1>1, HostProof!CoordinatorIsSafe, HostIsTheSame DEF SlotsAreUnique
<1>3. NothingOutlivesStop /\ ConfirmsInOrder
  BY SMTT(30), <1>1, ClientIsSafe
<1>4. client # "none" /\ transport => crypto
  BY Zenon, <1>1, ClientTellsInTurn
<1>5. hWorker[player] # "none" => Len(hArrived[player]) = 2 /\ hArrived[player][2] = "SessionKeyReady"
  <2>1. hWorker[player] # "none" => hArrived[player] = BothKeys
    BY Zenon, <1>1, SetupAssumption, BothKeysAgree DEF HostProof!CoordinatorInv, HostProof!WorkersAgree
  <2> QED BY Zenon, <2>1, BothKeysAgree
<1> QED BY Zenon, <1>2, <1>3, <1>4, <1>5 DEF MediaFollowsSession, StreamFollowsSession

\* No two players share a slot and nothing brings a torn-down player back to
\* the injector (assignPlayerIndex, teardownClient), for any set of clients
\* and any capacity within the slots.
THEOREM SlotsStayUnique == MCSpec => []SlotsAreUnique
<1>1. MCSpec => []SessionInv
  BY SessionStarts, SessionSteps, PTL DEF MCSpec
<1> QED BY <1>1, SessionIsSafe, PTL

\* Media follows the session on both sides, from the handshake to the running
\* stream: keys before the stream, the stream only for a player who confirmed
\* them, and nothing of it after stop() (the key exchange of both
\* coordinators, teardownClient, ClientCoordinator::stop), for any number of
\* queued events and any number of joins.
THEOREM MediaIsInStep == MCSpec => []MediaFollowsSession
<1>1. MCSpec => []SessionInv
  BY SessionStarts, SessionSteps, PTL DEF MCSpec
<1> QED BY <1>1, SessionIsSafe, PTL
===============================================================================
