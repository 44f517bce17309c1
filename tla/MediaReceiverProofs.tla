------------------------- MODULE MediaReceiverProofs --------------------------
(***************************************************************************)
(* Datagrams and frames, for every window, buffer, age and queue size: the *)
(* secure channel, and the receive path from fragment to frame.            *)
(***************************************************************************)
EXTENDS SecureChannel, MediaReceiver, FiniteSetTheorems, SequenceTheorems, TLAPS

-------------------------------------------------------------------------------
(***************************************************************************)
(* SecureChannel.  Each direction implements a datagram service that never *)
(* delivers twice, no nonce is used twice, and the replay window is exact. *)
(***************************************************************************)

\* Two numbers that share a slot of the window are a window apart.
LEMMA SlotsApart ==
  ASSUME NEW a \in Nat, NEW b \in Nat, a < b, a % WindowSize = b % WindowSize
  PROVE  b - a >= WindowSize
<1> DEFINE W == WindowSize
           p == a \div W
           q == b \div W
<1>1. W \in Nat /\ W > 0
  BY WindowAssumption
<1>2. p \in Int /\ q \in Int /\ a = W * p + (a % W) /\ b = W * q + (b % W)
  BY <1>1
<1>3. b - a = W * q - W * p
  BY <1>1, <1>2
<1>4. \A x, y \in Int : W * y - W * x > 0 => W * y - W * x >= W
  <2> SUFFICES ASSUME NEW x \in Int, NEW y \in Int, W * y - W * x > 0
               PROVE  W * y - W * x >= W
    BY Zenon
  <2>1. W * y - W * x = W * (y - x)
    BY <1>1
  <2>2. y - x >= 1
    BY <1>1, <2>1
  <2>3. W * (y - x) >= W
    BY <1>1, <2>2
  <2> QED
    BY Zenon, <2>1, <2>3
<1> QED
  BY <1>2, <1>3, <1>4

\* Every slot number is a slot of the window.
LEMMA SlotInWindow ==
  ASSUME NEW c \in Nat
  PROVE  c % WindowSize \in 0 .. WindowSize - 1
BY WindowAssumption

------------------------------------------------------------------------------
\* What has been opened by s is still in the window or has fallen out of it.
Remembered(s) ==
  \A c \in Counters : opened[s][c] # 0 =>
    /\ opened[s][c] = 1
    /\ recvInit[s]
    /\ c <= recvHighest[s]
    /\ \/ recvHighest[s] - c >= WindowSize
       \/ recvWindow[s][c % WindowSize] = c

\* What the window of s remembers has been opened.
OnlyOpened(s) ==
  \A i \in 0 .. WindowSize - 1 :
    \/ recvWindow[s][i] = 0
    \/ recvWindow[s][i] \in Counters /\ opened[s][recvWindow[s][i]] # 0

\* The counters of what s sealed are behind its next counter.
CountersSpent(s) == \A d \in wire[s] : d.counter < sendCounter[s]

\* A channel that has not finished has neither sent nor received.
Unused(s) ==
  secret[s] = NoSecret => ~active[s] /\ wire[s] = {} /\ \A c \in Counters : opened[s][c] = 0

SecInv ==
  /\ SecTypeOK
  /\ NonceUsedOnce
  /\ \A s \in Sides : Remembered(s) /\ OnlyOpened(s) /\ CountersSpent(s) /\ Unused(s)

\* The invariant of the secure channel holds before the keys.
LEMMA SecInitInv == SecInit => SecInv
<1> SUFFICES ASSUME SecInit PROVE SecInv
  BY Zenon
<1> USE DEF SecInit, Sides, Counters, Heads
<1>1. SecTypeOK
  BY WindowAssumption, CounterAssumption DEF SecTypeOK
<1>2. NonceUsedOnce
  BY Zenon DEF NonceUsedOnce
<1>3. \A s \in Sides : Remembered(s) /\ OnlyOpened(s) /\ CountersSpent(s) /\ Unused(s)
  BY Zenon DEF Remembered, OnlyOpened, CountersSpent, Unused
<1> QED
  BY Zenon, <1>1, <1>2, <1>3 DEF SecInv

\* finish derives the keys and starts the counters.
LEMMA FinishInv ==
  ASSUME SecInv, NEW s \in Sides, NEW code \in Codes, Finish(s, code)
  PROVE  SecInv'
<1> USE DEF Counters, Heads
<1>1. SecTypeOK'
  BY SMTT(30), WindowAssumption, CounterAssumption DEF SecInv, SecTypeOK, Finish, NoSecret
<1>2. NonceUsedOnce'
  BY Zenon DEF SecInv, NonceUsedOnce, Finish
<1>3. ASSUME NEW r \in Sides
      PROVE  (Remembered(r) /\ OnlyOpened(r) /\ CountersSpent(r) /\ Unused(r))'
  <2>1. CASE r # s
    BY <2>1 DEF SecInv, SecTypeOK, Finish, Remembered, OnlyOpened, CountersSpent, Unused
  <2>2. CASE r = s
    BY <2>2 DEF SecInv, SecTypeOK, Finish, Remembered, OnlyOpened, CountersSpent, Unused,
                NoSecret, hkdfSha256
  <2> QED
    BY Zenon, <2>1, <2>2
<1> QED
  BY Zenon, <1>1, <1>2, <1>3 DEF SecInv

\* seal spends one counter on one datagram.
LEMMA SealInv ==
  ASSUME SecInv, NEW s \in Sides, NEW header \in Headers, NEW head \in Heads,
         Seal(s, header, head)
  PROVE  SecInv'
<1> USE DEF Counters, Heads
<1> DEFINE d0 == [key |-> SendKey(s), counter |-> sendCounter[s], head |-> head, aad |-> header]
<1>1. sendCounter[s] \in Counters /\ secret[s] # NoSecret
  BY CounterAssumption DEF SecInv, SecTypeOK, Seal, Unused
<1>2. SendKey(s) \in {<<hkdfSha256(code), r>> : code \in Codes, r \in Sides}
  BY <1>1 DEF SecInv, SecTypeOK, SendKey
<1>3. d0 \in Sealed
  BY <1>1, <1>2 DEF Sealed
<1>4. /\ wire' = [wire EXCEPT ![s] = @ \cup {d0}]
      /\ sendCounter' = [sendCounter EXCEPT ![s] = @ + 1]
      /\ d0.counter = sendCounter[s]
      /\ UNCHANGED <<active, secret, recvInit, recvHighest, recvWindow, opened>>
  BY Zenon DEF Seal
<1> HIDE DEF d0
<1>5. SecTypeOK'
  BY SMTT(30), <1>1, <1>3, <1>4, CounterAssumption DEF SecInv, SecTypeOK
<1>6. NonceUsedOnce'
  <2> SUFFICES ASSUME NEW r \in Sides, NEW d \in wire'[r], NEW e \in wire'[r],
                      d.key = e.key, d.counter = e.counter
               PROVE  d = e
    BY Zenon DEF NonceUsedOnce
  <2>1. CASE r # s
    BY Zenon, <2>1, <1>4 DEF SecInv, SecTypeOK, NonceUsedOnce
  <2>2. CASE r = s
    <3>1. d \in wire[s] \cup {d0} /\ e \in wire[s] \cup {d0}
      BY Zenon, <2>2, <1>4 DEF SecInv, SecTypeOK
    <3>2. \A x \in wire[s] : x.counter < d0.counter /\ x.counter \in Nat
      BY <1>4 DEF SecInv, SecTypeOK, CountersSpent, Sealed
    <3> QED
      BY <3>1, <3>2, <1>1, <1>4 DEF SecInv, NonceUsedOnce
  <2> QED
    BY Zenon, <2>1, <2>2
<1>7. ASSUME NEW r \in Sides
      PROVE  (Remembered(r) /\ OnlyOpened(r) /\ CountersSpent(r) /\ Unused(r))'
  <2>1. Remembered(r)' /\ OnlyOpened(r)'
    BY Zenon, <1>4 DEF SecInv, Remembered, OnlyOpened
  <2>2. CountersSpent(r)'
    BY SMTT(30), <1>1, <1>4 DEF SecInv, SecTypeOK, CountersSpent, Sealed
  <2>3. Unused(r)'
    BY Zenon, <1>1, <1>4 DEF SecInv, SecTypeOK, Unused
  <2> QED
    BY Zenon, <2>1, <2>2, <2>3
<1> QED
  BY Zenon, <1>5, <1>6, <1>7 DEF SecInv

\* A seal that fails after it took its counter spends the counter.
LEMMA SealFailsInv ==
  ASSUME SecInv, NEW s \in Sides, SealFails(s)
  PROVE  SecInv'
<1>1. SecTypeOK'
  BY CounterAssumption DEF SecInv, SecTypeOK, SealFails
<1>2. NonceUsedOnce'
  BY Zenon DEF SecInv, NonceUsedOnce, SealFails
<1>3. ASSUME NEW r \in Sides
      PROVE  (Remembered(r) /\ OnlyOpened(r) /\ CountersSpent(r) /\ Unused(r))'
  <2>1. CountersSpent(r)'
    BY DEF SecInv, SecTypeOK, CountersSpent, SealFails, Sealed, Counters
  <2> QED
    BY <2>1 DEF SecInv, SealFails, Remembered, OnlyOpened, Unused
<1> QED
  BY Zenon, <1>1, <1>2, <1>3 DEF SecInv

\* A datagram that open accepts has not been opened before.
LEMMA OpenIsFirst ==
  ASSUME SecInv, NEW s \in Sides, NEW header \in Headers, NEW d \in wire[Peer(s)],
         Open(s, header, d)
  PROVE  opened[s][d.counter] = 0 /\ d.counter \in Counters /\ d.head = d.counter
<1>1. d.counter \in Counters /\ d.head = d.counter
  BY DEF SecInv, SecTypeOK, Open, Decrypts, Sealed, Peer, Sides
<1>2. ~IsReplay(s, d.counter)
  BY Zenon, <1>1 DEF Open
<1>3. Remembered(s)
  BY Zenon DEF SecInv
<1> QED
  BY Zenon, <1>1, <1>2, <1>3 DEF IsReplay, Remembered

\* open accepts a datagram once and moves the window.
LEMMA OpenInv ==
  ASSUME SecInv, NEW s \in Sides, NEW header \in Headers, NEW d \in wire[Peer(s)],
         Open(s, header, d)
  PROVE  SecInv'
<1> DEFINE c0 == d.counter
           k == c0 % WindowSize
<1>1. c0 \in Counters /\ d.head = c0 /\ opened[s][c0] = 0
  BY Zenon, OpenIsFirst
<1>2. c0 \in Nat /\ c0 # 0 /\ k \in 0 .. WindowSize - 1
  BY <1>1, SlotInWindow DEF Counters
<1>3. /\ recvInit' = [recvInit EXCEPT ![s] = TRUE]
      /\ recvHighest' = [recvHighest EXCEPT ![s] = IF recvInit[s] /\ @ > c0 THEN @ ELSE c0]
      /\ recvWindow' = [recvWindow EXCEPT ![s][k] = c0]
      /\ opened' = [opened EXCEPT ![s][c0] = @ + 1]
      /\ UNCHANGED <<active, secret, sendCounter, wire>>
      /\ active[s]
  BY Zenon, <1>1 DEF Open
<1>4. ~IsReplay(s, c0)
  BY Zenon, <1>1 DEF Open
<1> HIDE DEF c0
<1> USE DEF Counters, Heads
<1>5. SecTypeOK'
  <2>1. opened' \in [Sides -> [Counters -> Nat]]
    BY <1>1, <1>3 DEF SecInv, SecTypeOK
  <2>2. recvWindow' \in [Sides -> [0 .. WindowSize - 1 -> Heads]]
    BY <1>1, <1>2, <1>3 DEF SecInv, SecTypeOK
  <2>3. recvHighest' \in [Sides -> Heads] /\ recvInit' \in [Sides -> BOOLEAN]
    BY <1>1, <1>3 DEF SecInv, SecTypeOK
  <2> QED
    BY Zenon, <2>1, <2>2, <2>3, <1>3 DEF SecInv, SecTypeOK
<1>6. NonceUsedOnce'
  BY Zenon, <1>3 DEF SecInv, NonceUsedOnce
<1>7. ASSUME NEW r \in Sides, r # s
      PROVE  (Remembered(r) /\ OnlyOpened(r) /\ CountersSpent(r) /\ Unused(r))'
  <2>1. /\ recvInit'[r] = recvInit[r] /\ recvHighest'[r] = recvHighest[r]
        /\ recvWindow'[r] = recvWindow[r] /\ opened'[r] = opened[r]
    BY Zenon, <1>3, <1>7 DEF SecInv, SecTypeOK
  <2> QED
    BY <2>1, <1>3 DEF SecInv, Remembered, OnlyOpened, CountersSpent, Unused
<1>8. /\ recvInit'[s] = TRUE
      /\ recvHighest'[s] = IF recvInit[s] /\ recvHighest[s] > c0 THEN recvHighest[s] ELSE c0
      /\ recvWindow'[s] = [recvWindow[s] EXCEPT ![k] = c0]
      /\ opened'[s] = [opened[s] EXCEPT ![c0] = 1]
      /\ opened[s] \in [Counters -> Nat]
      /\ recvWindow[s] \in [0 .. WindowSize - 1 -> Heads]
      /\ recvHighest[s] \in Heads
  BY <1>1, <1>3 DEF SecInv, SecTypeOK
<1>9. Remembered(s)'
  <2> SUFFICES ASSUME NEW c \in Counters, opened'[s][c] # 0
               PROVE  /\ opened'[s][c] = 1
                      /\ c <= recvHighest'[s]
                      /\ \/ recvHighest'[s] - c >= WindowSize
                         \/ recvWindow'[s][c % WindowSize] = c
    BY Zenon, <1>8 DEF Remembered
  <2>1. CASE c = c0
    <3>1. opened'[s][c] = 1
      BY Zenon, <2>1, <1>1, <1>8
    <3>2. recvWindow'[s][k] = c0
      BY Zenon, <1>2, <1>8
    <3>3. c <= recvHighest'[s]
      BY <2>1, <1>2, <1>8
    <3> QED
      BY Zenon, <2>1, <3>1, <3>2, <3>3
  <2>2. CASE c # c0
    <3>1. /\ opened[s][c] # 0 /\ opened[s][c] = 1 /\ recvInit[s] /\ c <= recvHighest[s]
          /\ \/ recvHighest[s] - c >= WindowSize
             \/ recvWindow[s][c % WindowSize] = c
      BY Zenon, <2>2, <1>8 DEF SecInv, Remembered
    <3>2. recvHighest'[s] >= recvHighest[s] /\ recvHighest'[s] >= c0 /\ recvHighest'[s] \in Nat
      BY <3>1, <1>1, <1>8
    <3>3. c % WindowSize \in 0 .. WindowSize - 1
      BY SlotInWindow
    <3>4. CASE recvHighest[s] - c >= WindowSize
      BY <3>1, <3>2, <3>4, <1>8, <2>2, WindowAssumption
    <3>5. CASE recvWindow[s][c % WindowSize] = c /\ c % WindowSize # k
      BY <3>1, <3>2, <3>3, <3>5, <1>2, <1>8, <2>2
    <3>6. CASE c % WindowSize = k /\ c < c0
      <4>1. c0 - c >= WindowSize
        BY <3>6, <1>2, SlotsApart
      <4> QED
        BY <4>1, <3>1, <3>2, <1>2, <1>8, <2>2, WindowAssumption
    <3>7. CASE c % WindowSize = k /\ c0 < c /\ recvHighest[s] - c < WindowSize
      <4>1. c - c0 >= WindowSize
        BY <3>7, <1>2, SlotsApart
      <4>2. recvHighest[s] - c0 >= WindowSize /\ c0 <= recvHighest[s]
        BY SMTT(30), <4>1, <3>1, <1>2, <1>8, WindowAssumption
      <4> QED
        BY Zenon, <4>2, <3>1, <1>4 DEF IsReplay
    <3> QED
      BY <3>1, <3>4, <3>5, <3>6, <3>7, <2>2, <1>2, <1>8, WindowAssumption
  <2> QED
    BY Zenon, <2>1, <2>2
<1>10. OnlyOpened(s)'
  <2> SUFFICES ASSUME NEW i \in 0 .. WindowSize - 1
               PROVE  \/ recvWindow'[s][i] = 0
                      \/ recvWindow'[s][i] \in Counters /\ opened'[s][recvWindow'[s][i]] # 0
    BY Zenon DEF OnlyOpened
  <2>1. CASE i = k
    <3>1. recvWindow'[s][k] = c0
      BY Zenon, <1>2, <1>8
    <3>2. opened'[s][c0] = 1
      BY Zenon, <1>1, <1>8
    <3> QED
      BY <2>1, <3>1, <3>2, <1>1
  <2>2. CASE i # k
    <3>1. recvWindow'[s][i] = recvWindow[s][i]
      BY Zenon, <2>2, <1>2, <1>8
    <3>2. \A c \in Counters : opened[s][c] # 0 => opened'[s][c] # 0
      BY Zenon, <1>1, <1>8
    <3>3. OnlyOpened(s)
      BY Zenon DEF SecInv
    <3> QED
      BY Zenon, <3>1, <3>2, <3>3 DEF OnlyOpened
  <2> QED
    BY Zenon, <2>1, <2>2
<1>11. CountersSpent(s)' /\ Unused(s)'
  BY Zenon, <1>3 DEF SecInv, CountersSpent, Unused
<1> QED
  BY Zenon, <1>5, <1>6, <1>7, <1>9, <1>10, <1>11 DEF SecInv

\* Every step of the secure channel keeps its invariant.
LEMMA SecNextInv == SecInv /\ [SecNext]_channelVars => SecInv'
<1> SUFFICES ASSUME SecInv, [SecNext]_channelVars PROVE SecInv'
  BY Zenon
<1>1. ASSUME NEW s \in Sides, NEW code \in Codes, Finish(s, code) PROVE SecInv'
  BY Zenon, <1>1, FinishInv
<1>2. ASSUME NEW s \in Senders, NEW header \in Headers, NEW head \in Heads, Seal(s, header, head)
      PROVE  SecInv'
  BY Zenon, <1>2, SealInv, SendersAssumption DEF Sides
<1>3. ASSUME NEW s \in Senders, SealFails(s) PROVE SecInv'
  BY Zenon, <1>3, SealFailsInv, SendersAssumption DEF Sides
<1>4. ASSUME NEW s \in Sides, NEW header \in Headers, NEW d \in wire[Peer(s)], Open(s, header, d)
      PROVE  SecInv'
  BY Zenon, <1>4, OpenInv
<1>5. CASE UNCHANGED channelVars
  BY <1>5 DEF channelVars, SecInv, SecTypeOK, NonceUsedOnce, Remembered, OnlyOpened,
              CountersSpent, Unused
<1> QED
  BY Zenon, <1>1, <1>2, <1>3, <1>4, <1>5 DEF SecNext, OpenRefused

\* The invariant of the channel, for every window size and message count.
THEOREM SecInvariant == SecSpec => []SecInv
BY SecInitInv, SecNextInv, PTL DEF SecSpec

\* No nonce is used twice under one key, however seal fails in between.
THEOREM NoncesUnique == SecSpec => []NonceUsedOnce
<1>1. SecInv => NonceUsedOnce
  BY Zenon DEF SecInv
<1> QED
  BY <1>1, SecInvariant, PTL

\* The replay window refuses exactly what was opened and what is too old, for
\* every window size and every loss, repetition and order of the datagrams.
THEOREM ReplayWindowExact == SecSpec => []WindowIsExact
<1>1. SecInv => WindowIsExact
  <2> SUFFICES ASSUME SecInv, NEW s \in Sides, NEW c \in Counters
               PROVE  IsReplay(s, c) <=> /\ recvInit[s]
                                         /\ c <= recvHighest[s]
                                         /\ opened[s][c] > 0 \/ recvHighest[s] - c >= WindowSize
    BY Zenon DEF WindowIsExact
  <2>1. c % WindowSize \in 0 .. WindowSize - 1 /\ c # 0
    BY SlotInWindow DEF Counters
  <2>2. opened[s][c] \in Nat
    BY Zenon DEF SecInv, SecTypeOK
  <2>3. opened[s][c] > 0 <=> opened[s][c] # 0
    BY <2>2
  <2>4. recvWindow[s][c % WindowSize] = c => opened[s][c] # 0
    BY Zenon, <2>1 DEF SecInv, OnlyOpened
  <2>5. opened[s][c] # 0 =>
          recvHighest[s] - c >= WindowSize \/ recvWindow[s][c % WindowSize] = c
    BY Zenon DEF SecInv, Remembered
  <2> QED
    BY Zenon, <2>3, <2>4, <2>5 DEF IsReplay
<1> QED
  BY <1>1, SecInvariant, PTL

\* Each direction of the channel implements the datagram service: initial
\* states map to initial states, Seal to Send, Open to Deliver and every
\* other step to a stutter.
THEOREM AtMostOnceHolds == SecSpec => DeliversAtMostOnce
<1>1. SecInit => ToClient!ServiceInit /\ ToHost!ServiceInit
  BY Zenon DEF SecInit, ToClient!ServiceInit, ToHost!ServiceInit, Sides
<1>2. ASSUME SecInv, SecInv', [SecNext]_channelVars
      PROVE  [ToClient!ServiceNext]_(ToClient!serviceVars) /\ [ToHost!ServiceNext]_(ToHost!serviceVars)
  <2> USE DEF ToClient!serviceVars, ToHost!serviceVars
  <2>1. ASSUME UNCHANGED <<wire, opened>>
        PROVE  UNCHANGED ToClient!serviceVars /\ UNCHANGED ToHost!serviceVars
    BY Zenon, <2>1
  <2>2. ASSUME NEW s \in Senders, NEW header \in Headers, NEW head \in Heads, Seal(s, header, head)
        PROVE  [ToClient!ServiceNext]_(ToClient!serviceVars) /\ [ToHost!ServiceNext]_(ToHost!serviceVars)
    <3>1. s \in Sides /\ sendCounter[s] \in Counters /\ UNCHANGED opened
      BY <2>2, <1>2, SendersAssumption, CounterAssumption DEF Sides, SecInv, SecTypeOK, Seal, Counters
    <3> PICK c0 \in Counters : c0 = sendCounter[s]
      BY Zenon, <3>1
    <3>2. \A r \in Sides \ {s} : wire'[r] = wire[r]
      BY Zenon, <2>2, <1>2 DEF Seal, SecInv, SecTypeOK
    <3>3. {d.counter : d \in wire'[s]} = {d.counter : d \in wire[s]} \cup {c0}
      <4>1. PICK d0 : d0.counter = c0 /\ wire'[s] = wire[s] \cup {d0}
        BY Zenon, <2>2, <1>2, <3>1 DEF Seal, SecInv, SecTypeOK
      <4> QED
        BY Zenon, <4>1
    <3>4. c0 \notin {d.counter : d \in wire[s]}
      <4>1. \A d \in wire[s] : d.counter < c0 /\ d.counter \in Int /\ c0 \in Int
        BY <1>2, <3>1 DEF SecInv, SecTypeOK, CountersSpent, Sealed, Counters
      <4> QED
        BY <4>1
    <3>5. CASE s = "host"
      <4>1. ToClient!Send(c0)
        BY Zenon, <3>1, <3>3, <3>4, <3>5 DEF ToClient!Send
      <4>2. UNCHANGED ToHost!serviceVars
        BY Zenon, <3>1, <3>2, <3>5 DEF Sides
      <4>3. ToClient!ServiceNext
        BY Zenon, <4>1, <3>1 DEF ToClient!ServiceNext
      <4> QED
        BY Zenon, <4>2, <4>3
    <3>6. CASE s = "client"
      <4>1. ToHost!Send(c0)
        BY Zenon, <3>1, <3>3, <3>4, <3>6 DEF ToHost!Send
      <4>2. UNCHANGED ToClient!serviceVars
        BY Zenon, <3>1, <3>2, <3>6 DEF Sides
      <4>3. ToHost!ServiceNext
        BY Zenon, <4>1, <3>1 DEF ToHost!ServiceNext
      <4> QED
        BY Zenon, <4>2, <4>3
    <3> QED
      BY Zenon, <3>1, <3>5, <3>6 DEF Sides
  <2>3. ASSUME NEW s \in Sides, NEW header \in Headers, NEW d \in wire[Peer(s)], Open(s, header, d)
        PROVE  [ToClient!ServiceNext]_(ToClient!serviceVars) /\ [ToHost!ServiceNext]_(ToHost!serviceVars)
    <3> DEFINE c0 == d.counter
    <3>1. opened[s][c0] = 0 /\ c0 \in Counters
      BY Zenon, <1>2, <2>3, OpenIsFirst
    <3>2. UNCHANGED wire /\ c0 \in {x.counter : x \in wire[Peer(s)]}
      BY Zenon, <2>3 DEF Open
    <3>3. \A r \in Sides \ {s} : opened'[r] = opened[r]
      BY Zenon, <2>3, <1>2 DEF Open, SecInv, SecTypeOK
    <3>4. opened'[s] = [opened[s] EXCEPT ![c0] = 1]
      BY <2>3, <1>2, <3>1 DEF Open, SecInv, SecTypeOK
    <3>5. CASE s = "client"
      <4>1. ToClient!Deliver(c0)
        BY Zenon, <3>1, <3>2, <3>4, <3>5 DEF ToClient!Deliver, Peer
      <4>2. UNCHANGED ToHost!serviceVars
        BY Zenon, <3>2, <3>3, <3>5 DEF Sides
      <4>3. ToClient!ServiceNext
        BY Zenon, <4>1, <3>1 DEF ToClient!ServiceNext
      <4> QED
        BY Zenon, <4>2, <4>3
    <3>6. CASE s = "host"
      <4>1. ToHost!Deliver(c0)
        BY Zenon, <3>1, <3>2, <3>4, <3>6 DEF ToHost!Deliver, Peer
      <4>2. UNCHANGED ToClient!serviceVars
        BY Zenon, <3>2, <3>3, <3>6 DEF Sides
      <4>3. ToHost!ServiceNext
        BY Zenon, <4>1, <3>1 DEF ToHost!ServiceNext
      <4> QED
        BY Zenon, <4>2, <4>3
    <3> QED
      BY Zenon, <3>5, <3>6 DEF Sides
  <2>4. ASSUME NEW s \in Sides, NEW code \in Codes, Finish(s, code)
        PROVE  UNCHANGED <<wire, opened>>
    BY Zenon, <2>4 DEF Finish
  <2>5. ASSUME NEW s \in Senders, SealFails(s)
        PROVE  UNCHANGED <<wire, opened>>
    BY Zenon, <2>5 DEF SealFails
  <2>6. ASSUME UNCHANGED channelVars
        PROVE  UNCHANGED <<wire, opened>>
    BY Zenon, <2>6 DEF channelVars
  <2> QED
    BY Zenon, <1>2, <2>1, <2>2, <2>3, <2>4, <2>5, <2>6 DEF SecNext, OpenRefused
<1> QED
  BY <1>1, <1>2, SecInvariant, PTL
     DEF SecSpec, DeliversAtMostOnce, ToClient!ServiceSpec, ToHost!ServiceSpec

-------------------------------------------------------------------------------
(***************************************************************************)
(* FragmentReassembler.  It hands up whole frames only, holds no more than *)
(* its limit and, where it is collected, never reaches its eviction.       *)
(***************************************************************************)

\* A buffer's counter is the number of distinct fragments it holds.
Counted(b) ==
  /\ b \in Buffers
  /\ b.received = Cardinality(b.have)

\* Every buffer is counted, there are no more than the limit and, with gc,
\* all are within the age limit of the newest frame.
BuffersOK ==
  /\ \A q \in DOMAIN frames : q \in FrameNumbers /\ Counted(frames[q])
  /\ \A q \in DOMAIN frames : q <= highestStarted /\ (collecting => highestStarted <= q + GcAge)
  /\ started \/ DOMAIN frames = {}
  /\ Cardinality(DOMAIN frames) <= MaxInFlight
  /\ collecting => ~wild

ReassemblyInv ==
  /\ ReassemblyTypeOK
  /\ BuffersOK
  /\ HandsUpWholeFrames

USE AgeAssumption, StartedAssumption, FragmentsAssumption

\* Sets of sequence numbers within the age limit of the newest are small.
LEMMA AgedIsSmall ==
  ASSUME NEW S, NEW top \in FrameNumbers, NEW seq,
         \A q \in S : q \in FrameNumbers /\ q <= top /\ top <= q + GcAge
  PROVE  /\ IsFiniteSet(S \cup {seq})
         /\ Cardinality(S \cup {seq}) <= MaxInFlight
<1> DEFINE I == (top - GcAge) .. top
<1>1. IsFiniteSet(I) /\ Cardinality(I) = GcAge + 1
  <2>1. top - GcAge \in Int /\ top \in Int /\ ~(top - GcAge > top) /\ top - (top - GcAge) + 1 = GcAge + 1
    BY DEF FrameNumbers
  <2> QED BY Zenon, <2>1, FS_Interval
<1>2. S \in SUBSET I
  BY DEF FrameNumbers
<1> HIDE DEF I
<1>3. IsFiniteSet(S) /\ Cardinality(S) <= GcAge + 1
  BY Zenon, <1>1, <1>2, FS_Subset
<1>4. Cardinality(S) \in Nat
  BY Zenon, <1>3, FS_CardinalityType
<1>5. IsFiniteSet(S \cup {seq}) /\ Cardinality(S \cup {seq}) = IF seq \in S THEN Cardinality(S) ELSE Cardinality(S) + 1
  BY Zenon, <1>3, FS_AddElement
<1> QED BY <1>3, <1>4, <1>5

\* A buffer that counts as many fragments as the frame has holds them all.
LEMMA CountedIsWhole ==
  ASSUME NEW b, Counted(b), b.received = b.count
  PROVE  b.have = 0 .. b.count - 1
<1> DEFINE n == b.count
<1>1. n \in Nat \ {0} /\ b.have \subseteq 0 .. n - 1 /\ Cardinality(b.have) = n
  BY Zenon DEF Counted, Buffers
<1>2. IsFiniteSet(0 .. n - 1) /\ Cardinality(0 .. n - 1) = n
  <2>1. 0 \in Int /\ n - 1 \in Int /\ ~(0 > n - 1) /\ n - 1 - 0 + 1 = n
    BY <1>1
  <2> QED BY Zenon, <2>1, FS_Interval
<1>3. b.have \in SUBSET (0 .. n - 1)
  BY Zenon, <1>1
<1> QED BY Zenon, <1>1, <1>2, <1>3, FS_Subset

\* The fields of a fragment's header.
LEMMA FragmentFields ==
  ASSUME NEW h \in Fragments
  PROVE  /\ h.sequence \in FrameNumbers
         /\ h.count \in FragmentCounts /\ h.count \in Nat
         /\ h.index \in Nat /\ h.index < h.count
<1>1. /\ h.sequence \in FrameNumbers /\ h.count \in FragmentCounts /\ h.index < h.count
      /\ h.index \in UNION {0 .. n - 1 : n \in FragmentCounts}
  BY Zenon DEF Fragments
<1>2. PICK n \in FragmentCounts : h.index \in 0 .. n - 1
  BY Zenon, <1>1
<1>3. h.index \in Nat
  BY <1>2
<1>4. h.count \in Nat
  BY Zenon, <1>1
<1> QED BY Zenon, <1>1, <1>3, <1>4

\* A stored fragment keeps its buffer's counter right.
LEMMA StoreKeepsCount ==
  ASSUME NEW b, Counted(b), NEW h \in Fragments, Accepts(h, b)
  PROVE  Counted(Plus(b, h))
<1> DEFINE c == Plus(b, h)
<1>1. /\ b \in [count : FragmentCounts, have : SUBSET Nat, received : Nat]
      /\ b.have \subseteq 0 .. b.count - 1
      /\ b.received = Cardinality(b.have)
      /\ b.count = h.count /\ h.index \notin b.have
      /\ h.count \in Nat /\ h.index \in Nat /\ h.index < h.count
  BY Zenon, FragmentFields DEF Counted, Buffers, Accepts
<1>2. c \in [count : FragmentCounts, have : SUBSET Nat, received : Nat]
      /\ c.have = b.have \cup {h.index} /\ c.received = b.received + 1 /\ c.count = b.count
  BY <1>1 DEF Plus
<1> HIDE DEF c
<1>3. c.have \subseteq 0 .. c.count - 1
  BY <1>1, <1>2
<1>4. IsFiniteSet(b.have)
  <2>1. IsFiniteSet(0 .. b.count - 1)
    BY SMTT(30), <1>1, FS_Interval
  <2> QED BY Zenon, <1>1, <2>1, FS_Subset
<1>5. Cardinality(b.have \cup {h.index}) = Cardinality(b.have) + 1
  BY Zenon, <1>1, <1>4, FS_AddElement
<1>6. Counted(c)
  BY Zenon, <1>1, <1>2, <1>3, <1>5 DEF Counted, Buffers
<1> QED BY Zenon, <1>6 DEF c

\* A set of sequence numbers is finite, and its least number is one of it.
LEMMA LeastNumber ==
  ASSUME NEW S, S \subseteq FrameNumbers
  PROVE  IsFiniteSet(S) /\ Cardinality(S) \in Nat /\ (S # {} => Min(S) \in S)
<1>1. IsFiniteSet(FrameNumbers)
  BY FS_Interval DEF FrameNumbers
<1>2. IsFiniteSet(S) /\ Cardinality(S) \in Nat
  BY Zenon, <1>1, FS_Subset, FS_CardinalityType
<1>3. ASSUME S # {} PROVE Min(S) \in S
  <2>1. S \subseteq Nat
    BY DEF FrameNumbers
  <2>2. PICK m \in S : \A k \in S : ~(<<k, m>> \in OpToRel(<, Nat))
    BY Zenon, <1>3, <2>1, WFMin, NatLessThanWellFounded
  <2>3. m \in Nat /\ \A k \in S : k \in Nat /\ ~(k < m)
    BY Zenon, <2>1, <2>2 DEF OpToRel
  <2>4. \A k \in S : m <= k
    BY <2>3
  <2> QED BY Zenon, <2>4 DEF Min
<1> QED BY Zenon, <1>2, <1>3

\* feed opens a buffer within the limit; where gc runs it evicts none.
LEMMA OpenedKeepsAll ==
  ASSUME ReassemblyInv, NEW h \in Fragments
  PROVE  /\ DOMAIN Opened(h) \subseteq FrameNumbers
         /\ Cardinality(DOMAIN Opened(h)) <= MaxInFlight
         /\ collecting => h.sequence \in DOMAIN Opened(h)
         /\ Opened(h) = [q \in DOMAIN Opened(h) |-> Opened(h)[q]]
         /\ \A q \in DOMAIN Opened(h) : q \in FrameNumbers /\ q <= Newest(h) /\ Counted(Opened(h)[q])
         /\ Newest(h) \in FrameNumbers
<1> DEFINE fresh == [count |-> h.count, have |-> {}, received |-> 0]
           all == [q \in DOMAIN frames \cup {h.sequence} |->
                     IF q \in DOMAIN frames THEN frames[q] ELSE fresh]
           full == h.sequence \notin DOMAIN frames /\ Cardinality(DOMAIN all) > MaxInFlight
<1>1. h.sequence \in FrameNumbers /\ h.count \in FragmentCounts /\ h.count \in Nat
  BY Zenon, FragmentFields
<1>2. highestStarted \in FrameNumbers
  BY Zenon DEF ReassemblyInv, ReassemblyTypeOK
<1>3. DOMAIN frames \subseteq FrameNumbers /\ DOMAIN all = DOMAIN frames \cup {h.sequence}
      /\ DOMAIN all \subseteq FrameNumbers /\ DOMAIN all # {}
  BY Zenon, <1>1 DEF ReassemblyInv, BuffersOK
<1>4. Counted(fresh)
  BY Zenon, <1>1, FS_EmptySet DEF Counted, Buffers
<1>5. \A q \in DOMAIN all : q \in FrameNumbers /\ Counted(all[q])
  BY Zenon, <1>1, <1>4 DEF ReassemblyInv, BuffersOK
<1>6. Newest(h) \in FrameNumbers /\ h.sequence <= Newest(h)
  BY <1>1, <1>2 DEF Newest, FrameNumbers
<1>7. \A q \in DOMAIN frames : q <= Newest(h)
  BY <1>1, <1>2 DEF Newest, FrameNumbers, ReassemblyInv, BuffersOK
<1>8. Opened(h) = IF full THEN Without(all, {Min(DOMAIN all)}) ELSE all
  BY Zenon DEF Opened
<1>9. IsFiniteSet(DOMAIN frames) /\ Cardinality(DOMAIN frames) \in Nat
      /\ IsFiniteSet(DOMAIN all) /\ Cardinality(DOMAIN all) \in Nat /\ Min(DOMAIN all) \in DOMAIN all
  BY Zenon, <1>3, LeastNumber
<1>10. /\ Cardinality(DOMAIN frames) <= MaxInFlight
       /\ Cardinality(DOMAIN all) =
            IF h.sequence \in DOMAIN frames THEN Cardinality(DOMAIN frames) ELSE Cardinality(DOMAIN frames) + 1
  BY Zenon, <1>3, <1>9, FS_AddElement DEF ReassemblyInv, BuffersOK
<1>11. collecting => ~full
  <2> SUFFICES ASSUME collecting PROVE Cardinality(DOMAIN all) <= MaxInFlight
    BY <1>9
  <2> QED BY Zenon, <1>2, <1>3, AgedIsSmall DEF ReassemblyInv, BuffersOK
<1> HIDE DEF all
<1>12. CASE full
  <2>1. Opened(h) = [q \in DOMAIN all \ {Min(DOMAIN all)} |-> all[q]]
    BY Zenon, <1>8, <1>12 DEF Without
  <2>2. DOMAIN Opened(h) = DOMAIN all \ {Min(DOMAIN all)} /\ \A q \in DOMAIN Opened(h) : Opened(h)[q] = all[q]
    BY Zenon, <2>1
  <2>3. Cardinality(DOMAIN Opened(h)) = Cardinality(DOMAIN all) - 1
    <3>1. Cardinality(DOMAIN all \ {Min(DOMAIN all)}) =
            IF Min(DOMAIN all) \in DOMAIN all THEN Cardinality(DOMAIN all) - 1 ELSE Cardinality(DOMAIN all)
      BY Zenon, <1>9, FS_RemoveElement
    <3> QED BY Zenon, <3>1, <2>2, <1>9
  <2>4. Cardinality(DOMAIN Opened(h)) <= MaxInFlight
    BY <2>3, <1>9, <1>10
  <2> QED BY Zenon, <2>1, <2>2, <2>4, <1>3, <1>5, <1>6, <1>7, <1>11, <1>12
<1>13. CASE ~full
  <2>1. Opened(h) = all /\ all = [q \in DOMAIN all |-> all[q]]
    BY Zenon, <1>8, <1>13 DEF all
  <2>2. Cardinality(DOMAIN all) <= MaxInFlight
    BY <1>9, <1>10, <1>13
  <2> QED BY Zenon, <2>1, <2>2, <1>3, <1>5, <1>6, <1>7
<1> QED BY Zenon, <1>12, <1>13

\* What a call of the transport leaves of the buffers is in order.
LEMMA FeedKeepsBuffers ==
  ASSUME NEW buffers, NEW top \in FrameNumbers,
         \A q \in DOMAIN buffers : q \in FrameNumbers /\ Counted(buffers[q]) /\ q <= top,
         Cardinality(DOMAIN buffers) <= MaxInFlight, collecting \in BOOLEAN,
         frames' = AfterFeed(buffers, top), highestStarted' = top, started' \/ DOMAIN buffers = {},
         collecting' = collecting, collecting => ~wild'
  PROVE  BuffersOK' /\ DOMAIN frames' \subseteq FrameNumbers /\ \A q \in DOMAIN frames' : frames'[q] \in Buffers
<1> DEFINE kept == DOMAIN buffers \ {q \in DOMAIN buffers : collecting /\ top > q + GcAge}
<1>1. DOMAIN frames' = kept /\ \A q \in kept : frames'[q] = buffers[q]
  BY Zenon DEF AfterFeed, AfterGc, Without
<1>2. \A q \in kept : q \in FrameNumbers /\ q <= top /\ (collecting => top <= q + GcAge) /\ Counted(buffers[q])
  BY DEF FrameNumbers
<1>3. \A q \in DOMAIN frames' : /\ q \in FrameNumbers /\ Counted(frames'[q]) /\ q <= highestStarted'
                                /\ collecting' => highestStarted' <= q + GcAge
  BY Zenon, <1>1, <1>2
<1>4. started' \/ DOMAIN frames' = {}
  BY Zenon, <1>1
<1>5. \A q \in DOMAIN frames' : frames'[q] \in Buffers
  BY Zenon, <1>3 DEF Counted
<1>6. Cardinality(DOMAIN frames') <= MaxInFlight
  <2>1. DOMAIN buffers \subseteq FrameNumbers /\ DOMAIN frames' \in SUBSET DOMAIN buffers
    BY Zenon, <1>1
  <2>2. Cardinality(DOMAIN frames') <= Cardinality(DOMAIN buffers) /\ Cardinality(DOMAIN buffers) \in Nat
        /\ Cardinality(DOMAIN frames') \in Nat
    BY Zenon, <2>1, LeastNumber, FS_Subset, FS_CardinalityType
  <2> QED BY <2>2
<1> QED BY Zenon, <1>3, <1>4, <1>5, <1>6 DEF BuffersOK, Counted

\* The reassembler starts empty.
LEMMA ReassemblyInitInv == ReassemblyInit => ReassemblyInv
<1> SUFFICES ASSUME ReassemblyInit PROVE ReassemblyInv
  BY Zenon
<1>1. DOMAIN frames = {}
  BY Zenon DEF ReassemblyInit
<1>2. ReassemblyTypeOK
  <2>1. out.sequence \in FrameNumbers /\ out.count \in FragmentCounts \cup {0}
    BY DEF ReassemblyInit, NoFrame, FrameNumbers
  <2>2. completed \in [FrameNumbers -> Nat] /\ highestStarted \in FrameNumbers
    BY DEF ReassemblyInit, FrameNumbers
  <2>3. started \in BOOLEAN /\ collecting \in BOOLEAN /\ wild \in BOOLEAN
    BY Zenon DEF ReassemblyInit
  <2> QED BY Zenon, <1>1, <2>1, <2>2, <2>3 DEF ReassemblyTypeOK
<1>3. HandsUpWholeFrames
  BY DEF ReassemblyInit, HandsUpWholeFrames, NoFrame
<1>4. Cardinality(DOMAIN frames) <= MaxInFlight
  BY <1>1, FS_EmptySet
<1>5. ~wild
  BY Zenon DEF ReassemblyInit
<1> QED BY Zenon, <1>1, <1>2, <1>3, <1>4, <1>5 DEF ReassemblyInv, BuffersOK

\* What handing a frame up leaves true.
LEMMA HandUpInv ==
  ASSUME ReassemblyTypeOK, NEW h \in Fragments, NEW have, HandUp(h, have), have = 0 .. h.count - 1
  PROVE  /\ HandsUpWholeFrames'
         /\ out'.sequence \in FrameNumbers /\ out'.count \in FragmentCounts \cup {0}
         /\ completed' \in [FrameNumbers -> Nat]
<1>1. h.sequence \in FrameNumbers /\ h.count \in FragmentCounts
  BY Zenon DEF Fragments
<1>2. out' = [sequence |-> h.sequence, count |-> h.count, have |-> have]
  BY Zenon DEF HandUp
<1>3. completed' \in [FrameNumbers -> Nat]
  BY <1>1 DEF HandUp, ReassemblyTypeOK
<1> QED BY Zenon, <1>1, <1>2, <1>3 DEF HandsUpWholeFrames

\* Every fragment fed and every collection keeps the reassembler's invariant.
LEMMA ReassemblyNextInv == ReassemblyInv /\ [ReassemblyNext]_reassemblyVars => ReassemblyInv'
<1> SUFFICES ASSUME ReassemblyInv, [ReassemblyNext]_reassemblyVars PROVE ReassemblyInv'
  BY Zenon
<1>1. CASE UNCHANGED reassemblyVars
  BY Zenon, <1>1 DEF reassemblyVars, streamKind, ReassemblyInv, ReassemblyTypeOK, BuffersOK,
                     HandsUpWholeFrames, Counted
<1>0. collecting \in BOOLEAN /\ wild \in BOOLEAN /\ (collecting => ~wild)
  BY Zenon DEF ReassemblyInv, ReassemblyTypeOK, BuffersOK
<1>2. ASSUME NEW h \in Fragments, FeedUnfragmented(h) PROVE ReassemblyInv'
  <2>1. highestStarted \in FrameNumbers /\ highestStarted' = highestStarted /\ started' = started
        /\ collecting' = collecting /\ wild' = wild
    BY Zenon, <1>2 DEF FeedUnfragmented, streamKind, ReassemblyInv, ReassemblyTypeOK
  <2>2. BuffersOK' /\ DOMAIN frames' \subseteq FrameNumbers /\ \A q \in DOMAIN frames' : frames'[q] \in Buffers
    <3>1. frames' = AfterFeed(frames, highestStarted)
      BY Zenon, <1>2 DEF FeedUnfragmented
    <3>2. /\ \A q \in DOMAIN frames : q \in FrameNumbers /\ Counted(frames[q]) /\ q <= highestStarted
          /\ Cardinality(DOMAIN frames) <= MaxInFlight /\ (started \/ DOMAIN frames = {})
      BY Zenon DEF ReassemblyInv, BuffersOK
    <3> QED BY Zenon, <1>0, <2>1, <3>1, <3>2, FeedKeepsBuffers
  <2>3. {0} = 0 .. h.count - 1
    BY <1>2 DEF FeedUnfragmented
  <2>4. HandsUpWholeFrames' /\ out'.sequence \in FrameNumbers /\ out'.count \in FragmentCounts \cup {0}
        /\ completed' \in [FrameNumbers -> Nat]
    BY Zenon, <1>2, <2>3, HandUpInv DEF FeedUnfragmented, ReassemblyInv
  <2>5. ReassemblyTypeOK'
    BY Zenon, <2>1, <2>2, <2>4 DEF ReassemblyInv, ReassemblyTypeOK
  <2> QED BY Zenon, <2>2, <2>4, <2>5 DEF ReassemblyInv
<1>3. ASSUME NEW h \in Fragments, NEW buffers, Start(h), frames' = AfterFeed(buffers, Newest(h)),
             DOMAIN buffers \in SUBSET DOMAIN Opened(h),
             \A q \in DOMAIN buffers : Counted(buffers[q]),
             collecting' = collecting, (wild' = wild \/ (~collecting /\ wild' = TRUE))
      PROVE  /\ BuffersOK' /\ DOMAIN frames' \subseteq FrameNumbers
             /\ \A q \in DOMAIN frames' : frames'[q] \in Buffers
             /\ highestStarted' \in FrameNumbers /\ started' \in BOOLEAN
             /\ collecting' \in BOOLEAN /\ wild' \in BOOLEAN
  <2>1. highestStarted' = Newest(h) /\ started' = TRUE
    BY Zenon, <1>3 DEF Start
  <2>2. /\ Newest(h) \in FrameNumbers /\ \A q \in DOMAIN buffers : q \in FrameNumbers /\ q <= Newest(h)
        /\ DOMAIN Opened(h) \subseteq FrameNumbers /\ Cardinality(DOMAIN Opened(h)) <= MaxInFlight
    BY Zenon, <1>3, OpenedKeepsAll
  <2>3. Cardinality(DOMAIN buffers) <= MaxInFlight
    <3>1. Cardinality(DOMAIN buffers) <= Cardinality(DOMAIN Opened(h))
          /\ Cardinality(DOMAIN buffers) \in Nat /\ Cardinality(DOMAIN Opened(h)) \in Nat
      BY Zenon, <1>3, <2>2, LeastNumber, FS_Subset, FS_CardinalityType
    <3> QED BY <3>1, <2>2
  <2>4. (collecting => ~wild') /\ wild' \in BOOLEAN /\ collecting' \in BOOLEAN
    <3>1. CASE wild' = wild
      BY Zenon, <1>0, <1>3, <3>1
    <3>2. CASE ~collecting /\ wild' = TRUE
      BY Zenon, <1>0, <1>3, <3>2
    <3> QED BY Zenon, <1>3, <3>1, <3>2
  <2>5. BuffersOK' /\ DOMAIN frames' \subseteq FrameNumbers /\ \A q \in DOMAIN frames' : frames'[q] \in Buffers
    BY Zenon, <1>0, <1>3, <2>1, <2>2, <2>3, <2>4, FeedKeepsBuffers
  <2> QED BY Zenon, <2>1, <2>2, <2>4, <2>5
<1>4. ASSUME NEW h \in Fragments, FeedRefused(h) \/ FeedEvicted(h) PROVE ReassemblyInv'
  <2>1. \A q \in DOMAIN Opened(h) : Counted(Opened(h)[q])
    BY Zenon, OpenedKeepsAll
  <2>2. collecting' = collecting /\ (wild' = wild \/ (~collecting /\ wild' = TRUE))
        /\ Start(h) /\ frames' = AfterFeed(Opened(h), Newest(h)) /\ out' = out /\ completed' = completed
    <3>1. CASE FeedRefused(h)
      BY Zenon, <3>1 DEF FeedRefused, streamKind
    <3>2. CASE FeedEvicted(h)
      BY Zenon, <3>2, OpenedKeepsAll DEF FeedEvicted
    <3> QED BY Zenon, <1>4, <3>1, <3>2
  <2>3. /\ BuffersOK' /\ DOMAIN frames' \subseteq FrameNumbers
        /\ \A q \in DOMAIN frames' : frames'[q] \in Buffers
        /\ highestStarted' \in FrameNumbers /\ started' \in BOOLEAN
        /\ collecting' \in BOOLEAN /\ wild' \in BOOLEAN
    BY Zenon, <1>3, <2>1, <2>2
  <2> QED BY Zenon, <2>2, <2>3 DEF ReassemblyInv, ReassemblyTypeOK, HandsUpWholeFrames
<1>5. ASSUME NEW h \in Fragments, h.sequence \in DOMAIN Opened(h), Accepts(h, Opened(h)[h.sequence])
      PROVE  /\ DOMAIN Stored(h) = DOMAIN Opened(h)
             /\ \A q \in DOMAIN Stored(h) : Counted(Stored(h)[q])
             /\ Stored(h)[h.sequence].count = h.count
  <2> DEFINE b == Opened(h)[h.sequence]
             c == Plus(b, h)
  <2>1. \A q \in DOMAIN Opened(h) : Counted(Opened(h)[q])
    BY Zenon, OpenedKeepsAll
  <2>2. Counted(c)
    BY Zenon, <1>5, <2>1, StoreKeepsCount
  <2>3. c.count = h.count
    <3>1. b.count = h.count /\ b \in [count : FragmentCounts, have : SUBSET Nat, received : Nat]
      BY Zenon, <1>5, <2>1 DEF Accepts, Counted, Buffers
    <3> QED BY Zenon, <3>1 DEF Plus
  <2> HIDE DEF c
  <2>4. Stored(h) = [Opened(h) EXCEPT ![h.sequence] = c]
    BY Zenon, <1>5 DEF Stored, c
  <2>5. Opened(h) = [q \in DOMAIN Opened(h) |-> Opened(h)[q]]
    BY Zenon, OpenedKeepsAll
  <2>6. DOMAIN Stored(h) = DOMAIN Opened(h) /\ \A q \in DOMAIN Opened(h) :
          Stored(h)[q] = IF q = h.sequence THEN c ELSE Opened(h)[q]
    BY Zenon, <1>5, <2>4, <2>5
  <2> QED BY Zenon, <1>5, <2>1, <2>2, <2>3, <2>6
<1>6. ASSUME NEW h \in Fragments, FeedStored(h) PROVE ReassemblyInv'
  <2>1. DOMAIN Stored(h) \in SUBSET DOMAIN Opened(h) /\ \A q \in DOMAIN Stored(h) : Counted(Stored(h)[q])
    BY Zenon, <1>5, <1>6 DEF FeedStored
  <2>2. /\ Start(h) /\ frames' = AfterFeed(Stored(h), Newest(h)) /\ out' = out /\ completed' = completed
        /\ collecting' = collecting /\ wild' = wild
    BY Zenon, <1>6 DEF FeedStored, streamKind
  <2>3. /\ BuffersOK' /\ DOMAIN frames' \subseteq FrameNumbers
        /\ \A q \in DOMAIN frames' : frames'[q] \in Buffers
        /\ highestStarted' \in FrameNumbers /\ started' \in BOOLEAN
        /\ collecting' \in BOOLEAN /\ wild' \in BOOLEAN
    BY Zenon, <1>3, <2>1, <2>2
  <2> QED BY Zenon, <2>2, <2>3 DEF ReassemblyInv, ReassemblyTypeOK, HandsUpWholeFrames
<1>7. ASSUME NEW h \in Fragments, FeedCompletes(h) PROVE ReassemblyInv'
  <2> DEFINE rest == Without(Stored(h), {h.sequence})
  <2>1. /\ DOMAIN Stored(h) = DOMAIN Opened(h) /\ \A q \in DOMAIN Stored(h) : Counted(Stored(h)[q])
        /\ Stored(h)[h.sequence].count = h.count
    BY Zenon, <1>5, <1>7 DEF FeedCompletes
  <2>2. DOMAIN rest \in SUBSET DOMAIN Opened(h) /\ \A q \in DOMAIN rest : Counted(rest[q])
    BY Zenon, <2>1 DEF Without
  <2>3. frames' = AfterFeed(rest, Newest(h)) /\ Start(h) /\ HandUp(h, Stored(h)[h.sequence].have)
        /\ Stored(h)[h.sequence].received = h.count /\ h.sequence \in DOMAIN Opened(h)
        /\ collecting' = collecting /\ wild' = wild
    BY Zenon, <1>7 DEF FeedCompletes, streamKind
  <2> HIDE DEF rest
  <2>4. /\ BuffersOK' /\ DOMAIN frames' \subseteq FrameNumbers
        /\ \A q \in DOMAIN frames' : frames'[q] \in Buffers
        /\ highestStarted' \in FrameNumbers /\ started' \in BOOLEAN
        /\ collecting' \in BOOLEAN /\ wild' \in BOOLEAN
    BY Zenon, <1>3, <2>2, <2>3
  <2>5. Stored(h)[h.sequence].have = 0 .. h.count - 1
    BY Zenon, <2>1, <2>3, CountedIsWhole
  <2>6. HandsUpWholeFrames' /\ out'.sequence \in FrameNumbers /\ out'.count \in FragmentCounts \cup {0}
        /\ completed' \in [FrameNumbers -> Nat]
    BY Zenon, <2>3, <2>5, HandUpInv DEF ReassemblyInv
  <2> QED BY Zenon, <2>4, <2>6 DEF ReassemblyInv, ReassemblyTypeOK
<1> QED BY Zenon, <1>1, <1>2, <1>4, <1>6, <1>7 DEF ReassemblyNext, Feed

\* The inductive invariant of the reassembler.
THEOREM ReassemblyInvariant == ReassemblySpec => []ReassemblyInv
BY ReassemblyInitInv, ReassemblyNextInv, PTL DEF ReassemblySpec

\* feed hands up whole frames only, whatever arrives in whatever order.
THEOREM WholeFramesOnly == ReassemblySpec => []HandsUpWholeFrames
<1>1. ReassemblyInv => HandsUpWholeFrames
  BY Zenon DEF ReassemblyInv
<1> QED BY <1>1, ReassemblyInvariant, PTL

\* No more buffers than the limit, and after a collection room for one more.
LEMMA RoomForOneMore ==
  ASSUME ReassemblyInv
  PROVE  NeverOverfull
<1>1. highestStarted \in FrameNumbers
  BY Zenon DEF ReassemblyInv, ReassemblyTypeOK
<1>2. ASSUME collecting, NEW seq \in FrameNumbers
      PROVE  Cardinality(DOMAIN frames \cup {seq}) <= MaxInFlight
  BY Zenon, <1>1, <1>2, AgedIsSmall DEF ReassemblyInv, BuffersOK
<1> QED BY Zenon, <1>2 DEF NeverOverfull, ReassemblyInv, BuffersOK

\* No reassembler holds more buffers than its limit, and the eviction branch
\* of feed is unreachable for the video and audio streams, which are
\* collected, while the map limit exceeds the age limit by two, as 96
\* exceeds 64.
THEOREM CollectedNeverEvicts == ReassemblySpec => []NeverOverfull
BY RoomForOneMore, ReassemblyInvariant, PTL

HIDE AgeAssumption
HIDE StartedAssumption
HIDE FragmentsAssumption

-------------------------------------------------------------------------------
(***************************************************************************)
(* SequenceTracker.  What is counted lost never came.                      *)
(***************************************************************************)

\* What the counters of the tracker stand for: the window remembers only
\* numbers that came, nothing beyond the highest number came, and what is
\* counted lost lies between the first number and the highest.
TrackerCounts ==
  /\ \A i \in seenMask : seenWindow[i] \in tracked
  /\ initialized => /\ \A q \in tracked : q <= highest
                    /\ lost + first <= highest
  /\ ~initialized => tracked = {} /\ lost = 0

\* The inductive invariant of the tracker.
TrackerInv == TrackerTypeOK /\ TrackerCounts /\ LostAccountsForMissing

\* The numbers from a to b that are not in T.
MissingOf(a, b, T) == {q \in a .. b : q \notin T}

\* The numbers missing between any two bounds are finitely many.
LEMMA MissingIsFinite ==
  ASSUME NEW a \in Nat, NEW b \in Nat, NEW T
  PROVE  /\ IsFiniteSet(MissingOf(a, b, T))
         /\ Cardinality(MissingOf(a, b, T)) \in Nat
<1>1. IsFiniteSet(a .. b)
  BY FS_Interval
<1>2. MissingOf(a, b, T) \in SUBSET (a .. b)
  BY Zenon DEF MissingOf
<1> QED BY Zenon, <1>1, <1>2, FS_Subset, FS_CardinalityType

\* One more arrival takes at most itself from what is missing.
LEMMA ArrivalFillsOne ==
  ASSUME NEW a \in Nat, NEW b \in Nat, NEW T, NEW seq
  PROVE  LET old == MissingOf(a, b, T)
             new == MissingOf(a, b, T \cup {seq})
         IN  /\ Cardinality(old) \in Nat /\ Cardinality(new) \in Nat
             /\ Cardinality(new) <= Cardinality(old)
             /\ Cardinality(old) <= Cardinality(new) + 1
<1> DEFINE old == MissingOf(a, b, T)
           new == MissingOf(a, b, T \cup {seq})
<1>1. IsFiniteSet(old) /\ Cardinality(old) \in Nat /\ Cardinality(new) \in Nat
  BY Zenon, MissingIsFinite
<1>2. new = old \ {seq}
  BY Zenon DEF MissingOf
<1>3. Cardinality(new) = IF seq \in old THEN Cardinality(old) - 1 ELSE Cardinality(old)
  BY Zenon, <1>1, <1>2, FS_RemoveElement
<1> HIDE DEF old, new
<1>4. /\ Cardinality(old) \in Nat /\ Cardinality(new) \in Nat
      /\ Cardinality(new) <= Cardinality(old)
      /\ Cardinality(old) <= Cardinality(new) + 1
  BY <1>1, <1>3
<1> QED BY Zenon, <1>4 DEF old, new

\* A number beyond the highest makes exactly the numbers it skips missing.
LEMMA GapIsMissing ==
  ASSUME NEW a \in Nat, NEW b \in Nat, NEW T, NEW seq \in Nat,
         a <= b, b < seq, \A q \in T : q \in Nat /\ q <= b
  PROVE  Cardinality(MissingOf(a, seq, T \cup {seq})) = Cardinality(MissingOf(a, b, T)) + (seq - b - 1)
<1> DEFINE old == MissingOf(a, b, T)
           new == MissingOf(a, seq, T \cup {seq})
           gap == (b + 1) .. (seq - 1)
<1>1. IsFiniteSet(old) /\ Cardinality(old) \in Nat
  BY Zenon, MissingIsFinite
<1>2. IsFiniteSet(gap) /\ Cardinality(gap) = seq - b - 1
  <2>1. IsFiniteSet(gap) /\ Cardinality(gap) = IF b + 1 > seq - 1 THEN 0 ELSE (seq - 1) - (b + 1) + 1
    BY FS_Interval
  <2> HIDE DEF gap
  <2> QED BY <2>1
<1>3. new = old \cup gap
  BY DEF MissingOf
<1>4. old \cap gap = {}
  BY DEF MissingOf
<1> HIDE DEF old, gap, new
<1>5. Cardinality(new) = Cardinality(old) + Cardinality(gap) - 0
  BY <1>1, <1>2, <1>3, <1>4, FS_Union, FS_EmptySet
<1>6. Cardinality(new) = Cardinality(old) + (seq - b - 1)
  BY <1>1, <1>2, <1>5
<1> QED BY Zenon, <1>6 DEF old, new

\* The tracker's invariant holds before the first packet.
LEMMA TrackerStarts == TrackerInit => TrackerInv
<1> SUFFICES ASSUME TrackerInit PROVE TrackerInv
  BY Zenon
<1>1. 0 \in Sequences /\ 0 \in 0 .. MaxSequence /\ [i \in Slots |-> 0] \in [Slots -> Sequences]
  BY SequenceAssumption DEF Sequences
<1>2. TrackerTypeOK
  BY Zenon, <1>1 DEF TrackerInit, TrackerTypeOK
<1>3. TrackerCounts /\ LostAccountsForMissing
  BY Zenon DEF TrackerInit, TrackerCounts, LostAccountsForMissing
<1> QED BY Zenon, <1>2, <1>3 DEF TrackerInv

\* A slot of the window is one of its slots.
LEMMA SlotOfNumber ==
  ASSUME NEW seq \in Sequences
  PROVE  seq \in Nat /\ seq % LateWindow \in Slots
BY LateWindowAssumption, SequenceAssumption DEF Sequences, Slots

\* Marking a number that came keeps the window's memory true.
LEMMA MarkRemembers ==
  ASSUME TrackerTypeOK, TrackerCounts, NEW seq \in Sequences,
         Mark(seq), tracked' = tracked \cup {seq}
  PROVE  /\ seenWindow' \in [Slots -> Sequences] /\ seenMask' \subseteq Slots
         /\ \A i \in seenMask' : seenWindow'[i] \in tracked'
<1>1. seq % LateWindow \in Slots
  BY Zenon, SlotOfNumber
<1> QED BY Zenon, <1>1 DEF Mark, TrackerTypeOK, TrackerCounts

\* The first packet starts the window.
LEMMA TrackerFirst ==
  ASSUME TrackerInv, NEW seq \in Sequences, TrackFirst(seq), tracked' = tracked \cup {seq}
  PROVE  TrackerInv'
<1>1. /\ seenWindow' \in [Slots -> Sequences] /\ seenMask' \subseteq Slots
      /\ \A i \in seenMask' : seenWindow'[i] \in tracked'
  BY Zenon, MarkRemembers DEF TrackerInv, TrackFirst
<1>2. seq \in Nat /\ tracked' = {seq} /\ first' = seq /\ highest' = seq /\ initialized' = TRUE
  BY Zenon, SlotOfNumber DEF TrackerInv, TrackerCounts, TrackFirst
<1>3. lost' = 0 /\ late' = late /\ late \in Nat /\ duplicates' = duplicates /\ duplicates \in Nat
  BY Zenon DEF TrackerInv, TrackerTypeOK, TrackerCounts, TrackFirst
<1>4. Missing' = {}
  BY <1>2 DEF Missing
<1>5. TrackerTypeOK'
  BY <1>1, <1>2, <1>3, SequenceAssumption DEF TrackerTypeOK
<1>6. TrackerCounts'
  BY <1>1, <1>2, <1>3 DEF TrackerCounts
<1>7. LostAccountsForMissing'
  BY <1>3, <1>4, FS_EmptySet DEF LostAccountsForMissing
<1> QED BY Zenon, <1>5, <1>6, <1>7 DEF TrackerInv

\* A newer packet moves the window and counts what was skipped as lost.
LEMMA TrackerNewer ==
  ASSUME TrackerInv, NEW seq \in Sequences, TrackNewer(seq), tracked' = tracked \cup {seq}
  PROVE  TrackerInv'
<1>1. /\ seenWindow' \in [Slots -> Sequences] /\ seenMask' \subseteq Slots
      /\ \A i \in seenMask' : seenWindow'[i] \in tracked'
  BY Zenon, MarkRemembers DEF TrackerInv, TrackNewer
<1>2. /\ seq \in 0 .. MaxSequence /\ highest \in Nat /\ first \in 0 .. MaxSequence /\ highest < seq
      /\ lost \in Nat /\ late \in Nat /\ lost + first <= highest
      /\ \A q \in tracked : q \in Nat /\ q <= highest
      /\ MaxSequence \in Nat
  BY SequenceAssumption DEF TrackerInv, TrackerTypeOK, TrackerCounts, TrackNewer, Sequences
<1>3. /\ lost' = lost + (seq - highest - 1) /\ late' = late /\ first' = first /\ highest' = seq
      /\ initialized /\ initialized' = initialized /\ duplicates' = duplicates
  BY Zenon DEF TrackNewer
<1>4. Cardinality(Missing') = Cardinality(Missing) + (seq - highest - 1) /\ Cardinality(Missing) \in Nat
  <2>1. /\ Missing = MissingOf(first, highest, tracked)
        /\ Missing' = MissingOf(first, seq, tracked \cup {seq})
    BY Zenon, <1>3 DEF Missing, MissingOf
  <2>2. first \in Nat /\ seq \in Nat /\ first <= highest
    BY <1>2
  <2> QED BY <1>2, <2>1, <2>2, GapIsMissing, MissingIsFinite
<1>5. lost' \in 0 .. MaxSequence /\ lost' + first' <= highest'
  BY <1>2, <1>3
<1>6. TrackerTypeOK'
  BY Zenon, <1>1, <1>3, <1>5 DEF TrackerInv, TrackerTypeOK
<1>7. TrackerCounts'
  BY <1>1, <1>2, <1>3, <1>5 DEF TrackerCounts
<1>8. LostAccountsForMissing'
  BY <1>2, <1>3, <1>4 DEF TrackerInv, LostAccountsForMissing
<1> QED BY Zenon, <1>6, <1>7, <1>8 DEF TrackerInv

\* A number that is not the newest, and is counted late if it was missing.
LEMMA TrackerOlder ==
  ASSUME TrackerInv, NEW seq \in Sequences, initialized, seq <= highest,
         tracked' = tracked \cup {seq},
         UNCHANGED <<highest, initialized, lost, first>>,
         duplicates' \in Nat,
         late' = late + 1 \/ (late' = late /\ seq \in tracked),
         Mark(seq) \/ UNCHANGED <<seenWindow, seenMask>>
  PROVE  TrackerInv'
<1>1. /\ seenWindow' \in [Slots -> Sequences] /\ seenMask' \subseteq Slots
      /\ \A i \in seenMask' : seenWindow'[i] \in tracked'
  <2>1. CASE Mark(seq)
    BY Zenon, <2>1, MarkRemembers DEF TrackerInv
  <2>2. CASE UNCHANGED <<seenWindow, seenMask>>
    BY Zenon, <2>2 DEF TrackerInv, TrackerTypeOK, TrackerCounts
  <2> QED BY Zenon, <2>1, <2>2
<1>2. highest \in Nat /\ first \in Nat /\ lost \in Nat /\ late \in Nat /\ seq \in Nat
  BY SequenceAssumption DEF TrackerInv, TrackerTypeOK, Sequences
<1>3. LostAccountsForMissing'
  <2>1. /\ Cardinality(Missing) \in Nat /\ Cardinality(Missing') \in Nat
        /\ Cardinality(Missing') <= Cardinality(Missing)
        /\ Cardinality(Missing) <= Cardinality(Missing') + 1
    <3>1. /\ Missing = MissingOf(first, highest, tracked)
          /\ Missing' = MissingOf(first, highest, tracked \cup {seq})
      BY Zenon DEF Missing, MissingOf
    <3> QED BY Zenon, <1>2, <3>1, ArrivalFillsOne
  <2>2. seq \in tracked => Missing' = Missing
    BY Zenon DEF Missing
  <2> QED BY <1>2, <2>1, <2>2 DEF TrackerInv, LostAccountsForMissing
<1>4. TrackerTypeOK'
  BY <1>1, <1>2 DEF TrackerInv, TrackerTypeOK
<1>5. TrackerCounts'
  BY Zenon, <1>1 DEF TrackerInv, TrackerCounts
<1> QED BY Zenon, <1>3, <1>4, <1>5 DEF TrackerInv

\* Every branch of track and reset keep the invariant.
LEMMA TrackerTracks ==
  ASSUME TrackerInv, NEW seq \in Sequences, Track(seq)
  PROVE  TrackerInv'
<1>1. duplicates \in Nat /\ tracked' = tracked \cup {seq}
  BY Zenon DEF TrackerInv, TrackerTypeOK, Track
<1>2. CASE TrackFirst(seq)
  BY Zenon, <1>1, <1>2, TrackerFirst
<1>3. CASE TrackNewer(seq)
  BY Zenon, <1>1, <1>3, TrackerNewer
<1>4. CASE TrackBelowWindow(seq)
  BY Zenon, <1>1, <1>4, TrackerOlder DEF TrackBelowWindow
<1>5. CASE TrackDuplicate(seq)
  <2>1. seq \in tracked
    BY Zenon, <1>5 DEF TrackDuplicate, Seen, TrackerInv, TrackerCounts
  <2> QED BY <1>1, <1>5, <2>1, TrackerOlder DEF TrackDuplicate
<1>6. CASE TrackReordered(seq)
  BY Zenon, <1>1, <1>6, TrackerOlder DEF TrackReordered
<1> QED BY Zenon, <1>2, <1>3, <1>4, <1>5, <1>6 DEF Track

\* reset forgets everything at once.
LEMMA TrackerResets ==
  ASSUME ResetTracker
  PROVE  TrackerInv'
<1>1. 0 \in Sequences /\ 0 \in 0 .. MaxSequence /\ [i \in Slots |-> 0] \in [Slots -> Sequences]
  BY SequenceAssumption DEF Sequences
<1>2. TrackerTypeOK'
  BY Zenon, <1>1 DEF ResetTracker, TrackerTypeOK
<1>3. TrackerCounts' /\ LostAccountsForMissing'
  BY Zenon DEF ResetTracker, TrackerCounts, LostAccountsForMissing
<1> QED BY Zenon, <1>2, <1>3 DEF TrackerInv

\* Every packet tracked keeps the tracker's invariant.
LEMMA TrackerSteps == TrackerInv /\ [TrackerNext]_trackerVars => TrackerInv'
<1> SUFFICES ASSUME TrackerInv, [TrackerNext]_trackerVars PROVE TrackerInv'
  BY Zenon
<1>1. CASE TrackerNext
  BY Zenon, <1>1, TrackerTracks, TrackerResets DEF TrackerNext
<1>2. CASE UNCHANGED trackerVars
  BY Zenon, <1>2 DEF trackerVars, TrackerInv, TrackerTypeOK, TrackerCounts, LostAccountsForMissing, Missing
<1> QED BY Zenon, <1>1, <1>2

\* SequenceTracker::track and reset: the types hold, and lost is an honest
\* loss count under any reordering, repetition and loss, for every size of
\* the window and every range of sequence numbers.
THEOREM LossCountIsHonest == TrackerSpec => [](TrackerTypeOK /\ LostAccountsForMissing)
<1>1. TrackerInv => TrackerTypeOK /\ LostAccountsForMissing
  BY Zenon DEF TrackerInv
<1> QED BY <1>1, TrackerStarts, TrackerSteps, PTL DEF TrackerSpec

-------------------------------------------------------------------------------
(***************************************************************************)
(* JitterBuffer.  Frames leave in order.                                   *)
(***************************************************************************)

\* Sorted by sequence number.
Sorted(q) == \A i, j \in DOMAIN q : i < j => q[i].sequence <= q[j].sequence

\* Nothing that waits is older than what was handed out last.
NothingOlder(q, on, last) == on => \A i \in DOMAIN q : q[i].sequence >= last

\* The inductive invariant of the jitter buffer.
JitterInv == JitterTypeOK /\ Sorted(queue) /\ NothingOlder(queue, popping, lastPopped)

\* Counting from one, there is a first number that is not in a set, or none.
LEMMA FirstOutside ==
  ASSUME NEW n \in Nat, NEW S
  PROVE  \E m \in 0 .. n : (\A k \in 1 .. m : k \in S) /\ (m < n => (m + 1) \notin S)
<1> DEFINE T == {m \in 0 .. n : m = n \/ (m + 1) \notin S}
<1>1. T \subseteq Nat /\ n \in T
  OBVIOUS
<1>2. PICK m \in T : \A k \in T : ~(<<k, m>> \in OpToRel(<, Nat))
  <2> HIDE DEF T
  <2> QED BY Zenon, <1>1, WFMin, NatLessThanWellFounded
<1>3. \A k \in T : ~(k < m)
  BY Zenon, <1>1, <1>2 DEF OpToRel
<1>4. m \in 0 .. n /\ (m < n => (m + 1) \notin S)
  OBVIOUS
<1>5. ASSUME NEW k \in 1 .. m PROVE k \in S
  <2>1. k - 1 \in 0 .. n /\ k - 1 < m /\ k - 1 # n /\ (k - 1) + 1 = k
    BY <1>4
  <2>2. (k - 1) \notin T
    BY Zenon, <1>3, <2>1
  <2> QED BY Zenon, <2>1, <2>2
<1> QED BY Zenon, <1>4, <1>5

\* pop's count exists: it stops at the first entry that is not ready.
LEMMA PopCountStops ==
  ASSUME JitterTypeOK
  PROVE  PopCount \in 0 .. Len(queue)
<1>1. Len(queue) \in Nat
  BY DEF JitterTypeOK
<1> DEFINE R == {k \in 1 .. Len(queue) : Ready(k)}
<1>2. PICK m \in 0 .. Len(queue) : (\A k \in 1 .. m : k \in R) /\ (m < Len(queue) => (m + 1) \notin R)
  <2> HIDE DEF R
  <2> QED BY Zenon, <1>1, FirstOutside
<1>3. /\ \A k \in 1 .. m : Ready(k)
      /\ m < Len(queue) => ~Ready(m + 1)
  <2>1. m < Len(queue) => m + 1 \in 1 .. Len(queue)
    BY <1>1, <1>2
  <2> QED BY Zenon, <1>1, <1>2, <2>1
<1> QED BY Zenon, <1>2, <1>3 DEF PopCount

\* Inserting at the place push finds: the queue grows by the entry, and stays
\* sorted.
LEMMA InsertedInOrder ==
  ASSUME NEW q \in Seq(Entries), Sorted(q), NEW e \in Entries
  PROVE  /\ Inserted(q, e) \in Seq(Entries)
         /\ Len(Inserted(q, e)) = Len(q) + 1
         /\ Sorted(Inserted(q, e))
         /\ \A i \in DOMAIN Inserted(q, e) :
              Inserted(q, e)[i] = e \/ \E k \in DOMAIN q : Inserted(q, e)[i] = q[k]
<1> DEFINE n == Len(q)
           S == {i \in DOMAIN q : q[i].sequence <= e.sequence}
<1>1. n \in Nat /\ Len(q) = n /\ DOMAIN q = 1 .. n /\ \A i \in 1 .. n : q[i] \in Entries
  BY Zenon, LenProperties, ElementOfSeq
<1> HIDE DEF n
<1>2. e.sequence \in Int /\ \A i \in 1 .. n : q[i].sequence \in Int
  BY <1>1, JitterAssumption DEF Entries, FrameSet
<1>3. PICK m \in 0 .. n : (\A k \in 1 .. m : k \in S) /\ (m < n => (m + 1) \notin S)
  <2> HIDE DEF S
  <2> QED BY Zenon, <1>1, FirstOutside
<1>m. m \in Nat /\ m <= n
  BY <1>1, <1>3
<1>4. \A k \in (m + 1) .. n : q[k].sequence > e.sequence
  <2> SUFFICES ASSUME NEW k \in (m + 1) .. n PROVE q[k].sequence > e.sequence
    BY Zenon
  <2>1. m + 1 \in 1 .. n /\ k \in 1 .. n /\ m < n
    BY <1>1, <1>3
  <2>2. q[m + 1].sequence > e.sequence
    BY <1>1, <1>2, <1>3, <2>1
  <2>3. m + 1 < k => q[m + 1].sequence <= q[k].sequence
    BY Zenon, <1>1, <2>1 DEF Sorted
  <2> QED BY <1>2, <2>1, <2>2, <2>3
<1>5. S = 1 .. m
  BY <1>1, <1>2, <1>3, <1>4
<1>6. Cardinality(S) = m
  <2>1. Cardinality(1 .. m) = IF 1 > m THEN 0 ELSE m - 1 + 1
    BY FS_Interval
  <2>2. Cardinality(1 .. m) = m
    BY <1>m, <2>1
  <2> HIDE DEF S
  <2> QED BY Zenon, <1>5, <2>2
<1> HIDE DEF S
<1> DEFINE a == SubSeq(q, 1, m)
           b == SubSeq(q, m + 1, n)
           r == (a \o <<e>>) \o b
<1>7. Inserted(q, e) = r
  BY Zenon, <1>1, <1>6 DEF Inserted, S
<1>8. a \in Seq(Entries) /\ Len(a) = m /\ \A i \in 1 .. m : a[i] = q[i]
  <2>1. \A i \in 1 .. m : q[i] \in Entries
    BY <1>1
  <2>2. /\ a \in Seq(Entries) /\ Len(a) = (IF 1 <= m THEN m - 1 + 1 ELSE 0)
        /\ \A i \in 1 .. m - 1 + 1 : a[i] = q[1 + i - 1]
    BY <1>m, <2>1, SubSeqProperties
  <2> HIDE DEF a
  <2> QED BY <1>m, <2>2
<1>9. b \in Seq(Entries) /\ Len(b) = n - m /\ \A i \in 1 .. n - m : b[i] = q[m + i]
  <2>1. \A i \in (m + 1) .. n : q[i] \in Entries
    BY <1>1
  <2>2. /\ b \in Seq(Entries) /\ Len(b) = (IF m + 1 <= n THEN n - (m + 1) + 1 ELSE 0)
        /\ \A i \in 1 .. n - (m + 1) + 1 : b[i] = q[m + 1 + i - 1]
    BY <1>m, <1>1, <2>1, SubSeqProperties
  <2> HIDE DEF b
  <2>3. n - (m + 1) + 1 = n - m /\ (m + 1 <= n => n - m = n - (m + 1) + 1) /\ (~(m + 1 <= n) => n - m = 0)
    BY <1>1, <1>m
  <2>4. \A i \in 1 .. n - m : m + 1 + i - 1 = m + i
    BY <1>1, <1>m
  <2> QED BY Zenon, <2>2, <2>3, <2>4
<1> HIDE DEF a, b, S
<1>10. /\ a \o <<e>> \in Seq(Entries) /\ Len(a \o <<e>>) = m + 1
       /\ \A i \in 1 .. m + 1 : (a \o <<e>>)[i] = IF i <= m THEN q[i] ELSE e
  BY <1>8
<1>11. /\ r \in Seq(Entries) /\ Len(r) = n + 1
       /\ \A i \in 1 .. n + 1 : r[i] = IF i <= m THEN q[i] ELSE IF i = m + 1 THEN e ELSE q[i - 1]
  <2>1. /\ r \in Seq(Entries) /\ Len(r) = (m + 1) + (n - m)
        /\ \A i \in 1 .. (m + 1) + (n - m) : r[i] = IF i <= m + 1 THEN (a \o <<e>>)[i] ELSE b[i - (m + 1)]
    <3> DEFINE ae == a \o <<e>>
    <3>1. ae \in Seq(Entries) /\ Len(ae) = m + 1
      BY Zenon, <1>10
    <3> HIDE DEF ae
    <3>2. /\ ae \o b \in Seq(Entries) /\ Len(ae \o b) = (m + 1) + (n - m)
          /\ \A i \in 1 .. (m + 1) + (n - m) : (ae \o b)[i] = IF i <= m + 1 THEN ae[i] ELSE b[i - (m + 1)]
      <4>1. /\ ae \o b \in Seq(Entries) /\ Len(ae \o b) = Len(ae) + Len(b)
            /\ \A i \in 1 .. Len(ae) + Len(b) :
                 (ae \o b)[i] = IF i <= Len(ae) THEN ae[i] ELSE b[i - Len(ae)]
        <5>1. b \in Seq(Entries)
          BY Zenon, <1>9
        <5> QED BY Zenon, <3>1, <5>1, ConcatProperties
      <4> QED BY Zenon, <1>9, <3>1, <4>1
    <3> QED BY Zenon, <3>2 DEF ae
  <2> HIDE DEF r
  <2>2. (m + 1) + (n - m) = n + 1
    BY <1>1, <1>m
  <2>3. ASSUME NEW i \in 1 .. n + 1
        PROVE  r[i] = IF i <= m THEN q[i] ELSE IF i = m + 1 THEN e ELSE q[i - 1]
    <3>1. CASE i <= m + 1
      BY <1>1, <1>m, <1>10, <2>1, <2>2, <3>1
    <3>2. CASE i > m + 1
      <4>1. i - (m + 1) \in 1 .. n - m /\ m + (i - (m + 1)) = i - 1 /\ ~(i <= m + 1)
        BY <1>1, <1>m, <3>2
      <4>2. r[i] = q[m + (i - (m + 1))]
        BY Zenon, <1>9, <2>1, <2>2, <4>1
      <4> QED BY <1>m, <3>2, <4>1, <4>2
    <3> QED BY <1>m, <3>1, <3>2
  <2> QED BY Zenon, <2>1, <2>2, <2>3
<1> HIDE DEF r
<1>12. DOMAIN r = 1 .. n + 1
  BY Zenon, <1>11, LenProperties
<1>13. Sorted(r)
  <2> SUFFICES ASSUME NEW i \in 1 .. n + 1, NEW j \in 1 .. n + 1, i < j
               PROVE  r[i].sequence <= r[j].sequence
    BY Zenon, <1>12 DEF Sorted
  <2>1. \A x, y \in 1 .. n : x < y => q[x].sequence <= q[y].sequence
    BY Zenon, <1>1 DEF Sorted
  <2>2. \A x \in 1 .. m : q[x].sequence <= e.sequence
    BY Zenon, <1>3 DEF S
  <2>3. CASE j <= m
    <3>1. r[i] = q[i] /\ r[j] = q[j] /\ i \in 1 .. n /\ j \in 1 .. n
      BY <1>1, <1>m, <1>11, <2>3
    <3> QED BY Zenon, <2>1, <3>1
  <2>4. CASE j = m + 1
    <3>1. r[i] = q[i] /\ r[j] = e /\ i \in 1 .. m
      BY <1>1, <1>m, <1>11, <2>4
    <3> QED BY Zenon, <2>2, <3>1
  <2>5. CASE j > m + 1
    <3>1. r[j] = q[j - 1] /\ j - 1 \in (m + 1) .. n /\ j - 1 \in 1 .. n
      BY <1>1, <1>m, <1>11, <2>5
    <3>2. CASE i <= m
      <4>1. r[i] = q[i] /\ i \in 1 .. n /\ i < j - 1
        BY <1>1, <1>m, <1>11, <2>5, <3>2
      <4> QED BY Zenon, <2>1, <3>1, <4>1
    <3>3. CASE i = m + 1
      <4>1. r[i] = e
        BY <1>1, <1>m, <1>11, <3>3
      <4> QED BY <1>2, <1>4, <3>1, <4>1
    <3>4. CASE i > m + 1
      <4>1. r[i] = q[i - 1] /\ i - 1 \in 1 .. n /\ i - 1 < j - 1
        BY <1>1, <1>m, <1>11, <3>4
      <4> QED BY Zenon, <2>1, <3>1, <4>1
    <3> QED BY <1>m, <3>2, <3>3, <3>4
  <2> QED BY <1>m, <2>3, <2>4, <2>5
<1>14. \A i \in 1 .. n + 1 : r[i] = e \/ \E k \in 1 .. n : r[i] = q[k]
  BY <1>1, <1>11
<1> QED BY Zenon, <1>1, <1>7, <1>11, <1>12, <1>13, <1>14

\* The jitter buffer starts empty.
LEMMA JitterStarts == JitterInit => JitterInv
<1> SUFFICES ASSUME JitterInit PROVE JitterInv
  BY Zenon
<1>1. queue \in Seq(Entries) /\ Len(queue) = 0 /\ handed \in Seq(FrameSet) /\ DOMAIN queue = {}
  BY EmptySeq DEF JitterInit
<1>2. 0 \in FrameSet /\ 0 <= 2 * HighWatermark
  BY JitterAssumption DEF FrameSet
<1> QED BY Zenon, <1>1, <1>2 DEF JitterInit, JitterInv, JitterTypeOK, Sorted, NothingOlder

\* The first entry may be dropped.
LEMMA TailInOrder ==
  ASSUME NEW q \in Seq(Entries), q # <<>>, Sorted(q)
  PROVE  /\ Tail(q) \in Seq(Entries) /\ Len(Tail(q)) = Len(q) - 1 /\ Sorted(Tail(q))
         /\ \A i \in DOMAIN Tail(q) : \E k \in DOMAIN q : Tail(q)[i] = q[k]
<1>1. /\ Tail(q) \in Seq(Entries) /\ Len(Tail(q)) = Len(q) - 1
      /\ \A i \in 1 .. Len(Tail(q)) : Tail(q)[i] = q[i + 1]
  BY Zenon, HeadTailProperties
<1>2. DOMAIN q = 1 .. Len(q) /\ Len(q) \in Nat /\ DOMAIN Tail(q) = 1 .. Len(Tail(q))
  BY Zenon, <1>1, LenProperties
<1>3. \A i \in DOMAIN Tail(q) : i + 1 \in DOMAIN q /\ Tail(q)[i] = q[i + 1] /\ i \in Nat
  BY <1>1, <1>2
<1>4. \A i, j \in DOMAIN Tail(q) : i < j => i + 1 < j + 1
  BY <1>2
<1>5. Sorted(Tail(q))
  BY Zenon, <1>3, <1>4 DEF Sorted
<1> QED BY Zenon, <1>1, <1>3, <1>5

\* push queues a frame at its place.
LEMMA JitterPushes ==
  ASSUME JitterInv, NEW seq \in FrameSet, PushQueued(seq), handed' = <<>>
  PROVE  JitterInv'
<1> DEFINE e == [sequence |-> seq, waited |-> 0]
           full == Len(queue) >= 2 * HighWatermark
           room == IF full THEN Tail(queue) ELSE queue
<1>1. e \in Entries /\ 2 * HighWatermark \in Nat \ {0} /\ seq \in Nat /\ lastPopped \in Nat
  BY JitterAssumption DEF Entries, JitterInv, JitterTypeOK, FrameSet
<1>2. queue \in Seq(Entries) /\ Len(queue) \in Nat /\ Len(queue) <= 2 * HighWatermark /\ Sorted(queue)
  BY DEF JitterInv, JitterTypeOK
<1>3. queue' = Inserted(room, e) /\ lastPopped' = lastPopped /\ popping' = popping
  BY Zenon DEF PushQueued
<1>4. /\ room \in Seq(Entries) /\ Sorted(room) /\ Len(room) + 1 <= 2 * HighWatermark /\ Len(room) \in Nat
      /\ \A i \in DOMAIN room : \E k \in DOMAIN queue : room[i] = queue[k]
  <2>1. CASE full
    <3>1. queue # <<>>
      BY <1>1, <1>2, <2>1, EmptySeq
    <3>2. /\ Tail(queue) \in Seq(Entries) /\ Len(Tail(queue)) = Len(queue) - 1 /\ Sorted(Tail(queue))
          /\ \A i \in DOMAIN Tail(queue) : \E k \in DOMAIN queue : Tail(queue)[i] = queue[k]
      BY Zenon, <1>2, <3>1, TailInOrder
    <3>3. Len(queue) - 1 \in Nat /\ (Len(queue) - 1) + 1 <= 2 * HighWatermark
      BY <1>1, <1>2, <2>1
    <3> QED BY Zenon, <2>1, <3>2, <3>3
  <2>2. CASE ~full
    <3>1. Len(queue) + 1 <= 2 * HighWatermark
      BY <1>1, <1>2, <2>2
    <3> QED BY Zenon, <1>2, <2>2, <3>1
  <2> QED BY Zenon, <2>1, <2>2
<1> HIDE DEF room, e
<1>5. /\ queue' \in Seq(Entries) /\ Len(queue') = Len(room) + 1 /\ Sorted(queue')
      /\ \A i \in DOMAIN queue' : queue'[i] = e \/ \E k \in DOMAIN room : queue'[i] = room[k]
  BY <1>1, <1>3, <1>4, InsertedInOrder
<1>6. JitterTypeOK'
  <2>1. handed' \in Seq(FrameSet)
    BY Zenon, EmptySeq
  <2> QED BY Zenon, <1>3, <1>4, <1>5, <2>1 DEF JitterInv, JitterTypeOK
<1>7. ASSUME popping', NEW i \in DOMAIN queue' PROVE queue'[i].sequence >= lastPopped'
  <2>1. popping /\ \A k \in DOMAIN queue : queue[k].sequence >= lastPopped
    BY Zenon, <1>3, <1>7 DEF JitterInv, NothingOlder
  <2>2. seq >= lastPopped
    BY <1>1, <2>1 DEF PushQueued, TooLate
  <2>3. e.sequence >= lastPopped
    BY Zenon, <2>2 DEF e
  <2>4. \A k \in DOMAIN room : room[k].sequence >= lastPopped
    BY Zenon, <1>4, <2>1
  <2> QED BY Zenon, <1>3, <1>5, <2>3, <2>4
<1> QED BY Zenon, <1>5, <1>6, <1>7 DEF JitterInv, NothingOlder

\* What pop hands out and what it leaves.
LEMMA JitterPops ==
  ASSUME JitterInv, Pop
  PROVE  /\ JitterInv'
         /\ \A i, j \in DOMAIN handed' : i < j => handed'[i] <= handed'[j]
         /\ \A i \in DOMAIN handed' : popping => handed'[i] >= lastPopped
<1> DEFINE n == PopCount
           l == Len(queue)
<1>1. n \in Nat /\ l \in Nat /\ n <= l
  BY PopCountStops DEF JitterInv, JitterTypeOK
<1>2. /\ handed' = [k \in 1 .. n |-> queue[k].sequence]
      /\ queue' = SubSeq(queue, n + 1, l)
      /\ lastPopped' = IF n > 0 THEN queue[n].sequence ELSE lastPopped
      /\ popping' = (popping \/ n > 0)
  BY Zenon DEF Pop
<1>3. /\ queue \in Seq(Entries) /\ DOMAIN queue = 1 .. l /\ l <= 2 * HighWatermark
      /\ lastPopped \in FrameSet /\ HighWatermark \in Nat
  BY Zenon, LenProperties, JitterAssumption DEF JitterInv, JitterTypeOK
<1> HIDE DEF n, l
<1>4. \A k \in 1 .. l : queue[k] \in Entries /\ queue[k].sequence \in FrameSet /\ queue[k].sequence \in Nat
  <2>1. \A k \in 1 .. l : queue[k] \in Entries
    BY Zenon, <1>3, ElementOfSeq DEF l
  <2>2. \A x \in Entries : x.sequence \in FrameSet /\ x.sequence \in Nat
    BY JitterAssumption DEF Entries, FrameSet
  <2> QED BY Zenon, <2>1, <2>2
<1>5. \A i, j \in 1 .. l : i < j => queue[i].sequence <= queue[j].sequence
  BY Zenon, <1>3 DEF JitterInv, Sorted
<1>6. popping => \A i \in 1 .. l : queue[i].sequence >= lastPopped
  BY Zenon, <1>3 DEF JitterInv, NothingOlder
<1>7. /\ queue' \in Seq(Entries) /\ Len(queue') = l - n
      /\ \A i \in 1 .. l - n : queue'[i] = queue[n + i]
  <2>1. \A i \in (n + 1) .. l : queue[i] \in Entries
    BY <1>1, <1>4
  <2>2. /\ queue' \in Seq(Entries) /\ Len(queue') = (IF n + 1 <= l THEN l - (n + 1) + 1 ELSE 0)
        /\ \A i \in 1 .. l - (n + 1) + 1 : queue'[i] = queue[n + 1 + i - 1]
    BY <1>1, <1>2, <2>1, SubSeqProperties
  <2>3. l - (n + 1) + 1 = l - n /\ (n + 1 <= l => l - n = l - (n + 1) + 1) /\ (~(n + 1 <= l) => l - n = 0)
    BY <1>1
  <2>4. \A i \in 1 .. l - n : n + 1 + i - 1 = n + i
    BY <1>1
  <2> QED BY Zenon, <2>2, <2>3, <2>4
<1>8. DOMAIN queue' = 1 .. l - n
  BY Zenon, <1>7, LenProperties
<1>9. DOMAIN handed' = 1 .. n /\ \A i \in 1 .. n : handed'[i] = queue[i].sequence /\ i \in 1 .. l
  BY <1>1, <1>2
<1>10. lastPopped' \in FrameSet
  <2>1. n > 0 => n \in 1 .. l
    BY <1>1
  <2> QED BY Zenon, <1>2, <1>3, <1>4, <2>1
<1>11. JitterTypeOK'
  <2>1. handed' \in Seq(FrameSet)
    <3>1. \A i \in 1 .. n : queue[i].sequence \in FrameSet
      BY <1>1, <1>4
    <3> QED BY <1>1, <1>2, <3>1
  <2>2. Len(queue') <= 2 * HighWatermark
    BY <1>1, <1>3, <1>7
  <2>3. popping' \in BOOLEAN
    BY Zenon, <1>2
  <2> QED BY Zenon, <1>7, <1>10, <2>1, <2>2, <2>3 DEF JitterTypeOK
<1>12. Sorted(queue')
  <2>1. \A i, j \in 1 .. l - n : i < j => n + i \in 1 .. l /\ n + j \in 1 .. l /\ n + i < n + j
    BY <1>1
  <2> QED BY Zenon, <1>5, <1>7, <1>8, <2>1 DEF Sorted
<1>13. NothingOlder(queue', popping', lastPopped')
  <2>1. ASSUME NEW i \in 1 .. l - n, popping' PROVE queue'[i].sequence >= lastPopped'
    <3>1. queue'[i] = queue[n + i] /\ n + i \in 1 .. l
      BY <1>1, <1>7
    <3>2. CASE n > 0
      <4>1. n \in 1 .. l /\ n < n + i
        BY <1>1, <3>2
      <4>2. queue[n].sequence <= queue[n + i].sequence
        BY Zenon, <1>5, <3>1, <4>1
      <4> QED BY Zenon, <1>2, <1>4, <3>1, <3>2, <4>1, <4>2
    <3>3. CASE ~(n > 0)
      BY Zenon, <1>2, <1>6, <2>1, <3>1, <3>3
    <3> QED BY Zenon, <3>2, <3>3
  <2> QED BY Zenon, <1>8, <2>1 DEF NothingOlder
<1>14. \A i, j \in DOMAIN handed' : i < j => handed'[i] <= handed'[j]
  BY Zenon, <1>5, <1>9
<1>15. \A i \in DOMAIN handed' : popping => handed'[i] >= lastPopped
  BY Zenon, <1>6, <1>9
<1> QED BY Zenon, <1>11, <1>12, <1>13, <1>14, <1>15 DEF JitterInv

\* reset empties the jitter buffer.
LEMMA JitterResets ==
  ASSUME ResetJitter
  PROVE  JitterInv'
<1>1. queue' \in Seq(Entries) /\ Len(queue') = 0 /\ handed' \in Seq(FrameSet) /\ DOMAIN queue' = {}
  BY EmptySeq DEF ResetJitter
<1>2. 0 \in FrameSet /\ 0 <= 2 * HighWatermark
  BY JitterAssumption DEF FrameSet
<1> QED BY Zenon, <1>1, <1>2 DEF ResetJitter, JitterInv, JitterTypeOK, Sorted, NothingOlder

\* Waiting changes no number and no order.
LEMMA JitterWaits ==
  ASSUME JitterInv, Wait
  PROVE  JitterInv'
<1>1. queue \in Seq(Entries) /\ Len(queue) \in Nat /\ DOMAIN queue = 1 .. Len(queue)
  BY Zenon, LenProperties DEF JitterInv, JitterTypeOK
<1>2. \A k \in DOMAIN queue : Age(queue[k]) \in Entries /\ Age(queue[k]).sequence = queue[k].sequence
  <2> SUFFICES ASSUME NEW x \in Entries PROVE Age(x) \in Entries /\ Age(x).sequence = x.sequence
    BY Zenon, <1>1, ElementOfSeq
  <2> QED BY JitterAssumption DEF Age, Entries
<1>3. queue' = [k \in 1 .. Len(queue) |-> Age(queue[k])]
  BY Zenon, <1>1 DEF Wait
<1>4. queue' \in Seq(Entries) /\ Len(queue') = Len(queue) /\ DOMAIN queue' = DOMAIN queue
  BY <1>1, <1>2, <1>3
<1>5. \A k \in DOMAIN queue : queue'[k].sequence = queue[k].sequence
  BY Zenon, <1>1, <1>2, <1>3
<1>6. handed' \in Seq(FrameSet) /\ popping' = popping /\ lastPopped' = lastPopped
  BY Zenon, EmptySeq DEF Wait
<1>7. JitterTypeOK'
  BY Zenon, <1>4, <1>6 DEF JitterInv, JitterTypeOK
<1>8. Sorted(queue') /\ NothingOlder(queue', popping', lastPopped')
  BY <1>4, <1>5, <1>6 DEF JitterInv, Sorted, NothingOlder
<1> QED BY Zenon, <1>7, <1>8 DEF JitterInv

\* What a poll may hand to the decoder.
InOrder ==
  /\ \A i, j \in DOMAIN handed' : i < j => handed'[i] <= handed'[j]
  /\ \A i \in DOMAIN handed' : popping => handed'[i] >= lastPopped

\* Every operation keeps the jitter buffer's invariant and pops in order.
LEMMA JitterSteps ==
  ASSUME JitterInv, [JitterNext]_jitterVars
  PROVE  JitterInv' /\ (InOrder \/ UNCHANGED jitterVars)
<1>1. ASSUME NEW seq \in FrameSet, Push(seq) PROVE JitterInv' /\ handed' = <<>>
  <2>1. handed' = <<>> /\ handed' \in Seq(FrameSet)
    BY Zenon, <1>1, EmptySeq DEF Push
  <2>2. CASE PushTooLate(seq)
    BY Zenon, <2>1, <2>2 DEF PushTooLate, JitterInv, JitterTypeOK, Sorted, NothingOlder
  <2>3. CASE PushQueued(seq)
    BY Zenon, <2>1, <2>3, JitterPushes
  <2> QED BY Zenon, <1>1, <2>1, <2>2, <2>3 DEF Push
<1>2. handed' = <<>> => InOrder
  BY DEF InOrder
<1>3. CASE Pop
  BY Zenon, <1>3, JitterPops DEF InOrder
<1>4. CASE ResetJitter
  BY Zenon, <1>2, <1>4, JitterResets DEF ResetJitter
<1>5. CASE Wait
  BY Zenon, <1>2, <1>5, JitterWaits DEF Wait
<1>6. CASE UNCHANGED jitterVars
  BY Zenon, <1>6 DEF jitterVars, JitterInv, JitterTypeOK, Sorted, NothingOlder
<1> QED BY Zenon, <1>1, <1>2, <1>3, <1>4, <1>5, <1>6 DEF JitterNext

\* JitterBuffer::push and pop: the queue stays within twice the high
\* watermark.
THEOREM JitterBounded == JitterSpec => []JitterTypeOK
<1>1. JitterInv /\ [JitterNext]_jitterVars => JitterInv'
  BY Zenon, JitterSteps
<1>2. JitterInv => JitterTypeOK
  BY Zenon DEF JitterInv
<1> QED BY <1>1, <1>2, JitterStarts, PTL DEF JitterSpec

\* JitterBuffer::pop: frames reach the decoder in sequence order, within a
\* poll and from poll to poll, whatever was pushed in whatever order.
THEOREM FramesPopInOrder == JitterSpec => PopsInOrder
<1>1. JitterInv /\ [JitterNext]_jitterVars => JitterInv'
  BY Zenon, JitterSteps
<1>2. JitterInv /\ [JitterNext]_jitterVars => [InOrder]_jitterVars
  BY Zenon, JitterSteps
<1>3. JitterSpec => [][InOrder]_jitterVars
  BY <1>1, <1>2, JitterStarts, PTL DEF JitterSpec
<1> QED BY Zenon, <1>3 DEF PopsInOrder, InOrder

-------------------------------------------------------------------------------
(***************************************************************************)
(* MediaReceiver.  The receive path keeps the invariants of its parts.     *)
(***************************************************************************)

\* Fragments under way belong to frames that were sent.
OnlySent == \A h \in Fragments : packets[h] > 0 => h.sequence <= MaxSent

\* The inductive invariant of the receive path.
ReceiverInv ==
  /\ TrackerInv /\ ReassemblyInv /\ JitterInv
  /\ nextSequence \in 0 .. MaxSent + 1 /\ packets \in [Fragments -> Nat] /\ sinceRequest \in 0 .. MaxSince
  /\ OnlySent

\* The receive path's invariant implies its types.
LEMMA ReceiverSafe ==
  ASSUME ReceiverInv
  PROVE  ReceiverTypeOK
BY Zenon DEF ReceiverInv, ReceiverTypeOK, TrackerInv, ReassemblyInv, JitterInv

\* The number of a fragment that was sent is one the parts know.
LEMMA SentNumbers ==
  ASSUME ReceiverInv, NEW h \in Fragments, packets[h] > 0
  PROVE  h.sequence \in Sequences /\ h.sequence \in FrameSet
<1>1. h.sequence \in FrameNumbers /\ h.sequence <= MaxSent
  BY Zenon, FragmentFields DEF ReceiverInv, OnlySent
<1>2. MaxSent \in Nat /\ MaxSent <= MaxSequence /\ MaxSent <= MaxFrame /\ MaxSequence \in Nat /\ MaxFrame \in Nat
  BY StreamAssumption, SequenceAssumption, JitterAssumption, StartedAssumption DEF FrameNumbers
<1> QED BY <1>1, <1>2, StartedAssumption DEF FrameNumbers, Sequences, FrameSet

\* The receive path's invariant holds at the start.
LEMMA ReceiverStarts ==
  ASSUME TrackerInit, ReassemblyInit, JitterInit, StreamInit
  PROVE  ReceiverInv
<1>1. TrackerInv /\ ReassemblyInv /\ JitterInv
  BY Zenon, TrackerStarts, ReassemblyInitInv, JitterStarts
<1>2. nextSequence \in 0 .. MaxSent + 1 /\ packets \in [Fragments -> Nat] /\ sinceRequest \in 0 .. MaxSince
  BY StreamAssumption, StartedAssumption DEF StreamInit, FrameNumbers
<1>3. OnlySent
  BY DEF StreamInit, OnlySent
<1> QED BY Zenon, <1>1, <1>2, <1>3 DEF ReceiverInv

\* A step of the receive path is a step, or none, of each of its parts, and
\* keeps the invariant.
LEMMA ReceiverSteps ==
  ASSUME ReceiverInv, [ReceiverNext]_receiverVars
  PROVE  ReceiverInv' /\ [JitterNext]_jitterVars /\ [ReassemblyNext]_reassemblyVars
<1>0. /\ TrackerInv /\ ReassemblyInv /\ JitterInv
      /\ nextSequence \in 0 .. MaxSent + 1 /\ packets \in [Fragments -> Nat] /\ sinceRequest \in 0 .. MaxSince
      /\ OnlySent /\ MaxSent \in Nat /\ MaxSince \in Nat
  BY StreamAssumption, StartedAssumption DEF ReceiverInv, FrameNumbers
<1>1. ASSUME UNCHANGED trackerVars PROVE TrackerInv'
  BY Zenon, <1>0, <1>1, TrackerSteps
<1>2. ASSUME UNCHANGED reassemblyVars PROVE ReassemblyInv'
  BY Zenon, <1>0, <1>2, ReassemblyNextInv
<1>3. ASSUME [JitterNext]_jitterVars PROVE JitterInv'
  BY Zenon, <1>0, <1>3, JitterSteps
<1>4. CASE UNCHANGED receiverVars
  <2>1. UNCHANGED trackerVars /\ UNCHANGED reassemblyVars /\ UNCHANGED jitterVars /\ UNCHANGED streamVars
    BY Zenon, <1>4 DEF receiverVars
  <2>2. OnlySent'
    BY Zenon, <1>0, <2>1 DEF streamVars, OnlySent
  <2> QED BY Zenon, <1>0, <1>1, <1>2, <1>3, <2>1, <2>2 DEF ReceiverInv, streamVars
<1>5. CASE SendFrame
  <2>1. UNCHANGED trackerVars /\ UNCHANGED reassemblyVars /\ UNCHANGED jitterVars
    BY Zenon, <1>5 DEF SendFrame
  <2>2. PICK made \in [FragmentsSent(nextSequence) -> 0 .. MaxCopies[nextSequence]] :
          packets' = [h \in Fragments |-> IF h \in DOMAIN made THEN made[h] ELSE packets[h]]
    BY Zenon, <1>5 DEF SendFrame
  <2>3. nextSequence \in 0 .. MaxSent /\ nextSequence' \in 0 .. MaxSent + 1
    BY <1>0, <1>5 DEF SendFrame
  <2>4. MaxCopies[nextSequence] \in Nat
    BY Zenon, <2>3, StreamAssumption
  <2>5. \A h \in DOMAIN made : made[h] \in Nat
    BY <2>2, <2>4
  <2>6. packets' \in [Fragments -> Nat]
    BY Zenon, <1>0, <2>2, <2>5
  <2>7. OnlySent'
    <3> SUFFICES ASSUME NEW h \in Fragments, packets'[h] > 0 PROVE h.sequence <= MaxSent
      BY Zenon DEF OnlySent
    <3>1. CASE h \in DOMAIN made
      BY <2>2, <2>3, <3>1, <1>0 DEF FragmentsSent
    <3>2. CASE h \notin DOMAIN made
      BY Zenon, <1>0, <2>2, <3>2 DEF OnlySent
    <3> QED BY Zenon, <3>1, <3>2
  <2>8. sinceRequest' \in 0 .. MaxSince
    BY Zenon, <1>0, <1>5 DEF SendFrame
  <2> QED BY Zenon, <1>1, <1>2, <1>3, <2>1, <2>3, <2>6, <2>7, <2>8 DEF ReceiverInv
<1>6. ASSUME NEW h \in Fragments, HandleDatagram(h)
      PROVE  ReceiverInv' /\ [JitterNext]_jitterVars /\ [ReassemblyNext]_reassemblyVars
  <2>1. packets[h] > 0 /\ h.sequence \in Sequences /\ h.sequence \in FrameSet
    BY Zenon, <1>6, SentNumbers DEF HandleDatagram
  <2>2. TrackerInv'
    <3>1. Track(h.sequence)
      BY Zenon, <1>6 DEF HandleDatagram
    <3> QED BY Zenon, <1>0, <2>1, <3>1, TrackerTracks
  <2>3. ReassemblyNext
    BY Zenon, <1>6 DEF HandleDatagram, Completing, Keeping, ReassemblyNext, Feed
  <2>4. ReassemblyInv'
    BY Zenon, <1>0, <2>3, ReassemblyNextInv
  <2>5. [JitterNext]_jitterVars
    BY Zenon, <1>6, <2>1 DEF HandleDatagram, JitterNext
  <2>6. packets' \in [Fragments -> Nat] /\ OnlySent'
    <3>1. packets' = [packets EXCEPT ![h] = packets[h] - 1]
      BY Zenon, <1>6 DEF HandleDatagram
    <3>2. packets[h] - 1 \in Nat
      BY <1>0, <2>1
    <3>3. packets' \in [Fragments -> Nat]
      BY Zenon, <1>0, <3>1, <3>2
    <3>4. \A g \in Fragments : packets'[g] > 0 => packets[g] > 0
      BY Zenon, <1>0, <2>1, <3>1
    <3> QED BY Zenon, <1>0, <3>3, <3>4 DEF OnlySent
  <2>7. sinceRequest' \in 0 .. MaxSince /\ nextSequence' \in 0 .. MaxSent + 1
    <3>1. sinceRequest' = 0 \/ sinceRequest' = sinceRequest
      BY Zenon, <1>6 DEF HandleDatagram, RequestKeyframe
    <3> QED BY <1>0, <1>6, <3>1 DEF HandleDatagram
  <2> QED BY Zenon, <1>3, <2>2, <2>3, <2>4, <2>5, <2>6, <2>7 DEF ReceiverInv
<1>7. CASE PollVideo
  <2>1. /\ UNCHANGED trackerVars /\ UNCHANGED reassemblyVars /\ [JitterNext]_jitterVars
        /\ UNCHANGED nextSequence /\ UNCHANGED packets /\ UNCHANGED sinceRequest
    BY Zenon, <1>7 DEF PollVideo, JitterNext
  <2>2. OnlySent'
    BY Zenon, <1>0, <2>1 DEF OnlySent
  <2> QED BY Zenon, <1>0, <1>1, <1>2, <1>3, <2>1, <2>2 DEF ReceiverInv
<1>8. CASE ReceiverTick
  <2>1. /\ UNCHANGED trackerVars /\ UNCHANGED reassemblyVars /\ [JitterNext]_jitterVars
        /\ UNCHANGED nextSequence /\ UNCHANGED packets
    BY Zenon, <1>8 DEF ReceiverTick, JitterNext
  <2>2. OnlySent'
    BY Zenon, <1>0, <2>1 DEF OnlySent
  <2>3. sinceRequest' \in 0 .. MaxSince
    BY <1>0, <1>8 DEF ReceiverTick
  <2> QED BY Zenon, <1>0, <1>1, <1>2, <1>3, <2>1, <2>2, <2>3 DEF ReceiverInv
<1> QED
  <2>1. \/ SendFrame \/ PollVideo \/ ReceiverTick \/ UNCHANGED receiverVars
        \/ \E h \in Fragments : HandleDatagram(h)
    BY Zenon DEF ReceiverNext
  <2>2. CASE UNCHANGED receiverVars
    BY Zenon, <1>4, <2>2 DEF receiverVars
  <2>3. CASE SendFrame
    BY Zenon, <1>5, <2>3 DEF SendFrame
  <2>4. CASE PollVideo
    BY Zenon, <1>7, <2>4 DEF PollVideo, JitterNext
  <2>5. CASE ReceiverTick
    BY Zenon, <1>8, <2>5 DEF ReceiverTick, JitterNext
  <2> QED BY Zenon, <1>6, <2>1, <2>2, <2>3, <2>4, <2>5
===============================================================================
