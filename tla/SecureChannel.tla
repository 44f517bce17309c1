---------------------------- MODULE SecureChannel ----------------------------
(***************************************************************************)
(* The secure channel of one media session, both ends, over a network that *)
(* loses, repeats and reorders datagrams.  Keys are symbolic: what finish  *)
(* derives is the tuple of what it is derived from.  wire[s] holds every   *)
(* datagram s has sealed, and any of them may reach the peer any number of *)
(* times.  Of a ciphertext only the number its first eight bytes spell is  *)
(* kept (head); AES-GCM may produce any.  opened counts, per end, how      *)
(* often the datagram with a given counter was opened.                     *)
(***************************************************************************)
EXTENDS Integers, FiniteSets

CONSTANTS WindowSize,                  \* replay window, 64 in the code
          MaxCounter,                  \* bound: datagrams sealed per end
          Senders,                     \* ends that have anything to send
          Codes,                       \* session codes the ends may hold
          Headers                      \* datagram headers, bound as AAD

ASSUME WindowAssumption == WindowSize \in Nat \ {0}
ASSUME CounterAssumption == MaxCounter \in Nat

ASSUME SendersAssumption == Senders \subseteq {"host", "client"}

Sides == {"host", "client"}
Peer(s) == IF s = "host" THEN "client" ELSE "host"
Counters == 1 .. MaxCounter
Heads == 0 .. MaxCounter

VARIABLES active, secret, sendCounter,
          recvInit, recvHighest, recvWindow,
          wire, opened

channelVars == <<active, secret, sendCounter, recvInit, recvHighest, recvWindow, wire, opened>>

\* ECDH and HKDF: both ends derive the same secret exactly when they hold
\* the same code; the role picks the send and the receive half of it.
NoSecret == <<>>
hkdfSha256(code) == <<code>>
SendKey(s) == <<secret[s], s>>
RecvKey(s) == <<secret[s], Peer(s)>>

Sealed == [key : {<<hkdfSha256(code), s>> : code \in Codes, s \in Sides},
           counter : Counters, head : Heads, aad : Headers]

SecTypeOK ==
  /\ active \in [Sides -> BOOLEAN]
  /\ secret \in [Sides -> {NoSecret} \cup {hkdfSha256(code) : code \in Codes}]
  /\ sendCounter \in [Sides -> 1 .. MaxCounter + 1]
  /\ recvInit \in [Sides -> BOOLEAN]
  /\ recvHighest \in [Sides -> Heads]
  /\ recvWindow \in [Sides -> [0 .. WindowSize - 1 -> Heads]]
  /\ wire \in [Sides -> SUBSET Sealed]
  /\ opened \in [Sides -> [Counters -> Nat]]

SecInit ==
  /\ active = [s \in Sides |-> FALSE]
  /\ secret = [s \in Sides |-> NoSecret]
  /\ sendCounter = [s \in Sides |-> 1]
  /\ recvInit = [s \in Sides |-> FALSE]
  /\ recvHighest = [s \in Sides |-> 0]
  /\ recvWindow = [s \in Sides |-> [i \in 0 .. WindowSize - 1 |-> 0]]
  /\ wire = [s \in Sides |-> {}]
  /\ opened = [s \in Sides |-> [c \in Counters |-> 0]]

(***************************************************************************)
(* finish is called once on a channel; on a key or salt of the wrong size  *)
(* and on any failure of the provider it leaves the channel inactive.      *)
(***************************************************************************)
Finish(s, code) ==
  /\ secret[s] = NoSecret
  /\ secret' = [secret EXCEPT ![s] = hkdfSha256(code)]
  /\ active' = [active EXCEPT ![s] = TRUE]
  /\ recvHighest' = [recvHighest EXCEPT ![s] = 0]
  /\ recvInit' = [recvInit EXCEPT ![s] = FALSE]
  /\ recvWindow' = [recvWindow EXCEPT ![s] = [i \in 0 .. WindowSize - 1 |-> 0]]
  /\ sendCounter' = [sendCounter EXCEPT ![s] = 1]
  /\ UNCHANGED <<wire, opened>>

\* Fault: the counter may stay as it is, to be given back after a failure.
SealUncounted(s, header, head) ==
  /\ active[s]
  /\ sendCounter[s] <= MaxCounter
  /\ wire' = [wire EXCEPT ![s] = @ \cup
        {[key |-> SendKey(s), counter |-> sendCounter[s], head |-> head, aad |-> header]}]
  /\ sendCounter' \in {sendCounter, [sendCounter EXCEPT ![s] = @ + 1]}
  /\ UNCHANGED <<active, secret, recvInit, recvHighest, recvWindow, opened>>

Seal(s, header, head) ==
  /\ active[s]
  /\ sendCounter[s] <= MaxCounter
  /\ sendCounter' = [sendCounter EXCEPT ![s] = @ + 1]
  /\ wire' = [wire EXCEPT ![s] = @ \cup
        {[key |-> SendKey(s), counter |-> sendCounter[s], head |-> head, aad |-> header]}]
  /\ UNCHANGED <<active, secret, recvInit, recvHighest, recvWindow, opened>>

\* A provider error after the counter was taken: the counter is spent.
SealFails(s) ==
  /\ active[s]
  /\ sendCounter[s] <= MaxCounter
  /\ sendCounter' = [sendCounter EXCEPT ![s] = @ + 1]
  /\ UNCHANGED <<active, secret, recvInit, recvHighest, recvWindow, wire, opened>>

\* Fault: one counter too many counts as inside the window.
IsReplayOffByOne(s, counter) ==
  /\ recvInit[s]
  /\ counter <= recvHighest[s]
  /\ \/ recvHighest[s] - counter > WindowSize
     \/ recvWindow[s][counter % WindowSize] = counter

\* Fault: a slot holding any newer counter is taken for a replay.
IsReplayOccupied(s, counter) ==
  /\ recvInit[s]
  /\ counter <= recvHighest[s]
  /\ \/ recvHighest[s] - counter >= WindowSize
     \/ recvWindow[s][counter % WindowSize] # 0

IsReplay(s, counter) ==
  /\ recvInit[s]
  /\ counter <= recvHighest[s]
  /\ \/ recvHighest[s] - counter >= WindowSize
     \/ recvWindow[s][counter % WindowSize] = counter

\* AES-GCM accepts the key, nonce and header it sealed with, and no other.
Decrypts(s, header, d) ==
  /\ d.key = RecvKey(s)
  /\ d.head = d.counter
  /\ d.aad = header

Open(s, header, d) ==
  /\ active[s]
  /\ ~IsReplay(s, d.head)
  /\ Decrypts(s, header, d)
  /\ recvInit' = [recvInit EXCEPT ![s] = TRUE]
  /\ recvHighest' = [recvHighest EXCEPT ![s] = IF recvInit[s] /\ @ > d.head THEN @ ELSE d.head]
  /\ recvWindow' = [recvWindow EXCEPT ![s][d.head % WindowSize] = d.head]
  /\ opened' = [opened EXCEPT ![s][d.counter] = @ + 1]
  /\ UNCHANGED <<active, secret, sendCounter, wire>>

\* Inactive channel, replay or authentication failure: nothing changes but
\* the statistics.
OpenRefused(s, header, d) ==
  /\ \/ ~active[s]
     \/ IsReplay(s, d.head)
     \/ ~Decrypts(s, header, d)
  /\ UNCHANGED channelVars

SecNext ==
  \/ \E s \in Sides, code \in Codes : Finish(s, code)
  \/ \E s \in Senders, header \in Headers, head \in Heads : Seal(s, header, head)
  \/ \E s \in Senders : SealFails(s)
  \/ \E s \in Sides, header \in Headers : \E d \in wire[Peer(s)] :
       Open(s, header, d) \/ OpenRefused(s, header, d)

SecSpec == SecInit /\ [][SecNext]_channelVars

------------------------------------------------------------------------------
\* d is new to s and recent enough for the window.
Fresh(s, d) ==
  /\ opened[s][d.counter] = 0
  /\ recvInit[s] => recvHighest[s] - d.counter < WindowSize

\* What one direction of the channel promises the transport above it.
ToClient == INSTANCE DatagramService WITH
  Messages <- Counters,
  sent <- {d.counter : d \in wire["host"]},
  deliveries <- opened["client"]
ToHost == INSTANCE DatagramService WITH
  Messages <- Counters,
  sent <- {d.counter : d \in wire["client"]},
  deliveries <- opened["host"]

\* In each direction the channel is a datagram service that never delivers
\* twice: open accepts only what the peer sealed, and each datagram at most
\* once, whatever the network loses, repeats or reorders.
DeliversAtMostOnce == ToClient!ServiceSpec /\ ToHost!ServiceSpec

\* seal never uses a nonce twice under one key: the counter is taken before
\* anything can fail and never given back.
NonceUsedOnce ==
  \A s \in Sides : \A d, e \in wire[s] :
    d.key = e.key /\ d.counter = e.counter => d = e

\* The replay window of open is exact: it refuses a counter that has been
\* opened or is a window or more behind the newest opened, and no other,
\* whatever was lost, repeated or reordered.  This is about the window's
\* memory alone; which number open looks up is FirstOpenSucceeds' concern.
WindowIsExact ==
  \A s \in Sides, c \in Counters :
    IsReplay(s, c) <=> /\ recvInit[s]
                       /\ c <= recvHighest[s]
                       /\ opened[s][c] > 0 \/ recvHighest[s] - c >= WindowSize

------------------------------------------------------------------------------
(* Statements of comments, tests and documents that the code does not keep *)

\* The window test seals a hundred datagrams and wants every one opened: what
\* one end sealed the other opens when both finished with the same code and
\* it arrives for the first time, in the window, with its own header.  open
\* takes the counter from the ciphertext's first bytes, so the window and the
\* nonce are asked about a number the sender never chose.
FirstOpenSucceeds ==
  \A s \in Sides : \A d \in wire[Peer(s)] :
    active[s] /\ secret[s] = secret[Peer(s)] /\ Fresh(s, d)
      => ~IsReplay(s, d.head) /\ Decrypts(s, d.aad, d)
==============================================================================
