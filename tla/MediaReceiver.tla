---------------------------- MODULE MediaReceiver ----------------------------
(***************************************************************************)
(* The video path of a UDP transport, from the sender's sendFrame over a   *)
(* network that loses, repeats and reorders to the decode thread's poll:   *)
(* sequence tracker, fragment reassembler and jitter buffer put together   *)
(* as handleDatagram does.  The lock is given up between the reassembler   *)
(* and the jitter buffer, but no other thread touches what the first half  *)
(* changes, so a datagram is handled in one step.  packets counts the      *)
(* copies of each fragment under way; sinceRequest is the time since the   *)
(* last automatic keyframe request.                                        *)
(***************************************************************************)
EXTENDS SequenceTracker, FragmentReassembler, JitterBuffer

CONSTANTS MaxSent,                     \* bound: frames 0 .. MaxSent are sent
          FragmentsOf,                 \* fragments of each frame sent
          MaxCopies,                   \* bound: copies of a frame's fragments
          RequestInterval,             \* 500 ms
          MaxSince                     \* bound: intervals told apart

ASSUME StreamAssumption ==
  /\ MaxSent \in FrameNumbers /\ MaxSent <= MaxSequence /\ MaxSent <= MaxFrame
  /\ FragmentsOf \in [0 .. MaxSent -> FragmentCounts]
  /\ MaxCopies \in [0 .. MaxSent -> Nat]
  /\ RequestInterval \in Nat /\ MaxSince \in Nat /\ MaxSince > RequestInterval

VARIABLES nextSequence, packets, sinceRequest

streamVars == <<nextSequence, packets, sinceRequest>>
receiverVars == <<trackerVars, reassemblyVars, jitterVars, streamVars>>

FragmentsSent(seq) ==
  {h \in Fragments : h.sequence = seq /\ h.count = FragmentsOf[seq]}

ReceiverTypeOK ==
  /\ TrackerTypeOK /\ ReassemblyTypeOK /\ JitterTypeOK
  /\ nextSequence \in 0 .. MaxSent + 1
  /\ packets \in [Fragments -> Nat]
  /\ sinceRequest \in 0 .. MaxSince

StreamInit ==
  /\ nextSequence = 0
  /\ packets = [h \in Fragments |-> 0]
  /\ sinceRequest = MaxSince

ReceiverInit == TrackerInit /\ ReassemblyInit /\ collecting /\ JitterInit /\ StreamInit

\* Every fragment of the frame is posted under one sequence number; the
\* network makes none, one or several copies of each.
SendFrame ==
  /\ nextSequence <= MaxSent
  /\ \E made \in [FragmentsSent(nextSequence) -> 0 .. MaxCopies[nextSequence]] :
       packets' = [h \in Fragments |-> IF h \in DOMAIN made THEN made[h] ELSE packets[h]]
  /\ nextSequence' = nextSequence + 1
  /\ UNCHANGED <<trackerVars, reassemblyVars, jitterVars, sinceRequest>>

\* A gap asks for a keyframe unless one was asked for a moment ago.
RequestKeyframe(seq) ==
  sinceRequest' = IF Gap(seq) > 1 /\ sinceRequest > RequestInterval THEN 0 ELSE sinceRequest

\* The video reassembler is collected: it evicts nothing, so it never becomes
\* wild (NeverOverfull).
Completing(h) == FeedUnfragmented(h) \/ FeedCompletes(h)
Keeping(h) == FeedRefused(h) \/ FeedStored(h)

HandleDatagram(h) ==
  /\ packets[h] > 0 /\ ~wild
  /\ packets' = [packets EXCEPT ![h] = @ - 1]
  /\ Track(h.sequence)
  /\ \/ Completing(h) /\ Push(h.sequence)
     \/ Keeping(h) /\ UNCHANGED jitterVars
  /\ RequestKeyframe(h.sequence)
  /\ UNCHANGED nextSequence

PollVideo ==
  /\ Pop
  /\ UNCHANGED <<trackerVars, reassemblyVars, nextSequence, packets, sinceRequest>>

ReceiverTick ==
  /\ Wait
  /\ sinceRequest' = IF sinceRequest < MaxSince THEN sinceRequest + 1 ELSE sinceRequest
  /\ UNCHANGED <<trackerVars, reassemblyVars, nextSequence, packets>>

ReceiverNext ==
  \/ SendFrame
  \/ \E h \in Fragments : HandleDatagram(h)
  \/ PollVideo
  \/ ReceiverTick

\* Time passes and the decode thread polls.
ReceiverFairness ==
  /\ WF_receiverVars(ReceiverTick)
  /\ WF_receiverVars(PollVideo)

ReceiverSpec == ReceiverInit /\ [][ReceiverNext]_receiverVars /\ ReceiverFairness

------------------------------------------------------------------------------
Held(seq) == \E k \in DOMAIN queue : queue[k].sequence = seq

\* A frame that was put together does not stay in the jitter buffer: it goes
\* to the decoder or, in a backlog, is dropped, even when the frame before it
\* never comes.
HeldFramesLeave == \A seq \in FrameSet : Held(seq) ~> ~Held(seq)
==============================================================================
