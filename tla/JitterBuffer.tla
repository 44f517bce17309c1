----------------------------- MODULE JitterBuffer -----------------------------
(***************************************************************************)
(* JitterBuffer: whole frames of one media stream wait here for the decode *)
(* thread.  push takes whatever frame the reassembler hands up, in any     *)
(* order and any number of times; pop is the poll of the decode thread.    *)
(* Time is in milliseconds, the code counts nanoseconds; entries older     *)
(* than MaxWait all look alike.                                            *)
(***************************************************************************)
EXTENDS Integers, Sequences, FiniteSets

CONSTANTS TargetMs,                    \* targetMs_
          HighWatermark,               \* kHighWatermark, 8
          MaxFrame,                    \* bound: frame numbers 0 .. MaxFrame
          MaxWait                      \* bound: waits told apart, above TargetMs

ASSUME JitterAssumption ==
  /\ TargetMs \in Nat /\ HighWatermark \in Nat \ {0} /\ MaxFrame \in Nat
  /\ MaxWait \in Nat /\ MaxWait >= TargetMs

FrameSet == 0 .. MaxFrame
NsPerMs == 1000000

\* handed is history: the frames the last pop gave the decoder, in order.
VARIABLES queue, lastPopped, popping, handed

jitterVars == <<queue, lastPopped, popping, handed>>

Entries == [sequence : FrameSet, waited : 0 .. MaxWait]

JitterTypeOK ==
  /\ queue \in Seq(Entries)
  /\ Len(queue) <= 2 * HighWatermark
  /\ lastPopped \in FrameSet
  /\ popping \in BOOLEAN
  /\ handed \in Seq(FrameSet)

JitterInit ==
  /\ queue = <<>>
  /\ lastPopped = 0
  /\ popping = FALSE
  /\ handed = <<>>

TooLate(seq) == popping /\ seq <= lastPopped /\ lastPopped > 0

\* Fault: frames go to the end of the queue.
InsertedLast(q, entry) == Append(q, entry)

\* A new entry goes behind every entry that is not newer.
Inserted(q, entry) ==
  LET older == Cardinality({i \in DOMAIN q : q[i].sequence <= entry.sequence})
  IN  SubSeq(q, 1, older) \o <<entry>> \o SubSeq(q, older + 1, Len(q))

PushTooLate(seq) == TooLate(seq) /\ UNCHANGED <<queue, lastPopped, popping>>

\* Fault: a full queue takes one more frame.
PushUnbounded(seq) ==
  /\ ~TooLate(seq)
  /\ queue' = Inserted(queue, [sequence |-> seq, waited |-> 0])
  /\ UNCHANGED <<lastPopped, popping>>

PushQueued(seq) ==
  /\ ~TooLate(seq)
  /\ queue' = LET room == IF Len(queue) >= 2 * HighWatermark THEN Tail(queue) ELSE queue
              IN  Inserted(room, [sequence |-> seq, waited |-> 0])
  /\ UNCHANGED <<lastPopped, popping>>

Push(seq) == (PushTooLate(seq) \/ PushQueued(seq)) /\ handed' = <<>>

\* The number the k-th entry is compared with when pop reaches it.
Before(k) == IF k = 1 THEN lastPopped ELSE queue[k - 1].sequence
GapAhead(k) == (popping \/ k > 1) /\ queue[k].sequence > Before(k) + 1

\* Fault: a frame waits for the one before it however long that takes.
ReadyInSequence(k) ==
  \/ ~GapAhead(k) /\ queue[k].waited >= TargetMs
  \/ Len(queue) - k + 1 > HighWatermark

\* Half the target is compared with a wait in nanoseconds.
Ready(k) ==
  \/ queue[k].waited >= TargetMs
  \/ Len(queue) - k + 1 > HighWatermark
  \/ GapAhead(k) /\ queue[k].waited * NsPerMs >= TargetMs \div 2

\* pop takes entries from the front up to the first that is not ready.
PopCount ==
  CHOOSE n \in 0 .. Len(queue) :
    /\ \A k \in 1 .. n : Ready(k)
    /\ n < Len(queue) => ~Ready(n + 1)

Pop ==
  /\ handed' = [k \in 1 .. PopCount |-> queue[k].sequence]
  /\ queue' = SubSeq(queue, PopCount + 1, Len(queue))
  /\ lastPopped' = IF PopCount > 0 THEN queue[PopCount].sequence ELSE lastPopped
  /\ popping' = (popping \/ PopCount > 0)

ResetJitter ==
  /\ queue' = <<>> /\ lastPopped' = 0 /\ popping' = FALSE
  /\ handed' = <<>>

Age(entry) == [entry EXCEPT !.waited = IF @ < MaxWait THEN @ + 1 ELSE @]
Wait ==
  /\ queue' = [k \in DOMAIN queue |-> Age(queue[k])]
  /\ handed' = <<>>
  /\ UNCHANGED <<lastPopped, popping>>

JitterNext ==
  \/ \E seq \in FrameSet : Push(seq)
  \/ Pop
  \/ ResetJitter
  \/ Wait

JitterSpec == JitterInit /\ [][JitterNext]_jitterVars

------------------------------------------------------------------------------
\* Frames reach the decoder in sequence order: neither within one poll nor
\* from poll to poll does a frame follow a newer one, whatever the order of
\* arrival.
PopsInOrder ==
  [][/\ \A i, j \in DOMAIN handed' : i < j => handed'[i] <= handed'[j]
     /\ \A i \in DOMAIN handed' : popping => handed'[i] >= lastPopped]_jitterVars

-------------------------------------------------------------------------------
(* Statements of comments, tests and documents that the code does not keep *)

\* The comment on pop: a frame leaves once it has waited the target delay or
\* the buffer is over its high watermark.
PopsAfterTarget ==
  [][handed' # handed => \A i \in DOMAIN handed' :
       queue[i].waited >= TargetMs \/ Len(queue) - i + 1 > HighWatermark]_jitterVars
===============================================================================
