------------------------- MODULE FragmentReassembler -------------------------
(***************************************************************************)
(* FragmentReassembler: fragments of media frames in, whole frames out.    *)
(* The transport has three.  It calls gc right after every feed of the     *)
(* video and the audio one, in the same critical section, so one step does *)
(* both; it never calls gc on the input one.  A fragment is any header the *)
(* decoder lets through, with the payload no longer than sendFrame cuts    *)
(* it; payload bytes are left out, a frame's content is the set of         *)
(* fragments it was put together from.  out is the frame the last call     *)
(* handed up, completed counts the frames handed up per sequence number.   *)
(***************************************************************************)
EXTENDS Integers, FiniteSets, FiniteSetsExt

CONSTANTS MaxInFlight,                 \* kMaxInFlight, 96
          GcAge,                       \* 64 sequence numbers
          MaxStarted,                  \* bound: sequence numbers 0 .. MaxStarted
          FragmentCounts,              \* values of the fragmentCount field
          MaxCompleted                 \* bound: completions counted per frame

ASSUME AgeAssumption == GcAge \in Nat /\ MaxInFlight \in Nat /\ GcAge + 2 <= MaxInFlight
ASSUME StartedAssumption == MaxStarted \in Nat /\ MaxCompleted \in Nat
ASSUME FragmentsAssumption == FragmentCounts \subseteq Nat \ {0}

FrameNumbers == 0 .. MaxStarted
Fragments == {h \in [sequence : FrameNumbers, count : FragmentCounts,
                     index : UNION {0 .. n - 1 : n \in FragmentCounts}] : h.index < h.count}
Buffers == {b \in [count : FragmentCounts, have : SUBSET Nat, received : Nat] :
              b.have \subseteq 0 .. b.count - 1}
NoFrame == [sequence |-> 0, count |-> 0, have |-> {}]

VARIABLES frames, highestStarted, started, out, completed,
          collecting,                  \* gc follows each feed: video and audio
          wild                         \* feed went on with a buffer it had evicted

streamKind == <<collecting, wild>>
reassemblyVars == <<frames, highestStarted, started, out, completed, streamKind>>

ReassemblyTypeOK ==
  /\ DOMAIN frames \subseteq FrameNumbers
  /\ \A q \in DOMAIN frames : frames[q] \in Buffers
  /\ highestStarted \in FrameNumbers
  /\ started \in BOOLEAN /\ collecting \in BOOLEAN /\ wild \in BOOLEAN
  /\ out.sequence \in FrameNumbers /\ out.count \in FragmentCounts \cup {0}
  /\ completed \in [FrameNumbers -> Nat]

ReassemblyInit ==
  /\ frames = [q \in {} |-> 0]
  /\ highestStarted = 0
  /\ started = FALSE
  /\ out = NoFrame
  /\ completed = [q \in FrameNumbers |-> 0]
  /\ collecting \in BOOLEAN
  /\ wild = FALSE

Without(buffers, gone) == [q \in DOMAIN buffers \ gone |-> buffers[q]]

HandUp(h, have) ==
  /\ out' = [sequence |-> h.sequence, count |-> h.count, have |-> have]
  /\ completed' = [completed EXCEPT ![h.sequence] = IF @ < MaxCompleted THEN @ + 1 ELSE @]

\* Fault: only a map with nothing recent in it loses its oldest buffer.
AfterGcOfOne(buffers, newest) ==
  IF DOMAIN buffers # {} /\ newest > Max(DOMAIN buffers) + GcAge
  THEN Without(buffers, {Min(DOMAIN buffers)}) ELSE buffers

\* Buffers more than the age limit behind the newest started frame go.
AfterGc(buffers, newest) ==
  Without(buffers, {q \in DOMAIN buffers : newest > q + GcAge})

\* What a call of the transport leaves of the buffers feed left.
AfterFeed(buffers, newest) == IF collecting THEN AfterGc(buffers, newest) ELSE buffers

FeedUnfragmented(h) ==
  /\ h.count = 1
  /\ HandUp(h, {0})
  /\ frames' = AfterFeed(frames, highestStarted)
  /\ UNCHANGED <<highestStarted, started, streamKind>>

Newest(h) == IF ~started \/ h.sequence > highestStarted THEN h.sequence ELSE highestStarted

Start(h) ==
  /\ highestStarted' = Newest(h)
  /\ started' = TRUE

\* frames_[sequence], with a new buffer when there is none.  When that makes
\* the map outgrow its limit the oldest buffer goes, be it the one just made.
Opened(h) ==
  LET all == [q \in DOMAIN frames \cup {h.sequence} |->
                IF q \in DOMAIN frames THEN frames[q]
                ELSE [count |-> h.count, have |-> {}, received |-> 0]]
  IN  IF h.sequence \notin DOMAIN frames /\ Cardinality(DOMAIN all) > MaxInFlight
      THEN Without(all, {Min(DOMAIN all)})
      ELSE all

\* Fault: a fragment that came before is stored and counted again.
AcceptsUnchecked(h, buffer) == buffer.count = h.count

Accepts(h, buffer) == buffer.count = h.count /\ h.index \notin buffer.have

\* The new buffer was the oldest and went at once.  feed writes on through its
\* reference; what the program does from there on is undefined and not told.
FeedEvicted(h) ==
  /\ h.count > 1
  /\ h.sequence \notin DOMAIN Opened(h)
  /\ Start(h)
  /\ frames' = AfterFeed(Opened(h), Newest(h))
  /\ wild' = TRUE
  /\ UNCHANGED <<out, completed, collecting>>

\* A count that disagrees with the buffer's, or a fragment that came before.
FeedRefused(h) ==
  /\ h.count > 1
  /\ h.sequence \in DOMAIN Opened(h)
  /\ ~Accepts(h, Opened(h)[h.sequence])
  /\ Start(h)
  /\ frames' = AfterFeed(Opened(h), Newest(h))
  /\ UNCHANGED <<out, completed, streamKind>>

Plus(b, h) ==
  [count |-> b.count, have |-> b.have \cup {h.index}, received |-> b.received + 1]

Stored(h) == [Opened(h) EXCEPT ![h.sequence] = Plus(@, h)]

FeedStored(h) ==
  /\ h.count > 1
  /\ h.sequence \in DOMAIN Opened(h)
  /\ Accepts(h, Opened(h)[h.sequence])
  /\ Stored(h)[h.sequence].received # h.count
  /\ Start(h)
  /\ frames' = AfterFeed(Stored(h), Newest(h))
  /\ UNCHANGED <<out, completed, streamKind>>

\* The size check that follows drops no frame: with two fragments or more the
\* total is positive, and it fits when each payload is as sendFrame cuts it.
FeedCompletes(h) ==
  /\ h.count > 1
  /\ h.sequence \in DOMAIN Opened(h)
  /\ Accepts(h, Opened(h)[h.sequence])
  /\ Stored(h)[h.sequence].received = h.count
  /\ HandUp(h, Stored(h)[h.sequence].have)
  /\ Start(h)
  /\ frames' = AfterFeed(Without(Stored(h), {h.sequence}), Newest(h))
  /\ UNCHANGED streamKind

Feed(h) ==
  \/ FeedUnfragmented(h)
  \/ FeedEvicted(h)
  \/ FeedRefused(h)
  \/ FeedStored(h)
  \/ FeedCompletes(h)

ReassemblyNext ==
  ~wild /\ \E h \in Fragments : Feed(h)

ReassemblySpec == ReassemblyInit /\ [][ReassemblyNext]_reassemblyVars

------------------------------------------------------------------------------
\* A frame is handed up only when each of its fragments has arrived, however
\* often and in whatever order they arrive: the received counter of feed
\* never runs ahead of the fragments held.
HandsUpWholeFrames == out.have = 0 .. out.count - 1

\* feed never holds more than kMaxInFlight buffers.  For video and audio gc
\* always leaves room for one more, so the eviction inside feed, which may
\* free the buffer being written, is not reached.  The input reassembler,
\* which is never collected, has only the first half of this.
NeverOverfull ==
  /\ Cardinality(DOMAIN frames) <= MaxInFlight
  /\ collecting => /\ ~wild
                   /\ \A seq \in FrameNumbers : Cardinality(DOMAIN frames \cup {seq}) <= MaxInFlight

------------------------------------------------------------------------------
(* Statements of comments, tests and documents that the code does not keep *)

\* The class comment says duplicate fragments are discarded: no frame is
\* handed up twice.
NoFrameTwice == \A seq \in FrameNumbers : completed[seq] <= 1
==============================================================================
