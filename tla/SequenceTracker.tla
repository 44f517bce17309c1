--------------------------- MODULE SequenceTracker ---------------------------
(***************************************************************************)
(* SequenceTracker: loss, reorder and duplicate accounting of one media    *)
(* stream.  The argument of track is whatever sequence number the network  *)
(* brings next.  tracked and first are history: every number tracked so    *)
(* far, and the one tracked first.                                         *)
(***************************************************************************)
EXTENDS Integers, FiniteSets

CONSTANTS LateWindow,                  \* kLateWindow and slots of seenWindow_, 64
          MaxSequence,                 \* bound: sequence numbers 0 .. MaxSequence
          MaxCount                     \* bound: late arrivals and duplicates counted

ASSUME LateWindowAssumption == LateWindow \in Nat \ {0}
ASSUME SequenceAssumption == MaxSequence \in Nat /\ MaxCount \in Nat

Sequences == 0 .. MaxSequence
Slots == 0 .. LateWindow - 1

VARIABLES highest, initialized, duplicates, lost, late,
          seenWindow, seenMask,
          tracked, first

trackerVars == <<highest, initialized, duplicates, lost, late, seenWindow, seenMask, tracked, first>>

TrackerTypeOK ==
  /\ highest \in Sequences /\ first \in Sequences
  /\ initialized \in BOOLEAN
  /\ duplicates \in Nat /\ late \in Nat
  /\ lost \in 0 .. MaxSequence
  /\ seenWindow \in [Slots -> Sequences]
  /\ seenMask \subseteq Slots
  /\ tracked \subseteq Sequences

TrackerInit ==
  /\ highest = 0 /\ first = 0
  /\ initialized = FALSE
  /\ duplicates = 0 /\ late = 0 /\ lost = 0
  /\ seenWindow = [i \in Slots |-> 0]
  /\ seenMask = {}
  /\ tracked = {}

Mark(seq) ==
  /\ seenWindow' = [seenWindow EXCEPT ![seq % LateWindow] = seq]
  /\ seenMask' = seenMask \cup {seq % LateWindow}

TrackFirst(seq) ==
  /\ ~initialized
  /\ initialized' = TRUE
  /\ highest' = seq /\ first' = seq
  /\ Mark(seq)
  /\ UNCHANGED <<duplicates, lost, late>>

\* Fault: a gap counts as one lost frame however wide it is.
TrackNewerCountingOnce(seq) ==
  /\ initialized /\ seq > highest
  /\ lost' = lost + (IF seq > highest + 1 THEN 1 ELSE 0)
  /\ highest' = seq
  /\ Mark(seq)
  /\ UNCHANGED <<initialized, duplicates, late, first>>

TrackNewer(seq) ==
  /\ initialized /\ seq > highest
  /\ lost' = lost + (seq - highest - 1)
  /\ highest' = seq
  /\ Mark(seq)
  /\ UNCHANGED <<initialized, duplicates, late, first>>

BelowWindow(seq) == seq + LateWindow < highest

TrackBelowWindow(seq) ==
  /\ initialized /\ seq <= highest
  /\ BelowWindow(seq)
  /\ late' = late + 1
  /\ UNCHANGED <<highest, initialized, duplicates, lost, seenWindow, seenMask, first>>

Seen(seq) == (seq % LateWindow) \in seenMask /\ seenWindow[seq % LateWindow] = seq

TrackDuplicate(seq) ==
  /\ initialized /\ seq <= highest
  /\ ~BelowWindow(seq) /\ Seen(seq)
  /\ duplicates' = duplicates + 1
  /\ UNCHANGED <<highest, initialized, lost, late, seenWindow, seenMask, first>>

TrackReordered(seq) ==
  /\ initialized /\ seq <= highest
  /\ ~BelowWindow(seq) /\ ~Seen(seq)
  /\ Mark(seq)
  /\ late' = late + 1
  /\ UNCHANGED <<highest, initialized, duplicates, lost, first>>

Track(seq) ==
  /\ tracked' = tracked \cup {seq}
  /\ \/ TrackFirst(seq)
     \/ TrackNewer(seq)
     \/ TrackBelowWindow(seq)
     \/ TrackDuplicate(seq)
     \/ TrackReordered(seq)

\* What track returns when it finds frames missing; every other result is
\* at most 1.
Gap(seq) == IF initialized /\ seq > highest THEN seq - highest ELSE 0

ResetTracker ==
  /\ highest' = 0 /\ first' = 0
  /\ initialized' = FALSE
  /\ duplicates' = 0 /\ late' = 0 /\ lost' = 0
  /\ seenWindow' = [i \in Slots |-> 0]
  /\ seenMask' = {}
  /\ tracked' = {}

TrackerNext ==
  \/ \E seq \in Sequences : late + duplicates < MaxCount /\ Track(seq)
  \/ ResetTracker

TrackerSpec == TrackerInit /\ [][TrackerNext]_trackerVars

------------------------------------------------------------------------------
\* Numbers the stream skipped and that never came.
Missing == {seq \in first .. highest : seq \notin tracked}

\* lost is an honest loss count under any reordering: it counts every number
\* that never came, and exceeds that only by arrivals that were late.
LostAccountsForMissing ==
  initialized => /\ Cardinality(Missing) <= lost
                 /\ lost <= Cardinality(Missing) + late

------------------------------------------------------------------------------
(* Statements of comments, tests and documents that the code does not keep *)

\* As the class comments say, the window of recently seen numbers tells a
\* duplicate from a reordered first arrival: whatever was tracked and is not
\* below the window is known to have been seen.
DuplicatesRecognised ==
  \A seq \in tracked : ~BelowWindow(seq) => Seen(seq)
==============================================================================
