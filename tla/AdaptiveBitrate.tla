--------------------------- MODULE AdaptiveBitrate ---------------------------
(***************************************************************************)
(* The adaptive bitrate controller: one link sample a second moves the     *)
(* target rate of the encoders, with streaks and a cooldown as hysteresis. *)
(* Rates are kbps; loss is in tenths of a percent, fps in percent of the   *)
(* expected rate.  run and since are history variables: the length of the  *)
(* present run of samples of one kind, and the samples since the last      *)
(* change of the rate.                                                     *)
(***************************************************************************)
EXTENDS Integers

CONSTANTS MinKbps, MaxKbps,                     \* range of the target
          DownStreakNeeded, UpStreakNeeded, CooldownSamples,
          Samples,                              \* what the link may look like
          Requests                              \* rates the host may ask for

ASSUME RangeAssumption ==
  /\ MinKbps \in Nat /\ MaxKbps \in Nat
  /\ MinKbps <= MaxKbps

ASSUME ThresholdAssumption ==
  /\ DownStreakNeeded \in Nat \ {0}
  /\ UpStreakNeeded \in Nat \ {0}
  /\ CooldownSamples \in Nat

ASSUME InputAssumption ==
  /\ Samples \subseteq [rtt : Nat, loss : Nat, jitter : Nat, queue : Nat, fps : Nat]
  /\ Requests \subseteq Nat

VARIABLES currentKbps, downStreak, upStreak, cooldown, run, since

abrVars == <<currentKbps, downStreak, upStreak, cooldown, run, since>>

AtMost(bound, n) == IF n < bound THEN n ELSE bound
AtLeast(bound, n) == IF n > bound THEN n ELSE bound
Clamp(n) == AtMost(MaxKbps, AtLeast(MinKbps, n))

\* A longer history tells the properties nothing more.
HistoryCap == AtLeast(UpStreakNeeded, DownStreakNeeded + CooldownSamples)

AbrTypeOK ==
  /\ currentKbps \in MinKbps .. MaxKbps
  /\ downStreak \in 0 .. DownStreakNeeded + CooldownSamples
  /\ upStreak \in 0 .. UpStreakNeeded
  /\ cooldown \in 0 .. CooldownSamples
  /\ run \in [kind : {"bad", "good", "neutral"}, length : 0 .. HistoryCap]
  /\ since \in 0 .. HistoryCap

\* Fault: the controller starts at the rate of the settings, unclamped.
StartAsAsked(kbps) ==
  /\ currentKbps = kbps
  /\ downStreak = 0 /\ upStreak = 0 /\ cooldown = 0

StartAt(kbps) ==
  /\ currentKbps = Clamp(kbps)
  /\ downStreak = 0 /\ upStreak = 0 /\ cooldown = 0

AbrInit ==
  /\ \E kbps \in Requests : StartAt(kbps)
  /\ run = [kind |-> "neutral", length |-> 0]
  /\ since = HistoryCap

IsBad(s) ==
  \/ s.loss >= 20
  \/ s.rtt >= 150
  \/ s.jitter >= 15
  \/ s.queue >= 4
  \/ s.fps > 0 /\ s.fps <= 80

IsGood(s) ==
  /\ s.loss <= 3
  /\ s.rtt <= 150
  /\ s.jitter <= 5
  /\ s.queue < 2
  /\ s.fps > 0 => s.fps >= 95

Kind(s) == IF IsBad(s) THEN "bad" ELSE IF IsGood(s) THEN "good" ELSE "neutral"

StepDown == AtLeast(MinKbps, currentKbps - AtLeast(250, (currentKbps * 15) \div 100))
StepUp == AtMost(MaxKbps, currentKbps + AtLeast(250, (currentKbps * 10) \div 100))

\* The rate takes the value next, which starts a cooldown if it is a new one.
ChangeTo(next, cooled) ==
  /\ currentKbps' = next
  /\ cooldown' = IF next # currentKbps THEN CooldownSamples ELSE cooled

Keep(cooled) ==
  /\ cooldown' = cooled
  /\ UNCHANGED currentKbps

\* Fault: the streak survives the step it caused.
UpdateBadUnreset(cooled) ==
  /\ upStreak' = 0
  /\ downStreak' = AtMost(DownStreakNeeded, downStreak + 1)
  /\ IF downStreak + 1 >= DownStreakNeeded /\ cooled = 0
       THEN ChangeTo(StepDown, cooled)
       ELSE Keep(cooled)

\* A degraded sample.
UpdateBad(cooled) ==
  /\ upStreak' = 0
  /\ IF downStreak + 1 >= DownStreakNeeded /\ cooled = 0
       THEN downStreak' = 0 /\ ChangeTo(StepDown, cooled)
       ELSE downStreak' = downStreak + 1 /\ Keep(cooled)

\* Fault: a step is taken only when the whole of it fits below the ceiling.
UpdateGoodWhole(cooled) ==
  /\ downStreak' = 0
  /\ IF upStreak + 1 >= UpStreakNeeded /\ cooled = 0 /\ StepUp < MaxKbps
       THEN upStreak' = 0 /\ ChangeTo(StepUp, cooled)
       ELSE upStreak' = AtMost(UpStreakNeeded, upStreak + 1) /\ Keep(cooled)

\* A healthy sample.  At the ceiling upStreak_ grows without bound; the code
\* only compares it with upStreakNeeded, so it stops there here.
UpdateGood(cooled) ==
  /\ downStreak' = 0
  /\ IF upStreak + 1 >= UpStreakNeeded /\ cooled = 0 /\ currentKbps < MaxKbps
       THEN upStreak' = 0 /\ ChangeTo(StepUp, cooled)
       ELSE upStreak' = AtMost(UpStreakNeeded, upStreak + 1) /\ Keep(cooled)

\* Fault: a sample in between leaves the streaks as they are.
UpdateNeutralKept(cooled) ==
  /\ UNCHANGED <<downStreak, upStreak>>
  /\ Keep(cooled)

\* A sample in between: both streaks start again.
UpdateNeutral(cooled) ==
  /\ downStreak' = 0
  /\ upStreak' = 0
  /\ Keep(cooled)

Update(s) ==
  LET cooled == IF cooldown > 0 THEN cooldown - 1 ELSE 0
  IN  /\ \/ IsBad(s) /\ UpdateBad(cooled)
         \/ ~IsBad(s) /\ IsGood(s) /\ UpdateGood(cooled)
         \/ ~IsBad(s) /\ ~IsGood(s) /\ UpdateNeutral(cooled)
      /\ run' = [kind   |-> Kind(s),
                 length |-> AtMost(HistoryCap, IF run.kind = Kind(s) THEN run.length + 1 ELSE 1)]
      /\ since' = IF currentKbps' # currentKbps THEN 0 ELSE AtMost(HistoryCap, since + 1)

SetManual(kbps) ==
  /\ currentKbps' = Clamp(kbps)
  /\ downStreak' = 0
  /\ upStreak' = 0
  /\ cooldown' = CooldownSamples
  /\ since' = 0
  /\ UNCHANGED run

Sampled == \E s \in Samples : Update(s)
Requested == \E kbps \in Requests : SetManual(kbps)

AbrNext == Sampled \/ Requested

AbrSpec == AbrInit /\ [][AbrNext]_abrVars

\* The rate leaves its value on a sample only at the end of a full run: down
\* after downStreakNeeded degraded samples in a row, up after upStreakNeeded
\* healthy ones (AdaptiveBitrate::update, the hysteresis of the controller).
StepsFollowStreaks ==
  [][Sampled => /\ currentKbps' < currentKbps =>
                     run'.kind = "bad" /\ run'.length >= DownStreakNeeded
                /\ currentKbps' > currentKbps =>
                     run'.kind = "good" /\ run'.length >= UpStreakNeeded]_abrVars

\* The samples since the last change of the rate, a change by the host
\* included, cover the cooldown and a streak begun afresh before update()
\* changes the rate again.
ChangesAreSpaced ==
  [][Sampled => /\ currentKbps' < currentKbps =>
                     since + 1 >= AtLeast(CooldownSamples, DownStreakNeeded)
                /\ currentKbps' > currentKbps =>
                     since + 1 >= AtLeast(CooldownSamples, UpStreakNeeded)]_abrVars

\* The controller does not stall short of its bounds: once a run of degraded
\* samples is as long as the streak and the cooldown ask for and update() left
\* the rate alone all that time, the rate is at the floor; likewise at the
\* ceiling for a run of healthy ones.
SteadyLinkSettles ==
  /\ LET needed == AtLeast(CooldownSamples, DownStreakNeeded)
     IN  (run.kind = "bad" /\ run.length >= needed /\ since >= needed)
           => currentKbps = MinKbps
  /\ LET needed == AtLeast(CooldownSamples, UpStreakNeeded)
     IN  (run.kind = "good" /\ run.length >= needed /\ since >= needed)
           => currentKbps = MaxKbps

-----------------------------------------------------------------------------
(* Statements of comments, tests and documents that the code does not keep *)

\* What the cooldown test of the controller announces: two changes are a
\* cooldown and a down streak apart.  update() counts the streak during the
\* cooldown.
CooldownThenStreak ==
  [][Sampled /\ currentKbps' < currentKbps =>
       since + 1 >= CooldownSamples + DownStreakNeeded]_abrVars
=============================================================================
