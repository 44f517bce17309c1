----------------------------- MODULE VideoEncoder -----------------------------
(***************************************************************************)
(* The video encoder of one stream and its hand-overs.  The capture thread *)
(* encodes, re-opens the encoder when its bitrate changed and replaces it  *)
(* when a restart was requested.  The Qt thread sets the bitrate and asks  *)
(* for restarts, the UDP io thread asks for keyframes; both take a         *)
(* snapshot of the current encoder and then call it, without a lock around *)
(* the encoder's own fields.  A rate of 0 in opened says that no codec     *)
(* context is open (ctx_ is null).                                         *)
(***************************************************************************)
EXTENDS Integers

CONSTANTS MinRate, MaxRate,            \* std::clamp(kbps, 2000, 50000)
          FirstRate,                   \* the stream's configured bitrate
          AskedRates,                  \* bitrates the Qt thread asks for
          MaxFaults                    \* bound: codec failures and restart requests

ASSUME EncoderAssumption ==
  /\ MinRate \in Nat \ {0} /\ MaxRate \in Nat /\ MinRate <= FirstRate /\ FirstRate <= MaxRate
  /\ FirstRate \in Nat /\ AskedRates \subseteq Nat /\ MaxFaults \in Nat

VARIABLES encs,                        \* every encoder made so far
          current,                     \* encoder_: the current one
          made,                        \* how many were made
          restartFlag,                 \* restartRequested_
          streaming,                   \* running_ of the streamer
          cap,                         \* the capture thread: step and locals
          setter,                      \* the Qt thread inside setBitrate
          io,                          \* the io thread inside requestKeyframe
          faults,                      \* codec failures and restarts so far
          wanted,                      \* history: the rate last asked for
          owed                         \* history: a keyframe was asked for and none sent since

encVars == <<encs, current, made, restartFlag, streaming, cap, setter, io, faults, wanted, owed>>

Encoders == 1 .. MaxFaults + 1
Rates == MinRate .. MaxRate
ClampRate(k) == IF k < MinRate THEN MinRate ELSE IF k > MaxRate THEN MaxRate ELSE k

\* A successful init: the first frame is a keyframe.
Fresh(rate) == [rate |-> rate, opened |-> rate, dirty |-> FALSE, key |-> TRUE]

EncTypeOK ==
  /\ encs \in [Encoders -> [rate : Rates, opened : Rates \cup {0}, dirty : BOOLEAN, key : BOOLEAN]]
  /\ made \in Encoders /\ current \in 1 .. made
  /\ restartFlag \in BOOLEAN /\ streaming \in BOOLEAN /\ owed \in BOOLEAN
  /\ cap \in [pc : {"top", "restart", "open", "snapshot", "capture", "encode", "clear", "send",
                    "apply", "reinit", "reopen", "clean", "ended"},
              enc : 1 .. made, rate : Rates, key : BOOLEAN, tries : 0 .. 1]
  /\ setter \in [pc : {"idle", "call", "stored"}, enc : 1 .. made, kbps : Rates]
  /\ io \in [pc : {"idle", "call"}, enc : 1 .. made]
  /\ faults \in 0 .. MaxFaults /\ wanted \in Rates

EncInit ==
  /\ encs = [e \in Encoders |-> Fresh(FirstRate)]
  /\ current = 1 /\ made = 1
  /\ restartFlag = FALSE /\ streaming = TRUE
  /\ cap = [pc |-> "top", enc |-> 1, rate |-> FirstRate, key |-> FALSE, tries |-> 0]
  /\ setter = [pc |-> "idle", enc |-> 1, kbps |-> FirstRate]
  /\ io = [pc |-> "idle", enc |-> 1]
  /\ faults = 0 /\ wanted = FirstRate /\ owed = FALSE

At(step) == cap.pc = step
Go(step) == cap' = [cap EXCEPT !.pc = step]
Fault == faults < MaxFaults /\ faults' = faults + 1

-------------------------------------------------------------------------------
(* The capture thread. *)

\* The head of the loop takes a pending restart request.
LoopTop ==
  /\ At("top") /\ streaming
  /\ restartFlag' = FALSE
  /\ cap' = [cap EXCEPT !.pc = IF restartFlag THEN "restart" ELSE "snapshot", !.tries = 0]
  /\ UNCHANGED <<encs, current, made, streaming, setter, io, faults, wanted, owed>>

\* performEncoderRestart: the new encoder takes the rate of the current one.
RestartReadsRate ==
  /\ At("restart")
  /\ cap' = [cap EXCEPT !.pc = "open", !.rate = encs[current].rate]
  /\ UNCHANGED <<encs, current, made, restartFlag, streaming, setter, io, faults, wanted, owed>>

RestartSwaps ==
  /\ At("open")
  /\ made' = made + 1 /\ current' = made + 1
  /\ encs' = [encs EXCEPT ![made + 1] = Fresh(cap.rate)]
  /\ Go("snapshot")
  /\ UNCHANGED <<restartFlag, streaming, setter, io, faults, wanted, owed>>

\* No candidate opens: the software encoder is forced and tried once, and
\* then the stream ends.
RestartFails ==
  /\ At("open")
  /\ IF cap.tries = 0
     THEN cap' = [cap EXCEPT !.pc = "restart", !.tries = 1] /\ UNCHANGED streaming
     ELSE cap' = [cap EXCEPT !.pc = "ended"] /\ streaming' = FALSE
  /\ UNCHANGED <<encs, current, made, restartFlag, setter, io, faults, wanted, owed>>

TakeSnapshot ==
  /\ At("snapshot")
  /\ cap' = [cap EXCEPT !.pc = "capture", !.enc = current]
  /\ UNCHANGED <<encs, current, made, restartFlag, streaming, setter, io, faults, wanted, owed>>

\* No new frame in time, or a failed capture: the next pass.
NoFrame ==
  /\ At("capture")
  /\ Go("top")
  /\ UNCHANGED <<encs, current, made, restartFlag, streaming, setter, io, faults, wanted, owed>>

Frame ==
  /\ At("capture")
  /\ Go("encode")
  /\ UNCHANGED <<encs, current, made, restartFlag, streaming, setter, io, faults, wanted, owed>>

\* encode: without a context it fails and asks for a restart; otherwise it
\* reads the keyframe flag.
EncodeBegins ==
  /\ At("encode")
  /\ IF encs[cap.enc].opened = 0
     THEN restartFlag' = TRUE /\ Go("top")
     ELSE /\ cap' = [cap EXCEPT !.pc = "clear", !.key = encs[cap.enc].key]
          /\ UNCHANGED restartFlag
  /\ UNCHANGED <<encs, current, made, streaming, setter, io, faults, wanted, owed>>

\* Fault: the flag is cleared whatever kind of frame is being made.
EncodeClearsAlways ==
  /\ At("clear")
  /\ encs' = [encs EXCEPT ![cap.enc].key = FALSE]
  /\ Go("send")
  /\ UNCHANGED <<current, made, restartFlag, streaming, setter, io, faults, wanted, owed>>

EncodeClears ==
  /\ At("clear")
  /\ encs' = [encs EXCEPT ![cap.enc].key = @ /\ ~cap.key]
  /\ Go("send")
  /\ UNCHANGED <<current, made, restartFlag, streaming, setter, io, faults, wanted, owed>>

EncodeSends ==
  /\ At("send")
  /\ owed' = (owed /\ ~cap.key)
  /\ Go("apply")
  /\ UNCHANGED <<encs, current, made, restartFlag, streaming, setter, io, faults, wanted>>

EncodeFails ==
  /\ At("send") /\ Fault
  /\ restartFlag' = TRUE
  /\ Go("top")
  /\ UNCHANGED <<encs, current, made, streaming, setter, io, wanted, owed>>

\* applyBitrateIfDirty copies the parameters first.
ApplyCopies ==
  /\ At("apply")
  /\ cap' = IF encs[cap.enc].dirty
            THEN [cap EXCEPT !.pc = "reinit", !.rate = encs[cap.enc].rate]
            ELSE [cap EXCEPT !.pc = "top"]
  /\ UNCHANGED <<encs, current, made, restartFlag, streaming, setter, io, faults, wanted, owed>>

\* init: the context is closed and the parameters are the copied ones.
InitCloses ==
  /\ At("reinit")
  /\ encs' = [encs EXCEPT ![cap.enc] = [@ EXCEPT !.rate = cap.rate, !.opened = 0, !.key = TRUE]]
  /\ Go("reopen")
  /\ UNCHANGED <<current, made, restartFlag, streaming, setter, io, faults, wanted, owed>>

InitOpens ==
  /\ At("reopen")
  /\ encs' = [encs EXCEPT ![cap.enc].opened = encs[cap.enc].rate]
  /\ Go("clean")
  /\ UNCHANGED <<current, made, restartFlag, streaming, setter, io, faults, wanted, owed>>

InitFails ==
  /\ At("reopen") /\ Fault
  /\ Go("top")
  /\ UNCHANGED <<encs, current, made, restartFlag, streaming, setter, io, wanted, owed>>

ApplyCleans ==
  /\ At("clean")
  /\ encs' = [encs EXCEPT ![cap.enc].dirty = FALSE]
  /\ Go("top")
  /\ UNCHANGED <<current, made, restartFlag, streaming, setter, io, faults, wanted, owed>>

-------------------------------------------------------------------------------
(* The Qt thread: setBitrate in three steps, and restart requests. *)

\* Fault: the rate is not clamped to what the encoder takes.
SetBitrateUnclamped(k) ==
  /\ setter.pc = "idle" /\ streaming
  /\ setter' = [pc |-> "call", enc |-> current, kbps |-> k]
  /\ wanted' = ClampRate(k)
  /\ UNCHANGED <<encs, current, made, restartFlag, streaming, cap, io, faults, owed>>

SetBitrate(k) ==
  /\ setter.pc = "idle" /\ streaming
  /\ setter' = [pc |-> "call", enc |-> current, kbps |-> ClampRate(k)]
  /\ wanted' = ClampRate(k)
  /\ UNCHANGED <<encs, current, made, restartFlag, streaming, cap, io, faults, owed>>

SetBitrateStores ==
  /\ setter.pc = "call"
  /\ IF encs[setter.enc].rate = setter.kbps
     THEN setter' = [setter EXCEPT !.pc = "idle"] /\ UNCHANGED encs
     ELSE /\ setter' = [setter EXCEPT !.pc = "stored"]
          /\ encs' = [encs EXCEPT ![setter.enc].rate = setter.kbps]
  /\ UNCHANGED <<current, made, restartFlag, streaming, cap, io, faults, wanted, owed>>

SetBitrateMarks ==
  /\ setter.pc = "stored"
  /\ encs' = [encs EXCEPT ![setter.enc].dirty = TRUE]
  /\ setter' = [setter EXCEPT !.pc = "idle"]
  /\ UNCHANGED <<current, made, restartFlag, streaming, cap, io, faults, wanted, owed>>

\* requestEncoderRestart, and requestSoftwareEncoder, which also names the
\* encoder to prefer.
RequestEncoderRestart ==
  /\ streaming /\ Fault
  /\ restartFlag' = TRUE
  /\ UNCHANGED <<encs, current, made, streaming, cap, setter, io, wanted, owed>>

-------------------------------------------------------------------------------
(* The UDP io thread. *)

KeyframeRequest ==
  /\ io.pc = "idle" /\ streaming
  /\ io' = [pc |-> "call", enc |-> current]
  /\ owed' = TRUE
  /\ UNCHANGED <<encs, current, made, restartFlag, streaming, cap, setter, faults, wanted>>

KeyframeRequestStores ==
  /\ io.pc = "call"
  /\ encs' = [encs EXCEPT ![io.enc].key = TRUE]
  /\ io' = [io EXCEPT !.pc = "idle"]
  /\ UNCHANGED <<current, made, restartFlag, streaming, cap, setter, faults, wanted, owed>>

CaptureThread ==
  \/ LoopTop \/ RestartReadsRate \/ RestartSwaps \/ TakeSnapshot \/ Frame
  \/ EncodeBegins \/ EncodeClears \/ EncodeSends
  \/ ApplyCopies \/ InitCloses \/ InitOpens \/ ApplyCleans

Failures == RestartFails \/ NoFrame \/ EncodeFails \/ InitFails

EncNext ==
  \/ CaptureThread \/ Failures
  \/ \E k \in AskedRates : SetBitrate(k)
  \/ SetBitrateStores \/ SetBitrateMarks \/ RequestEncoderRestart
  \/ KeyframeRequest \/ KeyframeRequestStores

\* The capture thread runs; the desktop keeps producing frames, so a capture
\* that is tried again and again gets one; the io thread finishes its call.
EncFairness ==
  /\ WF_encVars(CaptureThread) /\ SF_encVars(Frame) /\ WF_encVars(KeyframeRequestStores)

EncSpec == EncInit /\ [][EncNext]_encVars /\ EncFairness

-------------------------------------------------------------------------------
\* Every keyframe request that finds the stream running is answered by a
\* keyframe, also when the encoder is re-opened or swapped while the request
\* is being stored, when the encode fails, or when the request meets the
\* clearing of the flag; or the stream ends.
KeyframeServed == owed ~> (~owed \/ ~streaming)

-------------------------------------------------------------------------------
(* Statements of comments, tests and documents that the code does not keep *)

\* "Dynamic bitrate target (applied at the next keyframe boundary via encoder
\* re-open": once nothing is pending the codec runs at the rate asked last.
BitrateApplied ==
  At("top") /\ streaming /\ setter.pc = "idle" /\ ~restartFlag /\ ~encs[current].dirty =>
    encs[current].opened = wanted
===============================================================================
