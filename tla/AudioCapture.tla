---------------------------- MODULE AudioCapture ----------------------------
(***************************************************************************)
(* The host's sound: WasapiCapture, whose thread opens the device itself   *)
(* and reports the result through a promise, and the Opus encoder that the *)
(* thread feeds.  HostStreamer calls start once and stop once.  A stereo   *)
(* frame is four bytes of sound; bytes are numbered as captured.  A        *)
(* packet's time is the one its frame_ was given; the conversion to        *)
(* microseconds is left out, no receiver reads an audio packet's time.     *)
(***************************************************************************)
EXTENDS Integers, Sequences

CONSTANTS FrameSize,                   \* kOpusFrameSize: stereo frames in a packet
          FifoBytes,                   \* capacity of the FIFO, 15360 in the code
          BlockSizes,                  \* stereo frames of a captured block
          MaxCaptured                  \* bound: stereo frames captured

ASSUME CaptureAssumption ==
  /\ FrameSize \in Nat \ {0} /\ FifoBytes \in Nat /\ MaxCaptured \in Nat
  /\ BlockSizes \subseteq Nat \ {0}

VARIABLES capRunning,                  \* running_
          capOwner,                    \* the calls of start and stop
          capThread,                   \* the capture thread
          capDevices,                  \* captureClient_ and its device are open
          capReport,                   \* the promise: empty, ok, error
          captured,                    \* stereo frames the device delivered
          fed,                         \* stereo frames in the blocks the FIFO took
          fifo,                        \* fifo_: bytes, each with the block it came in
          frame,                       \* frame_->data: the numbers of its bytes
          nextPts,                     \* nextPts_
          sent,                        \* packets sent, in order
          codecFailed                  \* an encode gave up with frames to read

captureVars == <<capRunning, capOwner, capThread, capDevices, capReport, captured, fed, fifo, frame,
                 nextPts, sent, codecFailed>>
encoderVars == <<fed, fifo, frame, nextPts, sent, codecFailed>>

CaptureTypeOK ==
  /\ capRunning \in BOOLEAN /\ capDevices \in BOOLEAN /\ codecFailed \in BOOLEAN
  /\ capOwner \in {"new", "waiting", "joining", "started", "stopping", "stopped", "failed"}
  /\ capThread \in {"none", "init", "failed", "loop", "exited"}
  /\ capReport \in {"empty", "ok", "error"}
  /\ captured \in 0 .. MaxCaptured /\ fed \in 0 .. captured
  /\ Len(fifo) <= FifoBytes /\ nextPts \in 0 .. MaxCaptured

CaptureInit ==
  /\ capRunning = FALSE /\ capOwner = "new" /\ capThread = "none" /\ capDevices = FALSE
  /\ capReport = "empty" /\ captured = 0 /\ fed = 0 /\ fifo = <<>>
  /\ frame = [i \in 1 .. 4 * FrameSize |-> -1] /\ nextPts = 0 /\ sent = <<>> /\ codecFailed = FALSE

-------------------------------------------------------------------------------
(* start and stop *)

StartCapturing ==
  /\ capOwner = "new" /\ capOwner' = "waiting"
  /\ capRunning' = TRUE /\ capThread' = "init"
  /\ UNCHANGED <<capDevices, capReport, captured, encoderVars>>

\* A failed initialisation leaves the interfaces it got open; when only the
\* start of the device failed the capture client is one of them.
InitDevices ==
  /\ capThread = "init"
  /\ \/ capDevices' = TRUE /\ capReport' = "ok" /\ capThread' = "loop"
     \/ capDevices' \in BOOLEAN /\ capReport' = "error" /\ capThread' = "failed"
  /\ UNCHANGED <<capRunning, capOwner, captured, encoderVars>>

\* Fault: the flag is left to start.
ReportFailureOnly ==
  /\ capThread = "failed" /\ capThread' = "loop"
  /\ UNCHANGED <<capRunning, capOwner, capDevices, capReport, captured, encoderVars>>

\* The flag is cleared after the promise was set and before the loop.
ReportFailure ==
  /\ capThread = "failed" /\ capThread' = "loop"
  /\ capRunning' = FALSE
  /\ UNCHANGED <<capOwner, capDevices, capReport, captured, encoderVars>>

StartReads ==
  /\ capOwner = "waiting" /\ capReport # "empty"
  /\ capOwner' = IF capReport = "ok" THEN "started" ELSE "joining"
  /\ UNCHANGED <<capRunning, capThread, capDevices, capReport, captured, encoderVars>>

StartFails ==
  /\ capOwner = "joining" /\ capThread = "exited"
  /\ capOwner' = "failed" /\ capRunning' = FALSE
  /\ UNCHANGED <<capThread, capDevices, capReport, captured, encoderVars>>

StopCapturing ==
  /\ capOwner = "started" /\ capOwner' = "stopping"
  /\ capRunning' = FALSE
  /\ UNCHANGED <<capThread, capDevices, capReport, captured, encoderVars>>

StopJoinsCapture ==
  /\ capOwner = "stopping" /\ capThread = "exited" /\ capOwner' = "stopped"
  /\ UNCHANGED <<capRunning, capThread, capDevices, capReport, captured, encoderVars>>

-------------------------------------------------------------------------------
(* captureThread, with the encoder in its callback *)

\* av_fifo_write of two elements per stereo frame, where an element is one
\* byte: the first half of the block.  Every byte is marked with the stereo
\* frames fed before its block and with it.
Block(n) == [i \in 1 .. 2 * n |-> [byte |-> 4 * captured + i - 1, from |-> fed, to |-> fed + n]]

\* need: two elements per stereo frame.
Need == 2 * FrameSize

\* The FIFO after k reads.
Remaining(bytes, k) == SubSeq(bytes, k * Need + 1, Len(bytes))

\* frame_ after the k-th read: its first half is overwritten.
Filled(bytes, k) ==
  [i \in 1 .. 4 * FrameSize |-> IF i <= Need THEN bytes[(k - 1) * Need + i].byte ELSE frame[i]]

\* Fault: the counter is advanced by need, not by the frame's length.
PtsAfterSamples(k) == nextPts + k * Need

\* nextPts_ after k frames.
PtsAfter(k) == nextPts + k * FrameSize

\* The packet of the k-th frame, with the block its first byte came in.
Packet(bytes, k) ==
  LET first == bytes[(k - 1) * Need + 1]
  IN  [pts |-> PtsAfter(k - 1), data |-> Filled(bytes, k), from |-> first.from, to |-> first.to]

\* encode writes the block and reads as often as a frame is full.  When it
\* gives up, before or after one of the reads, the callback sends nothing.
Encode(n) ==
  LET bytes == fifo \o Block(n)
      full == Len(bytes) \div Need
      Read(k) == /\ fifo' = Remaining(bytes, k)
                 /\ nextPts' = PtsAfter(k)
                 /\ frame' = IF k = 0 THEN frame ELSE Filled(bytes, k)
  IN  /\ Len(bytes) <= FifoBytes
      /\ fed' = fed + n
      /\ \/ /\ Read(full)
            /\ sent' = sent \o [k \in 1 .. full |-> Packet(bytes, k)]
            /\ UNCHANGED codecFailed
         \/ /\ full > 0 /\ \E k \in 0 .. full : Read(k)
            /\ codecFailed' = TRUE /\ UNCHANGED sent

\* A silent block is not passed on, and one the FIFO has no room for is lost.
NotEncoded == UNCHANGED encoderVars

CaptureBlock(n) ==
  /\ capThread = "loop" /\ capRunning
  /\ captured + n <= MaxCaptured /\ captured' = captured + n
  /\ Encode(n) \/ NotEncoded
  /\ UNCHANGED <<capRunning, capOwner, capThread, capDevices, capReport>>

\* The loop sees the flag, and the thread releases its interfaces.
CaptureLoopEnds ==
  /\ capThread = "loop" /\ ~capRunning
  /\ capThread' = "exited" /\ capDevices' = FALSE
  /\ UNCHANGED <<capRunning, capOwner, capReport, captured, encoderVars>>

CaptureThreadSteps == InitDevices \/ ReportFailure \/ CaptureLoopEnds
OwnerSteps == StartReads \/ StartFails \/ StopJoinsCapture

CaptureNext ==
  \/ StartCapturing \/ StopCapturing \/ OwnerSteps \/ CaptureThreadSteps
  \/ \E n \in BlockSizes : CaptureBlock(n)

\* Threads that can go on do so.
CaptureSpec ==
  /\ CaptureInit /\ [][CaptureNext]_captureVars
  /\ WF_captureVars(CaptureThreadSteps) /\ WF_captureVars(OwnerSteps)

-------------------------------------------------------------------------------
\* AudioEncoderOpus::encode counts frames to time its packets and does not
\* drift: across blocks of any size and packets it gives up, the time of a
\* packet lies in the block its first byte came in, times rise, and a full
\* frame waits in the FIFO only after an encode that gave up.
PacketsKeepTime ==
  /\ \A i \in DOMAIN sent : sent[i].from <= sent[i].pts /\ sent[i].pts < sent[i].to
  /\ \A i, j \in DOMAIN sent : i < j => sent[i].pts < sent[j].pts
  /\ Len(fifo) >= Need => codecFailed

\* captureThread uses the capture client only while it is open, and when
\* start has failed or stop has returned the thread is gone with its devices.
CaptureOwnsDevices ==
  /\ capThread = "loop" /\ capRunning => capDevices
  /\ capOwner \in {"failed", "stopped"} => capThread = "exited" /\ ~capDevices

\* WasapiCapture::start returns whether or not the devices open, and stop
\* returns.
CaptureCallsReturn ==
  /\ capOwner = "waiting" ~> capOwner \in {"started", "failed", "stopping"}
  /\ capOwner = "stopping" ~> capOwner = "stopped"

-------------------------------------------------------------------------------
(* Statements of comments, tests and documents that the code does not keep *)

\* AudioCodec.h: the samples fed are buffered and emitted, 960 stereo frames
\* to a packet.  A packet holds consecutive bytes of the sound.
PacketsHoldTheirSamples ==
  \A i \in DOMAIN sent : \A j \in 2 .. 4 * FrameSize : sent[i].data[j] = sent[i].data[j - 1] + 1

\* ROADMAP.md: sound and picture share their time.  Silent blocks take time.
PtsFollowsTime == 2 * nextPts + Len(fifo) = 2 * captured
==============================================================================
