----------------------------- MODULE MCHostMedia -----------------------------
(***************************************************************************)
(* The parts of one client's media pipeline on the host in one run: the    *)
(* bitrate controller, the encoder's hand-overs between threads, the       *)
(* fitting of the picture, and start and stop of the streamer.  They share *)
(* no state, so each behaviour exercises one part and leaves the others in *)
(* an initial state.  In part "qtstop" only the Qt thread stops the        *)
(* streamer, in part "streamer" the io thread does so too.                 *)
(***************************************************************************)
EXTENDS MCAdaptiveBitrate, VideoEncoder, Letterbox, HostStreamer

VARIABLE part                          \* the part this behaviour exercises

mediaVars == <<part, abrVars, encVars, boxVars, hostVars>>

Parts == {"abr", "encoder", "letterbox", "streamer", "qtstop"}

MCWidths == {1, 2, 3, 5, 8, 9, 17}
MCHeights == {1, 2, 3, 6, 7, 13}

HostMediaInit ==
  /\ part \in Parts
  /\ AbrInit /\ EncInit /\ BoxInit /\ HostInit
  /\ part # "abr" => currentKbps = MinKbps

\* The steps of the streamer that are not the io thread's.
WithoutIo ==
  \/ StartSteps
  \/ StopBegins("qt", FALSE) \/ StopSteps("qt") \/ StopBegins("qt", TRUE)
  \/ LoopEnds \/ LoopRestarts \/ LoopCaptures \/ RequestRestart

Abr == part = "abr" /\ AbrNext /\ UNCHANGED <<part, encVars, boxVars, hostVars>>
Encoder == part = "encoder" /\ EncNext /\ UNCHANGED <<part, abrVars, boxVars, hostVars>>
Box == part = "letterbox" /\ BoxNext /\ UNCHANGED <<part, abrVars, encVars, hostVars>>
Streamer == part = "streamer" /\ HostNext /\ UNCHANGED <<part, abrVars, encVars, boxVars>>
QtStop == part = "qtstop" /\ WithoutIo /\ UNCHANGED <<part, abrVars, encVars, boxVars>>

HostMediaNext == Abr \/ Encoder \/ Box \/ Streamer \/ QtStop

\* The fairness of the part that is exercised, as its module states it.
HostMediaFairness ==
  /\ WF_encVars(part = "encoder" /\ CaptureThread) /\ SF_encVars(part = "encoder" /\ Frame)
  /\ WF_encVars(part = "encoder" /\ KeyframeRequestStores)
  /\ WF_hostVars(part = "qtstop" /\ StartSteps) /\ WF_hostVars(part = "qtstop" /\ LoopEnds)
  /\ WF_hostVars(part = "qtstop" /\ StopSteps("qt")) /\ SF_hostVars(part = "qtstop" /\ StopLocks("qt"))

HostMediaSpec == HostMediaInit /\ [][HostMediaNext]_mediaVars /\ HostMediaFairness

\* Type invariant of all parts: the controller, the encoder, the picture's
\* fitting and the streamer.
HostMediaTypeOK == AbrTypeOK /\ EncTypeOK /\ BoxTypeOK /\ StreamerTypeOK

\* As long as the client sends no StreamStop, a HostStreamer::stop that found
\* the stream running returns, also when start was under way or the capture
\* loop was about to end itself.
QtStopReturns ==
  part = "qtstop" /\ stopper["qt"].pc = "lock" /\ stopper["qt"].was ~> stopper["qt"].pc = "idle"
==============================================================================
