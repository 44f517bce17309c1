----------------------------- MODULE MCMediaWire -----------------------------
(***************************************************************************)
(* The media transport's parts in one run: the secure channel, the         *)
(* sequence tracker and the fragment reassembler fed anything at all, the  *)
(* receive path put together, the choice of the path, bind and stop of the *)
(* transport, and the sound threads at its two ends.  They share no state, *)
(* so each behaviour exercises one part and leaves the others in their     *)
(* initial state.                                                          *)
(***************************************************************************)
EXTENDS SecureChannel, MediaReceiver, UdpTransport, UdpLifecycle, AudioCapture, AudioPlayback

VARIABLE part                          \* the part this behaviour exercises

soundVars == <<captureVars, playbackVars>>
wireVars == <<part, channelVars, receiverVars, transportVars, lifeVars, soundVars>>

Parts == {"channel", "tracker", "reassembler", "receiver", "transport", "lifecycle",
          "capture", "playback"}

\* Every second frame needs two datagrams.
MCFragmentsOf == [seq \in 0 .. MaxSent |-> (seq % 2) + 1]

\* The network repeats the fragments of all frames but the last.
MCMaxCopies == [seq \in 0 .. MaxSent |-> IF seq < MaxSent THEN 2 ELSE 1]

WireInit ==
  /\ part \in Parts
  /\ SecInit /\ TrackerInit /\ ReassemblyInit /\ JitterInit /\ StreamInit
  /\ TransportInit /\ LifeInit /\ CaptureInit /\ PlaybackInit
  /\ part # "reassembler" => collecting
  /\ part # "transport" => relayed

Channel ==
  /\ part = "channel" /\ SecNext
  /\ UNCHANGED <<part, receiverVars, transportVars, lifeVars, soundVars>>
Tracker ==
  /\ part = "tracker" /\ TrackerNext
  /\ UNCHANGED <<part, channelVars, reassemblyVars, jitterVars, streamVars, transportVars, lifeVars, soundVars>>
Reassembler ==
  /\ part = "reassembler" /\ ReassemblyNext
  /\ UNCHANGED <<part, channelVars, trackerVars, jitterVars, streamVars, transportVars, lifeVars, soundVars>>
Receiver ==
  /\ part = "receiver" /\ ReceiverNext
  /\ UNCHANGED <<part, channelVars, transportVars, lifeVars, soundVars>>
Transport ==
  /\ part = "transport" /\ TransportNext
  /\ UNCHANGED <<part, channelVars, receiverVars, lifeVars, soundVars>>
Lifecycle ==
  /\ part = "lifecycle" /\ LifeNext
  /\ UNCHANGED <<part, channelVars, receiverVars, transportVars, soundVars>>
Capture ==
  /\ part = "capture" /\ CaptureNext
  /\ UNCHANGED <<part, channelVars, receiverVars, transportVars, lifeVars, playbackVars>>
Playback ==
  /\ part = "playback" /\ PlaybackNext
  /\ UNCHANGED <<part, channelVars, receiverVars, transportVars, lifeVars, captureVars>>

WireNext == Channel \/ Tracker \/ Reassembler \/ Receiver \/ Transport \/ Lifecycle \/ Capture \/ Playback

\* The fairness of the part that is exercised, as its module states it.
WireFairness ==
  /\ WF_receiverVars(part = "receiver" /\ ReceiverTick) /\ WF_receiverVars(part = "receiver" /\ PollVideo)
  /\ WF_transportVars(part = "transport" /\ PingInterval)
  /\ WF_transportVars(part = "transport" /\ SendPingOnce)
  /\ \A d \in Datagrams : d.via = "relay" => WF_transportVars(part = "transport" /\ HandleSourceOf(d))
  /\ WF_lifeVars(part = "lifecycle" /\ RunPosted) /\ WF_lifeVars(part = "lifecycle" /\ IoThreadExits)
  /\ WF_lifeVars(part = "lifecycle" /\ PingTimerFires /\ ~running)
  /\ WF_lifeVars(part = "lifecycle" /\ FinishStop) /\ WF_lifeVars(part = "lifecycle" /\ FinishBind)
  /\ WF_captureVars(part = "capture" /\ CaptureThreadSteps) /\ WF_captureVars(part = "capture" /\ OwnerSteps)
  /\ WF_playbackVars(part = "playback" /\ LoopSteps) /\ WF_playbackVars(part = "playback" /\ RendererSteps)
  /\ WF_playbackVars(part = "playback" /\ StreamerStops)

WireSpec == WireInit /\ [][WireNext]_wireVars /\ WireFairness

\* Type invariant of all parts: SecureChannel, the receive path of
\* UdpTransport and UdpProtocol, the path choice, the lifecycle and the sound.
WireTypeOK ==
  SecTypeOK /\ ReceiverTypeOK /\ TransportTypeOK /\ LifeTypeOK /\ CaptureTypeOK /\ PlaybackTypeOK

\* Sound stays in step: the time AudioEncoderOpus gives a packet is that of the
\* block its sound came in, WasapiCapture uses its devices only while they
\* are open, and what waits in WasapiPlayer is the newest 400 ms.
SoundStaysInStep == PacketsKeepTime /\ CaptureOwnsDevices /\ BacklogIsNewest

\* The calls around the sound threads return: WasapiCapture::start and stop,
\* ClientStreamer::stop, and decodeLoop comes back to its stall watchdog.
SoundThreadsEnd ==
  /\ part = "capture" => CaptureCallsReturn
  /\ part = "playback" => StallAsksAgain /\ StreamerStopReturns
==============================================================================
