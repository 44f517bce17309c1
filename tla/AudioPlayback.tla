---------------------------- MODULE AudioPlayback ----------------------------
(***************************************************************************)
(* The client's side of the media: ClientStreamer's decode thread with its *)
(* stall watchdog, the WasapiPlayer that the first decoded packet starts,  *)
(* the player's render thread, and ClientStreamer::stop on the Qt thread.  *)
(* A packet's decoded samples are one unit, named by the packet's number.  *)
(***************************************************************************)
EXTENDS Integers, Sequences

CONSTANTS QueueCap,                    \* kMaxQueueFrames: packets in 400 ms
          MaxPackets,                  \* bound: audio packets that arrive
          MaxBatch,                    \* bound: audio packets in one poll
          StallTicks                   \* the watchdog's 2 s

ASSUME PlaybackAssumption ==
  QueueCap \in Nat \ {0} /\ MaxPackets \in Nat /\ MaxBatch \in Nat /\ StallTicks \in Nat

VARIABLES streaming,                   \* ClientStreamer::running_
          stopCall,                    \* ClientStreamer::stop
          loop,                        \* where decodeLoop is
          batch,                       \* audioFrames: packets of this pass not yet decoded
          samples,                     \* audioSamples
          arrived,                     \* packets handed to pollAudio so far
          age,                         \* ticks since lastFrameNs; Never before the first frame
          keyframeAsked,               \* the watchdog asked since the last picture
          player,                      \* audioPlayer_ exists
          playing,                     \* WasapiPlayer::running_
          renderer,                    \* the render thread
          renderDevices,               \* the interfaces that are open
          playReport,                  \* the promise: empty, ok, error
          playQueue,                   \* queue_
          pushed                       \* everything pushed to this player, in order

playbackVars == <<streaming, stopCall, loop, batch, samples, arrived, age, keyframeAsked, player,
                  playing, renderer, renderDevices, playReport, playQueue, pushed>>
loopVars == <<loop, batch, samples, arrived, age, keyframeAsked>>
queueVars == <<playQueue, pushed>>
rendererVars == <<playing, renderer, renderDevices, playReport>>

Never == -1

PlaybackTypeOK ==
  /\ streaming \in BOOLEAN /\ player \in BOOLEAN /\ playing \in BOOLEAN
  /\ stopCall \in {"idle", "joining", "player", "done"}
  /\ loop \in {"poll", "audio", "starting", "joining", "exited"}
  /\ arrived \in 0 .. MaxPackets /\ age \in Never .. StallTicks + 1 /\ keyframeAsked \in BOOLEAN
  /\ renderer \in {"none", "init", "render", "exited", "crashed"}
  /\ renderDevices \in {"none", "client", "initialised", "all"} /\ playReport \in {"empty", "ok", "error"}
  /\ Len(playQueue) <= QueueCap

PlaybackInit ==
  /\ streaming = TRUE /\ stopCall = "idle" /\ loop = "poll" /\ batch = <<>> /\ samples = <<>>
  /\ arrived = 0 /\ age = Never /\ keyframeAsked = FALSE
  /\ player = FALSE /\ playing = FALSE /\ renderer = "none" /\ renderDevices = "none"
  /\ playReport = "empty" /\ playQueue = <<>> /\ pushed = <<>>

-------------------------------------------------------------------------------
(* decodeLoop *)

NewestOf(s, n) == IF Len(s) <= n THEN s ELSE SubSeq(s, Len(s) - n + 1, Len(s))

\* WasapiPlayer::push drops the oldest beyond the cap.
PushSamples(s) == playQueue' = NewestOf(playQueue \o s, QueueCap) /\ pushed' = pushed \o s

\* Both polls of a pass.  A decoded picture starts the watchdog's time anew,
\* a rejected one does not.
Poll ==
  /\ loop = "poll" /\ streaming
  /\ \E n \in 0 .. MaxBatch :
       /\ arrived + n <= MaxPackets /\ arrived' = arrived + n
       /\ batch' = [i \in 1 .. n |-> arrived + i]
  /\ samples' = <<>> /\ loop' = "audio"
  /\ \/ age' = 0 /\ keyframeAsked' = FALSE
     \/ UNCHANGED <<age, keyframeAsked>>
  /\ UNCHANGED <<streaming, stopCall, player, rendererVars, queueVars>>

LoopExits ==
  /\ loop = "poll" /\ ~streaming /\ loop' = "exited"
  /\ UNCHANGED <<streaming, stopCall, batch, samples, arrived, age, keyframeAsked, player,
                 rendererVars, queueVars>>

\* The Opus decoder refuses the packet.
AudioRejected ==
  /\ loop = "audio" /\ batch # <<>> /\ batch' = Tail(batch)
  /\ UNCHANGED <<streaming, stopCall, loop, samples, arrived, age, keyframeAsked, player,
                 rendererVars, queueVars>>

\* decode appends to the samples of the pass, and all of them are pushed.
AudioDecoded ==
  /\ loop = "audio" /\ batch # <<>>
  /\ samples' = Append(samples, Head(batch))
  /\ IF player
     THEN PushSamples(samples') /\ batch' = Tail(batch) /\ UNCHANGED <<loop, player, rendererVars>>
     ELSE /\ player' = TRUE /\ playing' = TRUE /\ renderer' = "init" /\ playReport' = "empty"
          /\ pushed' = <<>> /\ loop' = "starting"
          /\ UNCHANGED <<batch, renderDevices, playQueue>>
  /\ UNCHANGED <<streaming, stopCall, arrived, age, keyframeAsked>>

\* WasapiPlayer::start has its answer: the packet is pushed, or start joins
\* the render thread.  It would clear running_ after the join, and the thread
\* ends only when it is cleared: the loop gets no further.
PlayerAnswered ==
  /\ loop = "starting" /\ playReport # "empty"
  /\ IF playReport = "ok"
     THEN PushSamples(samples) /\ batch' = Tail(batch) /\ loop' = "audio"
     ELSE loop' = "joining" /\ UNCHANGED <<batch, queueVars>>
  /\ UNCHANGED <<streaming, stopCall, samples, arrived, age, keyframeAsked, player, rendererVars>>

Watchdog ==
  /\ loop = "audio" /\ batch = <<>> /\ loop' = "poll"
  /\ IF age > StallTicks
     THEN age' = 0 /\ keyframeAsked' = TRUE
     ELSE UNCHANGED <<age, keyframeAsked>>
  /\ UNCHANGED <<streaming, stopCall, batch, samples, arrived, player, rendererVars, queueVars>>

TimePasses ==
  /\ streaming /\ age \in 0 .. StallTicks /\ age' = age + 1
  /\ UNCHANGED <<streaming, stopCall, loop, batch, samples, arrived, keyframeAsked, player,
                 rendererVars, queueVars>>

-------------------------------------------------------------------------------
(* The render thread *)

\* initDevices ends at any of its steps: with no client, with one it could not
\* initialise, with no render service, or with everything but a started device.
OpenDevices ==
  /\ renderer = "init" /\ renderer' = "render"
  /\ \/ renderDevices' = "all" /\ playReport' = "ok"
     \/ /\ renderDevices' \in {"none", "client", "initialised", "all"}
        /\ playReport' = "error"
  /\ UNCHANGED <<streaming, stopCall, loopVars, player, playing, queueVars>>

\* The device has room for n units.  Without a client or a render service the
\* call goes through a null pointer; a client that was not initialised answers
\* with an error.
Render(n) ==
  /\ renderer = "render" /\ playing
  /\ \/ /\ renderDevices = "all"
        /\ playQueue' = SubSeq(playQueue, n + 1, Len(playQueue))
        /\ UNCHANGED renderer
     \/ renderDevices = "client" /\ UNCHANGED <<playQueue, renderer>>
     \/ renderDevices \in {"none", "initialised"} /\ renderer' = "crashed" /\ UNCHANGED playQueue
  /\ UNCHANGED <<streaming, stopCall, loopVars, player, playing, renderDevices, playReport, pushed>>

RenderEnds ==
  /\ renderer = "render" /\ ~playing
  /\ renderer' = "exited" /\ renderDevices' = "none"
  /\ UNCHANGED <<streaming, stopCall, loopVars, player, playing, playReport, queueVars>>

-------------------------------------------------------------------------------
(* ClientStreamer::stop *)

StopStreaming ==
  /\ streaming /\ streaming' = FALSE /\ stopCall' = "joining"
  /\ UNCHANGED <<loopVars, player, rendererVars, queueVars>>

\* The decode thread has ended; a player is told to end.
StopsPlayer ==
  /\ stopCall = "joining" /\ loop = "exited"
  /\ stopCall' = "player" /\ playing' = FALSE
  /\ UNCHANGED <<streaming, loopVars, player, renderer, renderDevices, playReport, queueVars>>

PlayerStopped ==
  /\ stopCall = "player" /\ (player => renderer = "exited")
  /\ stopCall' = "done" /\ player' = FALSE
  /\ playQueue' = <<>> /\ pushed' = <<>>
  /\ UNCHANGED <<streaming, loopVars, rendererVars>>

LoopSteps ==
  \/ Poll \/ LoopExits \/ AudioRejected \/ AudioDecoded \/ PlayerAnswered \/ Watchdog
RendererSteps == OpenDevices \/ RenderEnds
StreamerStops == StopsPlayer \/ PlayerStopped

PlaybackNext ==
  \/ LoopSteps \/ RendererSteps \/ StreamerStops \/ StopStreaming \/ TimePasses
  \/ \E n \in 1 .. QueueCap : Render(n)

\* The loop and the threads that can go on do so.
PlaybackSpec ==
  /\ PlaybackInit /\ [][PlaybackNext]_playbackVars
  /\ WF_playbackVars(LoopSteps) /\ WF_playbackVars(RendererSteps) /\ WF_playbackVars(StreamerStops)

-------------------------------------------------------------------------------
\* s is the end of t.
EndsWith(s, t) ==
  Len(s) <= Len(t) /\ \A i \in 1 .. Len(s) : s[i] = t[Len(t) - Len(s) + i]

\* WasapiPlayer.h, push: what waits for the render thread is always the
\* newest of what was pushed, in order, and never more than 400 ms of it.
BacklogIsNewest == EndsWith(playQueue, pushed) /\ Len(playQueue) <= QueueCap

\* Every stall ends: once pictures have been decoded, a time of 2 s without
\* one makes decodeLoop ask for a keyframe, unless the stream is stopped or
\* the loop is in the start of a player that has no device.
StallAsksAgain ==
  age > StallTicks ~> (keyframeAsked \/ age = 0 \/ ~streaming \/ playReport = "error")

\* ClientStreamer::stop returns, with the render thread and its queue gone,
\* unless a player was starting whose device could not be opened.
StreamerStopReturns ==
  stopCall = "joining" ~> \/ stopCall = "done" /\ renderer \in {"none", "exited"}
                          \/ playReport = "error"

-------------------------------------------------------------------------------
(* Statements of comments, tests and documents that the code does not keep *)

\* ClientStreamer.cpp: "audio playback unavailable" - a player that finds no
\* device makes start return false, and the decode loop goes on.
PlayerStartReturns == loop = "starting" ~> loop \in {"audio", "exited"}

\* decode gives the samples of one packet, and each packet is played once.
PacketsPlayedOnce == \A i, j \in DOMAIN pushed : i < j => pushed[i] < pushed[j]
==============================================================================
