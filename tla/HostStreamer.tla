----------------------------- MODULE HostStreamer -----------------------------
(***************************************************************************)
(* start and stop of one client's media pipeline.  The coordinator's init  *)
(* worker runs start; stop is called by the Qt thread (the client left, an *)
(* error, the destructor) and by the UDP io thread (the client's           *)
(* StreamStop datagram).  stopMutex_ is held through start and through     *)
(* stop after its first step; stop joins the capture thread, and stopping  *)
(* the transport from another thread joins the io thread.                  *)
(***************************************************************************)
EXTENDS Integers

CONSTANTS Stoppers,                    \* threads that call stop: subset of {"qt", "io"}
          MaxFailures,                 \* kMaxConsecutiveCaptureFailures
          MaxStops                     \* bound: calls of stop

ASSUME StreamerAssumption ==
  "qt" \in Stoppers /\ Stoppers \subseteq {"qt", "io"} /\ MaxFailures \in Nat \ {0} /\ MaxStops \in Nat

VARIABLES running,                     \* running_
          stopMutex,                   \* stopMutex_: its holder, or free
          transport, capture, encoder, audio,   \* the members exist
          transportRuns,               \* the transport was not stopped
          captureThread,               \* captureThread_: none, running, exited
          ioThread,                    \* the transport's io thread: none, running
          worker,                      \* start: new, transport, capture, encoder, media, done, failed
          stopper,                     \* stop, per thread: its step and whether it found running_ set
          restartRequested,            \* restartRequested_
          failures,                    \* consecutiveFailures
          stops,                       \* calls of stop so far
          destroyed,                   \* the destructor has returned
          terminated                   \* std::terminate: a joinable thread was destroyed

hostVars == <<running, stopMutex, transport, capture, encoder, audio, transportRuns, captureThread,
              ioThread, worker, stopper, restartRequested, failures, stops, destroyed, terminated>>
threadVars == <<captureThread, ioThread>>
memberVars == <<transport, capture, encoder, audio, transportRuns>>
historyVars == <<stops, destroyed, terminated>>

StreamerTypeOK ==
  /\ running \in BOOLEAN /\ transport \in BOOLEAN /\ capture \in BOOLEAN /\ encoder \in BOOLEAN
  /\ audio \in BOOLEAN /\ transportRuns \in BOOLEAN /\ restartRequested \in BOOLEAN
  /\ destroyed \in BOOLEAN /\ terminated \in BOOLEAN
  /\ stopMutex \in {"free", "worker"} \cup Stoppers
  /\ captureThread \in {"none", "running", "exited"}
  /\ ioThread \in {"none", "running"}
  /\ worker \in {"new", "transport", "capture", "encoder", "media", "done", "failed"}
  /\ stopper \in [Stoppers -> [pc : {"idle", "lock", "join", "teardown", "transport", "reset"},
                               was : BOOLEAN, last : BOOLEAN]]
  /\ failures \in 0 .. MaxFailures - 1 /\ stops \in 0 .. MaxStops + 1

HostInit ==
  /\ running = FALSE /\ stopMutex = "free"
  /\ transport = FALSE /\ capture = FALSE /\ encoder = FALSE /\ audio = FALSE
  /\ transportRuns = FALSE /\ captureThread = "none" /\ ioThread = "none"
  /\ worker = "new" /\ restartRequested = FALSE /\ failures = 0
  /\ stopper = [t \in Stoppers |-> [pc |-> "idle", was |-> FALSE, last |-> FALSE]]
  /\ stops = 0 /\ destroyed = FALSE /\ terminated = FALSE

Alive == ~terminated /\ ~destroyed

-------------------------------------------------------------------------------
(* start, on the init worker. *)

StartBegins ==
  /\ Alive /\ worker = "new" /\ stopMutex = "free"
  /\ stopMutex' = "worker" /\ running' = TRUE /\ worker' = "transport"
  /\ UNCHANGED <<memberVars, threadVars, stopper, restartRequested, failures, historyVars>>

\* A failed step undoes the ones before it.
StartGivesUp ==
  /\ running' = FALSE /\ stopMutex' = "free" /\ worker' = "failed"
  /\ transport' = FALSE /\ transportRuns' = FALSE /\ capture' = FALSE
  /\ UNCHANGED <<encoder, audio, captureThread>>

StartTransport ==
  /\ Alive /\ worker = "transport"
  /\ \/ /\ transport' = TRUE /\ transportRuns' = TRUE /\ ioThread' = "running" /\ worker' = "capture"
        /\ UNCHANGED <<running, stopMutex, capture, encoder, audio, captureThread>>
     \/ StartGivesUp /\ UNCHANGED ioThread
  /\ UNCHANGED <<stopper, restartRequested, failures, historyVars>>

\* Stopping the transport asks its io thread to exit; joining it waits for
\* the handler it is in.
IoJoinable(t) == t # "io" /\ ("io" \in Stoppers => stopper["io"].pc = "idle")

StartCapture ==
  /\ Alive /\ worker = "capture"
  /\ \/ /\ capture' = TRUE /\ worker' = "encoder"
        /\ UNCHANGED <<running, stopMutex, transport, encoder, audio, transportRuns, threadVars>>
     \/ IoJoinable("worker") /\ StartGivesUp /\ ioThread' = "none"
  /\ UNCHANGED <<stopper, restartRequested, failures, historyVars>>

StartEncoder ==
  /\ Alive /\ worker = "encoder"
  /\ \/ /\ encoder' = TRUE /\ worker' = "media"
        /\ UNCHANGED <<running, stopMutex, transport, capture, audio, transportRuns, threadVars>>
     \/ IoJoinable("worker") /\ StartGivesUp /\ ioThread' = "none"
  /\ UNCHANGED <<stopper, restartRequested, failures, historyVars>>

\* STREAM_START, the optional audio path and the capture thread.
StartMedia ==
  /\ Alive /\ worker = "media"
  /\ audio' \in BOOLEAN
  /\ restartRequested' = FALSE
  /\ captureThread' = "running"
  /\ stopMutex' = "free" /\ worker' = "done"
  /\ UNCHANGED <<running, transport, capture, encoder, transportRuns, ioThread, stopper, failures, historyVars>>

-------------------------------------------------------------------------------
(* stop, on thread t. *)

Step(t, step) == stopper' = [stopper EXCEPT ![t].pc = step]

\* Fault: stop leaves the flag to the capture thread.
StopBeginsQuietly(t, last) ==
  /\ Alive /\ stopper[t].pc = "idle" /\ stops < MaxStops + (IF last THEN 1 ELSE 0)
  /\ t = "io" => ioThread = "running" /\ transportRuns /\ ~last
  /\ last => worker \in {"done", "failed"} /\ \A u \in Stoppers : stopper[u].pc = "idle"
  /\ stopper' = [stopper EXCEPT ![t] = [pc |-> "lock", was |-> running, last |-> last]]
  /\ stops' = stops + 1
  /\ UNCHANGED <<running, stopMutex, memberVars, threadVars, worker, restartRequested, failures, destroyed, terminated>>

\* The client's datagram needs a socket that still receives; the destructor
\* runs when the worker's reference is gone and is the last call.
StopBegins(t, last) ==
  /\ Alive /\ stopper[t].pc = "idle" /\ stops < MaxStops + (IF last THEN 1 ELSE 0)
  /\ t = "io" => ioThread = "running" /\ transportRuns /\ ~last
  /\ last => worker \in {"done", "failed"} /\ \A u \in Stoppers : stopper[u].pc = "idle"
  /\ stopper' = [stopper EXCEPT ![t] = [pc |-> "lock", was |-> running, last |-> last]]
  /\ running' = FALSE
  /\ stops' = stops + 1
  /\ UNCHANGED <<stopMutex, memberVars, threadVars, worker, restartRequested, failures, destroyed, terminated>>

StopLocks(t) ==
  /\ Alive /\ stopper[t].pc = "lock" /\ stopMutex = "free"
  /\ stopMutex' = t
  /\ Step(t, "join")
  /\ UNCHANGED <<running, memberVars, threadVars, worker, restartRequested, failures, historyVars>>

NothingLeft == ~audio /\ ~capture /\ ~encoder /\ ~transport

Leave(t) ==
  /\ stopMutex' = "free" /\ Step(t, "idle")
  /\ destroyed' = stopper[t].last

\* Fault: a stop that did not find the stream running leaves at once.
StopJoinsOnlyRunning(t) ==
  /\ Alive /\ stopper[t].pc = "join"
  /\ ~stopper[t].was \/ captureThread # "running"
  /\ IF ~stopper[t].was
     THEN Leave(t) /\ UNCHANGED captureThread
     ELSE Step(t, "teardown") /\ captureThread' = "none" /\ UNCHANGED <<stopMutex, destroyed>>
  /\ UNCHANGED <<running, memberVars, ioThread, worker, restartRequested, failures, stops, terminated>>

\* Fault: the capture thread is not joined.
StopJoinsNothing(t) ==
  /\ Alive /\ stopper[t].pc = "join"
  /\ IF ~stopper[t].was /\ NothingLeft
     THEN Leave(t)
     ELSE Step(t, "teardown") /\ UNCHANGED <<stopMutex, destroyed>>
  /\ UNCHANGED <<running, memberVars, threadVars, worker, restartRequested, failures, stops, terminated>>

\* The join also runs when the capture loop ended by itself.
StopJoins(t) ==
  /\ Alive /\ stopper[t].pc = "join" /\ captureThread # "running"
  /\ captureThread' = "none"
  /\ IF ~stopper[t].was /\ NothingLeft
     THEN Leave(t)
     ELSE Step(t, "teardown") /\ UNCHANGED <<stopMutex, destroyed>>
  /\ UNCHANGED <<running, memberVars, ioThread, worker, restartRequested, failures, stops, terminated>>

StopTearsDown(t) ==
  /\ Alive /\ stopper[t].pc = "teardown"
  /\ audio' = FALSE /\ encoder' = FALSE
  /\ Step(t, IF transport THEN "transport" ELSE "reset")
  /\ UNCHANGED <<running, stopMutex, transport, capture, transportRuns, threadVars, worker,
                 restartRequested, failures, historyVars>>

\* UdpTransport::stop: on the io thread it only closes the socket; any other
\* thread waits for the io thread to leave its handler and exit.
StopTransport(t) ==
  /\ Alive /\ stopper[t].pc = "transport"
  /\ t = "io" \/ IoJoinable(t)
  /\ transportRuns' = FALSE
  /\ ioThread' = IF t = "io" THEN ioThread ELSE "none"
  /\ Step(t, "reset")
  /\ UNCHANGED <<running, stopMutex, transport, capture, encoder, audio, captureThread, worker,
                 restartRequested, failures, historyVars>>

\* setTransport(nullptr) destroys the transport, whose thread must not be
\* joinable any more; on the io thread it still is.
StopResets(t) ==
  /\ Alive /\ stopper[t].pc = "reset"
  /\ transport' = FALSE /\ capture' = FALSE
  /\ terminated' = (ioThread = "running")
  /\ Leave(t)
  /\ UNCHANGED <<running, encoder, audio, transportRuns, threadVars, worker, restartRequested, failures, stops>>

-------------------------------------------------------------------------------
(* The capture thread, one pass or its end. *)

LoopEnds ==
  /\ Alive /\ captureThread = "running" /\ ~running
  /\ captureThread' = "exited"
  /\ UNCHANGED <<running, stopMutex, memberVars, ioThread, worker, stopper, restartRequested, failures, historyVars>>

\* Both attempts of the restart fail: the loop ends itself.
LoopRestarts ==
  /\ Alive /\ captureThread = "running" /\ running /\ restartRequested
  /\ restartRequested' = FALSE
  /\ \/ UNCHANGED <<running, captureThread>>
     \/ running' = FALSE /\ captureThread' = "exited"
  /\ UNCHANGED <<stopMutex, memberVars, ioThread, worker, stopper, failures, historyVars>>

LoopCaptures ==
  /\ Alive /\ captureThread = "running" /\ running /\ ~restartRequested
  /\ \/ failures' = 0 /\ UNCHANGED <<running, captureThread, restartRequested>>
     \/ failures' = 0 /\ restartRequested' = TRUE /\ UNCHANGED <<running, captureThread>>
     \/ /\ failures + 1 < MaxFailures
        /\ failures' = failures + 1
        /\ UNCHANGED <<running, captureThread, restartRequested>>
     \/ /\ failures + 1 = MaxFailures
        /\ running' = FALSE /\ captureThread' = "exited"
        /\ UNCHANGED <<failures, restartRequested>>
  /\ UNCHANGED <<stopMutex, memberVars, ioThread, worker, stopper, historyVars>>

RequestRestart ==
  /\ Alive /\ running /\ ~restartRequested
  /\ restartRequested' = TRUE
  /\ UNCHANGED <<running, stopMutex, memberVars, threadVars, worker, stopper, failures, historyVars>>

StartSteps == StartBegins \/ StartTransport \/ StartCapture \/ StartEncoder \/ StartMedia
StopSteps(t) == StopLocks(t) \/ StopJoins(t) \/ StopTearsDown(t) \/ StopTransport(t) \/ StopResets(t)

HostNext ==
  \/ StartSteps
  \/ \E t \in Stoppers : StopBegins(t, FALSE) \/ StopSteps(t)
  \/ StopBegins("qt", TRUE)
  \/ LoopEnds \/ LoopRestarts \/ LoopCaptures \/ RequestRestart

\* Every thread runs; a mutex that is free again and again is had in the end.
HostFairness ==
  /\ WF_hostVars(StartSteps) /\ WF_hostVars(LoopEnds)
  /\ \A t \in Stoppers : WF_hostVars(StopSteps(t)) /\ SF_hostVars(StopLocks(t))

HostSpec == HostInit /\ [][HostNext]_hostVars /\ HostFairness

-------------------------------------------------------------------------------
\* The capture loop never finds a member reset under it, whichever thread
\* stops the stream and whether or not the loop ended itself before.
CaptureKeepsMembers == captureThread = "running" => transport /\ capture /\ encoder

\* A destroyed streamer left no thread behind and no member alive.
TeardownIsComplete ==
  destroyed => captureThread = "none" /\ ioThread = "none" /\ NothingLeft

-------------------------------------------------------------------------------
(* Statements of comments, tests and documents that the code does not keep *)

\* "Serializes start()/stop()/stats() against each other": every call of stop
\* returns.
StopReturns == \A t \in Stoppers : stopper[t].pc # "idle" ~> stopper[t].pc = "idle"

\* "safe from the io thread": the client's StreamStop does not end the process.
IoStopIsSafe == ~terminated

\* "safe from the io thread": the client's StreamStop hangs neither the io
\* thread nor the thread that stops the stream at the same time.
IoStopReturns ==
  \A t \in Stoppers : stopper[t].pc = "lock" /\ stopper[t].was ~> stopper[t].pc = "idle"
===============================================================================
