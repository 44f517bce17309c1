----------------------------- MODULE UdpLifecycle -----------------------------
(***************************************************************************)
(* bind and stop of a UDP transport against its io thread and against      *)
(* other threads that send.  The owner calls bind and stop; a control      *)
(* callback may call stop on the io thread itself.  posted is the queue of *)
(* the io context.  A send checks running_, socket_ and havePeer_ on its   *)
(* own thread and then posts to the io context: two steps, with no lock    *)
(* around them.                                                            *)
(***************************************************************************)
EXTENDS Integers, Sequences

CONSTANTS Callers,                     \* other threads that send
          MaxPosted,                   \* bound: length of the queue
          MaxBinds                     \* bound: calls of bind

ASSUME LifecycleAssumption == MaxPosted \in Nat /\ MaxBinds \in Nat

VARIABLES running,                     \* running_
          context,                     \* io_ exists
          socket,                      \* socket_: none, open, closed
          receiving,                   \* an async_receive_from is outstanding
          pingTimer,                   \* pingTimer_: none, armed, idle
          ioThread,                    \* none, running, exited
          posted,
          owner,                       \* what the owner thread is doing
          caller,                      \* what each other thread is doing
          binds, dangling              \* history: a destroyed io context was used

lifeVars == <<running, context, socket, receiving, pingTimer, ioThread, posted,
              owner, caller, binds, dangling>>

LifeTypeOK ==
  /\ running \in BOOLEAN /\ context \in BOOLEAN /\ receiving \in BOOLEAN /\ dangling \in BOOLEAN
  /\ socket \in {"none", "open", "closed"} /\ (context <=> socket # "none")
  /\ pingTimer \in {"none", "armed", "idle"}
  /\ ioThread \in {"none", "running", "exited"}
  /\ posted \in Seq({"send", "close"}) /\ Len(posted) <= MaxPosted + 1
  /\ owner \in {"idle", "joining", "binding"}
  /\ caller \in [Callers -> {"idle", "checked"}]
  /\ binds \in 0 .. MaxBinds

LifeInit ==
  /\ running = FALSE /\ context = FALSE /\ receiving = FALSE /\ dangling = FALSE
  /\ socket = "none" /\ pingTimer = "none" /\ ioThread = "none"
  /\ posted = <<>>
  /\ owner = "idle"
  /\ caller = [t \in Callers |-> "idle"]
  /\ binds = 0

ClosePosted == IF running /\ context THEN Append(posted, "close") ELSE posted

\* stop on the owner's thread, up to the join; bind begins with it.
BeginStop(then) ==
  /\ owner = "idle"
  /\ running' = FALSE
  /\ posted' = ClosePosted
  /\ owner' = then
  /\ UNCHANGED <<context, socket, receiving, pingTimer, ioThread, caller, binds, dangling>>

Bind ==
  /\ binds < MaxBinds
  /\ BeginStop("binding")

Stop == BeginStop("joining")

\* Fault: members are reset while the io thread may still run.
JoinedUnchecked == TRUE

Joined == ioThread \in {"none", "exited"}

Reset ==
  /\ context' = FALSE /\ socket' = "none" /\ pingTimer' = "none"
  /\ ioThread' = IF ioThread = "exited" THEN "none" ELSE ioThread
  /\ posted' = <<>> /\ receiving' = FALSE

FinishStop ==
  /\ owner = "joining" /\ Joined
  /\ Reset
  /\ owner' = "idle"
  /\ UNCHANGED <<running, caller, binds, dangling>>

\* The rest of bind: a fresh context, socket and thread, or nothing at all
\* when the address is taken.
FinishBind ==
  /\ owner = "binding" /\ Joined
  /\ owner' = "idle"
  /\ binds' = binds + 1
  /\ \/ /\ running' = TRUE /\ context' = TRUE /\ socket' = "open"
        /\ ioThread' = "running" /\ receiving' = TRUE
        /\ pingTimer' = "none" /\ posted' = <<>>
     \/ Reset /\ UNCHANGED running
  /\ UNCHANGED <<caller, dangling>>

StartPings ==
  /\ owner = "idle" /\ running /\ context
  /\ pingTimer' = "armed"
  /\ UNCHANGED <<running, context, socket, receiving, ioThread, posted, owner, caller, binds, dangling>>

CloseSocket ==
  /\ socket' = IF socket = "open" THEN "closed" ELSE socket
  /\ pingTimer' = IF pingTimer = "armed" THEN "idle" ELSE pingTimer
  /\ receiving' = FALSE

RunPosted ==
  /\ ioThread = "running" /\ posted # <<>>
  /\ posted' = Tail(posted)
  /\ IF Head(posted) = "close" THEN CloseSocket ELSE UNCHANGED <<socket, pingTimer, receiving>>
  /\ UNCHANGED <<running, context, ioThread, owner, caller, binds, dangling>>

\* stop on the io thread: close, no join.
StopOnIoThread == running' = FALSE /\ CloseSocket

\* A datagram comes; its handler may stop the transport (StreamStop), and
\* the next receive starts only while the transport runs.
Receive ==
  /\ ioThread = "running" /\ receiving
  /\ \/ running /\ StopOnIoThread
     \/ /\ receiving' = running
        /\ UNCHANGED <<running, socket, pingTimer>>
  /\ UNCHANGED <<context, ioThread, posted, owner, caller, binds, dangling>>

\* The ping timer stays armed while the transport runs.
PingTimerFires ==
  /\ ioThread = "running" /\ pingTimer = "armed"
  /\ pingTimer' = IF running THEN "armed" ELSE "idle"
  /\ posted' = IF running /\ Len(posted) < MaxPosted THEN Append(posted, "send") ELSE posted
  /\ UNCHANGED <<running, context, socket, receiving, ioThread, owner, caller, binds, dangling>>

\* io_->run() returns when nothing is outstanding.
IoThreadExits ==
  /\ ioThread = "running" /\ posted = <<>> /\ ~receiving /\ pingTimer # "armed"
  /\ ioThread' = "exited"
  /\ UNCHANGED <<running, context, socket, receiving, pingTimer, posted, owner, caller, binds, dangling>>

SendChecks(t) ==
  /\ caller[t] = "idle"
  /\ running /\ socket # "none"
  /\ caller' = [caller EXCEPT ![t] = "checked"]
  /\ UNCHANGED <<running, context, socket, receiving, pingTimer, ioThread, posted, owner, binds, dangling>>

SendPosts(t) ==
  /\ caller[t] = "checked"
  /\ caller' = [caller EXCEPT ![t] = "idle"]
  /\ posted' = IF context /\ Len(posted) < MaxPosted THEN Append(posted, "send") ELSE posted
  /\ dangling' = (dangling \/ ~context)
  /\ UNCHANGED <<running, context, socket, receiving, pingTimer, ioThread, owner, binds>>

LifeNext ==
  \/ Bind \/ Stop \/ FinishStop \/ FinishBind \/ StartPings
  \/ RunPosted \/ Receive \/ PingTimerFires \/ IoThreadExits
  \/ \E t \in Callers : SendChecks(t) \/ SendPosts(t)

\* The io thread runs and the owner's join returns when it can.
LifeFairness ==
  /\ WF_lifeVars(RunPosted) /\ WF_lifeVars(PingTimerFires /\ ~running) /\ WF_lifeVars(IoThreadExits)
  /\ WF_lifeVars(FinishStop) /\ WF_lifeVars(FinishBind)

LifeSpec == LifeInit /\ [][LifeNext]_lifeVars /\ LifeFairness

-------------------------------------------------------------------------------
\* The io thread never runs on a context, socket or timer that was reset
\* under it.
ThreadKeepsItsContext == ioThread = "running" => context /\ socket # "none"

-------------------------------------------------------------------------------
(* Statements of comments, tests and documents that the code does not keep *)

\* "All public methods are thread-safe": a send never uses a destroyed io
\* context.
SendsAreSafe == ~dangling
===============================================================================
