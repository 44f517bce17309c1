--------------------------- MODULE SignalingClient ----------------------------
(***************************************************************************)
(* The client of the signaling server, as the coordinators use it: an      *)
(* object connects (a helper thread dials, the caller waits with a         *)
(* timeout), makes one request and waits five seconds for the reply, stays *)
(* for notifications and is disconnected and destroyed.  The reader thread *)
(* blocks in read_until; readLine waits on readCv_ under readMutex_, while *)
(* running_ changes and readCv_ is notified without it.  The server and    *)
(* the network are external.                                               *)
(***************************************************************************)
EXTENDS Naturals, Sequences

CONSTANT MaxNotices                    \* notifications the server sends

ASSUME SignalingClientAssumption == MaxNotices \in Nat

VARIABLES caller,                      \* where the thread that owns the object is
          dialler, reader,             \* the std::async thread; readerThread_
          socket, running_,             \* socket_, running_
          pending, woken,              \* pendingLine_ is set; readCv_ was notified
          lines, notices, peer,        \* lines under way; notices sent; the server's side
          terminated                   \* a joinable std::thread was destroyed

threadVars == <<dialler, reader>>
handoffVars == <<pending, woken>>
serverVars == <<lines, notices, peer>>
sigVars == <<caller, threadVars, socket, running_, handoffVars, serverVars, terminated>>

Finished == {"refused", "answered"}    \* the request is over

\* Type invariant: the reader exists once the connection is made, and the
\* server answers one request.
SigTypeOK ==
  /\ caller \in {"new", "dialling", "unwinding", "connected", "checking", "blocked",
                 "joining", "joined", "destroyed"} \cup Finished
  /\ dialler \in {"none", "connecting", "ok", "failed"}
  /\ reader \in {"none", "top", "blocked", "exiting", "ended", "joined"}
  /\ socket \in {"none", "open", "shut", "destroyed"}
  /\ running_ \in BOOLEAN /\ pending \in BOOLEAN /\ woken \in BOOLEAN /\ terminated \in BOOLEAN
  /\ peer \in {"up", "asked", "replied", "closed"} /\ notices \in 0 .. MaxNotices
  /\ Len(lines) <= MaxNotices + 1
  /\ \A i \in DOMAIN lines : lines[i] \in {"response", "notification", "session_closed"}
  /\ reader # "none" => dialler = "ok"

SigInit ==
  /\ caller = "new" /\ dialler = "none" /\ reader = "none" /\ socket = "none" /\ running_ = FALSE
  /\ pending = FALSE /\ woken = FALSE /\ lines = <<>> /\ notices = 0 /\ peer = "up"
  /\ terminated = FALSE

Goes(from, to) == caller = from /\ caller' = to

-------------------------------------------------------------------------------
(* connect *)

Connect ==
  /\ Goes("new", "dialling")
  /\ socket' = "open" /\ dialler' = "connecting"
  /\ UNCHANGED <<reader, running_, handoffVars, serverVars, terminated>>

DiallerReturns ==
  /\ dialler = "connecting" /\ dialler' \in {"ok", "failed"}
  /\ UNCHANGED <<caller, reader, socket, running_, handoffVars, serverVars, terminated>>

ConnectSucceeds ==
  /\ Goes("dialling", "connected") /\ dialler = "ok"
  /\ running_' = TRUE /\ reader' = "top"
  /\ UNCHANGED <<dialler, socket, handoffVars, serverVars, terminated>>

ConnectFails ==
  /\ Goes("dialling", "refused") /\ dialler = "failed"
  /\ socket' = "destroyed"
  /\ UNCHANGED <<threadVars, running_, handoffVars, serverVars, terminated>>

\* The socket is closed and destroyed; the future is destroyed on return,
\* and its destructor waits for the helper thread.
ConnectTimesOut ==
  /\ Goes("dialling", "unwinding") /\ dialler = "connecting"
  /\ socket' = "destroyed"
  /\ UNCHANGED <<threadVars, running_, handoffVars, serverVars, terminated>>

FutureWaits ==
  /\ Goes("unwinding", "refused") /\ dialler \in {"ok", "failed"}
  /\ UNCHANGED <<threadVars, socket, running_, handoffVars, serverVars, terminated>>

-------------------------------------------------------------------------------
(* hostRegister and join *)

WriteLine ==
  /\ \/ running_ /\ Goes("connected", "checking") /\ peer' = IF peer = "up" THEN "asked" ELSE peer
     \/ Goes("connected", "refused") /\ UNCHANGED peer
  /\ UNCHANGED <<threadVars, socket, running_, handoffVars, lines, notices, terminated>>

ReadLineTakes ==
  /\ Goes("checking", "answered") /\ pending
  /\ pending' = FALSE
  /\ UNCHANGED <<threadVars, socket, running_, woken, serverVars, terminated>>

ReadLineBlocks ==
  /\ Goes("checking", "blocked") /\ ~pending
  /\ woken' = FALSE
  /\ UNCHANGED <<threadVars, socket, running_, pending, serverVars, terminated>>

ReadLineWakes ==
  /\ woken
  /\ IF running_ THEN Goes("blocked", "checking") ELSE Goes("blocked", "refused")
  /\ UNCHANGED <<threadVars, socket, running_, handoffVars, serverVars, terminated>>

\* For comparison: a closed connection is left to the notification.
ReadLineTimesOutConnected ==
  /\ running_ /\ Goes("blocked", "refused")
  /\ UNCHANGED <<threadVars, socket, running_, handoffVars, serverVars, terminated>>

ReadLineTimesOut ==
  /\ Goes("blocked", "refused")
  /\ UNCHANGED <<threadVars, socket, running_, handoffVars, serverVars, terminated>>

-------------------------------------------------------------------------------
(* readerLoop *)

ReaderTop ==
  /\ reader = "top"
  /\ reader' = IF running_ THEN "blocked" ELSE "exiting"
  /\ UNCHANGED <<caller, dialler, socket, running_, handoffVars, serverVars, terminated>>

\* A line: a response is stashed and the waiter notified, a notification is
\* handled here; session_closed ends the loop.
ReaderReads ==
  /\ reader = "blocked" /\ lines # <<>> /\ socket = "open"
  /\ lines' = Tail(lines)
  /\ pending' = (pending \/ Head(lines) = "response")
  /\ woken' = (woken \/ Head(lines) = "response")
  /\ running_' = (running_ /\ Head(lines) # "session_closed")
  /\ reader' = "top"
  /\ UNCHANGED <<caller, dialler, socket, notices, peer, terminated>>

ReaderFails ==
  /\ reader = "blocked"
  /\ socket = "shut" \/ (peer = "closed" /\ lines = <<>>)
  /\ reader' = "exiting"
  /\ UNCHANGED <<caller, dialler, socket, running_, handoffVars, serverVars, terminated>>

ReaderExits ==
  /\ reader = "exiting" /\ reader' = "ended"
  /\ running_' = FALSE /\ woken' = TRUE
  /\ UNCHANGED <<caller, dialler, socket, pending, serverVars, terminated>>

-------------------------------------------------------------------------------
(* disconnect and the destructor *)

BeginDisconnect ==
  /\ caller \in Finished /\ running_
  /\ running_' = FALSE /\ caller' = "joining"
  /\ socket' = IF socket = "open" THEN "shut" ELSE socket
  /\ UNCHANGED <<threadVars, handoffVars, serverVars, terminated>>

FinishDisconnect ==
  /\ Goes("joining", "joined") /\ reader = "ended"
  /\ reader' = "joined" /\ socket' = "destroyed"
  /\ UNCHANGED <<dialler, running_, handoffVars, serverVars, terminated>>

\* disconnect() of an object that is not running returns at once, and the
\* members are destroyed: a thread that was started and not joined ends the
\* program.
Destroy ==
  /\ caller \in Finished \cup {"joined"} /\ ~running_
  /\ caller' = "destroyed" /\ socket' = "destroyed"
  /\ terminated' = (reader \notin {"none", "joined"})
  /\ UNCHANGED <<threadVars, running_, handoffVars, serverVars>>

-------------------------------------------------------------------------------
(* The server *)

ServerReplies ==
  /\ peer = "asked" /\ peer' = "replied"
  /\ lines' = Append(lines, "response")
  /\ UNCHANGED <<caller, threadVars, socket, running_, handoffVars, notices, terminated>>

ServerNotifies ==
  /\ peer = "replied" /\ notices < MaxNotices
  /\ \E n \in {"notification", "session_closed"} : lines' = Append(lines, n)
  /\ notices' = notices + 1
  /\ UNCHANGED <<caller, threadVars, socket, running_, handoffVars, peer, terminated>>

ServerCloses ==
  /\ dialler = "ok" /\ peer # "closed" /\ peer' = "closed"
  /\ UNCHANGED <<caller, threadVars, socket, running_, handoffVars, lines, notices, terminated>>

CallerSteps == ConnectSucceeds \/ ConnectFails \/ FutureWaits \/ ReadLineTakes \/ ReadLineBlocks
               \/ ReadLineWakes \/ FinishDisconnect
ReaderSteps == ReaderTop \/ ReaderReads \/ ReaderFails \/ ReaderExits
SigNext == \/ Connect \/ DiallerReturns \/ ConnectTimesOut \/ WriteLine \/ ReadLineTimesOut
           \/ BeginDisconnect \/ Destroy \/ CallerSteps \/ ReaderSteps
           \/ ServerReplies \/ ServerNotifies \/ ServerCloses

\* Threads that can run do, a dial ends, and the deadline of readLine passes.
SigFairness == /\ WF_sigVars(CallerSteps) /\ WF_sigVars(ReaderSteps)
               /\ WF_sigVars(DiallerReturns) /\ WF_sigVars(ReadLineTimesOut)

SigSpec == SigInit /\ [][SigNext]_sigVars /\ SigFairness

-------------------------------------------------------------------------------
(* Properties *)

\* A request returns, although the reader changes running_ and notifies
\* without the mutex, so that its last notification may come between the
\* waiter's check and its wait; and a disconnect of a running client returns,
\* since shutting the socket down brings the reader out of its read.
CallsReturn ==
  (caller \in {"checking", "blocked", "joining"}) ~> (caller \in Finished \cup {"joined"})

-----------------------------------------------------------------------------
(* Statements of comments, tests and documents that the code does not keep *)

\* The reader thread is joined before the object and its socket go.
ReaderIsJoined == ~terminated

\* The socket is not destroyed while the helper thread is inside connect.
DiallerKeepsSocket == dialler = "connecting" => socket = "open"
=============================================================================
