------------------------------- MODULE TcpRelay -------------------------------
(***************************************************************************)
(* The TCP relay between a host and one player: the two ends dial with     *)
(* RelayConnectAttempt and adopt the socket for their session when they    *)
(* read relay_paired; server.py runs one handle_relay_tcp coroutine for    *)
(* each, which pairs them by the player's token and pipes bytes.  A step   *)
(* of the server lasts from one await to the next.  The application dials  *)
(* once for each role of a token.  Streams carry the lines of the relay    *)
(* handshake and numbered pieces of the session's own bytes.               *)
(***************************************************************************)
EXTENDS Naturals, Sequences, Functions

CONSTANT MaxData                       \* pieces a session sends

ASSUME TcpRelayAssumption == MaxData \in Nat

VARIABLES attempt, buf,                \* of an end: state of the attempt; replyBuf
          sockOpen,                    \* of an end: its socket is open
          up, down,                    \* streams to and from the server
          srv,                         \* where the end's coroutine awaits
          pair, ready, pairs,          \* the entry's roles, its event; the token is in PAIRS
          kept,                        \* the server has not closed the end's writer
          sentOver, got                \* pieces sent and received by the sessions

endVars == <<attempt, buf, sockOpen>>
pairingVars == <<srv, pair, ready, pairs, kept>>
streamVars == <<up, down>>
dataVars == <<sentOver, got>>
relayVars == <<endVars, pairingVars, streamVars, dataVars>>

Roles == {"host", "client"}
Other(r) == IF r = "host" THEN "client" ELSE "host"
Line(l) == [kind |-> l, n |-> 0]
Piece(n) == [kind |-> "data", n |-> n]
RelayRequests == {Line("relay"), Line("garbled")}
Replies == {Line("accepted"), Line("paired"), Line("rejected")}
Pieces == {Piece(n) : n \in 1 .. MaxData}

\* Type invariant: requests go up and replies down, before session bytes.
RelayTypeOK ==
  /\ attempt \in [Roles -> {"idle", "connecting", "reading", "adopted", "failed", "ended"}]
  /\ srv \in [Roles -> {"none", "hello", "accepted", "waiting", "piping", "closing", "refused", "done"}]
  /\ sockOpen \in [Roles -> BOOLEAN] /\ kept \in [Roles -> BOOLEAN]
  /\ pair \in [Roles -> BOOLEAN] /\ ready \in BOOLEAN /\ pairs \in BOOLEAN
  /\ sentOver \in [Roles -> 0 .. MaxData]
  /\ \A r \in Roles :
       /\ Range(up[r]) \subseteq RelayRequests \cup Pieces
       /\ Range(down[r] \o buf[r]) \subseteq Replies \cup Pieces
       /\ Range(got[r]) \subseteq 0 .. MaxData
       /\ \A i \in 2 .. Len(up[r]) : up[r][i] \in Pieces

RelayInit ==
  /\ attempt = [r \in Roles |-> "idle"] /\ sockOpen = [r \in Roles |-> FALSE]
  /\ buf = [r \in Roles |-> <<>>] /\ up = [r \in Roles |-> <<>>] /\ down = [r \in Roles |-> <<>>]
  /\ srv = [r \in Roles |-> "none"] /\ kept = [r \in Roles |-> FALSE]
  /\ pair = [r \in Roles |-> FALSE] /\ ready = FALSE /\ pairs = TRUE
  /\ sentOver = [r \in Roles |-> 0] /\ got = [r \in Roles |-> <<>>]

-------------------------------------------------------------------------------
(* RelayConnectAttempt *)

Attempt(r, from, to) == attempt[r] \in from /\ attempt' = [attempt EXCEPT ![r] = to]

Start(r) ==
  /\ Attempt(r, {"idle"}, "connecting")
  /\ UNCHANGED <<buf, sockOpen, pairingVars, streamVars, dataVars>>

\* The handshake is written from a string that is gone when the write goes
\* on, so that something else may arrive.
SendHandshake(r) ==
  /\ Attempt(r, {"connecting"}, "reading")
  /\ sockOpen' = [sockOpen EXCEPT ![r] = TRUE]
  /\ \E line \in RelayRequests : up' = [up EXCEPT ![r] = Append(@, line)]
  /\ srv' = [srv EXCEPT ![r] = "hello"] /\ kept' = [kept EXCEPT ![r] = TRUE]
  /\ UNCHANGED <<buf, pair, ready, pairs, down, dataVars>>

RelayConnectFails(r) ==
  /\ Attempt(r, {"connecting"}, "failed")
  /\ UNCHANGED <<buf, sockOpen, pairingVars, streamVars, dataVars>>

TimesOut(r) ==
  /\ Attempt(r, {"connecting", "reading"}, "failed")
  /\ sockOpen' = [sockOpen EXCEPT ![r] = FALSE]
  /\ UNCHANGED <<buf, pairingVars, streamVars, dataVars>>

\* The watchdog of the client's session counts from the clock's epoch until a
\* connection is adopted: it stops the io thread of a dial that outlasts its
\* first period, and the socket stays open.
WatchdogStops ==
  /\ Attempt("client", {"connecting", "reading"}, "failed")
  /\ UNCHANGED <<buf, sockOpen, pairingVars, streamVars, dataVars>>

\* async_read_until: no read if a line is there already, otherwise whatever
\* part of the stream has come is read with the line.
Reads(r) == IF buf[r] # <<>> THEN {0} ELSE 1 .. Len(down[r])

Adopts(line) == line = Line("paired")

\* The bytes behind the pairing line stay in replyBuf; the session goes on
\* with the socket.  An attempt that fails keeps its socket, and the dialler
\* that holds the attempt is kept as well.
ReadReply(r) ==
  /\ attempt[r] = "reading"
  /\ \E n \in Reads(r) :
       LET got1 == buf[r] \o SubSeq(down[r], 1, n)
           line == Head(got1) IN
         /\ buf' = [buf EXCEPT ![r] = Tail(got1)]
         /\ down' = [down EXCEPT ![r] = SubSeq(@, n + 1, Len(@))]
         /\ attempt' = [attempt EXCEPT ![r] = IF line = Line("rejected") THEN "failed"
                                              ELSE IF Adopts(line) THEN "adopted" ELSE @]
  /\ UNCHANGED <<sockOpen, pairingVars, up, dataVars>>

ReplyEnds(r) ==
  /\ Attempt(r, {"reading"}, "failed")
  /\ buf[r] = <<>> /\ down[r] = <<>> /\ ~kept[r]
  /\ UNCHANGED <<buf, sockOpen, pairingVars, streamVars, dataVars>>

-------------------------------------------------------------------------------
(* The sessions on the adopted sockets *)

InSession(r) == attempt[r] = "adopted"

SessionSends(r) ==
  /\ InSession(r) /\ sentOver[r] < MaxData
  /\ sentOver' = [sentOver EXCEPT ![r] = @ + 1]
  /\ up' = [up EXCEPT ![r] = Append(@, Piece(sentOver[r] + 1))]
  /\ UNCHANGED <<endVars, pairingVars, down, got>>

SessionReads(r) ==
  /\ InSession(r) /\ down[r] # <<>>
  /\ got' = [got EXCEPT ![r] = Append(@, Head(down[r]).n)]
  /\ down' = [down EXCEPT ![r] = Tail(@)]
  /\ UNCHANGED <<endVars, pairingVars, up, sentOver>>

\* The host's session closes its socket.  The client's asks its io thread to
\* and stops it, so that the socket may stay open.
EndHangsUp(r) ==
  /\ Attempt(r, {"adopted"}, "ended")
  /\ \E stays \in (IF r = "client" THEN BOOLEAN ELSE {FALSE}) : sockOpen' = [sockOpen EXCEPT ![r] = stays]
  /\ UNCHANGED <<buf, pairingVars, streamVars, dataVars>>

SessionSeesEnd(r) == down[r] = <<>> /\ ~kept[r] /\ EndHangsUp(r)

-------------------------------------------------------------------------------
(* handle_relay_tcp *)

Coroutine(r, from, to) == srv[r] = from /\ srv' = [srv EXCEPT ![r] = to]
Writes(r, line) == down' = [down EXCEPT ![r] = Append(@, Line(line))]

\* The first line: garbled ends in an exception, an unknown token in a rejection.
Handshake(r) ==
  /\ srv[r] = "hello" /\ up[r] # <<>>
  /\ up' = [up EXCEPT ![r] = Tail(@)]
  /\ \/ /\ Head(up[r]) = Line("garbled") /\ Coroutine(r, "hello", "refused") /\ UNCHANGED down
     \/ /\ Head(up[r]) = Line("relay") /\ ~pairs
        /\ Coroutine(r, "hello", "refused") /\ Writes(r, "rejected")
     \/ /\ Head(up[r]) = Line("relay") /\ pairs
        /\ Coroutine(r, "hello", "accepted") /\ Writes(r, "accepted")
  /\ UNCHANGED <<endVars, pair, ready, pairs, kept, dataVars>>

\* The end hung up during the drain.
AcceptFails(r) ==
  /\ ~sockOpen[r] /\ Coroutine(r, "accepted", "closing")
  /\ UNCHANGED <<endVars, pair, ready, pairs, kept, streamVars, dataVars>>

\* relay_paired is written; when the end was reset the drain raises, past the
\* loop that would close the other side.
Paired(r, from) ==
  \/ Coroutine(r, from, "piping") /\ Writes(r, "paired")
  \/ ~sockOpen[r] /\ Coroutine(r, from, "closing") /\ UNCHANGED down

\* The side that completes the pair goes on without waiting.
Registers(r) ==
  /\ pair' = [pair EXCEPT ![r] = TRUE]
  /\ IF pair[Other(r)]
       THEN Paired(r, "accepted") /\ ready' = TRUE
       ELSE Coroutine(r, "accepted", "waiting") /\ UNCHANGED <<ready, down>>
  /\ UNCHANGED <<endVars, pairs, kept, up, dataVars>>

Wakes(r) ==
  /\ ready
  /\ IF pair[Other(r)] THEN Paired(r, "waiting")
                       ELSE Coroutine(r, "waiting", "closing") /\ UNCHANGED down
  /\ UNCHANGED <<endVars, pair, ready, pairs, kept, up, dataVars>>

\* The event's waiter runs in the loop's next pass, before any new input.
Waking == ready /\ \E r \in Roles : srv[r] = "waiting"

Pipes(r) ==
  /\ srv[r] = "piping" /\ ~Waking /\ up[r] # <<>> /\ kept[Other(r)]
  /\ down' = [down EXCEPT ![Other(r)] = Append(@, Head(up[r]))]
  /\ up' = [up EXCEPT ![r] = Tail(@)]
  /\ UNCHANGED <<endVars, pairingVars, dataVars>>

\* For comparison: the other side's writer is left alone.
PipeEndsAlone(r) ==
  /\ Coroutine(r, "piping", "closing") /\ ~Waking
  /\ ~sockOpen[r] \/ ~kept[r] \/ (up[r] # <<>> /\ ~(kept[Other(r)] /\ sockOpen[Other(r)]))
  /\ UNCHANGED <<endVars, pair, ready, pairs, kept, streamVars, dataVars>>

\* End of input, a reset that discards what is left of it, a writer that is
\* closed, or a drain that raises: the other side is closed.
PipeEnds(r) ==
  /\ Coroutine(r, "piping", "closing") /\ ~Waking
  /\ ~sockOpen[r] \/ ~kept[r] \/ (up[r] # <<>> /\ ~(kept[Other(r)] /\ sockOpen[Other(r)]))
  /\ kept' = [kept EXCEPT ![Other(r)] = FALSE]
  /\ UNCHANGED <<endVars, pair, ready, pairs, streamVars, dataVars>>

Cleanup(r) ==
  /\ Coroutine(r, "closing", "done")
  /\ kept' = [kept EXCEPT ![r] = FALSE]
  /\ pair' = [pair EXCEPT ![r] = @ /\ ~pairs]
  /\ pairs' = (pairs /\ pair[Other(r)])
  /\ UNCHANGED <<endVars, ready, streamVars, dataVars>>

\* The coroutine had not come to a token it could look up.
Refused(r) ==
  /\ Coroutine(r, "refused", "done")
  /\ kept' = [kept EXCEPT ![r] = FALSE]
  /\ UNCHANGED <<endVars, pair, ready, pairs, streamVars, dataVars>>

EndSteps(r) == SendHandshake(r) \/ TimesOut(r) \/ ReadReply(r) \/ ReplyEnds(r)
               \/ SessionReads(r) \/ SessionSeesEnd(r)
ServerSteps(r) == Handshake(r) \/ AcceptFails(r) \/ Registers(r) \/ Wakes(r) \/ Pipes(r)
                  \/ PipeEnds(r) \/ Cleanup(r) \/ Refused(r)
RelayNext ==
  \/ WatchdogStops
  \/ \E r \in Roles :
       \/ Start(r) \/ RelayConnectFails(r) \/ SessionSends(r) \/ EndHangsUp(r)
       \/ EndSteps(r) \/ ServerSteps(r)

\* The io thread's handlers and the attempt's timer, the sessions' reads and
\* the server's event loop go on; dialling, sending, hanging up and what the
\* sessions' own timers do are chosen.
RelayFairness ==
  \A r \in Roles :
    /\ WF_relayVars(TimesOut(r)) /\ WF_relayVars(ReadReply(r)) /\ WF_relayVars(ReplyEnds(r))
    /\ WF_relayVars(SessionReads(r)) /\ WF_relayVars(SessionSeesEnd(r))
    /\ WF_relayVars(ServerSteps(r))

RelaySpec == RelayInit /\ [][RelayNext]_relayVars /\ RelayFairness

-------------------------------------------------------------------------------
(* Properties *)

\* Once both coroutines have come to the pipe and the socket of one end is
\* closed, the server drops both ends, the token leaves PAIRS and neither
\* session goes on, and so it stays: whichever coroutine notices first, with
\* whatever is still under way, and when the other end has not read that it
\* is paired.
PairEndsTogether ==
  ((\A r \in Roles : srv[r] = "piping") /\ (\E r \in Roles : ~sockOpen[r]))
    ~> [](~pairs /\ \A r \in Roles : ~kept[r] /\ ~InSession(r))

-------------------------------------------------------------------------------
(* Statements of comments, tests and documents that the code does not keep *)

\* An end is not left attached when the other end of its pair is gone.  It is
\* when the other was reset before its coroutine came to the pipe.
NoHalfPair ==
  (pair["host"] /\ pair["client"] /\ (\E r \in Roles : ~sockOpen[r])) ~> (\A r \in Roles : ~kept[r])

\* The session protocol runs over the pipe unchanged: a session receives the
\* other's bytes from the first one on, with none missing.
PipeIsUnchanged ==
  \A r \in Roles : \A i \in DOMAIN got[r] : got[r][i] = i
=============================================================================
