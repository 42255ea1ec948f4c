------------------------------ MODULE Session ------------------------------
(***************************************************************************)
(* communication/v2/session.hpp: Session, one Bolt connection over a TCP   *)
(* or an SSL socket with an inactivity timeout, and WebsocketSession, to   *)
(* which a TCP Session hands its socket when the first message it reads is *)
(* a websocket upgrade request.  Every handler is bound to the session's   *)
(* strand, so handlers never overlap: each action is one handler run to    *)
(* completion.  Time, the network and the client are the environment.     *)
(*                                                                         *)
(* The timer is abstracted to where its expiry lies: "max" (time_point::   *)
(* max()), "future" or "past"; Tick is time passing the deadline.  An      *)
(* async_wait is "waiting" until the deadline passes or the timer is       *)
(* cancelled (expires_after and cancel both cancel a pending wait), then   *)
(* "ready": its handler is queued on the strand.                           *)
(***************************************************************************)
EXTENDS Naturals

CONSTANTS
    Modes,        \* the sockets a Session may be created on: "tcp", "ssl"
    MaxMessages,  \* bound on the messages the client sends
    MaxWsCloses   \* bound on the async_close operations a WebsocketSession starts

ASSUME Modes \subseteq {"tcp", "ssl"} /\ MaxMessages \in Nat /\ MaxWsCloses \in Nat

VARIABLES
    mode,           \* std::variant<TCPSocket, SSLSocket> socket_
    sess,           \* the Session's own state (a record, see NewSession)
    ws,             \* the WebsocketSession's state (a record, see NoWebsocket)
    peer,           \* the client: messages still to send, handshake bytes to send, FIN sent
    executed_down   \* TSession::Execute ran while the Session was not connected

vars == <<mode, sess, ws, peer, executed_down>>

(* How Execute (the Bolt session) returns: normally, after a Write that    *)
(* failed, or by throwing SessionClosedException or another exception.    *)
Outcomes == {"ok", "write_error", "closed", "exception"}

(* The constructor: socket open, timer expiry at time_point::max().        *)
NewSession == [active |-> FALSE,      \* execution_active_
               open |-> TRUE,         \* socket_.lowest_layer().is_open()
               received |-> FALSE,    \* has_received_msg_
               expiry |-> "max",
               timer |-> "idle",      \* the OnTimeout wait: idle, waiting, ready
               start |-> "none",      \* the handler Start dispatched: none, queued, done
               read |-> "none",       \* async_read_some outstanding: none, waiting
               handshake |-> "none"]  \* async_handshake outstanding: none, waiting

NoWebsocket == [exists |-> FALSE, active |-> FALSE, open |-> FALSE,
                accept |-> "none", read |-> "none", closes |-> 0,
                executed_after_error |-> FALSE]

Connected(s) == s.active /\ s.open

Cancel(t) == IF t = "waiting" THEN "ready" ELSE t

-----------------------------------------------------------------------------
(* Session's helpers, as functions from the state before to the state     *)
(* after, so that a handler is their composition in the code's order.     *)

(* Faulty variant, for mutation: DoRead without expires_after. *)
DoReadNoDeadline(s) ==
    IF ~Connected(s) THEN s ELSE [s EXCEPT !.read = "waiting"]

DoRead(s) ==
    IF ~Connected(s) THEN s
    ELSE [s EXCEPT !.expiry = "future", !.timer = Cancel(@), !.read = "waiting"]

DoShutdown(s) ==
    IF ~Connected(s) THEN s
    ELSE [s EXCEPT !.active = FALSE, !.timer = Cancel(@), !.open = FALSE]

OnError(s, ec) == IF ec = "aborted" THEN s ELSE DoShutdown(s)

DoHandshake(s) ==
    IF ~Connected(s) THEN s ELSE [s EXCEPT !.handshake = "waiting"]

(* The try block of OnRead: session_.Execute() then DoRead(), or          *)
(* DoShutdown() in either catch.  A Write inside Execute that fails calls *)
(* OnError and Execute still returns normally.                            *)
Execute(s, outcome) ==
    CASE outcome = "ok"          -> DoRead(s)
      [] outcome = "write_error" -> DoRead(OnError(s, "error"))
      [] OTHER                   -> DoShutdown(s)

-----------------------------------------------------------------------------
(* WebsocketSession's helpers.                                            *)

WsConnected(w) == w.open /\ w.active

WsDoRead(w) == IF ~WsConnected(w) THEN w ELSE [w EXCEPT !.read = "waiting"]

WsDoClose(w) == [w EXCEPT !.closes = @ + 1]

WsOnError(w) == WsDoClose(w)

WsExecute(w, outcome) ==
    CASE outcome = "ok"          -> WsDoRead(w)
      [] outcome = "write_error" -> WsDoRead(IF WsConnected(w) THEN WsOnError(w) ELSE w)
      [] OTHER                   -> WsDoClose(w)

(* DoAccept on the socket taken from the Session. *)
WsDoAccept == [NoWebsocket EXCEPT !.exists = TRUE, !.active = TRUE, !.open = TRUE,
                                  !.accept = "waiting"]

-----------------------------------------------------------------------------
(* The client. *)

Quiet == peer.left = 0 /\ ~peer.shakes

(* What a pending read can complete with: operation_aborted once the      *)
(* socket is closed, data while the client has some, eof after its FIN,   *)
(* and a network error at any time.  Only the first three are bound to    *)
(* happen; the error is a fault that may or may not.  A read whose        *)
(* completion Asio had already queued on the strand when DoShutdown       *)
(* closed the socket would still report its data; the model leaves that   *)
(* case out and completes every read after the close with aborted.        *)
ReadResults(s) ==
    IF ~s.open THEN {"aborted"}
    ELSE (IF peer.left > 0 THEN {"data"} ELSE {})
         \cup (IF peer.left = 0 /\ peer.closed THEN {"eof"} ELSE {})

HandshakeResults(s) ==
    IF ~s.open THEN {"aborted"}
    ELSE (IF peer.shakes THEN {"ok"} ELSE {})
         \cup (IF ~peer.shakes /\ peer.closed THEN {"eof"} ELSE {})

Init ==
    /\ mode \in Modes
    /\ sess = NewSession
    /\ ws = NoWebsocket
    /\ peer \in [left : 0..MaxMessages, shakes : IF mode = "ssl" THEN BOOLEAN ELSE {FALSE},
                 closed : {FALSE}]
    /\ executed_down = FALSE

-----------------------------------------------------------------------------
(* Session handlers. *)

Start ==
    /\ ~sess.active
    /\ sess.start = "none"
    /\ sess' = [sess EXCEPT !.active = TRUE, !.timer = "waiting", !.start = "queued"]
    /\ UNCHANGED <<mode, ws, peer, executed_down>>

RunStart ==
    /\ sess.start = "queued"
    /\ LET s == [sess EXCEPT !.start = "done"]
       IN  sess' = IF mode = "ssl" THEN DoHandshake(s) ELSE DoRead(s)
    /\ UNCHANGED <<mode, ws, peer, executed_down>>

OnHandshake(ec) ==
    /\ sess.handshake = "waiting"
    /\ LET s == [sess EXCEPT !.handshake = "none"]
       IN  sess' = IF ec = "ok" THEN DoRead(s) ELSE OnError(s, ec)
    /\ peer' = IF ec = "ok" THEN [peer EXCEPT !.shakes = FALSE] ELSE peer
    /\ UNCHANGED <<mode, ws, executed_down>>

(* Faulty variant, for mutation: OnRead without its leading error check, *)
(* so whatever completed the read is taken for a message.                *)
OnReadDataIgnoringEc(upgrade, outcome) ==
    LET s == [sess EXCEPT !.read = "none", !.received = TRUE]
    IN  /\ sess.read = "waiting"
        /\ ~upgrade
        /\ peer' = [peer EXCEPT !.left = @ - 1]
        /\ sess' = Execute(s, outcome)
        /\ executed_down' = (executed_down \/ ~Connected(s))
        /\ UNCHANGED <<mode, ws>>

(* OnRead of a message: the first one may be a websocket upgrade; on TCP  *)
(* the socket moves to a new WebsocketSession and the Session stops, on   *)
(* SSL the Session shuts down and goes on to Execute.                     *)
OnReadData(upgrade, outcome) ==
    LET s      == [sess EXCEPT !.read = "none", !.received = TRUE]
        first  == ~sess.received
        handed == first /\ upgrade /\ mode = "tcp"
        s2     == IF first /\ upgrade THEN DoShutdown(s) ELSE s
    IN  /\ sess.read = "waiting"
        /\ "data" \in ReadResults(sess)
        /\ upgrade => first
        /\ peer' = [peer EXCEPT !.left = @ - 1]
        /\ IF handed
           THEN /\ sess' = [s EXCEPT !.active = FALSE, !.open = FALSE]
                /\ ws' = WsDoAccept
                /\ UNCHANGED executed_down
           ELSE /\ sess' = Execute(s2, outcome)
                /\ executed_down' = (executed_down \/ ~Connected(s2))
                /\ UNCHANGED ws
        /\ UNCHANGED mode

OnReadError(ec) ==
    /\ sess.read = "waiting"
    /\ sess' = OnError([sess EXCEPT !.read = "none"], ec)
    /\ UNCHANGED <<mode, ws, peer, executed_down>>

(* Faulty variant, for mutation: OnTimeout that does not go back to sleep. *)
OnTimeoutNoRearm ==
    /\ \/ sess.timer = "ready"
       \/ sess.timer = "waiting" /\ sess.expiry = "past"
    /\ LET s == [sess EXCEPT !.timer = "idle"]
       IN  sess' = IF Connected(s) /\ s.expiry = "past" THEN DoShutdown(s) ELSE s
    /\ UNCHANGED <<mode, ws, peer, executed_down>>

OnTimeout ==
    /\ \/ sess.timer = "ready"
       \/ sess.timer = "waiting" /\ sess.expiry = "past"
    /\ LET s == [sess EXCEPT !.timer = "idle"]
       IN  sess' = CASE ~Connected(s)       -> s
                     [] s.expiry = "past"   -> DoShutdown(s)
                     [] OTHER               -> [s EXCEPT !.timer = "waiting"]
    /\ UNCHANGED <<mode, ws, peer, executed_down>>

-----------------------------------------------------------------------------
(* WebsocketSession handlers. *)

WsOnAccept(ec) ==
    /\ ws.accept = "waiting"
    /\ ws.closes < MaxWsCloses
    /\ LET w == [ws EXCEPT !.accept = "none"]
       IN  ws' = IF ec = "ok" THEN WsDoRead(w) ELSE WsOnError(w)
    /\ UNCHANGED <<mode, sess, peer, executed_down>>

(* OnRead: after OnError there is no return, so the buffer is written,    *)
(* Execute runs and DoRead or DoClose follows as for a good read.         *)
WsOnRead(ec, outcome) ==
    LET w  == [ws EXCEPT !.read = "none"]
        w2 == IF ec = "error" THEN WsOnError(w) ELSE w
    IN  /\ ws.read = "waiting"
        /\ ws.closes < MaxWsCloses
        /\ ec = "data" => peer.left > 0 /\ ws.open
        /\ ec = "closed" => (peer.left = 0 /\ peer.closed) \/ ~ws.open
        /\ IF ec = "closed"
           THEN ws' = w
           ELSE ws' = [WsExecute(w2, outcome) EXCEPT
                         !.executed_after_error = @ \/ ec = "error"]
        /\ peer' = IF ec = "data" THEN [peer EXCEPT !.left = @ - 1] ELSE peer
        /\ UNCHANGED <<mode, sess, executed_down>>

(* An async_close completes: the stream is closed, IsConnected is false  *)
(* and OnClose returns at once.                                           *)
WsOnClose ==
    /\ ws.closes > 0
    /\ ws' = [ws EXCEPT !.closes = @ - 1, !.open = FALSE]
    /\ UNCHANGED <<mode, sess, peer, executed_down>>

-----------------------------------------------------------------------------
(* Environment. *)

Tick ==
    /\ sess.expiry = "future"
    /\ sess' = [sess EXCEPT !.expiry = "past"]
    /\ UNCHANGED <<mode, ws, peer, executed_down>>

PeerClose ==
    /\ ~peer.closed
    /\ peer' = [peer EXCEPT !.closed = TRUE]
    /\ UNCHANGED <<mode, sess, ws, executed_down>>

Next ==
    \/ Start
    \/ RunStart
    \/ \E ec \in HandshakeResults(sess) \cup {"error"} : OnHandshake(ec)
    \/ \E up \in BOOLEAN, o \in Outcomes : OnReadData(up, o)
    \/ \E ec \in (ReadResults(sess) \ {"data"}) \cup {"error"} : OnReadError(ec)
    \/ OnTimeout
    \/ \E ec \in {"ok", "error"} : WsOnAccept(ec)
    \/ \E ec \in {"data", "closed", "error"}, o \in Outcomes : WsOnRead(ec, o)
    \/ WsOnClose
    \/ Tick
    \/ PeerClose

(* The strand runs every queued handler, a read or handshake completes    *)
(* once its bytes (or the FIN, or the local close) are there, and time    *)
(* passes.  Network errors and the client's actions are not bound to      *)
(* happen.                                                                 *)
Fairness ==
    /\ WF_vars(Start)
    /\ WF_vars(RunStart)
    /\ WF_vars(\E ec \in HandshakeResults(sess) : OnHandshake(ec))
    /\ WF_vars(\E up \in BOOLEAN, o \in Outcomes : OnReadData(up, o))
    /\ WF_vars(\E ec \in ReadResults(sess) \ {"data"} : OnReadError(ec))
    /\ WF_vars(OnTimeout)
    /\ WF_vars(WsOnClose)
    /\ WF_vars(Tick)

Spec == Init /\ [][Next]_vars /\ Fairness

-----------------------------------------------------------------------------
(* Properties. *)

TypeOK ==
    /\ mode \in Modes
    /\ sess \in [active : BOOLEAN, open : BOOLEAN, received : BOOLEAN,
                 expiry : {"max", "future", "past"}, timer : {"idle", "waiting", "ready"},
                 start : {"none", "queued", "done"}, read : {"none", "waiting"},
                 handshake : {"none", "waiting"}]
    /\ ws \in [exists : BOOLEAN, active : BOOLEAN, open : BOOLEAN, accept : {"none", "waiting"},
               read : {"none", "waiting"}, closes : 0..MaxWsCloses + 1, executed_after_error : BOOLEAN]
    /\ peer \in [left : 0..MaxMessages, shakes : BOOLEAN, closed : BOOLEAN]
    /\ executed_down \in BOOLEAN

(* Whenever a connected Session waits for the client to send, an OnTimeout *)
(* is waiting or queued and the deadline is a real one: DoRead moves the   *)
(* expiry with expires_after, which cancels the pending wait, and the      *)
(* cancelled OnTimeout must put itself back to sleep.                      *)
DeadlineCoversRead ==
    (Connected(sess) /\ sess.read = "waiting")
        => sess.expiry # "max" /\ sess.timer # "idle"

(* A connected Session whose read the client leaves unanswered is shut down *)
(* by OnTimeout: the inactivity timeout of the class comment, once reading *)
(* has begun.                                                              *)
ReadTimesOut ==
    (Connected(sess) /\ sess.read = "waiting" /\ Quiet) ~> ~Connected(sess)

(* Every connected Session whose client sends nothing more is eventually  *)
(* shut down, whatever stage it is in.                                    *)
SilentClientDisconnected ==
    (Connected(sess) /\ Quiet) ~> ~Connected(sess)

(* WebsocketSession starts at most one async_close at a time; beast allows *)
(* a single close operation in flight on a stream.                         *)
WsSingleClose == ws.closes <= 1

(* Execute never runs on a Session that has been shut down or handed over. *)
NoExecuteWhileDown == ~executed_down

=============================================================================
