------------------------------- MODULE Worker -------------------------------
(***************************************************************************)
(* The epoll worker of src/io/network/worker.hpp serving one TCP stream.   *)
(*                                                                         *)
(* Worker::accept opens a non-blocking, edge-triggered stream; on every    *)
(* EPOLLIN edge the listener calls on_read, which reads the socket into a  *)
(* buffer of BufSize bytes until read returns -1 with EAGAIN (drained) or *)
(* 0 (the peer closed: close), and after every                             *)
(* successful read writes the whole canned response of ResponseLen bytes:  *)
(*                                                                         *)
(*     size_t sum = 0; char* resp = response;                              *)
(*     while (sum < len) { int k = write(...); sum += k; resp += k; }      *)
(*                                                                         *)
(* The kernel side is a receive queue of inbuf bytes and a send queue of   *)
(* at most SndCap bytes that the client drains; write on a full queue of   *)
(* a non-blocking socket returns -1 (EAGAIN).  sum is a size_t of Width    *)
(* bits.  A byte of the response is its index 1..ResponseLen; a byte read  *)
(* from outside the string (resp moved before it) is 0.                    *)
(*                                                                         *)
(* One on_read call is a sequence of steps (pc), since the client runs     *)
(* between the calls to read and write.  A read error other than EAGAIN   *)
(* closes the stream like end of file does and is left out.               *)
(***************************************************************************)
EXTENDS Integers, Sequences

CONSTANTS
    ResponseLen,   \* len == strlen(response)
    BufSize,       \* sizeof buf
    SndCap,        \* bytes the socket's send queue holds
    Width,         \* bits of size_t
    RequestLen,    \* bytes of one request of the client
    MaxRequests    \* requests the client sends

ASSUME ResponseLen \in 1..(2^Width - 1) /\ BufSize \in Nat \ {0}
       /\ SndCap \in Nat \ {0} /\ RequestLen \in Nat \ {0} /\ MaxRequests \in Nat

VARIABLES
    pc,        \* "listen" | "idle" | "read" | "write" | "closed"
    sum,       \* size_t sum
    resp,      \* resp - response
    inbuf,     \* bytes in the socket's receive queue
    eof,       \* the client has shut its side down
    sent,      \* requests the client has sent
    sndq,      \* bytes in the socket's send queue
    recvd,     \* bytes the client has received
    reads      \* successful reads of the worker

vars == <<pc, sum, resp, inbuf, eof, sent, sndq, recvd, reads>>

SizeT(n) == n % (2^Width)

(* The byte at offset o of the response, or 0 outside it.                 *)
ByteAt(o) == IF o \in 0..(ResponseLen - 1) THEN o + 1 ELSE 0

Init ==
    /\ pc = "listen"
    /\ sum = 0 /\ resp = 0
    /\ inbuf = 0 /\ eof = FALSE /\ sent = 0
    /\ sndq = <<>> /\ recvd = <<>> /\ reads = 0

(***************************************************************************)
(* The worker.                                                             *)
(***************************************************************************)
(* accept: the stream is opened, made non-blocking and added to epoll.     *)
Accept ==
    /\ pc = "listen"
    /\ pc' = "idle"
    /\ UNCHANGED <<sum, resp, inbuf, eof, sent, sndq, recvd, reads>>

(* The listener calls on_read on an EPOLLIN edge: data or end of file.     *)
OnRead ==
    /\ pc = "idle"
    /\ inbuf > 0 \/ eof
    /\ pc' = "read"
    /\ UNCHANGED <<sum, resp, inbuf, eof, sent, sndq, recvd, reads>>

(* count = read(...): EAGAIN returns to the main loop; end of file closes *)
(* the stream (delete stream); data starts the write loop.                 *)
Read ==
    /\ pc = "read"
    /\ \/ /\ inbuf = 0 /\ ~eof
          /\ pc' = "idle"
          /\ UNCHANGED <<sum, resp, inbuf, reads>>
       \/ /\ inbuf = 0 /\ eof
          /\ pc' = "closed"
          /\ UNCHANGED <<sum, resp, inbuf, reads>>
       \/ /\ inbuf > 0
          /\ inbuf' = inbuf - (IF inbuf < BufSize THEN inbuf ELSE BufSize)
          /\ sum' = 0 /\ resp' = 0
          /\ reads' = reads + 1
          /\ pc' = "write"
    /\ UNCHANGED <<eof, sent, sndq, recvd>>

(* int k = write(stream->socket, resp, len - sum); sum += k; resp += k;    *)
(* the loop ends when sum >= len and the read loop goes on.               *)
Write ==
    /\ pc = "write"
    /\ LET space == SndCap - Len(sndq)
           k     == IF space = 0 THEN -1
                    ELSE IF ResponseLen - sum < space THEN ResponseLen - sum ELSE space
       IN  /\ sndq' = sndq \o [i \in 1..(IF k > 0 THEN k ELSE 0) |-> ByteAt(resp + i - 1)]
           /\ sum' = SizeT(sum + k)
           /\ resp' = resp + k
           /\ pc' = IF SizeT(sum + k) < ResponseLen THEN "write" ELSE "read"
    /\ UNCHANGED <<inbuf, eof, sent, recvd, reads>>

(* on_error, on the hang-up the listener reports once the client has gone: *)
(* the stream is deleted.                                                  *)
OnError ==
    /\ pc = "idle" /\ eof
    /\ pc' = "closed"
    /\ UNCHANGED <<sum, resp, inbuf, eof, sent, sndq, recvd, reads>>

(***************************************************************************)
(* The client and the kernel.                                              *)
(***************************************************************************)
ClientSend ==
    /\ pc /= "closed" /\ ~eof /\ sent < MaxRequests
    /\ sent' = sent + 1
    /\ inbuf' = inbuf + RequestLen
    /\ UNCHANGED <<pc, sum, resp, eof, sndq, recvd, reads>>

ClientShutdown ==
    /\ pc /= "closed" /\ ~eof
    /\ eof' = TRUE
    /\ UNCHANGED <<pc, sum, resp, inbuf, sent, sndq, recvd, reads>>

ClientReceive ==
    /\ sndq /= <<>>
    /\ recvd' = Append(recvd, Head(sndq))
    /\ sndq' = Tail(sndq)
    /\ UNCHANGED <<pc, sum, resp, inbuf, eof, sent, reads>>

Next ==
    \/ Accept \/ OnRead \/ Read \/ Write \/ OnError
    \/ ClientSend \/ ClientShutdown \/ ClientReceive

Spec == Init /\ [][Next]_vars

(***************************************************************************)
(* Properties.                                                             *)
(***************************************************************************)
TypeOK ==
    /\ pc \in {"listen", "idle", "read", "write", "closed"}
    /\ sum \in 0..(2^Width - 1)
    /\ inbuf \in Nat /\ sent \in 0..MaxRequests /\ eof \in BOOLEAN
    /\ Len(sndq) <= SndCap /\ reads \in Nat

(* The client receives whole copies of the response, one after another:   *)
(* the byte stream is a prefix of response repeated, so the write loop     *)
(* neither repeats, skips nor invents a byte, whatever write returns.      *)
ResponsesIntact ==
    \A i \in DOMAIN recvd : recvd[i] = ((i - 1) % ResponseLen) + 1

====
