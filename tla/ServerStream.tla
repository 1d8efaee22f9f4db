---------------------------- MODULE ServerStream ----------------------------
(***************************************************************************)
(* The way of the server's messages into the client: the socket, the read- *)
(* ahead buffer of ReadFromRFBServer (src/src/libvncclient/sockets.c), and *)
(* the loop of VncClientThread::run() that waits on the socket and handles *)
(* one message per round.                                                  *)
(*                                                                         *)
(* Bytes are represented by their positions in `stream`, in whatever place *)
(* they are stored.  A message is a type byte, whose value tells how many  *)
(* bytes follow, and those bytes; HandleRFBServerMessage reads it with two *)
(* calls.  TLS, vncrec playback and a null destination (a failed malloc)   *)
(* are left out.                                                           *)
(***************************************************************************)
EXTENDS Integers, Sequences

CONSTANTS RFB_BUF_SIZE,  \* size of the read-ahead buffer
          Bodies,        \* how many bytes may follow a type byte
          MaxStream      \* bound: bytes the server ever writes

ASSUME SizesAssumption ==
    /\ RFB_BUF_SIZE \in Nat \ {0}
    /\ Bodies \subseteq Nat
    /\ MaxStream \in Nat

VARIABLES
    \* the server and the socket
    stream,     \* values of the bytes the server has written
    sent,       \* how many of them have reached the client's socket
    taken,      \* how many of those read() has returned
    peer,       \* "open", "closed" or "reset"
    \* rfbClient
    buf,
    bufoutptr,  \* an index into buf
    buffered,
    \* the worker
    pc,         \* "poll", "call", "fill", "direct" or "failed"
    part,       \* the read of the message: "head" or "body"
    n,          \* bytes the read still needs
    out,        \* bytes the read has copied
    \* history
    got,        \* what the last read delivered
    consumed    \* bytes delivered by all reads so far

socket == <<stream, sent, peer>>
vars   == <<socket, taken, buf, bufoutptr, buffered, pc, part, n, out, got,
            consumed>>

Payload == -1  \* the value of a byte that does not begin a message

TypeOK ==
    /\ stream \in Seq(Nat \union {Payload})
    /\ sent \in 0 .. Len(stream)
    /\ taken \in 0 .. sent
    /\ peer \in {"open", "closed", "reset"}
    /\ buf \in [0 .. RFB_BUF_SIZE - 1 -> Nat]
    /\ bufoutptr \in Nat
    /\ buffered \in Nat
    /\ pc \in {"poll", "call", "fill", "direct", "failed"}
    /\ part \in {"head", "body"}
    /\ n \in Nat
    /\ out \in Seq(Nat)
    /\ got \in Seq(Nat)
    /\ consumed \in Nat

Init ==
    /\ stream = << >>
    /\ sent = 0
    /\ taken = 0
    /\ peer = "open"
    /\ buf = [i \in 0 .. RFB_BUF_SIZE - 1 |-> 0]
    /\ bufoutptr = 0
    /\ buffered = 0
    /\ pc = "poll"
    /\ part = "head"
    /\ n = 0
    /\ out = << >>
    /\ got = << >>
    /\ consumed = 0

-----------------------------------------------------------------------------
(* The server: it writes whole messages, the network carries pieces.       *)

reader == <<taken, buf, bufoutptr, buffered, pc, part, n, out, got, consumed>>

Compose(b) ==
    /\ peer = "open"
    /\ Len(stream) + 1 + b <= MaxStream
    /\ stream' = Append(stream, b) \o [i \in 1 .. b |-> Payload]
    /\ UNCHANGED <<sent, peer, reader>>

Send ==
    /\ peer = "open"
    /\ sent' \in (sent + 1) .. Len(stream)
    /\ UNCHANGED <<stream, peer, reader>>

HangUp ==
    /\ peer = "open"
    /\ peer' \in {"closed", "reset"}
    /\ UNCHANGED <<stream, sent, reader>>

-----------------------------------------------------------------------------
(* The worker: run()'s loop, and ReadFromRFBServer.                        *)

Copied(k) == [i \in 1 .. k |-> buf[bufoutptr + i - 1]]  \* memcpy from bufoutptr

\* The read returns `bytes`: the handler goes on, or is done.
Deliver(bytes) ==
    /\ got' = bytes
    /\ consumed' = consumed + Len(bytes)
    /\ out' = << >>
    /\ n' = 0
    /\ IF part = "head" THEN part' = "body" /\ pc' = "call"
                        ELSE part' = "head" /\ pc' = "poll"

\* WaitForMessage: select() knows of the socket only, not of buf.
Poll ==
    /\ pc = "poll"
    /\ taken < sent \/ peer # "open"
    /\ pc' = "call"
    /\ UNCHANGED <<socket, taken, buf, bufoutptr, buffered, part, n, out, got,
                   consumed>>

\* What the handler asks for: the type byte, then what it announces.  One
\* message is not among those a server sends: SetColourMapEntries, whose body the
\* handler does not read, and whose colours no true-colour format has.
Wanted == IF part = "head" THEN 1 ELSE stream[got[1]]

\* Enough is buffered.
ReadBuffered ==
    /\ pc = "call"
    /\ Wanted <= buffered
    /\ Deliver(Copied(Wanted))
    /\ bufoutptr' = bufoutptr + Wanted
    /\ buffered' = buffered - Wanted
    /\ UNCHANGED <<socket, taken, buf>>

\* Mutation: what was buffered is not subtracted from the request.
DrainBufferTwice ==
    /\ pc = "call"
    /\ Wanted > buffered
    /\ out' = Copied(buffered)
    /\ n' = Wanted
    /\ bufoutptr' = 0
    /\ buffered' = 0
    /\ pc' = IF n' <= RFB_BUF_SIZE THEN "fill" ELSE "direct"
    /\ UNCHANGED <<socket, taken, buf, part, got, consumed>>

\* Everything buffered is copied, the rest comes from the socket: through the
\* buffer if it fits, else directly.
DrainBuffer ==
    /\ pc = "call"
    /\ Wanted > buffered
    /\ out' = Copied(buffered)
    /\ n' = Wanted - buffered
    /\ bufoutptr' = 0
    /\ buffered' = 0
    /\ pc' = IF n' <= RFB_BUF_SIZE THEN "fill" ELSE "direct"
    /\ UNCHANGED <<socket, taken, buf, part, got, consumed>>

\* Mutation: every read() may fill the whole buffer.
FillWhole ==
    /\ pc = "fill" /\ buffered < n
    /\ \E i \in 1 .. (sent - taken) :
          /\ i <= RFB_BUF_SIZE
          /\ buf' = [j \in DOMAIN buf |->
                        IF j \in buffered .. (buffered + i - 1)
                          THEN taken + 1 + j - buffered ELSE buf[j]]
          /\ buffered' = buffered + i
          /\ taken' = taken + i
    /\ UNCHANGED <<socket, bufoutptr, pc, part, n, out, got, consumed>>

\* read() appends to buf as much as there is and fits.  EAGAIN is a wait for
\* the socket, without end: the next read() tries again.
Fill ==
    /\ pc = "fill" /\ buffered < n
    /\ \E i \in 1 .. (sent - taken) :
          /\ i <= RFB_BUF_SIZE - buffered
          /\ buf' = [j \in DOMAIN buf |->
                        IF j \in buffered .. (buffered + i - 1)
                          THEN taken + 1 + j - buffered ELSE buf[j]]
          /\ buffered' = buffered + i
          /\ taken' = taken + i
    /\ UNCHANGED <<socket, bufoutptr, pc, part, n, out, got, consumed>>

\* Mutation: what was read beyond the request is dropped.
FilledDropped ==
    /\ pc = "fill" /\ buffered >= n
    /\ Deliver(out \o Copied(n))
    /\ bufoutptr' = bufoutptr + n
    /\ buffered' = 0
    /\ UNCHANGED <<socket, taken, buf>>

\* The bytes are copied; what was read ahead stays in the buffer.
Filled ==
    /\ pc = "fill" /\ buffered >= n
    /\ Deliver(out \o Copied(n))
    /\ bufoutptr' = bufoutptr + n
    /\ buffered' = buffered - n
    /\ UNCHANGED <<socket, taken, buf>>

\* Mutation: read() may return more than the read needs.
ReadDirectMore ==
    /\ pc = "direct" /\ n > 0
    /\ \E i \in 1 .. (sent - taken) :
          /\ out' = out \o [j \in 1 .. i |-> taken + j]
          /\ n' = n - i
          /\ taken' = taken + i
    /\ UNCHANGED <<socket, buf, bufoutptr, buffered, pc, part, got, consumed>>

\* read() into the caller's memory.
ReadDirect ==
    /\ pc = "direct" /\ n > 0
    /\ \E i \in 1 .. (sent - taken) :
          /\ i <= n
          /\ out' = out \o [j \in 1 .. i |-> taken + j]
          /\ n' = n - i
          /\ taken' = taken + i
    /\ UNCHANGED <<socket, buf, bufoutptr, buffered, pc, part, got, consumed>>

DirectDone ==
    /\ pc = "direct" /\ n = 0
    /\ Deliver(out)
    /\ UNCHANGED <<socket, taken, buf, bufoutptr, buffered>>

\* read() returns 0 or fails: so do the handler and the loop.
ReadFails ==
    /\ \/ pc = "fill" /\ buffered < n
       \/ pc = "direct" /\ n > 0
    /\ peer = "reset" \/ (peer = "closed" /\ taken = sent)
    /\ pc' = "failed"
    /\ UNCHANGED <<socket, taken, buf, bufoutptr, buffered, part, n, out, got,
                   consumed>>

Server == (\E b \in Bodies : Compose(b)) \/ Send \/ HangUp
Reader == Poll \/ ReadBuffered \/ DrainBuffer \/ Fill \/ Filled \/ ReadDirect
          \/ DirectDone \/ ReadFails

Next == Server \/ Reader

Spec == Init /\ [][Next]_vars

\* The worker runs, and what the server has written arrives, unless the
\* connection breaks.
FairSpec == Spec /\ WF_vars(Reader) /\ WF_vars(Send)

-----------------------------------------------------------------------------
(* Properties.                                                             *)

\* No read and no copy goes beyond the end of buf, whatever sizes the handlers
\* ask for and in whatever pieces the bytes arrive.
BufferInBounds == bufoutptr + buffered <= RFB_BUF_SIZE

\* Nothing is lost between the socket and the handlers: what read() has taken
\* is what has been delivered, followed by what the read in progress has
\* copied, followed by what is in the buffer from bufoutptr on.
NothingLost ==
    /\ taken = consumed + Len(out) + buffered
    /\ \A i \in 1 .. buffered :
          bufoutptr + i <= RFB_BUF_SIZE =>
             buf[bufoutptr + i - 1] = consumed + Len(out) + i

\* Between two messages the client is at the beginning of a message: what
\* it takes for a type byte is one.
FramingKept ==
    pc = "poll" /\ consumed < Len(stream) => stream[consumed + 1] # Payload

\* The reads together behave as module ByteStream.
Bytes == INSTANCE ByteStream WITH delivered <- consumed, chunk <- got

ImplementsByteStream == Bytes!Spec

\* rfbclient.h on WaitForMessage: "This function blocks until a message is
\* received", hence not longer: a byte received gets to its handler.
ReceivedIsHandled ==
    \A p \in 1 .. MaxStream :
        (taken >= p) ~> (consumed >= p \/ pc = "failed")
=============================================================================
