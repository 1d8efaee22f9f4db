------------------------ MODULE ServerStream_proofs -------------------------
(***************************************************************************)
(* Proofs about module ServerStream, for every buffer size, every message  *)
(* and every way the bytes are cut into pieces.                            *)
(*                                                                         *)
(* The argument: a byte is its position, so a read delivers the right      *)
(* bytes when what it copied is the run of positions after `consumed`;     *)
(* the buffer holds the run that follows.  Framing needs in addition that  *)
(* the stream is made of whole messages.                                   *)
(***************************************************************************)
EXTENDS ServerStream, Measures, SequenceTheorems, TLAPS

\* The k positions after m.
Run(k, m) == [i \in 1 .. k |-> m + i]

LEMMA RunProperties ==
    ASSUME NEW k \in Nat, NEW m \in Nat
    PROVE  /\ Run(k, m) \in Seq(Nat)
           /\ Len(Run(k, m)) = k
           /\ \A i \in 1 .. k : Run(k, m)[i] = m + i
  <1>1. \A i \in 1 .. k : m + i \in Nat OBVIOUS
  <1> QED BY <1>1 DEF Run

LEMMA RunOne ==
    ASSUME NEW m \in Nat, m >= 1
    PROVE  Run(1, m - 1)[1] = m
  <1>1. m - 1 \in Nat OBVIOUS
  <1>2. Run(1, m - 1)[1] = (m - 1) + 1 BY <1>1 DEF Run
  <1> QED BY <1>2

LEMMA RunConcat ==
    ASSUME NEW j \in Nat, NEW k \in Nat, NEW m \in Nat
    PROVE  Run(j, m) \o Run(k, m + j) = Run(j + k, m)
  <1> DEFINE s == Run(j, m)  t == Run(k, m + j)  u == Run(j + k, m)
  <1>1. s \in Seq(Nat) /\ Len(s) = j /\ \A i \in 1 .. j : s[i] = m + i
    BY RunProperties
  <1>2. t \in Seq(Nat) /\ Len(t) = k /\ \A i \in 1 .. k : t[i] = m + j + i
    <2>1. m + j \in Nat OBVIOUS
    <2> QED BY <2>1, RunProperties
  <1>3. u \in Seq(Nat) /\ Len(u) = j + k /\ \A i \in 1 .. j + k : u[i] = m + i
    BY RunProperties
  <1> HIDE DEF s, t, u
  <1>4. s \o t \in Seq(Nat) /\ Len(s \o t) = j + k
    BY <1>1, <1>2, ConcatProperties
  <1>5. \A i \in 1 .. j + k : (s \o t)[i] = m + i
    <2> TAKE i \in 1 .. j + k
    <2>1. (s \o t)[i] = IF i <= j THEN s[i] ELSE t[i - j]
      BY <1>1, <1>2, ConcatProperties
    <2>2. CASE i <= j BY <2>1, <2>2, <1>1
    <2>3. CASE i > j
      <3>1. i - j \in 1 .. k BY <2>3
      <3> QED BY <2>1, <2>3, <3>1, <1>2
    <2>4. i <= j \/ i > j OBVIOUS
    <2> QED BY <2>2, <2>3, <2>4
  <1>6. s \o t = u BY <1>3, <1>4, <1>5, SeqEqual
  <1> QED BY <1>6 DEF s, t, u

LEMMA RunEmpty == ASSUME NEW m \in Nat PROVE Run(0, m) = << >>
  <1>1. Run(0, m) \in Seq(Nat) /\ Len(Run(0, m)) = 0 BY RunProperties
  <1> QED BY <1>1, EmptySeq

-----------------------------------------------------------------------------
(* The inductive invariant.                                                *)

\* What the read in progress has copied, and what it still needs.
Reading ==
    /\ out = Run(Len(out), consumed)
    /\ pc \in {"poll", "call"} => out = << >>
    /\ pc = "fill" => /\ bufoutptr = 0
                      /\ n <= RFB_BUF_SIZE
                      /\ Len(out) + n = Wanted
    /\ pc = "direct" => buffered = 0 /\ Len(out) + n = Wanted

\* A message begins after position p, or nothing has been written there yet.
AtMessage(p) == p < Len(stream) => stream[p + 1] # Payload

\* The stream is made of whole messages.
Framed ==
    /\ AtMessage(0)
    /\ \A p \in 1 .. Len(stream) :
          stream[p] # Payload => /\ p + stream[p] <= Len(stream)
                                 /\ AtMessage(p + stream[p])

\* The handler is at a type byte, or behind the one it has just read.
Framing ==
    IF part = "head"
      THEN AtMessage(consumed)
      ELSE /\ pc # "poll"
           /\ consumed \in 1 .. Len(stream)
           /\ stream[consumed] # Payload
           /\ got = Run(1, consumed - 1)

Inv ==
    /\ TypeOK
    /\ BufferInBounds
    /\ NothingLost
    /\ Reading
    /\ Framed
    /\ Framing

LEMMA InvInit == ASSUME Init PROVE Inv
  <1>1. TypeOK
    <2>1. << >> \in Seq(Nat) /\ << >> \in Seq(Nat \union {Payload}) BY EmptySeq
    <2>2. buf \in [0 .. RFB_BUF_SIZE - 1 -> Nat] BY SizesAssumption DEF Init
    <2> QED BY <2>1, <2>2 DEF Init, TypeOK
  <1>2. Reading /\ Framed /\ Framing
    BY RunEmpty DEF Init, Reading, Framed, Framing, AtMessage
  <1>3. BufferInBounds /\ NothingLost
    BY SizesAssumption DEF Init, BufferInBounds, NothingLost
  <1> QED BY <1>1, <1>2, <1>3 DEF Inv

\* A handler asks for a number of bytes.
LEMMA WantedType == ASSUME Inv PROVE Wanted \in Nat
  <1>1. CASE part = "head" BY <1>1 DEF Wanted
  <1>2. CASE part = "body"
    <2>0. consumed \in Nat /\ consumed - 1 \in Nat /\ got = Run(1, consumed - 1)
      BY <1>2 DEF Inv, TypeOK, Framing
    <2>1. got[1] = consumed BY <2>0, RunOne
    <2>2. stream[consumed] \in Nat
      BY <1>2, ElementOfSeq DEF Inv, TypeOK, Framing
    <2> QED BY <1>2, <2>1, <2>2 DEF Wanted
  <1> QED BY <1>1, <1>2 DEF Inv, TypeOK

\* What memcpy takes out of the buffer is the run after what was copied.
LEMMA CopiedRun ==
    ASSUME Inv, NEW k \in Nat, k <= buffered
    PROVE  Copied(k) = Run(k, consumed + Len(out))
  <1>1. \A i \in 1 .. k : buf[bufoutptr + i - 1] = consumed + Len(out) + i
    BY SizesAssumption DEF Inv, TypeOK, BufferInBounds, NothingLost
  <1> QED BY <1>1 DEF Copied, Run

-----------------------------------------------------------------------------
(* Every step preserves it.                                                *)

\* A read that returns the bytes asked for leaves the handler where it must be.
LEMMA DeliverKeeps ==
    ASSUME Inv, Deliver(Run(Wanted, consumed)), UNCHANGED stream,
           consumed + Wanted <= Len(stream)
    PROVE  /\ got' = Run(Wanted, consumed)
           /\ got' \in Seq(Nat)
           /\ consumed' = consumed + Wanted
           /\ consumed' \in Nat
           /\ out' = << >>
           /\ out' \in Seq(Nat)
           /\ n' = 0
           /\ part' \in {"head", "body"}
           /\ pc' \in {"poll", "call"}
           /\ Reading'
           /\ Framing'
  <1>1. Wanted \in Nat /\ consumed \in Nat /\ part \in {"head", "body"}
    BY WantedType DEF Inv, TypeOK
  <1>2. Run(Wanted, consumed) \in Seq(Nat) /\ Len(Run(Wanted, consumed)) = Wanted
    BY <1>1, RunProperties
  <1>3. << >> \in Seq(Nat) /\ Len(<< >>) = 0 BY EmptySeq
  <1>4. /\ got' = Run(Wanted, consumed) /\ consumed' = consumed + Wanted
        /\ out' = << >> /\ n' = 0
        /\ part' \in {"head", "body"} /\ pc' \in {"poll", "call"}
        /\ part = "head" => part' = "body" /\ pc' = "call"
        /\ part = "body" => part' = "head"
    BY <1>1, <1>2 DEF Deliver
  <1>5. consumed' \in Nat BY <1>1, <1>4
  <1>6. Reading'
    <2>1. out' = Run(Len(out'), consumed')
      BY <1>3, <1>4, <1>5, RunEmpty
    <2> QED BY <2>1, <1>4 DEF Reading
  <1>7. Framing'
    <2>1. CASE part = "head"
      <3>1. Wanted = 1 BY <2>1 DEF Wanted
      <3>2. stream[consumed + 1] # Payload /\ Len(stream) \in Nat
        BY <2>1, <3>1, <1>1, LenProperties
        DEF Inv, TypeOK, Framing, AtMessage
      <3>3. consumed' \in 1 .. Len(stream') /\ stream'[consumed'] # Payload
        BY <3>1, <3>2, <1>1, <1>4
      <3>4. got' = Run(1, consumed' - 1)
        BY <3>1, <1>1, <1>4
      <3> QED BY <2>1, <1>4, <3>3, <3>4 DEF Framing
    <2>2. CASE part = "body"
      <3>1. /\ consumed \in 1 .. Len(stream) /\ stream[consumed] # Payload
            /\ consumed - 1 \in Nat /\ got = Run(1, consumed - 1)
        BY <2>2 DEF Inv, TypeOK, Framing
      <3>2. got[1] = consumed BY <3>1, <1>1, RunOne
      <3>3. Wanted = stream[consumed] BY <2>2, <3>2 DEF Wanted
      <3>4. AtMessage(consumed + Wanted) BY <3>1, <3>3 DEF Inv, Framed
      <3>5. AtMessage(consumed)' BY <3>4, <1>4 DEF AtMessage
      <3> QED BY <2>2, <1>4, <3>5 DEF Framing
    <2> QED BY <1>1, <2>1, <2>2
  <1> QED BY <1>2, <1>3, <1>4, <1>5, <1>6, <1>7

\* The server writes a whole message behind the ones before.
LEMMA ComposeKeeps ==
    ASSUME Inv, NEW b \in Bodies, Compose(b)
    PROVE  Inv'
  <1> DEFINE s == Append(stream, b)
             t == [i \in 1 .. b |-> Payload]
  <1>1. b \in Nat BY SizesAssumption
  <1>2. stream \in Seq(Nat \union {Payload}) /\ Len(stream) \in Nat
    BY LenProperties DEF Inv, TypeOK
  <1>3. /\ s \in Seq(Nat \union {Payload}) /\ Len(s) = Len(stream) + 1
        /\ \A p \in 1 .. Len(stream) : s[p] = stream[p]
        /\ s[Len(stream) + 1] = b
    BY <1>1, <1>2, AppendProperties
  <1>4. /\ t \in Seq(Nat \union {Payload}) /\ Len(t) = b
        /\ \A p \in 1 .. b : t[p] = Payload
    BY <1>1
  <1>5. stream' = s \o t BY DEF Compose
  <1> HIDE DEF s, t
  <1>6. stream' \in Seq(Nat \union {Payload}) /\ Len(stream') = Len(stream) + 1 + b
    <2>1. /\ s \o t \in Seq(Nat \union {Payload})
          /\ Len(s \o t) = Len(s) + Len(t)
      BY <1>3, <1>4, ConcatProperties
    <2>2. Len(s) + Len(t) = Len(stream) + 1 + b BY <1>3, <1>4
    <2> QED BY <2>1, <2>2, <1>5
  <1>7. \A p \in 1 .. Len(stream) + 1 + b :
           stream'[p] = IF p <= Len(stream) THEN stream[p]
                        ELSE IF p = Len(stream) + 1 THEN b ELSE Payload
    <2> TAKE p \in 1 .. Len(stream) + 1 + b
    <2>1. stream'[p] = IF p <= Len(s) THEN s[p] ELSE t[p - Len(s)]
      <3>1. p \in 1 .. Len(s) + Len(t) BY <1>1, <1>2, <1>3, <1>4
      <3> QED BY <3>1, <1>3, <1>4, <1>5, ConcatProperties
    <2> QED BY <2>1, <1>1, <1>2, <1>3, <1>4
  <1>8. UNCHANGED <<sent, peer, reader>> BY DEF Compose
  <1>9. b # Payload BY <1>1 DEF Payload
  <1>10. \A p \in 0 .. Len(stream) : AtMessage(p) => AtMessage(p)'
    BY <1>1, <1>2, <1>6, <1>7, <1>9 DEF AtMessage
  <1>11. TypeOK'
    BY <1>1, <1>2, <1>6, <1>8 DEF Inv, TypeOK, reader
  <1>12. BufferInBounds' /\ NothingLost'
    BY <1>8 DEF Inv, BufferInBounds, NothingLost, reader
  <1>13. consumed \in 0 .. Len(stream)
    BY <1>2, LenProperties DEF Inv, TypeOK, NothingLost
  <1>14. Framed'
    <2>1. AtMessage(0)' BY <1>2, <1>10 DEF Inv, Framed
    <2>2. ASSUME NEW p \in 1 .. Len(stream'), stream'[p] # Payload
          PROVE  p + stream'[p] <= Len(stream') /\ AtMessage(p + stream[p])'
      <3>1. CASE p <= Len(stream)
        <4>1. p \in 1 .. Len(stream) BY <3>1, <1>2, <1>6, <1>1
        <4>2. stream'[p] = stream[p] BY <3>1, <1>6, <1>7, <2>2
        <4>3. stream[p] \in Nat BY <4>1, <4>2, <1>2, <2>2, ElementOfSeq
        <4>4. p + stream[p] <= Len(stream) /\ AtMessage(p + stream[p])
          BY <4>1, <4>2, <2>2 DEF Inv, Framed
        <4>5. p + stream[p] \in 0 .. Len(stream) BY <4>1, <4>3, <4>4, <1>2
        <4> QED BY <4>2, <4>4, <4>5, <1>10, <1>6, <1>1, <1>2
      <3>2. CASE p > Len(stream)
        <4>1. p = Len(stream) + 1 /\ stream'[p] = b
          BY <3>2, <1>2, <1>6, <1>7, <2>2
        <4> QED BY <4>1, <1>1, <1>2, <1>6 DEF AtMessage
      <3>3. p <= Len(stream) \/ p > Len(stream) BY <1>2
      <3> QED BY <3>1, <3>2, <3>3
    <2> QED BY <2>1, <2>2 DEF Framed
  <1>15. Framing'
    <2>1. CASE part = "head"
      BY <2>1, <1>8, <1>10, <1>13 DEF Inv, Framing, reader, AtMessage
    <2>2. CASE part # "head"
      BY <2>2, <1>1, <1>2, <1>6, <1>7, <1>8 DEF Inv, Framing, reader
    <2> QED BY <2>1, <2>2
  <1>16. Reading'
    <2>1. Wanted' = Wanted
      <3>1. CASE part = "head" BY <3>1, <1>8 DEF Wanted, reader
      <3>2. CASE part # "head"
        <4>1. consumed \in 1 .. Len(stream) /\ got = Run(1, consumed - 1)
          BY <3>2 DEF Inv, Framing
        <4>2. got[1] = consumed
          <5>1. consumed - 1 \in Nat /\ consumed \in Nat BY <4>1, <1>2
          <5> QED BY <4>1, <5>1, RunOne
        <4>3. stream'[consumed] = stream[consumed]
          BY <4>1, <1>1, <1>2, <1>7
        <4> QED BY <3>2, <4>2, <4>3, <1>8 DEF Wanted, reader
      <3> QED BY <3>1, <3>2
    <2> QED BY <2>1, <1>8 DEF Inv, Reading, reader
  <1> QED BY <1>11, <1>12, <1>14, <1>15, <1>16 DEF Inv

\* The parts of the invariant about the stream need only the stream.
LEMMA FramedKeeps == ASSUME Framed, UNCHANGED stream PROVE Framed'
  BY DEF Framed, AtMessage

LEMMA FramingKeeps ==
    ASSUME Framing, UNCHANGED <<stream, part, consumed, got>>,
           part # "head" => pc' # "poll"
    PROVE  Framing'
  BY DEF Framing, AtMessage

LEMMA SocketKeeps ==
    ASSUME Inv, Send \/ HangUp \/ Poll \/ ReadFails \/ UNCHANGED vars
    PROVE  Inv'
  <1> USE DEF Inv
  <1>1. TypeOK'
    BY SMTT(30), LenProperties DEF TypeOK, Send, HangUp, Poll, ReadFails, vars, socket, reader
  <1>2. /\ UNCHANGED <<stream, taken, bufoutptr, buffered, buf, part, n, out,
                       got, consumed>>
        /\ pc' # pc => \/ pc = "poll" /\ pc' = "call"
                       \/ pc' = "failed"
    BY DEF Send, HangUp, Poll, ReadFails, vars, socket, reader
  <1>3. BufferInBounds' /\ NothingLost'
    BY <1>2 DEF BufferInBounds, NothingLost
  <1>4. Reading' BY <1>2 DEF Reading, Wanted
  <1>5. Framing'
    <2>1. part # "head" => pc' # "poll" BY <1>2 DEF Framing
    <2> QED BY <2>1, <1>2, FramingKeeps
  <1> QED BY <1>1, <1>2, <1>3, <1>4, <1>5, FramedKeeps

\* What is delivered has reached the client, hence been written.
LEMMA Delivered ==
    ASSUME Inv
    PROVE  /\ consumed \in Nat /\ buffered \in Nat /\ bufoutptr \in Nat
           /\ taken \in Nat /\ sent \in Nat /\ n \in Nat
           /\ RFB_BUF_SIZE \in Nat
           /\ Len(out) \in Nat /\ Len(stream) \in Nat
           /\ consumed + Len(out) + buffered <= Len(stream)
           /\ consumed + Len(out) + buffered = taken
           /\ taken <= sent
  BY SizesAssumption, LenProperties DEF Inv, TypeOK, NothingLost

LEMMA ReadBufferedDelivers ==
    ASSUME Inv, ReadBuffered
    PROVE  Deliver(Run(Wanted, consumed))
  <1>1. Wanted \in Nat /\ Wanted <= buffered BY WantedType DEF ReadBuffered
  <1>2. Len(out) = 0 BY EmptySeq DEF Inv, Reading, ReadBuffered
  <1>3. Copied(Wanted) = Run(Wanted, consumed + Len(out)) BY <1>1, CopiedRun
  <1>4. consumed + Len(out) = consumed BY <1>2, Delivered
  <1> QED BY <1>3, <1>4 DEF ReadBuffered

LEMMA ReadBufferedKeeps ==
    ASSUME Inv, ReadBuffered
    PROVE  Inv'
  <1>1. /\ Wanted \in Nat /\ Wanted <= buffered
        /\ bufoutptr' = bufoutptr + Wanted /\ buffered' = buffered - Wanted
        /\ UNCHANGED <<stream, sent, peer, taken, buf>>
    BY WantedType DEF ReadBuffered, socket
  <1>2. out = << >> /\ Len(out) = 0
    BY EmptySeq DEF Inv, Reading, ReadBuffered
  <1>3. consumed + Wanted <= Len(stream) BY <1>1, <1>2, Delivered
  <1>4. /\ got' \in Seq(Nat) /\ consumed' = consumed + Wanted
        /\ consumed' \in Nat /\ out' = << >> /\ out' \in Seq(Nat) /\ n' = 0
        /\ part' \in {"head", "body"} /\ pc' \in {"poll", "call"}
        /\ Reading' /\ Framing'
    BY <1>1, <1>3, ReadBufferedDelivers, DeliverKeeps
  <1>5. bufoutptr' \in Nat /\ buffered' \in Nat /\ n' \in Nat /\ Len(out') = 0
    <2>1. n' \in Nat BY <1>4
    <2>2. Len(out') = 0 BY <1>2, <1>4
    <2>3. bufoutptr \in Nat /\ buffered \in Nat BY Delivered
    <2>4. bufoutptr' \in Nat /\ buffered' \in Nat BY <1>1, <2>3
    <2> QED BY <2>1, <2>2, <2>4
  <1>6. TypeOK' BY <1>1, <1>4, <1>5 DEF Inv, TypeOK
  <1>7. BufferInBounds' BY <1>1, Delivered DEF Inv, BufferInBounds
  <1>8. NothingLost'
    <2>1. taken' = consumed' + Len(out') + buffered'
      BY SMTT(30), <1>1, <1>2, <1>4, <1>5, Delivered
    <2>2. ASSUME NEW i \in 1 .. buffered', bufoutptr' + i <= RFB_BUF_SIZE
          PROVE  buf'[bufoutptr' + i - 1] = consumed' + Len(out') + i
      <3>1. Wanted + i \in 1 .. buffered
        BY <1>1, Delivered
      <3>2. bufoutptr + (Wanted + i) <= RFB_BUF_SIZE
        BY <1>1, <2>2, Delivered
      <3>3. buf[bufoutptr + (Wanted + i) - 1] = consumed + Len(out) + (Wanted + i)
        BY <3>1, <3>2 DEF Inv, NothingLost
      <3>4. bufoutptr + (Wanted + i) - 1 = bufoutptr' + i - 1
        BY SMTT(30), <1>1, Delivered
      <3>5. consumed + Len(out) + (Wanted + i) = consumed' + Len(out') + i
        <4>1. Len(out) = 0 /\ Len(out') = 0 /\ consumed' = consumed + Wanted
          BY <1>2, <1>4, <1>5
        <4>2. consumed \in Nat /\ Wanted \in Nat /\ i \in Nat
          BY <1>1, <3>1, Delivered
        <4> QED BY <4>1, <4>2
      <3>6. buf' = buf BY <1>1
      <3> QED BY <3>3, <3>4, <3>5, <3>6
    <2> QED BY <2>1, <2>2 DEF NothingLost
  <1> QED BY <1>1, <1>4, <1>6, <1>7, <1>8, FramedKeeps DEF Inv

LEMMA DrainBufferKeeps ==
    ASSUME Inv, DrainBuffer
    PROVE  Inv'
  <1>1. /\ Wanted \in Nat /\ Wanted > buffered
        /\ out' = Copied(buffered) /\ n' = Wanted - buffered
        /\ bufoutptr' = 0 /\ buffered' = 0 /\ pc = "call"
        /\ pc' = IF n' <= RFB_BUF_SIZE THEN "fill" ELSE "direct"
        /\ UNCHANGED <<stream, sent, peer, taken, buf, part, got, consumed>>
    BY WantedType DEF DrainBuffer, socket
  <1>2. Len(out) = 0 BY <1>1, EmptySeq DEF Inv, Reading
  <1>3. out' = Run(buffered, consumed)
    <2>1. Copied(buffered) = Run(buffered, consumed + Len(out))
      BY Delivered, CopiedRun
    <2>2. consumed + Len(out) = consumed BY <1>2, Delivered
    <2> QED BY <1>1, <2>1, <2>2
  <1>4. out' \in Seq(Nat) /\ Len(out') = buffered
    BY <1>3, Delivered, RunProperties
  <1>5. n' \in Nat BY <1>1, Delivered
  <1>6. TypeOK' BY <1>1, <1>4, <1>5 DEF Inv, TypeOK
  <1>7. BufferInBounds' BY <1>1, Delivered DEF BufferInBounds
  <1>a. /\ consumed \in Nat /\ buffered \in Nat /\ taken \in Nat
        /\ n \in Nat /\ Len(out) \in Nat
        /\ consumed + Len(out) + buffered = taken
    BY Delivered
  <1>8. NothingLost'
    <2>1. taken' = consumed' + Len(out') + buffered' BY <1>1, <1>2, <1>4, <1>a
    <2>2. buffered' = 0 BY <1>1
    <2>3. 1 .. buffered' = {} BY <2>2
    <2> QED BY <2>1, <2>3 DEF NothingLost
  <1>9. Reading'
    <2>1. Wanted' = Wanted BY <1>1 DEF Wanted
    <2>2. out' = Run(Len(out'), consumed') BY <1>1, <1>3, <1>4
    <2> QED BY <1>1, <1>4, <2>1, <2>2, Delivered DEF Reading
  <1>10. Framing'
    <2>1. part # "head" => pc' # "poll" BY <1>1
    <2> QED BY <2>1, <1>1, FramingKeeps DEF Inv
  <1> QED BY <1>1, <1>6, <1>7, <1>8, <1>9, <1>10, FramedKeeps DEF Inv

LEMMA FillKeeps ==
    ASSUME Inv, Fill
    PROVE  Inv'
  <1>0. PICK i \in 1 .. (sent - taken) :
          /\ i <= RFB_BUF_SIZE - buffered
          /\ buf' = [j \in DOMAIN buf |->
                        IF j \in buffered .. (buffered + i - 1)
                          THEN taken + 1 + j - buffered ELSE buf[j]]
          /\ buffered' = buffered + i
          /\ taken' = taken + i
    BY DEF Fill
  <1>1. /\ pc = "fill" /\ i \in Nat /\ i <= sent - taken
        /\ i <= RFB_BUF_SIZE - buffered
        /\ buffered' = buffered + i /\ taken' = taken + i
        /\ UNCHANGED <<stream, sent, peer, bufoutptr, pc, part, n, out, got,
                       consumed>>
    <2>1. i \in Nat /\ i <= sent - taken BY <1>0, Delivered
    <2> QED BY <1>0, <2>1 DEF Fill, socket
  <1>a. /\ consumed \in Nat /\ buffered \in Nat /\ taken \in Nat
        /\ sent \in Nat /\ n \in Nat /\ RFB_BUF_SIZE \in Nat
        /\ Len(out) \in Nat /\ consumed + Len(out) + buffered = taken
    BY Delivered
  <1>2. bufoutptr = 0 BY <1>1 DEF Inv, Reading
  <1>3. DOMAIN buf = 0 .. RFB_BUF_SIZE - 1 BY DEF Inv, TypeOK
  <1>4. buf' \in [0 .. RFB_BUF_SIZE - 1 -> Nat]
    <2>1. ASSUME NEW j \in 0 .. RFB_BUF_SIZE - 1
          PROVE  (IF j \in buffered .. (buffered + i - 1)
                    THEN taken + 1 + j - buffered ELSE buf[j]) \in Nat
      <3>1. CASE j \in buffered .. (buffered + i - 1)
        BY <1>1, <1>a, <3>1
      <3>2. CASE j \notin buffered .. (buffered + i - 1)
        BY <3>2 DEF Inv, TypeOK
      <3> QED BY <3>1, <3>2
    <2> QED BY <1>0, <1>3, <2>1
  <1>5. taken' \in 0 .. sent' /\ buffered' \in Nat BY <1>1, <1>a
  <1>6. TypeOK' BY <1>1, <1>4, <1>5 DEF Inv, TypeOK
  <1>7. BufferInBounds' BY <1>1, <1>2, Delivered DEF BufferInBounds
  <1>8. NothingLost'
    <2>1. taken' = consumed' + Len(out') + buffered' BY SMTT(30), <1>1, Delivered
    <2>2. ASSUME NEW k \in 1 .. buffered', bufoutptr' + k <= RFB_BUF_SIZE
          PROVE  buf'[bufoutptr' + k - 1] = consumed' + Len(out') + k
      <3>1. k - 1 \in 0 .. RFB_BUF_SIZE - 1 /\ k \in Nat
        BY <1>1, <1>2, <2>2, Delivered
      <3>2. buf'[k - 1] = IF k - 1 \in buffered .. (buffered + i - 1)
                            THEN taken + 1 + (k - 1) - buffered ELSE buf[k - 1]
        BY <1>0, <1>3, <3>1
      <3>3. CASE k <= buffered
        <4>1. k \in 1 .. buffered /\ bufoutptr + k <= RFB_BUF_SIZE
          BY <3>1, <3>3, <1>1, <2>2, Delivered
        <4>2. buf[bufoutptr + k - 1] = consumed + Len(out) + k
          BY <4>1 DEF Inv, NothingLost
        <4>3. bufoutptr + k - 1 = k - 1 /\ ~(k - 1 \in buffered .. (buffered + i - 1))
          BY <1>1, <1>2, <3>1, <3>3, Delivered
        <4>4. buf'[k - 1] = consumed + Len(out) + k BY <3>2, <4>2, <4>3
        <4> QED BY <4>3, <4>4, <1>1
      <3>4. CASE k > buffered
        <4>1. k - 1 \in buffered .. (buffered + i - 1)
          BY <1>1, <1>a, <3>1, <3>4, <2>2
        <4>2. taken + 1 + (k - 1) - buffered = consumed + Len(out) + k
          BY <3>1, <1>a
        <4>3. bufoutptr' + k - 1 = k - 1 BY <1>1, <1>2, <3>1
        <4> QED BY <3>2, <4>1, <4>2, <4>3, <1>1
      <3>5. k <= buffered \/ k > buffered BY <3>1, Delivered
      <3> QED BY <3>3, <3>4, <3>5
    <2> QED BY <2>1, <2>2 DEF NothingLost
  <1>9. Reading' BY <1>1 DEF Inv, Reading, Wanted
  <1>10. Framing'
    <2>1. part # "head" => pc' # "poll" BY <1>1
    <2> QED BY <2>1, <1>1, FramingKeeps DEF Inv
  <1> QED BY <1>1, <1>6, <1>7, <1>8, <1>9, <1>10, FramedKeeps DEF Inv

LEMMA FilledDelivers ==
    ASSUME Inv, Filled
    PROVE  Deliver(Run(Wanted, consumed))
  <1>1. n \in Nat /\ n <= buffered /\ Len(out) + n = Wanted
        /\ out = Run(Len(out), consumed)
    BY Delivered DEF Filled, Inv, Reading
  <1>2. Copied(n) = Run(n, consumed + Len(out)) BY <1>1, CopiedRun
  <1>3. Run(Len(out), consumed) \o Run(n, consumed + Len(out))
          = Run(Len(out) + n, consumed)
    BY Delivered, RunConcat
  <1>4. out \o Copied(n) = Run(Wanted, consumed) BY <1>1, <1>2, <1>3
  <1> QED BY <1>4 DEF Filled

LEMMA FilledKeeps ==
    ASSUME Inv, Filled
    PROVE  Inv'
  <1>1. /\ n <= buffered /\ Len(out) + n = Wanted /\ bufoutptr = 0
        /\ bufoutptr' = bufoutptr + n /\ buffered' = buffered - n
        /\ UNCHANGED <<stream, sent, peer, taken, buf>>
    BY Delivered DEF Filled, Inv, Reading, socket
  <1>2. consumed + Wanted <= Len(stream) BY <1>1, Delivered
  <1>3. /\ got' \in Seq(Nat) /\ consumed' = consumed + Wanted
        /\ consumed' \in Nat /\ out' = << >> /\ out' \in Seq(Nat) /\ n' = 0
        /\ part' \in {"head", "body"} /\ pc' \in {"poll", "call"}
        /\ Reading' /\ Framing'
    BY <1>1, <1>2, FilledDelivers, DeliverKeeps
  <1>4. Len(out') = 0 BY <1>3, EmptySeq
  <1>5. bufoutptr' \in Nat /\ buffered' \in Nat /\ n' \in Nat
    <2>1. n' \in Nat BY <1>3
    <2>2. n \in Nat /\ bufoutptr \in Nat /\ buffered \in Nat BY Delivered
    <2>3. bufoutptr' \in Nat /\ buffered' \in Nat BY <1>1, <2>2
    <2> QED BY <2>1, <2>3
  <1>6. TypeOK' BY <1>1, <1>3, <1>5 DEF Inv, TypeOK
  <1>7. BufferInBounds' BY <1>1, Delivered DEF Inv, BufferInBounds
  <1>8. NothingLost'
    <2>1. consumed' = consumed + Len(out) + n
      BY <1>1, <1>3, Delivered
    <2>2. taken' = consumed' + Len(out') + buffered'
      BY SMTT(30), <1>1, <1>4, <2>1, Delivered
    <2>3. ASSUME NEW k \in 1 .. buffered', bufoutptr' + k <= RFB_BUF_SIZE
          PROVE  buf'[bufoutptr' + k - 1] = consumed' + Len(out') + k
      <3>1. k \in Nat /\ n + k \in 1 .. buffered BY <1>1, Delivered
      <3>2. bufoutptr + (n + k) <= RFB_BUF_SIZE BY <1>1, <2>3, <3>1, Delivered
      <3>3. buf[bufoutptr + (n + k) - 1] = consumed + Len(out) + (n + k)
        BY <3>1, <3>2 DEF Inv, NothingLost
      <3>4. bufoutptr + (n + k) - 1 = bufoutptr' + k - 1
        BY <1>1, <3>1, Delivered
      <3>5. consumed + Len(out) + (n + k) = consumed' + Len(out') + k
        <4>1. consumed + Len(out) + (n + k) = (consumed + Len(out) + n) + 0 + k
          BY SMTT(30), <3>1, Delivered
        <4> QED BY <4>1, <2>1, <1>4
      <3>6. buf' = buf BY <1>1
      <3> QED BY <3>3, <3>4, <3>5, <3>6
    <2> QED BY <2>2, <2>3 DEF NothingLost
  <1> QED BY <1>1, <1>3, <1>6, <1>7, <1>8, FramedKeeps DEF Inv

LEMMA ReadDirectKeeps ==
    ASSUME Inv, ReadDirect
    PROVE  Inv'
  <1>0. PICK i \in 1 .. (sent - taken) :
          /\ i <= n
          /\ out' = out \o [j \in 1 .. i |-> taken + j]
          /\ n' = n - i
          /\ taken' = taken + i
    BY DEF ReadDirect
  <1>1. /\ pc = "direct" /\ i \in Nat /\ i <= sent - taken
        /\ i <= n /\ n' = n - i /\ taken' = taken + i
        /\ buffered = 0 /\ Len(out) + n = Wanted
        /\ out = Run(Len(out), consumed)
        /\ UNCHANGED <<stream, sent, peer, buf, bufoutptr, buffered, pc, part,
                       got, consumed>>
    <2>1. i \in Nat /\ i <= sent - taken BY <1>0, Delivered
    <2> QED BY <1>0, <2>1 DEF ReadDirect, Inv, Reading, socket
  <1>a. /\ consumed \in Nat /\ buffered \in Nat /\ taken \in Nat
        /\ sent \in Nat /\ n \in Nat /\ RFB_BUF_SIZE \in Nat
        /\ Len(out) \in Nat /\ consumed + Len(out) + buffered = taken
    BY Delivered
  <1>2. taken = consumed + Len(out) BY <1>1, Delivered
  <1>3. out' = Run(Len(out) + i, consumed)
    <2>1. [j \in 1 .. i |-> taken + j] = Run(i, consumed + Len(out))
      BY <1>2 DEF Run
    <2>2. out' = Run(Len(out), consumed) \o Run(i, consumed + Len(out))
      BY <1>0, <1>1, <2>1
    <2>3. i \in Nat /\ consumed \in Nat /\ Len(out) \in Nat BY <1>1, <1>a
    <2>4. Run(Len(out), consumed) \o Run(i, consumed + Len(out))
            = Run(Len(out) + i, consumed)
      BY <2>3, RunConcat
    <2> QED BY <2>2, <2>4
  <1>4. out' \in Seq(Nat) /\ Len(out') = Len(out) + i
    <2>1. Len(out) + i \in Nat /\ consumed \in Nat BY <1>1, <1>a
    <2>2. /\ Run(Len(out) + i, consumed) \in Seq(Nat)
          /\ Len(Run(Len(out) + i, consumed)) = Len(out) + i
      BY <2>1, RunProperties
    <2> QED BY <1>3, <2>2
  <1>5. n' \in Nat /\ taken' \in 0 .. sent'
    <2>1. n' = n - i /\ i <= n /\ taken' = taken + i /\ i <= sent - taken
          /\ sent' = sent /\ i \in Nat
      BY <1>1
    <2> QED BY <2>1, <1>a
  <1>6. TypeOK' BY <1>1, <1>4, <1>5 DEF Inv, TypeOK
  <1>7. BufferInBounds' BY <1>1 DEF Inv, BufferInBounds
  <1>8. NothingLost'
    <2>1. taken' = consumed' + Len(out') + buffered'
      <3>1. /\ taken' = taken + i /\ consumed' = consumed
            /\ buffered' = 0 /\ Len(out') = Len(out) + i /\ i \in Nat
        BY <1>1, <1>4
      <3> QED BY <3>1, <1>2, <1>a
    <2>2. buffered' = 0 BY <1>1
    <2>3. 1 .. buffered' = {} BY <2>2
    <2> QED BY <2>1, <2>3 DEF NothingLost
  <1>9. Reading'
    <2>1. Wanted' = Wanted BY <1>1 DEF Wanted
    <2>2. Len(out') + n' = Wanted' BY <1>1, <1>4, <2>1, Delivered
    <2>3. out' = Run(Len(out'), consumed') BY <1>1, <1>3, <1>4
    <2> QED BY <1>1, <2>2, <2>3 DEF Reading
  <1>10. Framing'
    <2>1. part # "head" => pc' # "poll" BY <1>1
    <2> QED BY <2>1, <1>1, FramingKeeps DEF Inv
  <1> QED BY <1>1, <1>6, <1>7, <1>8, <1>9, <1>10, FramedKeeps DEF Inv

LEMMA DirectDoneDelivers ==
    ASSUME Inv, DirectDone
    PROVE  Deliver(Run(Wanted, consumed)) /\ Len(out) = Wanted
  <1>1. n = 0 /\ Len(out) + n = Wanted /\ out = Run(Len(out), consumed)
    BY DEF DirectDone, Inv, Reading
  <1>2. Len(out) = Wanted BY <1>1, Delivered
  <1> QED BY <1>1, <1>2 DEF DirectDone

LEMMA DirectDoneKeeps ==
    ASSUME Inv, DirectDone
    PROVE  Inv'
  <1>1. /\ buffered = 0 /\ Len(out) = Wanted
        /\ UNCHANGED <<stream, sent, peer, taken, buf, bufoutptr, buffered>>
    BY DirectDoneDelivers DEF DirectDone, Inv, Reading, socket
  <1>2. consumed + Wanted <= Len(stream) BY <1>1, Delivered
  <1>3. /\ got' \in Seq(Nat) /\ consumed' = consumed + Wanted
        /\ consumed' \in Nat /\ out' = << >> /\ out' \in Seq(Nat) /\ n' = 0
        /\ part' \in {"head", "body"} /\ pc' \in {"poll", "call"}
        /\ Reading' /\ Framing'
    BY <1>1, <1>2, DirectDoneDelivers, DeliverKeeps
  <1>4. Len(out') = 0 BY <1>3, EmptySeq
  <1>5. n' \in Nat BY <1>3
  <1>6. TypeOK' BY <1>1, <1>3, <1>5 DEF Inv, TypeOK
  <1>7. BufferInBounds' BY <1>1 DEF Inv, BufferInBounds
  <1>a. /\ consumed \in Nat /\ buffered \in Nat /\ taken \in Nat
        /\ n \in Nat /\ Len(out) \in Nat
        /\ consumed + Len(out) + buffered = taken
    BY Delivered
  <1>8. NothingLost'
    <2>1. taken' = consumed' + Len(out') + buffered' BY <1>1, <1>3, <1>4, <1>a
    <2>2. buffered' = 0 BY <1>1
    <2>3. 1 .. buffered' = {} BY <2>2
    <2> QED BY <2>1, <2>3 DEF NothingLost
  <1> QED BY <1>1, <1>3, <1>6, <1>7, <1>8, FramedKeeps DEF Inv

LEMMA InvNext ==
    ASSUME Inv, [Next]_vars
    PROVE  Inv'
  <1>1. ASSUME NEW b \in Bodies, Compose(b) PROVE Inv' BY <1>1, ComposeKeeps
  <1>2. CASE Send \/ HangUp \/ Poll \/ ReadFails \/ UNCHANGED vars
    BY <1>2, SocketKeeps
  <1>3. CASE ReadBuffered BY <1>3, ReadBufferedKeeps
  <1>4. CASE DrainBuffer BY <1>4, DrainBufferKeeps
  <1>5. CASE Fill BY <1>5, FillKeeps
  <1>6. CASE Filled BY <1>6, FilledKeeps
  <1>7. CASE ReadDirect BY <1>7, ReadDirectKeeps
  <1>8. CASE DirectDone BY <1>8, DirectDoneKeeps
  <1> QED
    BY <1>1, <1>2, <1>3, <1>4, <1>5, <1>6, <1>7, <1>8 DEF Next, Server, Reader

LEMMA Invariance == Spec => []Inv
  BY InvInit, InvNext, PTL DEF Spec

-----------------------------------------------------------------------------
(* The theorems.                                                           *)

\* The variables keep their types.
THEOREM TypeCorrect == Spec => []TypeOK
  <1>1. Inv => TypeOK BY DEF Inv
  <1> QED BY <1>1, Invariance, PTL

\* No read and no copy leaves the read-ahead buffer.
THEOREM BufferSafe == Spec => []BufferInBounds
  <1>1. Inv => BufferInBounds BY DEF Inv
  <1> QED BY <1>1, Invariance, PTL

\* No byte is lost, repeated or moved on its way through the buffer.
THEOREM BytesKept == Spec => []NothingLost
  <1>1. Inv => NothingLost BY DEF Inv
  <1> QED BY <1>1, Invariance, PTL

\* The client never takes a byte in the middle of a message for its type.
THEOREM FramingCorrect == Spec => []FramingKept
  <1>1. ASSUME Inv PROVE FramingKept
    <2>1. pc = "poll" => part = "head" BY <1>1 DEF Inv, Framing
    <2> QED BY <1>1, <2>1 DEF Inv, Framing, AtMessage, FramingKept
  <1> QED BY <1>1, Invariance, PTL

\* A read that returns is a Read of ByteStream.
LEMMA DeliverReads ==
    ASSUME Inv, Deliver(Run(Wanted, consumed)), UNCHANGED sent,
           consumed + Wanted <= sent
    PROVE  Bytes!Read
  <1>1. Wanted \in Nat /\ consumed \in Nat /\ sent \in Nat
    BY WantedType, Delivered
  <1>2. Len(Run(Wanted, consumed)) = Wanted BY <1>1, RunProperties
  <1>3. got' = Run(Wanted, consumed) /\ consumed' = consumed + Wanted
    BY <1>2 DEF Deliver
  <1>4. consumed' \in consumed .. sent /\ consumed' - consumed = Wanted
    BY <1>1, <1>3
  <1>5. got' = [i \in 1 .. (consumed' - consumed) |-> consumed + i]
    BY <1>3, <1>4 DEF Run
  <1> QED BY <1>4, <1>5 DEF Bytes!Read

\* The read-ahead buffer refines the byte stream it stands for: callers cannot
\* tell ReadFromRFBServer from an exact read of the stream.
THEOREM Refinement == Spec => ImplementsByteStream
  <1>1. Init => Bytes!Init BY DEF Init, Bytes!Init
  <1>2. ASSUME Inv, [Next]_vars
        PROVE  [Bytes!Next]_(Bytes!vars)
    <2>a. sent \in Nat /\ Len(stream) \in Nat BY <1>2, Delivered
    <2>1. CASE Send
      <3>1. sent' \in Nat /\ sent' > sent BY <2>1, <2>a DEF Send
      <3> QED BY <2>1, <3>1 DEF Send, reader, Bytes!Next, Bytes!Send
    <2>2. CASE ReadBuffered
      <3>1. Wanted \in Nat /\ Wanted <= buffered
        BY <1>2, <2>2, WantedType DEF ReadBuffered
      <3>2. Len(out) = 0 BY <1>2, <2>2, EmptySeq DEF Inv, Reading, ReadBuffered
      <3>3. consumed + Wanted <= sent BY <1>2, <3>1, <3>2, Delivered
      <3>4. UNCHANGED sent BY <2>2 DEF ReadBuffered, socket
      <3> QED
        BY <1>2, <2>2, <3>3, <3>4, ReadBufferedDelivers, DeliverReads
        DEF Bytes!Next
    <2>3. CASE Filled
      <3>1. Len(out) + n = Wanted /\ n <= buffered
        BY <1>2, <2>3 DEF Inv, Reading, Filled
      <3>2. consumed + Wanted <= sent BY <1>2, <3>1, Delivered
      <3>3. UNCHANGED sent BY <2>3 DEF Filled, socket
      <3> QED
        BY <1>2, <2>3, <3>2, <3>3, FilledDelivers, DeliverReads DEF Bytes!Next
    <2>4. CASE DirectDone
      <3>1. Len(out) = Wanted BY <1>2, <2>4, DirectDoneDelivers
      <3>2. consumed + Wanted <= sent BY <1>2, <3>1, Delivered
      <3>3. UNCHANGED sent BY <2>4 DEF DirectDone, socket
      <3> QED
        BY <1>2, <2>4, <3>2, <3>3, DirectDoneDelivers, DeliverReads
        DEF Bytes!Next
    <2>5. CASE \/ \E b \in Bodies : Compose(b)
              \/ HangUp \/ Poll \/ DrainBuffer \/ Fill \/ ReadDirect
              \/ ReadFails \/ UNCHANGED vars
      BY <2>5
      DEF Compose, HangUp, Poll, DrainBuffer, Fill, ReadDirect, ReadFails,
          vars, socket, reader, Bytes!vars
    <2> QED
      BY <1>2, <2>1, <2>2, <2>3, <2>4, <2>5 DEF Next, Server, Reader
  <1> QED BY <1>1, <1>2, Invariance, PTL DEF Spec, ImplementsByteStream, Bytes!Spec


-----------------------------------------------------------------------------
(* Every read ends, as far as it is for the client.                        *)

\* What the handling of a message has still before it: its reads, the parts of
\* ReadFromRFBServer, the bytes to come from the socket.
BytesLeft == CASE pc = "fill" /\ buffered < n -> n - buffered
               [] pc = "direct" -> n
               [] OTHER -> 0
ReadAhead == <<IF pc \in {"poll", "failed"} THEN 0
               ELSE IF part = "head" THEN 2 ELSE 1,
               IF pc = "call" THEN 1 ELSE 0,
               BytesLeft>>

\* run() begins to read a message only when there is one, or the end.
TypeByteWritten ==
    pc \in {"call", "fill", "direct"} /\ part = "head"
        => consumed < Len(stream) \/ peer # "open"

\* The bytes a read waits for: the server has written them, and there is room.
Awaitable ==
    BytesLeft > 0 => /\ taken < Len(stream) \/ peer # "open"
                     /\ pc = "fill" => buffered < RFB_BUF_SIZE

LEMMA ReadLowers ==
    ASSUME Inv, Reader, ~Poll
    PROVE  Less(ReadAhead', ReadAhead)
  <1> USE DEF ReadAhead, Less
  <1>1. /\ part \in {"head", "body"} /\ n \in Nat /\ buffered \in Nat
        /\ taken \in Nat /\ sent \in Nat
    BY Delivered DEF Inv, TypeOK
  <1>2. ASSUME NEW bytes, Deliver(bytes), pc \in {"call", "fill", "direct"}
        PROVE  Less(ReadAhead', ReadAhead)
    <2>1. \/ part = "head" /\ part' = "body" /\ pc' = "call"
          \/ part = "body" /\ pc' = "poll"
      BY <1>1, <1>2 DEF Deliver
    <2> QED BY <1>2, <2>1
  <1>3. CASE ReadBuffered \/ Filled \/ DirectDone
    BY <1>2, <1>3 DEF ReadBuffered, Filled, DirectDone
  <1>4. CASE DrainBuffer
    <2>1. pc = "call" /\ pc' \in {"fill", "direct"} /\ part' = part
      BY <1>4 DEF DrainBuffer
    <2> QED BY <2>1
  <1>5. CASE Fill
    <2>1. /\ pc = "fill" /\ pc' = "fill" /\ UNCHANGED <<part, n>>
          /\ buffered < n
      BY <1>5 DEF Fill
    <2>2. PICK i \in 1 .. (sent - taken) : buffered' = buffered + i
      BY <1>5 DEF Fill
    <2>3. i \in Nat /\ i > 0 BY <1>1, <2>2
    <2>4. BytesLeft = n - buffered BY <2>1 DEF BytesLeft
    <2>5. BytesLeft' = IF buffered' < n THEN n - buffered' ELSE 0
      BY <2>1 DEF BytesLeft
    <2>6. BytesLeft' < BytesLeft
      BY <1>1, <2>1, <2>2, <2>3, <2>4, <2>5
    <2> QED BY <2>1, <2>6
  <1>6. CASE ReadDirect
    <2>1. pc = "direct" /\ pc' = "direct" /\ UNCHANGED part
      BY <1>6 DEF ReadDirect
    <2>2. PICK i \in 1 .. (sent - taken) : n' = n - i
      BY <1>6 DEF ReadDirect
    <2>3. i \in Nat /\ i > 0 BY <1>1, <2>2
    <2>4. BytesLeft' < BytesLeft
      BY <1>1, <2>1, <2>2, <2>3 DEF BytesLeft
    <2> QED BY <2>1, <2>4
  <1>7. CASE ReadFails
    <2>1. pc \in {"fill", "direct"} /\ pc' = "failed" BY <1>7 DEF ReadFails
    <2> QED BY <1>1, <2>1
  <1> QED BY <1>3, <1>4, <1>5, <1>6, <1>7 DEF Reader

LEMMA TypeByteStep ==
    ASSUME Inv, TypeByteWritten, [Next]_vars
    PROVE  TypeByteWritten'
  <1> USE DEF TypeByteWritten
  <1>1. /\ consumed \in Nat /\ taken \in Nat /\ sent \in Nat
        /\ Len(stream) \in Nat /\ buffered \in Nat /\ Len(out) \in Nat
        /\ consumed + Len(out) + buffered = taken /\ sent <= Len(stream)
    BY Delivered DEF Inv, TypeOK
  <1>2. ASSUME NEW b \in Bodies, Compose(b) PROVE TypeByteWritten'
    <2>1. UNCHANGED <<peer, pc, part, consumed>>
      BY <1>2 DEF Compose, reader
    <2>2. /\ b \in Nat /\ stream \in Seq(Nat \union {Payload})
          /\ [i \in 1 .. b |-> Payload] \in Seq(Nat \union {Payload})
      BY SizesAssumption DEF Inv, TypeOK
    <2>3. /\ Append(stream, b) \in Seq(Nat \union {Payload})
          /\ Len(Append(stream, b)) = Len(stream) + 1
      BY <2>2, AppendProperties
    <2>4. Len(stream') = Len(stream) + 1 + b
      <3>1. Len([i \in 1 .. b |-> Payload]) = b BY <2>2
      <3> QED BY <1>2, <2>2, <2>3, <3>1, ConcatProperties DEF Compose
    <2> QED BY <1>1, <2>1, <2>2, <2>4
  <1>3. CASE Send BY <1>3 DEF Send, reader
  <1>4. CASE HangUp BY <1>4 DEF HangUp, reader
  <1>5. CASE Poll BY <1>1, <1>5 DEF Poll, socket
  <1>6. ASSUME NEW bytes, Deliver(bytes)
        PROVE  ~(part' = "head" /\ pc' \in {"call", "fill", "direct"})
    BY <1>6 DEF Deliver
  <1>7. CASE ReadBuffered \/ Filled \/ DirectDone
    BY <1>6, <1>7 DEF ReadBuffered, Filled, DirectDone
  <1>8. CASE DrainBuffer \/ Fill \/ ReadDirect \/ ReadFails
    <2>1. UNCHANGED <<stream, peer, part, consumed>>
      BY <1>8 DEF DrainBuffer, Fill, ReadDirect, ReadFails, socket
    <2>2. \/ pc \in {"call", "fill", "direct"}
          \/ pc' = "failed"
      BY <1>8 DEF DrainBuffer, Fill, ReadDirect, ReadFails
    <2> QED BY <2>1, <2>2
  <1>9. CASE UNCHANGED vars BY <1>9 DEF vars, socket
  <1> QED
    BY <1>2, <1>3, <1>4, <1>5, <1>7, <1>8, <1>9 DEF Next, Server, Reader

\* The bytes a read waits for belong to the message it reads, and what it has
\* read ahead leaves them room.
LEMMA ReadAwaitable ==
    ASSUME Inv, TypeByteWritten
    PROVE  Awaitable
  <1> SUFFICES ASSUME BytesLeft > 0 PROVE Awaitable
    BY DEF Awaitable
  <1>1. /\ consumed \in Nat /\ taken \in Nat /\ n \in Nat
        /\ RFB_BUF_SIZE \in Nat /\ Len(stream) \in Nat
        /\ buffered \in Nat /\ Len(out) \in Nat
        /\ consumed + Len(out) + buffered = taken
    BY Delivered
  <1>2. \/ pc = "fill" /\ buffered < n /\ n <= RFB_BUF_SIZE
        \/ pc = "direct" /\ n > 0 /\ buffered = 0
    BY DEF BytesLeft, Inv, Reading
  <1>3. Len(out) + n = Wanted /\ Wanted \in Nat
    BY <1>2, WantedType DEF Inv, Reading
  <1>4. taken < consumed + Wanted BY <1>1, <1>2, <1>3
  <1>5. CASE part = "head"
    <2>1. Wanted = 1 BY <1>5 DEF Wanted
    <2>2. taken <= consumed BY <1>1, <1>4, <2>1
    <2> QED BY <1>1, <1>2, <1>5, <2>2 DEF TypeByteWritten, Awaitable
  <1>6. CASE part = "body"
    <2>1. /\ consumed \in 1 .. Len(stream) /\ stream[consumed] # Payload
          /\ got = Run(1, consumed - 1)
      BY <1>6 DEF Inv, Framing
    <2>2. got[1] = consumed BY <1>1, <2>1, RunOne
    <2>3. Wanted = stream[consumed] BY <1>6, <2>2 DEF Wanted
    <2>4. consumed + Wanted <= Len(stream) BY <2>1, <2>3 DEF Inv, Framed
    <2>5. taken < Len(stream) BY <1>1, <1>3, <1>4, <2>4
    <2> QED BY <1>1, <1>2, <2>5 DEF Awaitable
  <1> QED BY <1>5, <1>6 DEF Inv, TypeOK

\* A message is read in a bounded number of steps once its bytes are there, in
\* whatever pieces they come: every step of a read brings it nearer to its end.
\* A read waits only for what the server has written, if it has not hung up,
\* never for what will not come, and asks for at least one byte: read() into no
\* room at all would return 0, which ReadFromRFBServer takes for the end.
THEOREM ReadEnds ==
    Spec => /\ [](ReadAhead \in Triples)
            /\ []Awaitable
            /\ [][Reader /\ ~Poll => Less(ReadAhead', ReadAhead)]_vars
  <1>1. Init => TypeByteWritten BY DEF Init, TypeByteWritten
  <1>2. Inv /\ TypeByteWritten /\ [Next]_vars => TypeByteWritten'
    BY TypeByteStep
  <1>3. Spec => []TypeByteWritten
    BY <1>1, <1>2, Invariance, PTL DEF Spec
  <1>4. Inv => ReadAhead \in Triples
    <2> SUFFICES ASSUME Inv PROVE ReadAhead \in Triples
      OBVIOUS
    <2>1. n \in Nat /\ buffered \in Nat BY Delivered
    <2>2. BytesLeft \in Nat BY <2>1 DEF BytesLeft
    <2> QED BY <2>2 DEF ReadAhead, Triples
  <1>5. Inv /\ TypeByteWritten => Awaitable BY ReadAwaitable
  <1>6. Inv /\ [Next]_vars => [Reader /\ ~Poll => Less(ReadAhead', ReadAhead)]_vars
    BY ReadLowers
  <1> QED BY <1>3, <1>4, <1>5, <1>6, Invariance, PTL DEF Spec
=============================================================================
