--------------------------- MODULE UpdateLoop_proofs ---------------------------
(***************************************************************************)
(* Proofs about the cycle of requests and updates, for every set of tiles  *)
(* and of qualities and any number of changes and of new sizes: the cycle  *)
(* never dies, rectangles of pixels meet the frame they were made for, the *)
(* frame is the screen once nothing is under way, and that comes about     *)
(* when the screen rests.                                                  *)
(***************************************************************************)
EXTENDS UpdateLoop, Measures, FiniteSetTheorems, FunctionTheorems,
        NaturalsInduction, SequenceTheorems, WellFoundedInduction, TLAPS

(***************************************************************************)
(* What the two streams and the update being handled are made of.          *)
(***************************************************************************)
Size == 0 .. MaxResizes
Bits == {DefaultFormat, 16, 32}

PixelRect == [enc : {"pixels"}, tile : Tiles, picture : Picture, size : Size,
              bits : Bits]
CopyRect  == [enc : {"copy"}, from : Tiles, tile : Tiles]
SizeRect  == [enc : {"newSize"}, size : Size]
EmptyRect == [enc : {"pseudo", "last"}]
Rect      == PixelRect \union CopyRect \union SizeRect \union EmptyRect

UpdateMessage  == [type : {"update"}, rects : Seq(Rect)]
ResizeMessage  == [type : {"resize"}, size : Size]
RequestMessage == [type : {"request"}, incremental : BOOLEAN]
FormatMessage  == [type : {"setPixelFormat"}, bits : {16, 32}]

Streams == /\ toClient \in Seq(UpdateMessage \union ResizeMessage)
           /\ toServer \in Seq(RequestMessage \union FormatMessage)
           /\ rects \in Seq(Rect)
           /\ changes <= MaxChanges + size

Typed == TypeOK /\ Streams

(***************************************************************************)
(* SetToSeq makes a sequence of every finite set.                          *)
(***************************************************************************)
LEMMA SetToSeqType ==
    ASSUME NEW S, IsFiniteSet(S)
    PROVE  SetToSeq(S) \in Seq(S)
<1>1. Cardinality(S) \in Nat /\ ExistsBijection(1 .. Cardinality(S), S)
  BY FS_CardinalityType
<1>2. \E f \in [1 .. Cardinality(S) -> S] : IsInjective(f)
  BY <1>1 DEF ExistsBijection, Bijection, Injection
<1>3. SetToSeq(S) \in [1 .. Cardinality(S) -> S]
  BY <1>2 DEF SetToSeq
<1>4. QED
  BY <1>1, <1>3

LEMMA ImageFinite ==
    ASSUME NEW S, IsFiniteSet(S), NEW f, DOMAIN f = S
    PROVE  IsFiniteSet({f[x] : x \in S})
<1> DEFINE T == {f[x] : x \in S}
           g == [x \in S |-> f[x]]
<1>1. g \in Surjection(S, T)
  BY DEF Surjection
<1>2. QED
  BY <1>1, FS_Surjection

\* The rectangles of an update: copies, pixels, and what ends it.
Sent(sent, copied, from, ends) ==
    SetToSeq({Copy(from[t], t) : t \in copied})
        \o SetToSeq({Pixels(t) : t \in sent \ copied}) \o ends

\* Rectangles the server may send now.
Timely(rs) ==
    /\ rs \in Seq(Rect)
    /\ \A i \in 1 .. Len(rs) :
          /\ rs[i].enc # "newSize"
          /\ rs[i].enc = "pixels" => rs[i].size = size /\ rs[i].bits = sFormat

LEMMA RectsFinite ==
    ASSUME NEW sent \in SUBSET Tiles, NEW copied \in SUBSET Tiles, NEW from
    PROVE  /\ IsFiniteSet({Copy(from[t], t) : t \in copied})
           /\ IsFiniteSet({Pixels(t) : t \in sent \ copied})
<1> DEFINE C == {Copy(from[t], t) : t \in copied}
           P == {Pixels(t) : t \in sent \ copied}
<1>1. IsFiniteSet(copied) /\ IsFiniteSet(sent \ copied)
  BY UpdateAssumption, FS_Subset DEF UpdateAssumption
<1>2. IsFiniteSet(C)
  <2> DEFINE f == [t \in copied |-> Copy(from[t], t)]
  <2>1. C = {f[t] : t \in copied} /\ DOMAIN f = copied
    OBVIOUS
  <2> HIDE DEF C, f
  <2>2. QED
    BY <1>1, <2>1, ImageFinite
<1>3. IsFiniteSet(P)
  <2> DEFINE f == [t \in sent \ copied |-> Pixels(t)]
  <2>1. P = {f[t] : t \in sent \ copied} /\ DOMAIN f = sent \ copied
    OBVIOUS
  <2> HIDE DEF P, f
  <2>2. QED
    BY <1>1, <2>1, ImageFinite
<1>4. QED
  BY <1>2, <1>3

LEMMA UpdateRects ==
    ASSUME Typed, NEW sent \in SUBSET Tiles, NEW copied \in SUBSET Tiles,
           NEW from \in [copied -> Tiles], NEW ends \in Ends
    PROVE  Timely(Sent(sent, copied, from, ends))
<1> DEFINE C == {Copy(from[t], t) : t \in copied}
           P == {Pixels(t) : t \in sent \ copied}
           Fit == {r \in Rect : /\ r.enc # "newSize"
                                /\ r.enc = "pixels" =>
                                      r.size = size /\ r.bits = sFormat}
<1>1. IsFiniteSet(C) /\ IsFiniteSet(P)
  BY RectsFinite
<1>2. C \subseteq Fit
  BY DEF Copy, Rect, CopyRect
<1>3. P \subseteq Fit
  <2>1. \A t \in Tiles : Pixels(t) \in PixelRect
    BY DEF Pixels, PixelRect, Typed, TypeOK, Size, Bits
  <2>2. QED
    BY <2>1 DEF Pixels, Rect
<1>4. ends \in Seq(Fit)
  <2>1. Pseudo \in Fit /\ LastRect \in Fit
    BY DEF Pseudo, LastRect, Rect, EmptyRect
  <2>2. ends = << >> \/ ends = <<Pseudo>> \/ ends = <<LastRect>>
    BY DEF Ends
  <2> HIDE DEF C, P, Fit
  <2>3. << >> \in Seq(Fit) /\ <<Pseudo>> \in Seq(Fit) /\ <<LastRect>> \in Seq(Fit)
    BY <2>1
  <2>4. QED
    BY <2>2, <2>3, Zenon
<1>5. SetToSeq(C) \in Seq(Fit) /\ SetToSeq(P) \in Seq(Fit)
  <2>1. SetToSeq(C) \in Seq(C) /\ SetToSeq(P) \in Seq(P)
    BY <1>1, SetToSeqType
  <2> HIDE DEF C, P, Fit
  <2>2. QED
    BY <1>2, <1>3, <2>1
<1> DEFINE rs == Sent(sent, copied, from, ends)
<1>6. rs \in Seq(Fit)
  <2>1. rs = SetToSeq(C) \o SetToSeq(P) \o ends
    BY DEF Sent
  <2> HIDE DEF C, P, Fit, rs
  <2>2. QED
    BY <1>4, <1>5, <2>1, ConcatProperties
<1> HIDE DEF rs
<1>7. \A i \in 1 .. Len(rs) : rs[i] \in Fit
  BY <1>6, ElementOfSeq
<1>8. rs \in Seq(Rect)
  BY <1>6
<1>9. QED
  BY <1>7, <1>8 DEF Timely, rs

(***************************************************************************)
(* Every step keeps the types.                                             *)
(***************************************************************************)
ToServer == RequestMessage \union FormatMessage
ToClient == UpdateMessage \union ResizeMessage

LEMMA Numbers == /\ MaxChanges \in Nat /\ MaxResizes \in Nat
                 /\ IsFiniteSet(Tiles)
BY UpdateAssumption DEF UpdateAssumption

LEMMA Single ==
    ASSUME NEW S, NEW x \in S
    PROVE  <<x>> \in Seq(S)
OBVIOUS

LEMMA Appended ==
    ASSUME NEW S, NEW q \in Seq(S), NEW x \in S
    PROVE  Append(q, x) \in Seq(S)
OBVIOUS

LEMMA ClientMessages ==
    /\ Request(TRUE) \in ToServer /\ Request(FALSE) \in ToServer
    /\ \A b \in {16, 32} : SetPixelFormat(b) \in ToServer
    /\ \A q : BitsPerPixel(q) \in {16, 32}
<1>1. \A b \in BOOLEAN : Request(b) \in RequestMessage
  BY DEF Request, RequestMessage
<1>2. TRUE \in BOOLEAN /\ FALSE \in BOOLEAN
  OBVIOUS
<1>3. Request(TRUE) \in ToServer /\ Request(FALSE) \in ToServer
  BY <1>1, <1>2, Zenon DEF ToServer
<1>4. \A b \in {16, 32} : SetPixelFormat(b) \in ToServer
  BY DEF SetPixelFormat, ToServer, FormatMessage
<1>5. \A q : BitsPerPixel(q) \in {16, 32}
  BY DEF BitsPerPixel
<1>6. QED
  BY <1>3, <1>4, <1>5

\* A new frame, and messages that ask for all of it.
LEMMA NewClientTyped ==
    ASSUME Typed, NewClient, NEW more \in Seq(ToServer)
    PROVE  /\ format' \in {16, 32}
           /\ frame' \in [Tiles -> Picture \union {Blank, Garbage}]
           /\ toServer \o NewClientMessages \o more \in Seq(ToServer)
<1>1. NewClientMessages \in Seq(ToServer)
  BY ClientMessages DEF NewClientMessages
<1>2. toServer \in Seq(ToServer)
  BY DEF Typed, Streams, ToServer
<1>3. toServer \o NewClientMessages \in Seq(ToServer)
  BY <1>1, <1>2, ConcatProperties
<1>4. QED
  BY <1>3, ClientMessages, ConcatProperties DEF NewClient

LEMMA ChangeSizeTyped ==
    ASSUME Typed, NEW s \in Size, ChangeSize(s)
    PROVE  /\ format' \in {16, 32} /\ width' \in Size
           /\ frame' \in [Tiles -> Picture \union {Blank, Garbage}]
           /\ toServer' \in Seq(ToServer)
<1>1. <<Request(FALSE)>> \in Seq(ToServer)
  BY ClientMessages, Single, Zenon
<1>2. QED
  BY <1>1, NewClientTyped DEF ChangeSize

LEMMA InitTyped == Init => Typed
<1> SUFFICES ASSUME Init PROVE Typed
  OBVIOUS
<1>1. /\ requested \in BOOLEAN /\ sizeTold \in BOOLEAN
      /\ requalified \in BOOLEAN
  BY Zenon DEF Init
<1>2. /\ toClient \in Seq(ToClient) /\ toServer \in Seq(ToServer)
      /\ rects \in Seq(Rect)
  BY DEF Init
<1>3. QED
  BY <1>1, <1>2, Numbers
  DEF Init, Typed, TypeOK, Streams, Picture, ToClient, ToServer

LEMMA ScreenTyped ==
    ASSUME Typed, Screen
    PROVE  Typed'
<1>1. /\ changes \in Nat /\ size \in Nat /\ MaxChanges \in Nat
      /\ MaxResizes \in Nat /\ size <= MaxResizes
      /\ changes <= MaxChanges + size
  BY Numbers DEF Typed, TypeOK, Streams, Picture
<1>2. ASSUME NEW t \in Tiles, Draw(t) PROVE Typed'
  <2>1. changes' = changes + 1 /\ changes' \in Picture
        /\ changes' <= MaxChanges + size
    BY <1>1, <1>2 DEF Draw, Picture
  <2>2. QED
    BY <1>2, <2>1 DEF Draw, Typed, TypeOK, Streams, client
<1>3. ASSUME NEW s \in Tiles, NEW d \in Tiles, Scroll(s, d) PROVE Typed'
  <2>1. changes' = changes + 1 /\ changes' \in Picture
        /\ changes' <= MaxChanges + size
    BY <1>1, <1>3 DEF Scroll, Picture
  <2>2. QED
    BY <1>3, <2>1 DEF Scroll, Typed, TypeOK, Streams, client
<1>4. CASE Resize
  <2>1. /\ changes' = changes + 1 /\ changes' \in Picture
        /\ size' \in Size /\ changes' <= MaxChanges + size'
    BY <1>1, <1>4 DEF Resize, Picture, Size
  <2>2. screen' \in [Tiles -> Picture]
    BY <1>4, <2>1 DEF Resize
  <2>3. modified' \subseteq Tiles /\ known' \subseteq Tiles
    BY <1>4 DEF Resize
  <2>4. sizeTold' \in BOOLEAN
    BY <1>4, Zenon DEF Resize
  <2>5. QED
    BY <1>4, <2>1, <2>2, <2>3, <2>4 DEF Resize, Typed, TypeOK, Streams, client,
       Size
<1>5. QED
  BY <1>2, <1>3, <1>4 DEF Screen

\* The choices behind an update.
LEMMA UpdateSent ==
    ASSUME SendUpdate
    PROVE  \E sent \in (SUBSET modified) \ {{}}, copied \in SUBSET modified :
           \E from \in [copied -> known \ modified], ends \in Ends :
              /\ copied \subseteq sent
              /\ \A t \in copied : screen[from[t]] = screen[t]
              /\ toClient' = Append(toClient, Update(Sent(sent, copied, from, ends)))
              /\ modified' = modified \ sent
              /\ known' = known \union sent
BY Zenon DEF SendUpdate, Sent

\* What SendUpdate puts on the wire.
LEMMA SentRects ==
    ASSUME Typed, SendUpdate
    PROVE  \E rs : Timely(rs) /\ toClient' = Append(toClient, Update(rs))
<1>1. PICK sent \in (SUBSET modified) \ {{}}, copied \in SUBSET modified :
      \E from \in [copied -> known \ modified], ends \in Ends :
         toClient' = Append(toClient, Update(Sent(sent, copied, from, ends)))
  BY UpdateSent, Zenon
<1>2. PICK from \in [copied -> known \ modified], ends \in Ends :
         toClient' = Append(toClient, Update(Sent(sent, copied, from, ends)))
  BY <1>1, Zenon
<1>3. modified \subseteq Tiles /\ known \subseteq Tiles
  BY DEF Typed, TypeOK
<1>4. sent \in SUBSET Tiles /\ copied \in SUBSET Tiles
      /\ from \in [copied -> Tiles]
  BY <1>3
<1>5. Timely(Sent(sent, copied, from, ends))
  BY <1>4, UpdateRects, Zenon
<1>6. QED
  BY <1>2, <1>5, Zenon

LEMMA ServerTyped ==
    ASSUME Typed, Server
    PROVE  Typed'
<1>1. /\ toClient \in Seq(ToClient) /\ toServer \in Seq(ToServer)
      /\ rects \in Seq(Rect)
  BY DEF Typed, Streams, ToClient, ToServer
<1>2. CASE SendUpdate
  <2>1. PICK rs : Timely(rs) /\ toClient' = Append(toClient, Update(rs))
    BY <1>2, SentRects
  <2>2. toClient' \in Seq(ToClient)
    BY <1>1, <2>1 DEF Timely, Update, ToClient, UpdateMessage
  <2>3. modified' \subseteq modified /\ known' \subseteq known \union modified
    BY <1>2 DEF SendUpdate
  <2>4. requested' \in BOOLEAN
    BY <1>2, Zenon DEF SendUpdate
  <2>5. QED
    BY <1>2, <2>2, <2>3, <2>4
    DEF SendUpdate, Typed, TypeOK, Streams, client, ToClient
<1>3. CASE TellSize
  <2>1. SizeRect \subseteq Rect /\ NewFBSize \in SizeRect
    BY DEF Rect, NewFBSize, SizeRect, Typed, TypeOK, Size
  <2>2. Update(<<NewFBSize>>) \in ToClient
    BY <2>1 DEF Update, ToClient, UpdateMessage
  <2>3. [type |-> "resize", size |-> size] \in ToClient
    BY DEF ToClient, ResizeMessage, Typed, TypeOK, Size
  <2>4. toClient' \in Seq(ToClient)
    <3>1. \/ toClient' = Append(toClient, Update(<<NewFBSize>>))
          \/ toClient' = Append(toClient, [type |-> "resize", size |-> size])
      BY <1>3 DEF TellSize
    <3>2. QED
      BY <1>1, <2>2, <2>3, <3>1, Appended, Zenon
  <2>5. requested' \in BOOLEAN /\ sizeTold' \in BOOLEAN
    BY <1>3, Zenon DEF TellSize, Typed, TypeOK
  <2>6. QED
    BY <1>3, <2>4, <2>5 DEF TellSize, Typed, TypeOK, Streams, client, ToClient
<1>4. CASE ServerRequest
  <2>1. toServer' \in Seq(ToServer)
    BY <1>1, <1>4, HeadTailProperties DEF ServerRequest, ServerReceive
  <2>2. modified' \subseteq Tiles
    BY <1>4 DEF ServerRequest, Typed, TypeOK
  <2>3. requested' \in BOOLEAN
    BY <1>4, Zenon DEF ServerRequest
  <2>4. QED
    BY <1>4, <2>1, <2>2, <2>3 DEF ServerRequest, ServerReceive, Typed, TypeOK,
       Streams, client, ToServer
<1>5. CASE ServerSetFormat
  <2>1. /\ toServer' \in Seq(ToServer) /\ Head(toServer) \in ToServer
        /\ Head(toServer).type = "setPixelFormat"
    BY <1>1, <1>5, HeadTailProperties DEF ServerSetFormat, ServerReceive
  <2>2. Head(toServer).bits \in {16, 32}
    BY <2>1 DEF ToServer, RequestMessage, FormatMessage
  <2>3. QED
    BY <1>5, <2>1, <2>2 DEF ServerSetFormat, ServerReceive, Typed, TypeOK,
       Streams, client, ToServer
<1>6. QED
  BY <1>2, <1>3, <1>4, <1>5 DEF Server

\* The rectangle being decoded, and those after it.
LEMMA NextTyped ==
    ASSUME Typed, NEW enc, NextRect(enc)
    PROVE  /\ Head(rects) \in Rect /\ Head(rects).enc = enc
           /\ rects' \in Seq(Rect)
BY HeadTailProperties DEF Typed, Streams, NextRect

LEMMA ClientTyped ==
    ASSUME Typed, Client
    PROVE  Typed'
<1>1. /\ toClient \in Seq(ToClient) /\ toServer \in Seq(ToServer)
      /\ rects \in Seq(Rect)
  BY DEF Typed, Streams, ToClient, ToServer
<1>2. CASE Start
  <2>1. NewClient
    BY <1>2 DEF Start
  <2>2. format' \in {16, 32}
    BY <2>1, ClientMessages DEF NewClient
  <2>3. <<SetPixelFormat(format'), Request(FALSE)>> \in Seq(ToServer)
    <3>1. SetPixelFormat(format') \in ToServer /\ Request(FALSE) \in ToServer
      BY <2>2, ClientMessages, Zenon
    <3>2. \A x, y \in ToServer : <<x, y>> \in Seq(ToServer)
      OBVIOUS
    <3>3. QED
      BY <3>1, <3>2, Zenon
  <2>4. /\ frame' \in [Tiles -> Picture \union {Blank, Garbage}]
        /\ toServer' \in Seq(ToServer)
    BY <1>2, <2>1, <2>3, NewClientTyped DEF Start
  <2>5. QED
    BY <1>2, <2>2, <2>4 DEF Start, Typed, TypeOK, Streams, server, ToServer
<1>3. CASE HandleUpdate
  <2>1. /\ toClient' \in Seq(ToClient) /\ Head(toClient) \in ToClient
        /\ Head(toClient).type = "update"
    BY <1>1, <1>3, HeadTailProperties DEF HandleUpdate
  <2>2. Head(toClient).rects \in Seq(Rect)
    BY <2>1 DEF ToClient, UpdateMessage, ResizeMessage
  <2>3. QED
    BY <1>3, <2>1, <2>2 DEF HandleUpdate, Typed, TypeOK, Streams, server,
       ToClient
<1>4. CASE HandlePixels
  <2>1. Head(rects) \in PixelRect /\ rects' \in Seq(Rect)
    <3>1. /\ Head(rects) \in Rect /\ Head(rects).enc = "pixels"
          /\ rects' \in Seq(Rect)
      BY <1>4, NextTyped DEF HandlePixels
    <3>2. QED
      BY <3>1 DEF Rect, CopyRect, SizeRect, EmptyRect
  <2>2. Head(rects).tile \in Tiles /\ Head(rects).picture \in Picture
    BY <2>1 DEF PixelRect
  <2>3. frame' \in [Tiles -> Picture \union {Blank, Garbage}]
    BY <1>4, <2>2 DEF HandlePixels, Typed, TypeOK
  <2>4. QED
    BY <1>4, <2>1, <2>3 DEF HandlePixels, NextRect, Typed, TypeOK, Streams,
       server
<1>5. CASE HandleCopyRect
  <2>1. Head(rects) \in CopyRect /\ rects' \in Seq(Rect)
    <3>1. /\ Head(rects) \in Rect /\ Head(rects).enc = "copy"
          /\ rects' \in Seq(Rect)
      BY <1>5, NextTyped DEF HandleCopyRect
    <3>2. QED
      BY <3>1 DEF Rect, PixelRect, SizeRect, EmptyRect
  <2>2. Head(rects).tile \in Tiles /\ Head(rects).from \in Tiles
    BY <2>1 DEF CopyRect
  <2>3. frame' \in [Tiles -> Picture \union {Blank, Garbage}]
    BY <1>5, <2>2 DEF HandleCopyRect, Typed, TypeOK
  <2>4. QED
    BY <1>5, <2>1, <2>3 DEF HandleCopyRect, NextRect, Typed, TypeOK, Streams,
       server
<1>6. CASE HandleNewFBSize
  <2>1. Head(rects) \in SizeRect /\ rects' \in Seq(Rect)
    <3>1. /\ Head(rects) \in Rect /\ Head(rects).enc = "newSize"
          /\ rects' \in Seq(Rect)
      BY <1>6, NextTyped DEF HandleNewFBSize
    <3>2. QED
      BY <3>1 DEF Rect, PixelRect, CopyRect, EmptyRect
  <2>2. Head(rects).size \in Size
    BY <2>1 DEF SizeRect
  <2>3. /\ format' \in {16, 32} /\ width' \in Size
        /\ frame' \in [Tiles -> Picture \union {Blank, Garbage}]
        /\ toServer' \in Seq(ToServer)
    BY <1>6, <2>2, ChangeSizeTyped DEF HandleNewFBSize
  <2>4. QED
    BY <1>6, <2>1, <2>3 DEF HandleNewFBSize, NextRect, Typed, TypeOK, Streams,
       server, ToServer, Size
<1>7. CASE HandlePseudo
  <2>1. rects' \in Seq(Rect)
    BY <1>7, NextTyped DEF HandlePseudo
  <2>2. QED
    BY <1>7, <2>1 DEF HandlePseudo, NextRect, Typed, TypeOK, Streams, server
<1>8. CASE HandleLastRect
  <2>1. rects' \in Seq(Rect)
    BY <1>8 DEF HandleLastRect
  <2>2. QED
    BY <1>8, <2>1 DEF HandleLastRect, Typed, TypeOK, Streams, server
<1>9. CASE FinishUpdate
  <2>1. toServer' \in Seq(ToServer)
    BY <1>1, <1>9, ClientMessages, Appended, Zenon DEF FinishUpdate
  <2>2. QED
    BY <1>9, <2>1 DEF FinishUpdate, Typed, TypeOK, Streams, server, ToServer
<1>10. CASE HandleResize
  <2>1. /\ toClient' \in Seq(ToClient) /\ Head(toClient) \in ToClient
        /\ Head(toClient).type = "resize"
    BY <1>1, <1>10, HeadTailProperties DEF HandleResize
  <2>2. Head(toClient).size \in Size
    BY <2>1 DEF ToClient, UpdateMessage, ResizeMessage
  <2>3. /\ format' \in {16, 32} /\ width' \in Size
        /\ frame' \in [Tiles -> Picture \union {Blank, Garbage}]
        /\ toServer' \in Seq(ToServer)
    BY <1>10, <2>2, ChangeSizeTyped DEF HandleResize
  <2>4. QED
    BY <1>10, <2>1, <2>3 DEF HandleResize, Typed, TypeOK, Streams, server,
       ToServer, ToClient, Size
<1>11. QED
  BY <1>2, <1>3, <1>4, <1>5, <1>6, <1>7, <1>8, <1>9, <1>10 DEF Client

LEMMA QualityTyped ==
    ASSUME Typed, NEW q \in Qualities, SetQuality(q)
    PROVE  Typed'
<1>1. requalified' \in BOOLEAN
  BY Zenon DEF SetQuality, Typed, TypeOK
<1>2. QED
  BY <1>1 DEF SetQuality, Typed, TypeOK, Streams, server, client

LEMMA StutterTyped ==
    ASSUME Typed, UNCHANGED vars
    PROVE  Typed'
BY DEF Typed, TypeOK, Streams, vars, server, client

LEMMA TypedStep ==
    ASSUME Typed, [Next]_vars
    PROVE  Typed'
BY ScreenTyped, ServerTyped, ClientTyped, QualityTyped, StutterTyped DEF Next

\* The streams carry whole messages of the four kinds, and the update being
\* handled whole rectangles, as the readers of rfbproto.c take them.
THEOREM TypedInductive == Spec => []Typed
<1>1. QED
  BY InitTyped, TypedStep, PTL DEF Spec

\* Type correctness of the session on the wire.
THEOREM TypeCorrect == Spec => []TypeOK
<1>1. Typed => TypeOK
  BY DEF Typed
<1>2. QED
  BY <1>1, TypedInductive, PTL

(***************************************************************************)
(* The cycle of requests and updates.                                      *)
(***************************************************************************)
Has(s, type) == \E i \in 1 .. Len(s) : s[i].type = type

LEMMA HasAppended ==
    ASSUME NEW S, NEW s \in Seq(S), NEW x \in S, NEW type
    PROVE  /\ Has(s, type) => Has(Append(s, x), type)
           /\ x.type = type => Has(Append(s, x), type)
<1> DEFINE r == Append(s, x)
<1>1. /\ Len(s) \in Nat /\ Len(r) = Len(s) + 1
      /\ \A i \in 1 .. Len(s) : r[i] = s[i]
      /\ r[Len(s) + 1] = x
  BY AppendProperties
<1> HIDE DEF r
<1>2. 1 .. Len(s) \subseteq 1 .. Len(r) /\ Len(s) + 1 \in 1 .. Len(r)
  BY <1>1
<1>3. (Has(s, type) => Has(r, type)) /\ (x.type = type => Has(r, type))
  BY <1>1, <1>2 DEF Has
<1>4. QED
  BY <1>3 DEF r

\* Only what is at the head leaves a queue.
LEMMA HasTail ==
    ASSUME NEW S, NEW s \in Seq(S), s # << >>, NEW type, Has(s, type),
           Head(s).type # type
    PROVE  Has(Tail(s), type)
<1>1. /\ Len(s) \in Nat \ {0} /\ Head(s) = s[1]
      /\ Len(Tail(s)) = Len(s) - 1
      /\ \A i \in 1 .. Len(s) - 1 : Tail(s)[i] = s[i + 1]
  BY LenProperties, HeadTailProperties, EmptySeq
<1>2. PICK i \in 1 .. Len(s) : s[i].type = type
  BY DEF Has
<1>3. i - 1 \in 1 .. Len(s) - 1 /\ (i - 1) + 1 = i
  BY <1>1, <1>2
<1>4. Tail(s)[i - 1].type = type
  BY <1>1, <1>2, <1>3
<1>5. QED
  BY <1>1, <1>3, <1>4 DEF Has

\* What the client sends with a new size, or at the start, asks for an update.
LEMMA Asked ==
    ASSUME NEW q \in Seq(ToServer), NEW x \in ToServer, x.type = "request"
    PROVE  /\ Has(q \o <<x>>, "request")
           /\ \A y \in ToServer : Has(q \o <<y, x>>, "request")
<1>1. Len(q) \in Nat
  OBVIOUS
<1>2. Has(q \o <<x>>, "request")
  <2>1. q \o <<x>> = Append(q, x)
    BY AppendIsConcat
  <2>2. QED
    BY ZenonT(60), <2>1, HasAppended
<1>3. ASSUME NEW y \in ToServer PROVE Has(q \o <<y, x>>, "request")
  <2> DEFINE t == <<y, x>>
             r == q \o t
  <2>1. t \in Seq(ToServer) /\ Len(t) = 2 /\ t[2] = x
    OBVIOUS
  <2> HIDE DEF t
  <2>2. /\ Len(r) = Len(q) + Len(t)
        /\ \A i \in 1 .. Len(q) + Len(t) :
              r[i] = IF i <= Len(q) THEN q[i] ELSE t[i - Len(q)]
    BY <2>1, ConcatProperties, Zenon
  <2> HIDE DEF r
  <2>3. Len(q) + 2 \in 1 .. Len(r) /\ r[Len(q) + 2] = x
    BY <1>1, <2>1, <2>2
  <2>4. Has(r, "request")
    BY <2>3 DEF Has
  <2>5. QED
    BY <2>4 DEF r, t
<1>4. QED
  BY <1>2, <1>3

LEMMA NewMessages == toServer \in Seq(ToServer) =>
                         toServer \o NewClientMessages \in Seq(ToServer)
<1>1. NewClientMessages \in Seq(ToServer)
  BY ClientMessages DEF NewClientMessages
<1>2. QED
  BY <1>1, ConcatProperties

\* Requests are asked for by their type.
LEMMA RequestTypes ==
    /\ Request(TRUE) \in ToServer /\ Request(TRUE).type = "request"
    /\ Request(FALSE) \in ToServer /\ Request(FALSE).type = "request"
<1>1. \A b : Request(b).type = "request"
  BY DEF Request
<1>2. QED
  BY <1>1, ClientMessages, Zenon

LEMMA RequestStep ==
    ASSUME Typed, RequestPending, [Next]_vars
    PROVE  RequestPending'
<1>1. /\ toClient \in Seq(ToClient) /\ toServer \in Seq(ToServer)
      /\ toServer \o NewClientMessages \in Seq(ToServer)
  BY NewMessages DEF Typed, Streams, ToClient, ToServer
<1>2. RequestPending <=>
         (pc # "init" => \/ requested \/ pc = "rects"
                         \/ Has(toServer, "request")
                         \/ Has(toClient, "update"))
  BY DEF RequestPending, Has
<1>3. RequestPending' <=>
         (pc' # "init" => \/ requested' \/ pc' = "rects"
                          \/ Has(toServer', "request")
                          \/ Has(toClient', "update"))
  BY DEF RequestPending, Has
<1>4. CASE Screen \/ UNCHANGED vars
  <2>1. UNCHANGED <<pc, requested, toClient, toServer>>
    BY <1>4 DEF Screen, Draw, Scroll, Resize, vars, client, server
  <2>2. QED
    BY <1>2, <1>3, <2>1
<1>5. CASE SendUpdate
  <2>1. PICK rs : Timely(rs) /\ toClient' = Append(toClient, Update(rs))
    BY <1>5, SentRects
  <2>2. Update(rs) \in ToClient /\ Update(rs).type = "update"
    BY <2>1 DEF Timely, Update, ToClient, UpdateMessage
  <2>3. Has(toClient', "update")
    BY <1>1, <2>1, <2>2, HasAppended
  <2>4. QED
    BY <1>3, <2>3
<1>6. CASE TellSize
  <2>1. \/ toClient' = Append(toClient, Update(<<NewFBSize>>))
        \/ /\ toClient' = Append(toClient, [type |-> "resize", size |-> size])
           /\ UNCHANGED requested
    BY <1>6 DEF TellSize
  <2>2. /\ Update(<<NewFBSize>>) \in ToClient
        /\ Update(<<NewFBSize>>).type = "update"
        /\ [type |-> "resize", size |-> size] \in ToClient
    BY DEF Update, ToClient, UpdateMessage, ResizeMessage, NewFBSize, Rect,
           SizeRect, Size, Typed, TypeOK
  <2>3. CASE toClient' = Append(toClient, Update(<<NewFBSize>>))
    BY <1>1, <1>3, <2>2, <2>3, HasAppended
  <2>4. CASE /\ toClient' = Append(toClient, [type |-> "resize", size |-> size])
             /\ UNCHANGED requested
    <3>1. Has(toClient, "update") => Has(toClient', "update")
      <4>1. \A x \in ToClient : Has(toClient, "update") =>
                                  Has(Append(toClient, x), "update")
        BY <1>1, HasAppended
      <4>2. QED
        BY <2>2, <2>4, <4>1
    <3>2. UNCHANGED <<pc, toServer, requested>>
      BY <1>6, <2>4 DEF TellSize, client
    <3>3. QED
      BY <1>2, <1>3, <3>1, <3>2
  <2>5. QED
    BY <2>1, <2>3, <2>4
<1>7. CASE ServerRequest
  BY <1>3, <1>7 DEF ServerRequest
<1>8. CASE ServerSetFormat
  <2>1. /\ toServer # << >> /\ Head(toServer).type # "request"
        /\ toServer' = Tail(toServer)
        /\ UNCHANGED <<pc, requested, toClient>>
    BY <1>8 DEF ServerSetFormat, ServerReceive, client
  <2>2. Has(toServer, "request") => Has(toServer', "request")
    BY <1>1, <2>1, HasTail
  <2>3. QED
    BY <1>2, <1>3, <2>1, <2>2
<1>9. CASE Start
  <2>1. toServer' = (toServer \o NewClientMessages)
                       \o <<SetPixelFormat(format'), Request(FALSE)>>
    BY <1>9 DEF Start
  <2>2. SetPixelFormat(format') \in ToServer
    BY <1>9, ClientMessages DEF Start, NewClient
  <2>3. Has(toServer', "request")
    BY <1>1, <2>1, <2>2, Asked, RequestTypes, Zenon
  <2>4. QED
    BY <1>3, <2>3
<1>10. CASE HandleUpdate
  BY <1>3, <1>10 DEF HandleUpdate
<1>11. CASE HandlePixels \/ HandleCopyRect \/ HandleNewFBSize \/ HandlePseudo
            \/ HandleLastRect
  BY <1>3, <1>11 DEF HandlePixels, HandleCopyRect, HandleNewFBSize,
     HandlePseudo, HandleLastRect, NextRect
<1>12. CASE FinishUpdate
  <2>1. Has(toServer', "request")
    BY <1>1, <1>12, HasAppended, RequestTypes, Zenon DEF FinishUpdate
  <2>2. QED
    BY <1>3, <2>1
<1>13. CASE HandleResize
  <2>1. toServer' = (toServer \o NewClientMessages) \o <<Request(FALSE)>>
    BY <1>13 DEF HandleResize, ChangeSize
  <2>2. Has(toServer', "request")
    BY <1>1, <2>1, Asked, RequestTypes, Zenon
  <2>3. QED
    BY <1>3, <2>2
<1>14. ASSUME NEW q \in Qualities, SetQuality(q) PROVE RequestPending'
  <2>1. UNCHANGED <<pc, requested, toClient, toServer>>
    BY <1>14 DEF SetQuality, client, server
  <2>2. QED
    BY <1>2, <1>3, <2>1
<1>15. QED
  BY <1>4, <1>5, <1>6, <1>7, <1>8, <1>9, <1>10, <1>11, <1>12, <1>13, <1>14
  DEF Next, Server, Client

\* SendIncrementalFramebufferUpdateRequest at the end of every update, and a
\* request with every new size, keep the picture coming: there is always one
\* more update to come.
THEOREM CycleKept == Spec => []RequestPending
<1>1. Init => RequestPending
  BY DEF Init, RequestPending
<1>2. QED
  BY <1>1, RequestStep, TypedInductive, PTL DEF Spec

(***************************************************************************)
(* The format: unless the quality is changed during the session, the       *)
(* server sends pixels only once it has been told the format of the frame. *)
(***************************************************************************)
RectIn(b)     == {r \in Rect : r.enc = "pixels" => r.bits = b}
ToClientIn(b) == {m \in ToClient : m.type = "update" => m.rects \in Seq(RectIn(b))}
ToServerIn(b) == {m \in ToServer : m.type = "setPixelFormat" => m.bits = b}

\* Nothing is sent before the start, and rectangles are left only in an update.
AtRest == /\ pc = "init" => /\ toClient = << >> /\ toServer = << >>
                            /\ ~requested /\ sFormat = DefaultFormat
          /\ pc # "rects" => rects = << >>

\* Everything on its way, and the server as soon as it has read the first
\* message, has b bits per pixel.
InFormat(b) ==
    /\ format = b
    /\ sFormat \in {DefaultFormat, b}
    /\ requested => sFormat = b
    /\ sFormat = DefaultFormat =>
          toServer # << >> /\ Head(toServer).type = "setPixelFormat"
    /\ toServer \in Seq(ToServerIn(b))
    /\ toClient \in Seq(ToClientIn(b))
    /\ rects \in Seq(RectIn(b))

FormatInv == /\ AtRest
             /\ ~requalified /\ pc # "init" => InFormat(BitsPerPixel(quality))

LEMMA ConcatHead ==
    ASSUME NEW S, NEW s \in Seq(S), s # << >>, NEW t \in Seq(S)
    PROVE  s \o t # << >> /\ Head(s \o t) = Head(s)
<1> DEFINE r == s \o t
<1>1. /\ Len(s) \in Nat \ {0} /\ Head(s) = s[1] /\ Len(t) \in Nat
  BY LenProperties, HeadTailProperties, EmptySeq
<1>2. /\ r \in Seq(S) /\ Len(r) = Len(s) + Len(t)
      /\ \A i \in 1 .. Len(s) + Len(t) :
            r[i] = IF i <= Len(s) THEN s[i] ELSE t[i - Len(s)]
  BY ConcatProperties, Zenon
<1> HIDE DEF r
<1>3. r # << >> /\ Head(r) = r[1] /\ r[1] = s[1]
  BY <1>1, <1>2
<1>4. r # << >> /\ Head(r) = Head(s)
  BY <1>1, <1>3
<1>5. QED
  BY <1>4 DEF r

LEMMA AtRestStep ==
    ASSUME Typed, AtRest, [Next]_vars
    PROVE  AtRest'
<1>1. CASE Screen \/ UNCHANGED vars \/ \E q \in Qualities : SetQuality(q)
  BY <1>1 DEF Screen, Draw, Scroll, Resize, SetQuality, vars, client, server,
     AtRest
<1>2. CASE Server
  BY <1>2 DEF Server, SendUpdate, TellSize, ServerRequest, ServerSetFormat,
     ServerReceive, client, AtRest
<1>3. CASE Start \/ HandleUpdate \/ FinishUpdate \/ HandleResize
  BY <1>3 DEF Start, HandleUpdate, FinishUpdate, HandleResize, AtRest
<1>4. CASE HandlePixels \/ HandleCopyRect \/ HandleNewFBSize \/ HandlePseudo
           \/ HandleLastRect
  BY <1>4 DEF HandlePixels, HandleCopyRect, HandleNewFBSize, HandlePseudo,
     HandleLastRect, NextRect, AtRest
<1>5. QED
  BY <1>1, <1>2, <1>3, <1>4 DEF Next, Client

\* What the client sends with a new size is in the format of the quality.
LEMMA NewMessagesIn ==
    ASSUME NEW b, b = BitsPerPixel(quality), NEW s \in Seq(ToServerIn(b))
    PROVE  /\ NewClientMessages \in Seq(ToServerIn(b))
           /\ s \o NewClientMessages \o <<Request(FALSE)>>
                 \in Seq(ToServerIn(b))
<1>1. SetPixelFormat(b) \in ToServerIn(b) /\ Request(FALSE) \in ToServerIn(b)
  <2>1. b \in {16, 32}
    BY ClientMessages
  <2>2. SetPixelFormat(b) \in ToServer /\ SetPixelFormat(b).bits = b
    BY <2>1, ClientMessages DEF SetPixelFormat
  <2>3. Request(FALSE).type # "setPixelFormat"
    BY RequestTypes
  <2>4. QED
    BY <2>2, <2>3, RequestTypes, Zenon DEF ToServerIn
<1>2. NewClientMessages \in Seq(ToServerIn(b))
  BY <1>1 DEF NewClientMessages
<1>3. <<Request(FALSE)>> \in Seq(ToServerIn(b))
  BY <1>1, Single, Zenon
<1>4. s \o NewClientMessages \in Seq(ToServerIn(b))
  BY <1>2, ConcatProperties
<1>5. QED
  BY <1>2, <1>3, <1>4, ConcatProperties

LEMMA StartFormat ==
    ASSUME Typed, AtRest, Start
    PROVE  InFormat(BitsPerPixel(quality))'
<1> DEFINE b == BitsPerPixel(quality)
<1>1. /\ toServer = << >> /\ toClient = << >> /\ rects = << >>
      /\ ~requested /\ sFormat = DefaultFormat
  BY DEF Start, AtRest
<1>2. /\ format' = b /\ b \in {16, 32} /\ b' = b
      /\ UNCHANGED <<toClient, rects, requested, sFormat>>
      /\ toServer' = toServer \o NewClientMessages
                        \o <<SetPixelFormat(b), Request(FALSE)>>
  BY ClientMessages DEF Start, NewClient, server
<1>3. SetPixelFormat(b) \in ToServerIn(b) /\ Request(FALSE) \in ToServerIn(b)
      /\ SetPixelFormat(b).type = "setPixelFormat"
  <2>1. SetPixelFormat(b) \in ToServer /\ SetPixelFormat(b).bits = b
        /\ SetPixelFormat(b).type = "setPixelFormat"
    BY <1>2, ClientMessages DEF SetPixelFormat
  <2>2. Request(FALSE).type # "setPixelFormat"
    BY RequestTypes
  <2>3. QED
    BY <2>1, <2>2, RequestTypes, Zenon DEF ToServerIn
<1>4. /\ NewClientMessages \in Seq(ToServerIn(b))
      /\ NewClientMessages # << >> /\ Head(NewClientMessages) = SetPixelFormat(b)
  BY <1>3 DEF NewClientMessages
<1>5. << >> \o NewClientMessages = NewClientMessages
  BY <1>4, ConcatEmptySeq
<1>6. <<SetPixelFormat(b), Request(FALSE)>> \in Seq(ToServerIn(b))
  <2>1. \A x, y \in ToServerIn(b) : <<x, y>> \in Seq(ToServerIn(b))
    OBVIOUS
  <2>2. QED
    BY <1>3, <2>1, Zenon
<1>7. /\ toServer' \in Seq(ToServerIn(b))
      /\ toServer' # << >> /\ Head(toServer') = SetPixelFormat(b)
  BY ZenonT(60), <1>1, <1>2, <1>4, <1>5, <1>6, ConcatHead, ConcatProperties
<1> HIDE DEF b
<1>8. toClient' \in Seq(ToClientIn(b)) /\ rects' \in Seq(RectIn(b))
  BY <1>1, <1>2
<1>9. /\ format' = b /\ sFormat' = DefaultFormat /\ ~requested'
      /\ Head(toServer').type = "setPixelFormat"
  BY <1>1, <1>2, <1>3, <1>7
<1>10. /\ ToServerIn(b)' = ToServerIn(b) /\ ToClientIn(b)' = ToClientIn(b)
       /\ RectIn(b)' = RectIn(b)
  BY <1>2 DEF ToServerIn, ToClientIn, RectIn
<1>11. InFormat(b)'
  BY <1>2, <1>7, <1>8, <1>9, <1>10 DEF InFormat
<1>12. QED
  BY <1>11 DEF b

LEMMA InFormatNext ==
    ASSUME NEW b, b = BitsPerPixel(quality), UNCHANGED quality,
           format' = b, sFormat' \in {DefaultFormat, b},
           requested' => sFormat' = b,
           sFormat' = DefaultFormat =>
              toServer' # << >> /\ Head(toServer').type = "setPixelFormat",
           toServer' \in Seq(ToServerIn(b)), toClient' \in Seq(ToClientIn(b)),
           rects' \in Seq(RectIn(b))
    PROVE  InFormat(BitsPerPixel(quality))'
<1>1. b' = b
  BY DEF BitsPerPixel
<1>2. /\ ToServerIn(b)' = ToServerIn(b) /\ ToClientIn(b)' = ToClientIn(b)
      /\ RectIn(b)' = RectIn(b)
  BY <1>1 DEF ToServerIn, ToClientIn, RectIn
<1>3. InFormat(b)'
  BY <1>1, <1>2 DEF InFormat
<1>4. (b = BitsPerPixel(quality))'
  BY <1>1 DEF BitsPerPixel
<1>5. QED
  BY <1>3, <1>4

\* The server's steps.
LEMMA ServerFormat ==
    ASSUME Typed, NEW b, b = BitsPerPixel(quality), InFormat(b), Server
    PROVE  InFormat(BitsPerPixel(quality))'
<1>1. /\ format = b /\ sFormat \in {DefaultFormat, b} /\ b # DefaultFormat
      /\ toServer \in Seq(ToServerIn(b)) /\ toClient \in Seq(ToClientIn(b))
      /\ rects \in Seq(RectIn(b))
  BY ClientMessages DEF InFormat, DefaultFormat
<1>2. CASE SendUpdate
  <2>1. sFormat = b /\ ~requested'
        /\ UNCHANGED <<format, sFormat, toServer, rects, quality>>
    BY <1>2 DEF SendUpdate, InFormat, client
  <2>2. PICK rs : Timely(rs) /\ toClient' = Append(toClient, Update(rs))
    BY <1>2, SentRects
  <2>3. rs \in Seq(RectIn(b))
    <3>1. \A i \in 1 .. Len(rs) : rs[i] \in RectIn(b)
      BY <2>1, <2>2, ElementOfSeq DEF Timely, RectIn
    <3>2. QED
      BY <2>2, <3>1 DEF Timely
  <2>4. Update(rs) \in ToClientIn(b)
    BY <2>2, <2>3 DEF Timely, Update, ToClientIn, ToClient, UpdateMessage
  <2>5. toClient' \in Seq(ToClientIn(b))
    BY <1>1, <2>2, <2>4, Appended, Zenon
  <2>6. QED
    BY <1>1, <2>1, <2>5, InFormatNext
<1>3. CASE TellSize
  <2>1. /\ sFormat # DefaultFormat /\ (requested' => requested)
        /\ UNCHANGED <<format, sFormat, toServer, rects, quality>>
        /\ \/ toClient' = Append(toClient, Update(<<NewFBSize>>))
           \/ toClient' = Append(toClient, [type |-> "resize", size |-> size])
    BY <1>3 DEF TellSize, client
  <2>2. <<NewFBSize>> \in Seq(Rect) /\ <<NewFBSize>> \in Seq(RectIn(b))
    BY DEF NewFBSize, Rect, SizeRect, RectIn, Typed, TypeOK, Size
  <2>3. Update(<<NewFBSize>>) \in ToClientIn(b)
    BY <2>2 DEF Update, ToClientIn, ToClient, UpdateMessage
  <2>4. [type |-> "resize", size |-> size] \in ToClientIn(b)
    BY DEF ToClientIn, ToClient, ResizeMessage, Typed, TypeOK, Size
  <2>5. toClient' \in Seq(ToClientIn(b))
    BY <1>1, <2>1, <2>3, <2>4, Appended, Zenon
  <2>6. QED
    BY <1>1, <2>1, <2>5, InFormatNext DEF InFormat
<1>4. CASE ServerRequest
  <2>1. /\ Head(toServer).type # "setPixelFormat"
        /\ toServer # << >> /\ toServer' = Tail(toServer)
        /\ UNCHANGED <<format, sFormat, toClient, rects, quality>>
    BY <1>4 DEF ServerRequest, ServerReceive, client
  <2>2. sFormat = b
    BY <1>1, <2>1 DEF InFormat
  <2>3. toServer' \in Seq(ToServerIn(b))
    BY <1>1, <2>1, HeadTailProperties
  <2>4. QED
    BY <1>1, <2>1, <2>2, <2>3, InFormatNext
<1>5. CASE ServerSetFormat
  <2>1. /\ Head(toServer).type = "setPixelFormat"
        /\ toServer # << >> /\ toServer' = Tail(toServer)
        /\ sFormat' = Head(toServer).bits
        /\ UNCHANGED <<format, toClient, rects, quality>>
    BY <1>5 DEF ServerSetFormat, ServerReceive, client
  <2>2. Head(toServer) \in ToServerIn(b) /\ toServer' \in Seq(ToServerIn(b))
    BY <1>1, <2>1, HeadTailProperties
  <2>3. sFormat' = b
    BY <2>1, <2>2 DEF ToServerIn
  <2>4. QED
    BY <1>1, <2>1, <2>2, <2>3, InFormatNext
<1>6. QED
  BY <1>2, <1>3, <1>4, <1>5 DEF Server

\* A new size in either of its forms.
LEMMA ChangeSizeFormat ==
    ASSUME Typed, NEW b, b = BitsPerPixel(quality), InFormat(b),
           NEW s, ChangeSize(s)
    PROVE  /\ format' = b
           /\ toServer' \in Seq(ToServerIn(b))
           /\ sFormat = DefaultFormat =>
                 toServer' # << >> /\ Head(toServer').type = "setPixelFormat"
<1>1. toServer \in Seq(ToServerIn(b)) /\ NewClientMessages \in Seq(ToServerIn(b))
  BY NewMessagesIn DEF InFormat
<1>2. format' = b
      /\ toServer' = toServer \o NewClientMessages \o <<Request(FALSE)>>
  BY DEF ChangeSize, NewClient
<1>3. toServer' \in Seq(ToServerIn(b))
  BY <1>1, <1>2, NewMessagesIn
<1>4. ASSUME sFormat = DefaultFormat
      PROVE  toServer' # << >> /\ Head(toServer').type = "setPixelFormat"
  <2>1. toServer # << >> /\ Head(toServer).type = "setPixelFormat"
    BY <1>4 DEF InFormat
  <2>2. /\ toServer \o NewClientMessages \in Seq(ToServerIn(b))
        /\ toServer \o NewClientMessages # << >>
        /\ Head(toServer \o NewClientMessages) = Head(toServer)
    BY <1>1, <2>1, ConcatHead, ConcatProperties
  <2>3. <<Request(FALSE)>> \in Seq(ToServerIn(b))
    <3>1. Request(FALSE) \in ToServerIn(b)
      BY RequestTypes DEF ToServerIn
    <3>2. QED
      BY <3>1, Single, Zenon
  <2>4. toServer' # << >> /\ Head(toServer') = Head(toServer)
    BY <1>2, <2>2, <2>3, ConcatHead, Zenon
  <2>5. QED
    BY <2>1, <2>4
<1>5. QED
  BY <1>2, <1>3, <1>4

\* The client's steps after the start.
LEMMA ClientFormat ==
    ASSUME Typed, NEW b, b = BitsPerPixel(quality), InFormat(b), Client, ~Start
    PROVE  InFormat(BitsPerPixel(quality))'
<1>1. /\ format = b /\ sFormat \in {DefaultFormat, b}
      /\ requested => sFormat = b
      /\ sFormat = DefaultFormat =>
            toServer # << >> /\ Head(toServer).type = "setPixelFormat"
      /\ toServer \in Seq(ToServerIn(b)) /\ toClient \in Seq(ToClientIn(b))
      /\ rects \in Seq(RectIn(b))
  BY DEF InFormat
<1>2. UNCHANGED <<requested, sFormat, quality>>
  BY DEF Client, HandleUpdate, HandlePixels, HandleCopyRect, HandleNewFBSize,
     HandlePseudo, HandleLastRect, FinishUpdate, HandleResize, NextRect, server
<1>3. CASE HandleUpdate
  <2>1. /\ Head(toClient) \in ToClientIn(b) /\ toClient' \in Seq(ToClientIn(b))
        /\ Head(toClient).type = "update" /\ rects' = Head(toClient).rects
        /\ UNCHANGED <<format, toServer>>
    BY <1>1, <1>3, HeadTailProperties DEF HandleUpdate
  <2>2. rects' \in Seq(RectIn(b))
    BY <2>1 DEF ToClientIn
  <2>3. QED
    BY <1>1, <1>2, <2>1, <2>2, InFormatNext
<1>4. CASE HandlePixels \/ HandleCopyRect \/ HandlePseudo
  <2>1. rects # << >> /\ rects' = Tail(rects)
        /\ UNCHANGED <<format, toServer, toClient>>
    BY <1>4 DEF HandlePixels, HandleCopyRect, HandlePseudo, NextRect
  <2>2. rects' \in Seq(RectIn(b))
    BY <1>1, <2>1, HeadTailProperties
  <2>3. QED
    BY <1>1, <1>2, <2>1, <2>2, InFormatNext
<1>5. CASE HandleLastRect
  <2>1. rects' = << >> /\ UNCHANGED <<format, toServer, toClient>>
    BY <1>5 DEF HandleLastRect
  <2>2. rects' \in Seq(RectIn(b))
    BY <2>1
  <2>3. QED
    BY <1>1, <1>2, <2>1, <2>2, InFormatNext
<1>6. CASE HandleNewFBSize
  <2>1. rects # << >> /\ rects' = Tail(rects) /\ UNCHANGED toClient
        /\ ChangeSize(Head(rects).size)
    BY <1>6 DEF HandleNewFBSize, NextRect
  <2>2. rects' \in Seq(RectIn(b))
    BY <1>1, <2>1, HeadTailProperties
  <2>3. /\ format' = b /\ toServer' \in Seq(ToServerIn(b))
        /\ sFormat = DefaultFormat =>
              toServer' # << >> /\ Head(toServer').type = "setPixelFormat"
    BY <2>1, ChangeSizeFormat
  <2>4. QED
    BY <1>1, <1>2, <2>1, <2>2, <2>3, InFormatNext
<1>7. CASE FinishUpdate
  <2>1. /\ toServer' = Append(toServer, Request(TRUE))
        /\ UNCHANGED <<format, toClient, rects>>
    BY <1>7 DEF FinishUpdate
  <2>2. Request(TRUE) \in ToServerIn(b)
    BY RequestTypes DEF ToServerIn
  <2>3. toServer' \in Seq(ToServerIn(b))
    BY <1>1, <2>1, <2>2, Appended, Zenon
  <2>4. toServer # << >> => toServer' # << >> /\ Head(toServer') = Head(toServer)
    <3>1. toServer' = toServer \o <<Request(TRUE)>>
      BY <1>1, <2>1, <2>2, AppendIsConcat, Zenon
    <3>2. <<Request(TRUE)>> \in Seq(ToServerIn(b))
      BY <2>2, Single, Zenon
    <3>3. QED
      BY <1>1, <3>1, <3>2, ConcatHead, Zenon
  <2>5. QED
    BY <1>1, <1>2, <2>1, <2>3, <2>4, InFormatNext
<1>8. CASE HandleResize
  <2>1. toClient # << >> /\ toClient' = Tail(toClient) /\ UNCHANGED rects
        /\ ChangeSize(Head(toClient).size)
    BY <1>8 DEF HandleResize
  <2>2. toClient' \in Seq(ToClientIn(b))
    BY <1>1, <2>1, HeadTailProperties
  <2>3. /\ format' = b /\ toServer' \in Seq(ToServerIn(b))
        /\ sFormat = DefaultFormat =>
              toServer' # << >> /\ Head(toServer').type = "setPixelFormat"
    BY <2>1, ChangeSizeFormat
  <2>4. QED
    BY <1>1, <1>2, <2>1, <2>2, <2>3, InFormatNext
<1>9. QED
  BY <1>3, <1>4, <1>5, <1>6, <1>7, <1>8 DEF Client

LEMMA FormatStep ==
    ASSUME Typed, FormatInv, [Next]_vars
    PROVE  FormatInv'
<1>1. AtRest'
  BY AtRestStep DEF FormatInv
<1> SUFFICES ASSUME ~requalified', pc' # "init"
             PROVE  InFormat(BitsPerPixel(quality))'
  BY <1>1 DEF FormatInv
<1>2. AtRest
  BY DEF FormatInv
<1>3. CASE Screen \/ UNCHANGED vars
  <2>1. UNCHANGED <<pc, format, sFormat, requested, toServer, toClient, rects,
                    quality, requalified>>
    BY <1>3 DEF Screen, Draw, Scroll, Resize, vars, client, server
  <2>2. InFormat(BitsPerPixel(quality))
    BY <2>1 DEF FormatInv
  <2>3. QED
    BY <2>1, <2>2, InFormatNext DEF InFormat
<1>4. CASE Server
  <2>1. UNCHANGED <<pc, quality, requalified>>
    BY <1>4 DEF Server, SendUpdate, TellSize, ServerRequest, ServerSetFormat,
       ServerReceive, client
  <2>2. InFormat(BitsPerPixel(quality))
    BY <2>1 DEF FormatInv
  <2>3. QED
    BY <1>4, <2>2, ServerFormat
<1>5. CASE Start
  BY <1>2, <1>5, StartFormat
<1>6. CASE Client /\ ~Start
  <2>1. pc # "init" /\ UNCHANGED requalified
    BY <1>2, <1>6 DEF Client, HandleUpdate, HandlePixels, HandleCopyRect,
       HandleNewFBSize, HandlePseudo, HandleLastRect, FinishUpdate,
       HandleResize, NextRect
  <2>2. InFormat(BitsPerPixel(quality))
    BY <2>1 DEF FormatInv
  <2>3. QED
    BY <1>6, <2>2, ClientFormat
<1>7. ASSUME NEW q \in Qualities, SetQuality(q) PROVE FALSE
  BY <1>7 DEF SetQuality, client
<1>8. QED
  BY <1>3, <1>4, <1>5, <1>6, <1>7 DEF Next

(***************************************************************************)
(* The size: where a message stands in the stream decides which size the   *)
(* frame has when the message is handled.                                  *)
(***************************************************************************)
Resizes(rs) == rs # << >> /\ Head(rs).enc = "newSize"

\* The message makes the frame a new one, of the size told.
Announces(m) == m.type = "resize" \/ Resizes(m.rects)
Announced(m) == IF m.type = "resize" THEN m.size ELSE Head(m.rects).size

\* The size of the frame once the update being handled is over.
Current == IF Resizes(rects) THEN Head(rects).size ELSE width

\* The frame has size z when message i of the stream q is handled, if it has
\* size c before the first one.
SizeAt(q, c, i, z) ==
    /\ (\A k \in 1 .. i - 1 : ~Announces(q[k])) => z = c
    /\ \A k \in 1 .. i - 1 :
          /\ Announces(q[k])
          /\ \A l \in k + 1 .. i - 1 : ~Announces(q[l])
          => z = Announced(q[k])

\* A new size comes by itself, and the pixels of the update that is message i
\* of q are for the frame of that time.
Fitting(q, c, i) ==
    q[i].type = "update" =>
       \A j \in 1 .. Len(q[i].rects) :
          /\ q[i].rects[j].enc = "pixels" =>
                SizeAt(q, c, i, q[i].rects[j].size)
          /\ q[i].rects[j].enc = "newSize" => Len(q[i].rects) = 1

\* The same of the update being handled.
FittingNow ==
    \A j \in 1 .. Len(rects) :
       /\ rects[j].enc = "pixels" => rects[j].size = width
       /\ rects[j].enc = "newSize" => Len(rects) = 1

SizeInv ==
    /\ \A i \in 1 .. Len(toClient) : Fitting(toClient, Current, i)
    /\ sizeTold => SizeAt(toClient, Current, Len(toClient) + 1, size)
    /\ FittingNow

LEMMA SizeAtAppended ==
    ASSUME NEW q \in Seq(ToClient), NEW m \in ToClient, NEW c,
           NEW i \in 1 .. Len(q) + 1, NEW z
    PROVE  SizeAt(Append(q, m), c, i, z) <=> SizeAt(q, c, i, z)
<1> DEFINE r == Append(q, m)
<1>1. Len(q) \in Nat /\ \A k \in 1 .. Len(q) : r[k] = q[k]
  BY AppendProperties
<1> HIDE DEF r
<1>2. \A k \in 1 .. i - 1 : /\ r[k] = q[k]
                            /\ \A l \in k + 1 .. i - 1 : r[l] = q[l]
  BY <1>1
<1>3. SizeAt(r, c, i, z) <=> SizeAt(q, c, i, z)
  BY <1>2 DEF SizeAt
<1>4. QED
  BY <1>3 DEF r

\* What a message at the end makes of the size after it.
LEMMA SizeAtEnd ==
    ASSUME NEW q \in Seq(ToClient), NEW m \in ToClient, NEW c, NEW z
    PROVE  /\ Announces(m) => SizeAt(Append(q, m), c, Len(q) + 2, Announced(m))
           /\ ~Announces(m) /\ SizeAt(q, c, Len(q) + 1, z) =>
                 SizeAt(Append(q, m), c, Len(q) + 2, z)
<1> DEFINE r == Append(q, m)
           n == Len(q) + 1
<1>1. /\ Len(q) \in Nat /\ n \in Nat \ {0} /\ Len(q) = n - 1
      /\ Len(q) + 2 = n + 1 /\ (n + 1) - 1 = n
      /\ \A k \in 1 .. n - 1 : r[k] = q[k]
      /\ r[n] = m
  BY AppendProperties
<1> HIDE DEF r, n
<1>2. ASSUME Announces(m)
      PROVE  SizeAt(r, c, n + 1, Announced(m))
  <2>1. n \in 1 .. n
    BY <1>1
  <2>2. ASSUME NEW k \in 1 .. n, \A l \in k + 1 .. n : ~Announces(r[l])
        PROVE  k = n
    <3>1. CASE k < n
      <4>1. n \in k + 1 .. n
        BY <1>1, <3>1
      <4>2. QED
        BY <1>1, <1>2, <2>2, <4>1
    <3>2. QED
      BY <1>1, <3>1
  <2>3. QED
    BY <1>1, <1>2, <2>1, <2>2 DEF SizeAt
<1>3. ASSUME ~Announces(m), SizeAt(q, c, n, z)
      PROVE  SizeAt(r, c, n + 1, z)
  <2>1. ASSUME \A k \in 1 .. n : ~Announces(r[k])
        PROVE  z = c
    <3>1. \A k \in 1 .. n - 1 : ~Announces(q[k])
      BY <1>1, <2>1
    <3>2. QED
      BY <1>3, <3>1 DEF SizeAt
  <2>2. ASSUME NEW k \in 1 .. n, Announces(r[k]),
               \A l \in k + 1 .. n : ~Announces(r[l])
        PROVE  z = Announced(r[k])
    <3>1. k \in 1 .. n - 1 /\ r[k] = q[k]
      BY <1>1, <1>3, <2>2
    <3>2. \A l \in k + 1 .. n - 1 : ~Announces(q[l])
      BY <1>1, <2>2, <3>1
    <3>3. QED
      BY <1>3, <2>2, <3>1, <3>2 DEF SizeAt
  <2>3. QED
    BY <1>1, <2>1, <2>2 DEF SizeAt
<1>4. Len(q) + 2 = n + 1 /\ Len(q) + 1 = n
  BY <1>1 DEF n
<1>5. QED
  BY <1>2, <1>3, <1>4, Zenon DEF r

\* A message taken from the stream has had its effect on the size before.
LEMMA SizeAtTail ==
    ASSUME NEW q \in Seq(ToClient), q # << >>, NEW c, NEW d,
           d = IF Announces(Head(q)) THEN Announced(Head(q)) ELSE c,
           NEW i \in 1 .. Len(q), NEW z, SizeAt(q, c, i + 1, z)
    PROVE  SizeAt(Tail(q), d, i, z)
<1> DEFINE r == Tail(q)
<1>1. /\ Len(q) \in Nat \ {0} /\ Head(q) = q[1]
      /\ \A k \in 1 .. Len(q) - 1 : r[k] = q[k + 1]
      /\ i \in Nat \ {0} /\ i <= Len(q) /\ (i + 1) - 1 = i
  BY LenProperties, HeadTailProperties, EmptySeq
<1> HIDE DEF r
<1>2. \A k \in 1 .. i - 1 : r[k] = q[k + 1] /\ k + 1 \in 1 .. i
  BY <1>1
<1>3. ASSUME \A k \in 1 .. i - 1 : ~Announces(r[k])
      PROVE  z = d
  <2>1. \A k \in 2 .. i : ~Announces(q[k])
    <3>1. \A k \in 2 .. i : k - 1 \in 1 .. i - 1 /\ (k - 1) + 1 = k
      BY <1>1
    <3>2. QED
      BY <1>2, <1>3, <3>1
  <2>2. CASE Announces(q[1])
    <3>1. 1 \in 1 .. (i + 1) - 1 /\ \A l \in 1 + 1 .. (i + 1) - 1 : ~Announces(q[l])
      BY <1>1, <2>1
    <3>2. z = Announced(q[1])
      BY <2>2, <3>1 DEF SizeAt
    <3>3. QED
      BY <1>1, <2>2, <3>2
  <2>3. CASE ~Announces(q[1])
    <3>1. \A k \in 1 .. (i + 1) - 1 : ~Announces(q[k])
      BY <1>1, <2>1, <2>3
    <3>2. QED
      BY <1>1, <2>3, <3>1 DEF SizeAt
  <2>4. QED
    BY <2>2, <2>3
<1>4. ASSUME NEW k \in 1 .. i - 1, Announces(r[k]),
             \A l \in k + 1 .. i - 1 : ~Announces(r[l])
      PROVE  z = Announced(r[k])
  <2>1. r[k] = q[k + 1] /\ k + 1 \in 1 .. (i + 1) - 1
    BY <1>1, <1>2
  <2>2. \A l \in (k + 1) + 1 .. (i + 1) - 1 : ~Announces(q[l])
    <3>1. \A l \in (k + 1) + 1 .. (i + 1) - 1 :
             l - 1 \in k + 1 .. i - 1 /\ l - 1 \in 1 .. i - 1 /\ (l - 1) + 1 = l
      BY <1>1
    <3>2. QED
      BY <1>2, <1>4, <3>1
  <2>3. QED
    BY <1>4, <2>1, <2>2 DEF SizeAt
<1>5. SizeAt(r, d, i, z)
  BY <1>3, <1>4 DEF SizeAt
<1>6. QED
  BY <1>5 DEF r

\* What a step may do to the size without touching the stream of updates.
LEMMA SizeKept ==
    ASSUME Typed, SizeInv, UNCHANGED toClient, Current' = Current,
           sizeTold' => sizeTold /\ size' = size, FittingNow'
    PROVE  SizeInv'
<1>1. \A i \in 1 .. Len(toClient) : Fitting(toClient, Current, i)
  BY DEF SizeInv
<1>2. sizeTold' => SizeAt(toClient, Current, Len(toClient) + 1, size')
  BY DEF SizeInv
<1>3. /\ \A i \in 1 .. Len(toClient') : Fitting(toClient', Current', i)
      /\ sizeTold' => SizeAt(toClient', Current', Len(toClient') + 1, size')
  BY <1>1, <1>2
<1>4. QED
  BY <1>3 DEF SizeInv

\* The messages before the last one meet the sizes they did.
LEMMA FittingAppended ==
    ASSUME NEW q \in Seq(ToClient), NEW m \in ToClient, NEW c,
           NEW i \in 1 .. Len(q), Fitting(q, c, i)
    PROVE  Fitting(Append(q, m), c, i)
<1> DEFINE r == Append(q, m)
<1>1. r[i] = q[i] /\ i \in 1 .. Len(q) + 1
  BY AppendProperties
<1>2. \A z : SizeAt(q, c, i, z) => SizeAt(r, c, i, z)
  BY <1>1, SizeAtAppended
<1> HIDE DEF r
<1>3. Fitting(r, c, i)
  BY <1>1, <1>2 DEF Fitting
<1>4. QED
  BY <1>3 DEF r

\* The messages after the first one meet the sizes they did.
LEMMA FittingTail ==
    ASSUME NEW q \in Seq(ToClient), q # << >>, NEW c, NEW d,
           d = IF Announces(Head(q)) THEN Announced(Head(q)) ELSE c,
           NEW i \in 1 .. Len(q) - 1, Fitting(q, c, i + 1)
    PROVE  Fitting(Tail(q), d, i)
<1> DEFINE r == Tail(q)
<1>1. r[i] = q[i + 1] /\ i \in 1 .. Len(q)
  BY LenProperties, HeadTailProperties
<1>2. \A z : SizeAt(q, c, i + 1, z) => SizeAt(r, d, i, z)
  BY <1>1, SizeAtTail
<1> HIDE DEF r
<1>3. Fitting(r, d, i)
  BY <1>1, <1>2 DEF Fitting
<1>4. QED
  BY <1>3 DEF r

\* A message at the end that fits, and the size the client then knows of.
LEMMA SizeSent ==
    ASSUME Typed, SizeInv, NEW m \in ToClient,
           toClient' = Append(toClient, m),
           UNCHANGED <<size, width, rects>>,
           Fitting(Append(toClient, m), Current, Len(toClient) + 1),
           SizeAt(Append(toClient, m), Current, Len(toClient) + 2, size)
    PROVE  SizeInv'
<1> DEFINE q == toClient
           r == Append(q, m)
<1>1. /\ q \in Seq(ToClient) /\ Len(q) \in Nat /\ Len(r) = Len(q) + 1
      /\ (Len(q) + 1) + 1 = Len(q) + 2
  BY AppendProperties DEF Typed, Streams, ToClient
<1>2. Current' = Current /\ FittingNow'
  BY DEF SizeInv, Current, FittingNow
<1>3. \A i \in 1 .. Len(q) : Fitting(r, Current, i)
  BY <1>1, FittingAppended DEF SizeInv
<1>4. Fitting(r, Current, Len(q) + 1) /\ SizeAt(r, Current, Len(q) + 2, size)
  OBVIOUS
<1>5. toClient' = r
  OBVIOUS
<1> HIDE DEF r
<1>6. \A i \in 1 .. Len(r) : i \in 1 .. Len(q) \/ i = Len(q) + 1
  BY <1>1
<1>7. \A i \in 1 .. Len(r) : Fitting(r, Current, i)
  BY <1>3, <1>4, <1>6
<1>8. SizeAt(r, Current, Len(r) + 1, size)
  BY <1>1, <1>4
<1>9. /\ \A i \in 1 .. Len(toClient') : Fitting(toClient', Current', i)
      /\ SizeAt(toClient', Current', Len(toClient') + 1, size')
  BY <1>2, <1>5, <1>7, <1>8
<1>10. QED
  BY <1>2, <1>9 DEF SizeInv

LEMMA SendUpdateSize ==
    ASSUME Typed, SizeInv, SendUpdate
    PROVE  SizeInv'
<1>1. PICK rs : Timely(rs) /\ toClient' = Append(toClient, Update(rs))
  BY SentRects
<1> DEFINE m == Update(rs)
           n == Len(toClient) + 1
<1>2. m \in ToClient /\ m.type = "update" /\ m.rects = rs
  BY <1>1 DEF Timely, Update, ToClient, UpdateMessage
<1>3. /\ toClient \in Seq(ToClient) /\ Len(toClient) \in Nat
      /\ Append(toClient, m)[n] = m /\ n \in 1 .. n
  BY AppendProperties DEF Typed, Streams, ToClient
<1>4. ~Announces(m)
  <2>1. ~Resizes(rs)
    <3>1. CASE rs # << >>
      <4>1. Head(rs) = rs[1] /\ 1 \in 1 .. Len(rs)
        BY <1>1, <3>1, LenProperties, HeadTailProperties, EmptySeq DEF Timely
      <4>2. QED
        BY <1>1, <4>1 DEF Timely, Resizes
    <3>2. QED
      BY <3>1 DEF Resizes
  <2>2. QED
    BY <1>2, <2>1 DEF Announces
<1>5. sizeTold /\ SizeAt(toClient, Current, n, size)
  BY DEF SendUpdate, SizeInv
<1>6. SizeAt(Append(toClient, m), Current, Len(toClient) + 2, size)
  BY <1>2, <1>3, <1>4, <1>5, SizeAtEnd
<1>7. SizeAt(Append(toClient, m), Current, n, size)
  BY <1>2, <1>3, <1>5, SizeAtAppended
<1>8. \A j \in 1 .. Len(rs) : /\ rs[j].enc = "pixels" => rs[j].size = size
                              /\ rs[j].enc # "newSize"
  BY <1>1 DEF Timely
<1>9. Fitting(Append(toClient, m), Current, n)
  <2> DEFINE r == Append(toClient, m)
  <2>1. r[n] = m /\ SizeAt(r, Current, n, size)
    BY <1>3, <1>7
  <2> HIDE DEF r, m, n
  <2>2. Fitting(r, Current, n)
    BY <1>2, <1>8, <2>1 DEF Fitting
  <2>3. QED
    BY <2>2 DEF r
<1>10. UNCHANGED <<size, width, rects>>
  BY DEF SendUpdate, client
<1>11. QED
  BY <1>1, <1>2, <1>6, <1>9, <1>10, SizeSent

LEMMA TellSizeSize ==
    ASSUME Typed, SizeInv, TellSize
    PROVE  SizeInv'
<1>1. toClient \in Seq(ToClient) /\ Len(toClient) \in Nat
  BY DEF Typed, Streams, ToClient
<1>2. UNCHANGED <<size, width, rects>>
  BY DEF TellSize, client
<1>3. ASSUME NEW m \in ToClient, Announces(m), Announced(m) = size,
             \/ m.type # "update"
             \/ Len(m.rects) = 1 /\ m.rects[1].enc = "newSize",
             toClient' = Append(toClient, m)
      PROVE  SizeInv'
  <2> DEFINE n == Len(toClient) + 1
  <2>1. Append(toClient, m)[n] = m
    BY <1>1, AppendProperties
  <2>2. Fitting(Append(toClient, m), Current, n)
    BY <1>3, <2>1 DEF Fitting
  <2>3. SizeAt(Append(toClient, m), Current, Len(toClient) + 2, size)
    BY <1>1, <1>3, SizeAtEnd
  <2>4. QED
    BY <1>2, <1>3, <2>2, <2>3, SizeSent
<1>4. ASSUME toClient' = Append(toClient, Update(<<NewFBSize>>))
      PROVE  SizeInv'
  <2> DEFINE m == Update(<<NewFBSize>>)
  <2>1. SizeRect \subseteq Rect /\ NewFBSize \in SizeRect
    BY DEF Rect, NewFBSize, SizeRect, Typed, TypeOK, Size
  <2>2. m \in ToClient
    BY <2>1 DEF Update, ToClient, UpdateMessage
  <2>3. /\ m.type = "update" /\ m.rects = <<NewFBSize>>
        /\ NewFBSize.enc = "newSize" /\ NewFBSize.size = size
    BY DEF Update, NewFBSize
  <2>4. /\ Len(m.rects) = 1 /\ m.rects[1] = NewFBSize
        /\ m.rects # << >> /\ Head(m.rects) = NewFBSize
    BY <2>3
  <2>5. Announces(m) /\ Announced(m) = size
    BY <2>3, <2>4 DEF Announces, Announced, Resizes
  <2>6. QED
    BY <1>3, <1>4, <2>2, <2>3, <2>4, <2>5
<1>5. ASSUME toClient' = Append(toClient, [type |-> "resize", size |-> size])
      PROVE  SizeInv'
  <2> DEFINE m == [type |-> "resize", size |-> size]
  <2>1. m \in ToClient
    BY DEF ToClient, ResizeMessage, Typed, TypeOK, Size
  <2>2. Announces(m) /\ Announced(m) = size /\ m.type # "update"
    BY DEF Announces, Announced
  <2>3. QED
    BY <1>3, <1>5, <2>1, <2>2
<1>6. QED
  BY <1>4, <1>5 DEF TellSize

\* A message is taken from the stream when no update is being handled.
LEMMA SizeTaken ==
    ASSUME Typed, SizeInv, toClient # << >>, rects = << >>,
           toClient' = Tail(toClient), UNCHANGED <<size, sizeTold>>,
           Current' = IF Announces(Head(toClient))
                      THEN Announced(Head(toClient)) ELSE width,
           FittingNow'
    PROVE  SizeInv'
<1> DEFINE q == toClient
           d == Current'
<1>1. /\ q \in Seq(ToClient) /\ Len(q) \in Nat \ {0} /\ Len(Tail(q)) = Len(q) - 1
      /\ (Len(q) - 1) + 1 = Len(q) /\ Len(q) \in 1 .. Len(q)
      /\ \A i \in 1 .. Len(q) - 1 : i + 1 \in 1 .. Len(q)
  BY LenProperties, HeadTailProperties, EmptySeq DEF Typed, Streams, ToClient
<1>2. Current = width
  BY DEF Current, Resizes
<1>3. d = IF Announces(Head(q)) THEN Announced(Head(q)) ELSE Current
  BY <1>2
<1>4. /\ \A i \in 1 .. Len(q) : Fitting(q, Current, i)
      /\ sizeTold => SizeAt(q, Current, Len(q) + 1, size)
  BY DEF SizeInv
<1> HIDE DEF d
<1>5. ASSUME NEW i \in 1 .. Len(q) - 1 PROVE Fitting(Tail(q), d, i)
  <2>1. Fitting(q, Current, i + 1)
    BY <1>1, <1>4
  <2>2. QED
    BY <1>1, <1>3, <2>1, FittingTail
<1>6. sizeTold => SizeAt(Tail(q), d, Len(q), size)
  BY <1>1, <1>3, <1>4, SizeAtTail
<1>7. /\ \A i \in 1 .. Len(toClient') : Fitting(toClient', Current', i)
      /\ sizeTold' => SizeAt(toClient', Current', Len(toClient') + 1, size')
  BY <1>1, <1>5, <1>6 DEF d
<1>8. QED
  BY <1>7 DEF SizeInv

LEMMA HandleUpdateSize ==
    ASSUME Typed, AtRest, SizeInv, HandleUpdate
    PROVE  SizeInv'
<1> DEFINE m == Head(toClient)
<1>1. /\ toClient # << >> /\ m.type = "update" /\ rects' = m.rects
      /\ toClient' = Tail(toClient) /\ UNCHANGED <<size, sizeTold, width>>
      /\ rects = << >>
  BY DEF HandleUpdate, AtRest, server
<1>2. /\ toClient \in Seq(ToClient) /\ 1 \in 1 .. Len(toClient)
      /\ m = toClient[1] /\ m \in ToClient
  BY <1>1, LenProperties, HeadTailProperties, EmptySeq
  DEF Typed, Streams, ToClient
<1>3. Fitting(toClient, width, 1)
  <2>1. Current = width
    BY <1>1 DEF Current, Resizes
  <2>2. QED
    BY <1>2, <2>1 DEF SizeInv
<1>4. \A z : SizeAt(toClient, width, 1, z) => z = width
  <2>1. 1 .. 1 - 1 = {}
    OBVIOUS
  <2>2. QED
    BY <2>1 DEF SizeAt
<1>5. \A j \in 1 .. Len(m.rects) :
         /\ m.rects[j].enc = "pixels" => m.rects[j].size = width
         /\ m.rects[j].enc = "newSize" => Len(m.rects) = 1
  BY <1>1, <1>2, <1>3, <1>4 DEF Fitting
<1>6. FittingNow'
  BY <1>1, <1>5 DEF FittingNow
<1>7. Current' = IF Announces(m) THEN Announced(m) ELSE width
  BY <1>1 DEF Current, Announces, Announced, Resizes
<1>8. QED
  BY <1>1, <1>6, <1>7, SizeTaken

LEMMA HandleResizeSize ==
    ASSUME Typed, AtRest, SizeInv, HandleResize
    PROVE  SizeInv'
<1> DEFINE m == Head(toClient)
<1>1. /\ toClient # << >> /\ m.type = "resize" /\ width' = m.size
      /\ toClient' = Tail(toClient) /\ UNCHANGED <<size, sizeTold, rects>>
      /\ rects = << >>
  BY DEF HandleResize, ChangeSize, AtRest, server
<1>2. Announces(m) /\ Announced(m) = width'
  BY <1>1 DEF Announces, Announced
<1>3. Current' = width' /\ FittingNow'
  BY <1>1 DEF Current, Resizes, FittingNow
<1>4. QED
  BY <1>1, <1>2, <1>3, SizeTaken

\* The next rectangle of the update, which is the only one if it is a new size.
LEMMA NextRectSize ==
    ASSUME Typed, SizeInv, rects # << >>, rects' = Tail(rects),
           UNCHANGED <<toClient, size, sizeTold>>,
           width' = IF Head(rects).enc = "newSize" THEN Head(rects).size
                                                   ELSE width
    PROVE  SizeInv'
<1>1. /\ rects \in Seq(Rect) /\ Len(rects) \in Nat \ {0}
      /\ Head(rects) = rects[1] /\ 1 \in 1 .. Len(rects)
      /\ Len(Tail(rects)) = Len(rects) - 1 /\ Tail(rects) \in Seq(Rect)
      /\ \A j \in 1 .. Len(rects) - 1 : Tail(rects)[j] = rects[j + 1]
      /\ \A j \in 1 .. Len(rects) - 1 : j + 1 \in 1 .. Len(rects)
  BY LenProperties, HeadTailProperties, EmptySeq DEF Typed, Streams
<1>2. FittingNow
  BY DEF SizeInv
<1>3. \A j \in 1 .. Len(rects') : rects'[j].enc # "newSize"
  BY <1>1, <1>2 DEF FittingNow
<1>4. ~Resizes(rects')
  <2>1. CASE Tail(rects) # << >>
    <3>1. Head(Tail(rects)) = Tail(rects)[1] /\ 1 \in 1 .. Len(Tail(rects))
      BY <1>1, <2>1, LenProperties, HeadTailProperties, EmptySeq
    <3>2. QED
      BY <1>3, <3>1 DEF Resizes
  <2>2. QED
    BY <2>1 DEF Resizes
<1>5. Current' = width' /\ width' = Current
  BY <1>4 DEF Current, Resizes
<1>6. FittingNow'
  <2>1. CASE Head(rects).enc = "newSize"
    <3>1. Len(rects) = 1
      BY <1>1, <1>2, <2>1 DEF FittingNow
    <3>2. 1 .. Len(rects') = {}
      BY <1>1, <3>1
    <3>3. QED
      BY <3>2 DEF FittingNow
  <2>2. CASE Head(rects).enc # "newSize"
    <3>1. width' = width
      BY <2>2
    <3>2. \A j \in 1 .. Len(rects') :
             rects'[j].enc = "pixels" => rects'[j].size = width
      BY <1>1, <1>2 DEF FittingNow
    <3>3. QED
      BY <1>3, <3>1, <3>2 DEF FittingNow
  <2>3. QED
    BY <2>1, <2>2
<1>7. QED
  BY <1>5, <1>6, SizeKept

LEMMA SizeStep ==
    ASSUME Typed, AtRest, SizeInv, [Next]_vars
    PROVE  SizeInv'
<1>1. ASSUME UNCHANGED <<toClient, rects, width>>,
             sizeTold' => sizeTold /\ size' = size
      PROVE  SizeInv'
  <2>1. Current' = Current /\ FittingNow'
    BY <1>1 DEF Current, FittingNow, SizeInv
  <2>2. QED
    BY <1>1, <2>1, SizeKept
<1>2. CASE Screen \/ UNCHANGED vars
  <2>1. UNCHANGED <<toClient, rects, width>>
        /\ (sizeTold' => sizeTold /\ size' = size)
    BY <1>2 DEF Screen, Draw, Scroll, Resize, vars, client, server
  <2>2. QED
    BY <1>1, <2>1
<1>3. CASE ServerRequest \/ ServerSetFormat \/ Start \/ FinishUpdate
           \/ \E q \in Qualities : SetQuality(q)
  <2>1. UNCHANGED <<toClient, rects, width, sizeTold, size>>
    BY <1>3 DEF ServerRequest, ServerSetFormat, ServerReceive, Start,
       FinishUpdate, SetQuality, client, server
  <2>2. QED
    BY <1>1, <2>1
<1>4. CASE HandlePixels \/ HandleCopyRect \/ HandleNewFBSize \/ HandlePseudo
  <2>1. /\ rects # << >> /\ rects' = Tail(rects)
        /\ UNCHANGED <<toClient, size, sizeTold>>
        /\ width' = IF Head(rects).enc = "newSize" THEN Head(rects).size
                                                   ELSE width
    BY <1>4 DEF HandlePixels, HandleCopyRect, HandleNewFBSize, HandlePseudo,
       ChangeSize, NextRect, server
  <2>2. QED
    BY <2>1, NextRectSize
<1>5. CASE HandleLastRect
  <2>1. /\ rects # << >> /\ Head(rects).enc = "last" /\ rects' = << >>
        /\ UNCHANGED <<toClient, size, sizeTold, width>>
    BY <1>5 DEF HandleLastRect, server
  <2>2. Current' = Current /\ FittingNow'
    BY <2>1 DEF Current, Resizes, FittingNow
  <2>3. QED
    BY <2>1, <2>2, SizeKept
<1>6. QED
  BY <1>2, <1>3, <1>4, <1>5, SendUpdateSize, TellSizeSize, HandleUpdateSize,
     HandleResizeSize DEF Next, Server, Client

\* The rectangle to be decoded is one of those that fit, and are in the format.
LEMMA Fits == Typed /\ FormatInv /\ SizeInv => PixelsFit
<1> SUFFICES ASSUME Typed, FormatInv, SizeInv, pc = "rects", rects # << >>,
                    Head(rects).enc = "pixels"
             PROVE  /\ Head(rects).size = width
                    /\ ~requalified => Head(rects).bits = format
  BY DEF PixelsFit
<1>1. 1 \in 1 .. Len(rects) /\ Head(rects) = rects[1]
  BY LenProperties, HeadTailProperties, EmptySeq DEF Typed, Streams
<1>2. Head(rects).size = width
  BY <1>1 DEF SizeInv, FittingNow
<1>3. ASSUME ~requalified PROVE Head(rects).bits = format
  <2> DEFINE b == BitsPerPixel(quality)
  <2>1. format = b /\ rects \in Seq(RectIn(b))
    BY <1>3 DEF FormatInv, InFormat
  <2>2. Head(rects) \in RectIn(b)
    BY <2>1, HeadTailProperties
  <2>3. QED
    BY <2>1, <2>2 DEF RectIn
<1>4. QED
  BY <1>2, <1>3

\* The invariant of formats and sizes.
LEMMA FormatSizeInductive == Spec => [](FormatInv /\ SizeInv)
<1>1. Init => FormatInv
  BY DEF Init, FormatInv, AtRest
<1>2. Init => SizeInv
  <2> SUFFICES ASSUME Init PROVE SizeInv
    OBVIOUS
  <2>1. /\ 1 .. Len(toClient) = {} /\ 1 .. Len(rects) = {}
        /\ Len(toClient) + 1 = 1 /\ 1 .. 1 - 1 = {}
    BY DEF Init
  <2>2. Current = size
    BY DEF Init, Current, Resizes
  <2>3. SizeAt(toClient, Current, 1, size)
    BY <2>1, <2>2 DEF SizeAt
  <2>4. QED
    BY <2>1, <2>3 DEF SizeInv, FittingNow
<1>3. Typed /\ FormatInv /\ SizeInv /\ [Next]_vars => FormatInv' /\ SizeInv'
  BY FormatStep, SizeStep DEF FormatInv
<1>4. QED
  BY <1>1, <1>2, <1>3, TypedInductive, PTL DEF Spec

\* Rectangles of pixels meet the frame they were made for: rfbResizeFrameBuffer
\* and the NewFBSize rectangle give the frame its new size before the pixels of
\* that size come, and SetFormatAndEncodings reaches the server before a request.
THEOREM PixelsCorrect == Spec => []PixelsFit
BY FormatSizeInductive, Fits, TypedInductive, PTL

(***************************************************************************)
(* The picture: what the messages under way will make of the frame is, on  *)
(* every tile the server has sent and not marked again, its screen.        *)
(***************************************************************************)
Shown == [Tiles -> Picture \union {Blank, Garbage}]

Writes(r, t) == r.enc \in {"pixels", "copy"} /\ r.tile = t

\* The rectangle rs[k] has in g what it brings.
Settled(rs, g, k) ==
    /\ rs[k].enc = "pixels" => g[rs[k].tile] = rs[k].picture
    /\ rs[k].enc = "copy" =>
          /\ g[rs[k].tile] = g[rs[k].from]
          /\ \A l \in 1 .. Len(rs) : ~Writes(rs[l], rs[k].from)
    /\ rs[k].enc = "last" => k = Len(rs)

\* The rectangles rs make the frame f the frame g.
Makes(rs, f, g) ==
    IF Resizes(rs)
    THEN \A t \in Tiles : g[t] = Blank
    ELSE /\ \A t \in Tiles :
               (\A k \in 1 .. Len(rs) : ~Writes(rs[k], t)) => g[t] = f[t]
         /\ \A k \in 1 .. Len(rs) : Settled(rs, g, k)

\* So does the message m.
Leaves(m, f, g) == IF m.type = "resize" THEN \A t \in Tiles : g[t] = Blank
                                        ELSE Makes(m.rects, f, g)

\* The frame is h[1] once the update being handled is over, and h[k + 1] after
\* message k.
Frames(h) ==
    /\ Makes(rects, frame, h[1])
    /\ \A k \in 1 .. Len(toClient) : Leaves(toClient[k], h[k], h[k + 1])
    /\ \A t \in known \ modified : h[Len(toClient) + 1][t] = screen[t]

PictureInv == ~requalified /\ pc # "init" => \E h \in [Nat -> Shown] : Frames(h)

\* All of the screen is asked for until it is sent or to be sent.
AskedForAll == \/ \E k \in 1 .. Len(toServer) :
                     toServer[k].type = "request" /\ ~toServer[k].incremental
               \/ \E k \in 1 .. Len(toClient) : Announces(toClient[k])
               \/ Resizes(rects)

KnownInv ==
    /\ pc = "init" \/ ~sizeTold => known = {}
    /\ sizeTold /\ pc # "init" => Tiles \subseteq known \union modified
                                  \/ AskedForAll

\* Where the parts of an update are in it.
Parts(r, a, b, c) ==
    /\ \A k \in 1 .. Len(a) : \E l \in 1 .. Len(r) : r[l] = a[k]
    /\ \A k \in 1 .. Len(b) : \E l \in 1 .. Len(r) : r[l] = b[k]
    /\ \A l \in 1 .. Len(r) :
          \/ \E k \in 1 .. Len(a) : r[l] = a[k]
          \/ \E k \in 1 .. Len(b) : r[l] = b[k]
          \/ l = Len(r) /\ c # << >> /\ r[l] = c[1]

LEMMA AtMostOne ==
    ASSUME NEW S, NEW c \in Seq(S), Len(c) <= 1
    PROVE  c # << >> <=> Len(c) = 1
<1>1. PICK n \in Nat : n = Len(c)
  BY LenProperties
<1>2. n = 0 \/ n = 1
  BY <1>1
<1>3. c = << >> <=> n = 0
  BY <1>1, EmptySeq
<1>4. 0 # 1
  OBVIOUS
<1>5. QED
  BY <1>1, <1>2, <1>3, <1>4, Zenon

LEMMA Joined ==
    ASSUME NEW S, NEW a \in Seq(S), NEW b \in Seq(S), NEW c \in Seq(S),
           Len(c) <= 1
    PROVE  Parts(a \o b \o c, a, b, c)
<1> DEFINE s == a \o b
           r == s \o c
<1>1. /\ s \in Seq(S) /\ Len(s) = Len(a) + Len(b)
      /\ \A l \in 1 .. Len(a) + Len(b) :
            s[l] = IF l <= Len(a) THEN a[l] ELSE b[l - Len(a)]
  BY ConcatProperties, Zenon
<1> HIDE DEF s
<1>2. /\ r \in Seq(S) /\ Len(r) = Len(s) + Len(c)
      /\ \A l \in 1 .. Len(s) + Len(c) :
            r[l] = IF l <= Len(s) THEN s[l] ELSE c[l - Len(s)]
  BY <1>1, ConcatProperties, Zenon
<1> HIDE DEF r
<1>3. /\ Len(a) \in Nat /\ Len(b) \in Nat /\ Len(c) \in Nat
      /\ c # << >> <=> Len(c) = 1
  BY AtMostOne
<1>4. ASSUME NEW k \in 1 .. Len(a) PROVE k \in 1 .. Len(r) /\ r[k] = a[k]
  BY SMTT(30), <1>1, <1>2, <1>3
<1>5. ASSUME NEW k \in 1 .. Len(b)
      PROVE  Len(a) + k \in 1 .. Len(r) /\ r[Len(a) + k] = b[k]
  <2> DEFINE l == Len(a) + k
  <2>1. /\ l \in 1 .. Len(a) + Len(b) /\ l \in 1 .. Len(s) + Len(c)
        /\ ~(l <= Len(a)) /\ l <= Len(s) /\ l - Len(a) = k
    BY <1>1, <1>3
  <2> HIDE DEF l
  <2>2. l \in 1 .. Len(r) /\ r[l] = s[l] /\ s[l] = b[l - Len(a)]
    BY <1>1, <1>2, <2>1
  <2>3. l \in 1 .. Len(r) /\ r[l] = b[k]
    BY <2>1, <2>2
  <2>4. QED
    BY <2>3 DEF l
<1>6. ASSUME NEW l \in 1 .. Len(r)
      PROVE  \/ \E k \in 1 .. Len(a) : r[l] = a[k]
             \/ \E k \in 1 .. Len(b) : r[l] = b[k]
             \/ l = Len(r) /\ c # << >> /\ r[l] = c[1]
  <2>1. CASE l <= Len(a)
    <3>1. l \in 1 .. Len(a)
      BY <1>3, <2>1
    <3>2. QED
      BY <1>4, <3>1
  <2>2. CASE l > Len(a) /\ l <= Len(s)
    <3>1. l - Len(a) \in 1 .. Len(b) /\ Len(a) + (l - Len(a)) = l
      BY <1>1, <1>3, <2>2
    <3>2. QED
      BY <1>5, <3>1
  <2>3. CASE l > Len(s)
    <3>1. Len(c) = 1 /\ l = Len(r) /\ l - Len(s) = 1
      BY <1>1, <1>2, <1>3, <2>3
    <3>2. QED
      BY <1>1, <1>2, <1>3, <2>3, <3>1
  <2>4. QED
    BY <1>1, <1>3, <2>1, <2>2, <2>3
<1>7. \A k \in 1 .. Len(a) : \E l \in 1 .. Len(r) : r[l] = a[k]
  BY <1>4
<1>8. \A k \in 1 .. Len(b) : \E l \in 1 .. Len(r) : r[l] = b[k]
  BY <1>5
<1>9. Parts(r, a, b, c)
  BY <1>6, <1>7, <1>8 DEF Parts
<1>10. QED
  BY <1>9 DEF r, s

\* All elements of the set are in its sequence, and no others.
LEMMA SetToSeqRange ==
    ASSUME NEW S, IsFiniteSet(S)
    PROVE  /\ \A k \in 1 .. Len(SetToSeq(S)) : SetToSeq(S)[k] \in S
           /\ \A x \in S : \E k \in 1 .. Len(SetToSeq(S)) : SetToSeq(S)[k] = x
<1> DEFINE n == Cardinality(S)
           f == SetToSeq(S)
<1>1. n \in Nat /\ ExistsBijection(1 .. n, S)
  BY FS_CardinalityType
<1>2. \E g \in [1 .. n -> S] : IsInjective(g)
  BY <1>1 DEF ExistsBijection, Bijection, Injection
<1>3. f \in [1 .. n -> S] /\ IsInjective(f)
  BY <1>2 DEF SetToSeq
<1>4. f \in Injection(1 .. n, S)
  BY <1>3 DEF Injection, IsInjective
<1>5. Cardinality(1 .. n) = n
  BY <1>1, FS_Interval
<1> HIDE DEF n, f
<1>6. Cardinality(S) = n
  BY DEF n
<1>7. f \in Surjection(1 .. n, S)
  BY <1>4, <1>5, <1>6, FS_Injection
<1>8. Len(f) = n
  BY <1>1, <1>3
<1>9. /\ \A k \in 1 .. Len(f) : f[k] \in S
      /\ \A x \in S : \E k \in 1 .. Len(f) : f[k] = x
  BY <1>3, <1>7, <1>8 DEF Surjection
<1>10. QED
  BY <1>9 DEF f

\* Of an update: copies and pixels of the tiles sent, each tile there, and an
\* end mark only at the end.
LEMMA SentTiles ==
    ASSUME NEW sent \in SUBSET Tiles, NEW copied \in SUBSET sent,
           NEW from, NEW ends \in Ends, NEW rs, rs = Sent(sent, copied, from, ends)
    PROVE  /\ \A t \in sent : \E l \in 1 .. Len(rs) : Writes(rs[l], t)
           /\ \A l \in 1 .. Len(rs) :
                 \/ \E t \in copied : rs[l] = Copy(from[t], t)
                 \/ \E t \in sent \ copied : rs[l] = Pixels(t)
                 \/ rs[l] = Pseudo
                 \/ l = Len(rs) /\ rs[l] = LastRect
<1> DEFINE C == {Copy(from[t], t) : t \in copied}
           P == {Pixels(t) : t \in sent \ copied}
           E == {Pseudo, LastRect}
           S == C \union P \union E
<1>1. IsFiniteSet(C) /\ IsFiniteSet(P)
  <2>1. copied \in SUBSET Tiles
    OBVIOUS
  <2>2. QED
    BY <2>1, RectsFinite, Zenon
<1>2. /\ Pseudo \in E /\ LastRect \in E
      /\ ends = << >> \/ ends = <<Pseudo>> \/ ends = <<LastRect>>
  BY DEF Ends
<1>3. rs = SetToSeq(C) \o SetToSeq(P) \o ends
  BY DEF Sent
<1>4. /\ \A r \in C : \E t \in copied : r = Copy(from[t], t)
      /\ \A r \in P : \E t \in sent \ copied : r = Pixels(t)
      /\ \A t \in copied : Copy(from[t], t) \in C
      /\ \A t \in sent \ copied : Pixels(t) \in P
  BY Zenon
<1>5. E = {Pseudo, LastRect}
  OBVIOUS
<1> HIDE DEF C, P, E
<1>6. SetToSeq(C) \in Seq(S) /\ SetToSeq(P) \in Seq(S)
  <2>1. SetToSeq(C) \in Seq(C) /\ SetToSeq(P) \in Seq(P)
    BY <1>1, SetToSeqType
  <2>2. QED
    BY <2>1
<1>7. /\ ends \in Seq(S) /\ Len(ends) <= 1
      /\ ends # << >> => ends[1] \in {Pseudo, LastRect}
  <2>1. << >> \in Seq(S) /\ \A x \in E : <<x>> \in Seq(S)
    OBVIOUS
  <2>2. /\ Len(<< >>) = 0
        /\ \A x : Len(<<x>>) = 1 /\ <<x>>[1] = x
    OBVIOUS
  <2>3. CASE ends = << >>
    BY <2>1, <2>2, <2>3
  <2>4. ASSUME NEW x \in E, ends = <<x>> PROVE <1>7
    BY <1>5, <2>1, <2>2, <2>4
  <2>5. QED
    BY <1>2, <2>3, <2>4
<1> HIDE DEF S
<1> DEFINE a == SetToSeq(C)
           b == SetToSeq(P)
<1>8. Parts(rs, a, b, ends)
  <2>1. a \in Seq(S) /\ b \in Seq(S) /\ rs = a \o b \o ends
    BY <1>3, <1>6
  <2> HIDE DEF a, b
  <2>2. Parts(a \o b \o ends, a, b, ends)
    BY <1>7, <2>1, Joined
  <2>3. QED
    BY <2>1, <2>2, Zenon
<1>9. /\ \A k \in 1 .. Len(a) : a[k] \in C
      /\ \A k \in 1 .. Len(b) : b[k] \in P
      /\ \A x \in C : \E k \in 1 .. Len(a) : a[k] = x
      /\ \A x \in P : \E k \in 1 .. Len(b) : b[k] = x
  BY <1>1, SetToSeqRange, Zenon
<1> HIDE DEF a, b
<1>10. ASSUME NEW t \in sent
      PROVE  \E l \in 1 .. Len(rs) : Writes(rs[l], t)
  <2>1. /\ \A k \in 1 .. Len(a) : \E l \in 1 .. Len(rs) : rs[l] = a[k]
        /\ \A k \in 1 .. Len(b) : \E l \in 1 .. Len(rs) : rs[l] = b[k]
    BY <1>8 DEF Parts
  <2>2. CASE t \in copied
    <3>1. \E l \in 1 .. Len(rs) : rs[l] = Copy(from[t], t)
      <4>1. PICK k \in 1 .. Len(a) : a[k] = Copy(from[t], t)
        BY <1>4, <1>9, <2>2
      <4>2. QED
        BY <2>1, <4>1
    <3>2. QED
      BY <3>1 DEF Writes, Copy
  <2>3. CASE t \notin copied
    <3>1. \E l \in 1 .. Len(rs) : rs[l] = Pixels(t)
      <4>1. PICK k \in 1 .. Len(b) : b[k] = Pixels(t)
        BY <1>4, <1>9, <2>3
      <4>2. QED
        BY <2>1, <4>1
    <3>2. QED
      BY <3>1 DEF Writes, Pixels
  <2>4. QED
    BY <2>2, <2>3
<1>11. ASSUME NEW l \in 1 .. Len(rs)
       PROVE  \/ rs[l] \in C \/ rs[l] \in P
              \/ l = Len(rs) /\ rs[l] \in {Pseudo, LastRect}
  BY <1>7, <1>8, <1>9 DEF Parts
<1>12. QED
  BY <1>4, <1>10, <1>11

\* Only the first rectangle of an update can be a new size, alone.
LEMMA NoOtherSize ==
    ASSUME Typed, FittingNow, rects # << >>, Head(rects).enc # "newSize"
    PROVE  /\ rects \in Seq(Rect) /\ ~Resizes(rects) /\ ~Resizes(Tail(rects))
           /\ Len(rects) \in Nat \ {0} /\ Head(rects) = rects[1]
           /\ Len(Tail(rects)) = Len(rects) - 1
           /\ \A k \in 1 .. Len(rects) - 1 : Tail(rects)[k] = rects[k + 1]
<1>1. /\ rects \in Seq(Rect) /\ Len(rects) \in Nat \ {0}
      /\ Head(rects) = rects[1] /\ Tail(rects) \in Seq(Rect)
      /\ Len(Tail(rects)) = Len(rects) - 1
      /\ \A k \in 1 .. Len(rects) - 1 : Tail(rects)[k] = rects[k + 1]
  BY LenProperties, HeadTailProperties, EmptySeq DEF Typed, Streams
<1>2. ~Resizes(rects)
  BY DEF Resizes
<1>3. ~Resizes(Tail(rects))
  <2>1. CASE Tail(rects) # << >>
    <3>1. Head(Tail(rects)) = Tail(rects)[1] /\ 1 \in 1 .. Len(Tail(rects))
      BY <1>1, <2>1, LenProperties, HeadTailProperties, EmptySeq
    <3>2. Head(Tail(rects)) = rects[2] /\ 2 \in 1 .. Len(rects)
          /\ Len(rects) # 1
      BY <1>1, <3>1
    <3>3. rects[2].enc # "newSize"
      BY <3>2 DEF FittingNow
    <3>4. QED
      BY <3>2, <3>3 DEF Resizes
  <2>2. QED
    BY <2>1 DEF Resizes
<1>4. QED
  BY <1>1, <1>2, <1>3

\* A decoder does to the frame what the first of the rectangles makes of it.
LEMMA MakesNext ==
    ASSUME Typed, FittingNow, rects # << >>, NEW g \in Shown,
           Makes(rects, frame, g),
           \/ Head(rects).enc = "pseudo" /\ frame' = frame
           \/ /\ Head(rects).enc = "pixels"
              /\ frame' = [frame EXCEPT ![Head(rects).tile] = Head(rects).picture]
           \/ /\ Head(rects).enc = "copy"
              /\ frame' = [frame EXCEPT ![Head(rects).tile] =
                                            frame[Head(rects).from]]
    PROVE  Makes(Tail(rects), frame', g)
<1> DEFINE rs == Tail(rects)
           first == Head(rects)
<1>1. /\ ~Resizes(rects) /\ ~Resizes(rs)
      /\ Len(rects) \in Nat \ {0} /\ Len(rs) = Len(rects) - 1
      /\ first = rects[1] /\ 1 \in 1 .. Len(rects)
      /\ \A k \in 1 .. Len(rs) : rs[k] = rects[k + 1]
      /\ \A k \in 1 .. Len(rs) : k + 1 \in 1 .. Len(rects)
      /\ first \in Rect
  <2>1. first.enc # "newSize"
    OBVIOUS
  <2>2. QED
    BY <2>1, NoOtherSize, ElementOfSeq
<1>2. frame \in Shown
  BY DEF Typed, TypeOK, Shown
<1>3. /\ \A t \in Tiles :
            (\A k \in 1 .. Len(rects) : ~Writes(rects[k], t)) => g[t] = frame[t]
      /\ \A k \in 1 .. Len(rects) :
            /\ rects[k].enc = "pixels" => g[rects[k].tile] = rects[k].picture
            /\ rects[k].enc = "copy" =>
                  /\ g[rects[k].tile] = g[rects[k].from]
                  /\ \A l \in 1 .. Len(rects) : ~Writes(rects[l], rects[k].from)
            /\ rects[k].enc = "last" => k = Len(rects)
  BY <1>1 DEF Makes, Settled
<1> HIDE DEF rs, first
<1>4. ASSUME NEW t \in Tiles, \A k \in 1 .. Len(rs) : ~Writes(rs[k], t)
      PROVE  g[t] = frame'[t]
  <2>1. \A k \in 1 .. Len(rects) : k # 1 => ~Writes(rects[k], t)
    <3>1. ASSUME NEW k \in 1 .. Len(rects), k # 1
          PROVE  ~Writes(rects[k], t)
      <4>1. k - 1 \in 1 .. Len(rs) /\ (k - 1) + 1 = k
        BY <1>1, <3>1
      <4>2. QED
        BY <1>1, <1>4, <4>1
    <3>2. QED
      BY <3>1
  <2>2. CASE ~Writes(first, t)
    <3>1. g[t] = frame[t]
      BY <1>1, <1>3, <2>1, <2>2
    <3>2. frame'[t] = frame[t]
      BY <1>2, <2>2 DEF Writes, first, Shown
    <3>3. QED
      BY <3>1, <3>2
  <2>3. CASE Writes(first, t) /\ first.enc = "pixels"
    <3>1. frame'[t] = first.picture
      BY <1>2, <2>3 DEF Writes, first, Shown
    <3>2. QED
      BY <1>1, <1>3, <2>3, <3>1 DEF Writes
  <2>4. CASE Writes(first, t) /\ first.enc = "copy"
    <3>1. first.from \in Tiles
      BY <1>1, <2>4 DEF Rect, PixelRect, CopyRect, SizeRect, EmptyRect
    <3>2. frame'[t] = frame[first.from]
      BY <1>2, <2>4 DEF Writes, first, Shown
    <3>3. g[t] = g[first.from] /\ g[first.from] = frame[first.from]
      BY <1>1, <1>3, <2>4, <3>1 DEF Writes
    <3>4. QED
      BY <3>2, <3>3
  <2>5. QED
    BY <2>2, <2>3, <2>4 DEF Writes
<1>5. ASSUME NEW k \in 1 .. Len(rs)
      PROVE  /\ rs[k].enc = "pixels" => g[rs[k].tile] = rs[k].picture
             /\ rs[k].enc = "copy" =>
                   /\ g[rs[k].tile] = g[rs[k].from]
                   /\ \A l \in 1 .. Len(rs) : ~Writes(rs[l], rs[k].from)
             /\ rs[k].enc = "last" => k = Len(rs)
  BY <1>1, <1>3
<1>6. Makes(rs, frame', g)
  BY <1>1, <1>4, <1>5 DEF Makes, Settled
<1>7. QED
  BY <1>6 DEF rs

\* Nothing more to decode leaves the frame.
LEMMA MakesNothing ==
    ASSUME NEW f, NEW g
    PROVE  Makes(<< >>, f, g) <=> \A t \in Tiles : g[t] = f[t]
<1>1. Len(<< >>) = 0 /\ 1 .. 0 = {}
  OBVIOUS
<1>2. QED
  BY <1>1 DEF Makes, Settled, Resizes

\* A step that only takes promises back.
LEMMA FramesKept ==
    ASSUME NEW h, Frames(h), UNCHANGED toClient, Makes(rects', frame', h[1]),
           \A t \in known' \ modified' :
              t \in known \ modified /\ screen'[t] = screen[t]
    PROVE  Frames(h)'
<1>1. \A k \in 1 .. Len(toClient) : Leaves(toClient[k], h[k], h[k + 1])
  BY DEF Frames
<1>2. (\A k \in 1 .. Len(toClient) : Leaves(toClient[k], h[k], h[k + 1]))'
  BY <1>1 DEF Leaves, Makes, Settled, Writes, Resizes
<1>3. \A t \in known' \ modified' : h[Len(toClient') + 1][t] = screen'[t]
  BY DEF Frames
<1>4. Makes(rects, frame, h[1])'
  BY DEF Makes, Settled, Writes, Resizes
<1>5. QED
  BY <1>2, <1>3, <1>4 DEF Frames

\* A message more at the end.
LEMMA FramesSent ==
    ASSUME Typed, NEW h \in [Nat -> Shown], Frames(h), NEW m \in ToClient,
           toClient' = Append(toClient, m), UNCHANGED <<rects, frame, screen>>,
           NEW g \in Shown, Leaves(m, h[Len(toClient) + 1], g),
           \A t \in known' \ modified' : g[t] = screen[t]
    PROVE  \E e \in [Nat -> Shown] : Frames(e)'
<1>0. PICK n : n = Len(toClient)
  OBVIOUS
<1>e. PICK e : e = [h EXCEPT ![n + 2] = g]
  OBVIOUS
<1>1. /\ toClient \in Seq(ToClient) /\ n \in Nat /\ n + 1 \in Nat /\ n + 2 \in Nat
      /\ Len(toClient') = n + 1 /\ toClient'[n + 1] = m
      /\ \A k \in 1 .. n : toClient'[k] = toClient[k]
      /\ \A k \in 1 .. n + 1 : k \in 1 .. n \/ k = n + 1
      /\ (n + 1) + 1 = n + 2 /\ 1 # n + 2
      /\ \A k \in 1 .. n : k \in Nat /\ k + 1 \in Nat /\ k # n + 2 /\ k + 1 # n + 2
  BY <1>0, AppendProperties DEF Typed, Streams, ToClient
<1>2. /\ e \in [Nat -> Shown] /\ e[1] = h[1] /\ e[n + 2] = g
      /\ e[n + 1] = h[n + 1]
      /\ \A k \in 1 .. n : e[k] = h[k] /\ e[k + 1] = h[k + 1]
  BY <1>e, <1>1
<1>3. ASSUME NEW k \in 1 .. n + 1
      PROVE  Leaves(toClient'[k], e[k], e[k + 1])
  <2>1. CASE k \in 1 .. n
    BY <1>0, <1>1, <1>2, <2>1 DEF Frames
  <2>2. CASE k = n + 1
    BY <1>0, <1>1, <1>2, <2>2
  <2>3. QED
    BY <1>1, <2>1, <2>2
<1>4. Makes(rects', frame', e[1])
  BY <1>2 DEF Frames
<1>5. \A t \in known' \ modified' : e[Len(toClient') + 1][t] = screen'[t]
  BY <1>1, <1>2
<1>6. Frames(e)'
  <2>1. Makes(rects, frame, e[1])'
    BY <1>4 DEF Makes, Settled, Writes, Resizes
  <2>2. \A k \in 1 .. Len(toClient') : Leaves(toClient'[k], e[k], e[k + 1])
    BY <1>1, <1>3
  <2>3. (\A k \in 1 .. Len(toClient) : Leaves(toClient[k], e[k], e[k + 1]))'
    BY <2>2 DEF Leaves, Makes, Settled, Writes, Resizes
  <2>4. QED
    BY <1>5, <2>1, <2>3 DEF Frames
<1>7. QED
  BY <1>2, <1>6

\* A message is taken from the stream.
LEMMA FramesTaken ==
    ASSUME Typed, NEW h \in [Nat -> Shown], Frames(h), toClient # << >>,
           toClient' = Tail(toClient), UNCHANGED <<screen, known, modified>>,
           Makes(rects', frame', h[2])
    PROVE  \E e \in [Nat -> Shown] : Frames(e)'
<1>0. PICK n : n = Len(toClient)
  OBVIOUS
<1>e. PICK e : e = [k \in Nat |-> h[k + 1]]
  OBVIOUS
<1>1. /\ n \in Nat \ {0} /\ Len(toClient') = n - 1 /\ (n - 1) + 1 = n
      /\ \A k \in 1 .. n - 1 : toClient'[k] = toClient[k + 1]
      /\ \A k \in 1 .. n - 1 : k \in Nat /\ k + 1 \in 1 .. n /\ k + 1 \in Nat
  BY <1>0, LenProperties, HeadTailProperties, EmptySeq
  DEF Typed, Streams, ToClient
<1>2. /\ e \in [Nat -> Shown] /\ e[1] = h[2] /\ e[n] = h[n + 1]
      /\ \A k \in Nat : e[k] = h[k + 1]
  <2>1. \A k \in Nat : h[k + 1] \in Shown
    OBVIOUS
  <2>2. QED
    BY <1>e, <1>1, <2>1
<1>3. ASSUME NEW k \in 1 .. n - 1
      PROVE  Leaves(toClient'[k], e[k], e[k + 1])
  <2>1. Leaves(toClient[k + 1], h[k + 1], h[(k + 1) + 1])
    BY <1>0, <1>1 DEF Frames
  <2>2. QED
    BY <1>1, <1>2, <2>1
<1>4. \A t \in known' \ modified' : e[Len(toClient') + 1][t] = screen'[t]
  <2>1. Len(toClient') + 1 = n
    BY <1>1
  <2>2. \A t \in known \ modified : h[n + 1][t] = screen[t]
    BY <1>0 DEF Frames
  <2>3. QED
    BY <1>2, <2>1, <2>2
<1>5. Makes(rects', frame', e[1])
  BY <1>2
<1>6. Frames(e)'
  <2>1. Makes(rects, frame, e[1])'
    BY <1>5 DEF Makes, Settled, Writes, Resizes
  <2>2. \A k \in 1 .. Len(toClient') : Leaves(toClient'[k], e[k], e[k + 1])
    BY <1>1, <1>3
  <2>3. (\A k \in 1 .. Len(toClient) : Leaves(toClient[k], e[k], e[k + 1]))'
    BY <2>2 DEF Leaves, Makes, Settled, Writes, Resizes
  <2>4. QED
    BY <1>4, <2>1, <2>3 DEF Frames
<1>7. QED
  BY <1>2, <1>6

\* The server's update draws, on the tiles it sends, what the screen shows.
LEMMA SendUpdatePicture ==
    ASSUME Typed, NEW b, InFormat(b), NEW h \in [Nat -> Shown], Frames(h),
           SendUpdate
    PROVE  \E e \in [Nat -> Shown] : Frames(e)'
<1>1. PICK sent \in (SUBSET modified) \ {{}}, copied \in SUBSET modified :
      \E from \in [copied -> known \ modified], ends \in Ends :
         /\ copied \subseteq sent
         /\ \A t \in copied : screen[from[t]] = screen[t]
         /\ toClient' = Append(toClient, Update(Sent(sent, copied, from, ends)))
         /\ modified' = modified \ sent
         /\ known' = known \union sent
  BY UpdateSent, Zenon
<1>2. PICK from \in [copied -> known \ modified], ends \in Ends :
         /\ copied \subseteq sent
         /\ \A t \in copied : screen[from[t]] = screen[t]
         /\ toClient' = Append(toClient, Update(Sent(sent, copied, from, ends)))
         /\ modified' = modified \ sent
         /\ known' = known \union sent
  BY <1>1
<1>3. PICK rs : rs = Sent(sent, copied, from, ends)
  OBVIOUS
<1>4. /\ modified \subseteq Tiles /\ known \subseteq Tiles
      /\ sent \in SUBSET Tiles /\ copied \in SUBSET sent
      /\ copied \in SUBSET Tiles /\ from \in [copied -> Tiles]
      /\ screen \in [Tiles -> Picture]
  BY <1>1, <1>2 DEF Typed, TypeOK
<1>5. Timely(rs)
  BY <1>3, <1>4, UpdateRects, Zenon
<1>6. PICK m : m = Update(rs)
  OBVIOUS
<1>7. m \in ToClient /\ m.type = "update" /\ m.rects = rs
  BY <1>5, <1>6 DEF Timely, Update, ToClient, UpdateMessage
<1>8. PICK last : last = h[Len(toClient) + 1]
  OBVIOUS
<1>9. last \in Shown /\ \A t \in known \ modified : last[t] = screen[t]
  <2>1. Len(toClient) + 1 \in Nat
    BY DEF Typed, Streams
  <2>2. QED
    BY <1>8, <2>1 DEF Frames
<1>10. PICK g : g = [t \in Tiles |-> IF t \in sent THEN screen[t] ELSE last[t]]
  OBVIOUS
<1>11. g \in Shown
  BY <1>4, <1>9, <1>10 DEF Shown
<1>12. \A t \in known' \ modified' : g[t] = screen[t]
  BY <1>1, <1>2, <1>4, <1>9, <1>10
<1>13. /\ \A t \in sent : \E l \in 1 .. Len(rs) : Writes(rs[l], t)
       /\ \A l \in 1 .. Len(rs) :
             \/ \E t \in copied : rs[l] = Copy(from[t], t)
             \/ \E t \in sent \ copied : rs[l] = Pixels(t)
             \/ rs[l] = Pseudo
             \/ l = Len(rs) /\ rs[l] = LastRect
  BY SMTT(30), <1>3, <1>4, SentTiles
<1>14. ASSUME NEW l \in 1 .. Len(rs), NEW t, Writes(rs[l], t)
       PROVE  t \in sent
  <2>1. ASSUME NEW u \in copied, rs[l] = Copy(from[u], u) PROVE t = u
    BY <1>14, <2>1 DEF Writes, Copy
  <2>2. ASSUME NEW u \in sent \ copied, rs[l] = Pixels(u) PROVE t = u
    BY <1>14, <2>2 DEF Writes, Pixels
  <2>3. rs[l] # Pseudo /\ rs[l] # LastRect
    BY <1>14 DEF Writes, Pseudo, LastRect
  <2>4. QED
    BY <1>4, <1>13, <2>1, <2>2, <2>3
<1>15. \A t \in copied : from[t] \in Tiles /\ from[t] \notin sent
                         /\ from[t] \in known \ modified
  BY <1>1, <1>4
<1>16. ASSUME NEW l \in 1 .. Len(rs)
       PROVE  Settled(rs, g, l)
  <2>1. ASSUME NEW t \in copied, rs[l] = Copy(from[t], t)
        PROVE  Settled(rs, g, l)
    <3>1. rs[l].enc = "copy" /\ rs[l].tile = t /\ rs[l].from = from[t]
      BY <2>1 DEF Copy
    <3>2. g[t] = screen[t] /\ g[from[t]] = last[from[t]]
      BY <1>4, <1>10, <1>15
    <3>3. last[from[t]] = screen[t]
      BY <1>2, <1>9, <1>15
    <3>4. \A k \in 1 .. Len(rs) : ~Writes(rs[k], from[t])
      BY <1>14, <1>15
    <3>5. QED
      BY <3>1, <3>2, <3>3, <3>4 DEF Settled
  <2>2. ASSUME NEW t \in sent \ copied, rs[l] = Pixels(t)
        PROVE  Settled(rs, g, l)
    <3>1. rs[l].enc = "pixels" /\ rs[l].tile = t /\ rs[l].picture = screen[t]
      BY <2>2 DEF Pixels
    <3>2. g[t] = screen[t]
      BY <1>4, <1>10
    <3>3. QED
      BY <3>1, <3>2 DEF Settled
  <2>3. CASE rs[l] = Pseudo
    BY <2>3 DEF Pseudo, Settled
  <2>4. CASE l = Len(rs) /\ rs[l] = LastRect
    BY <2>4 DEF LastRect, Settled
  <2>5. QED
    BY <1>13, <2>1, <2>2, <2>3, <2>4
<1>17. \A t \in Tiles : (\A l \in 1 .. Len(rs) : ~Writes(rs[l], t)) =>
                            g[t] = last[t]
  BY <1>10, <1>13
<1>18. ~Resizes(rs)
  <2>1. CASE rs # << >>
    <3>1. Head(rs) = rs[1] /\ 1 \in 1 .. Len(rs)
      BY <1>5, <2>1, LenProperties, HeadTailProperties, EmptySeq DEF Timely
    <3>2. QED
      BY <1>5, <3>1 DEF Timely, Resizes
  <2>2. QED
    BY <2>1 DEF Resizes
<1>19. Leaves(m, h[Len(toClient) + 1], g)
  BY <1>7, <1>8, <1>16, <1>17, <1>18 DEF Leaves, Makes, Settled
<1>20. toClient' = Append(toClient, m) /\ UNCHANGED <<rects, frame, screen>>
  BY <1>2, <1>3, <1>6 DEF SendUpdate, client
<1>21. QED
  BY <1>7, <1>11, <1>12, <1>19, <1>20, FramesSent

BlankFrame == [t \in Tiles |-> Blank]

LEMMA BlankShown == BlankFrame \in Shown /\ \A t \in Tiles : BlankFrame[t] = Blank
BY DEF BlankFrame, Shown

\* After a new size the server has nothing sent in it.
LEMMA TellSizePicture ==
    ASSUME Typed, KnownInv, NEW h \in [Nat -> Shown], Frames(h), TellSize
    PROVE  \E e \in [Nat -> Shown] : Frames(e)'
<1>1. known' = {} /\ UNCHANGED <<rects, frame, screen>>
  BY DEF TellSize, KnownInv, client
<1>2. ASSUME NEW m \in ToClient, toClient' = Append(toClient, m),
             Leaves(m, h[Len(toClient) + 1], BlankFrame)
      PROVE  \E e \in [Nat -> Shown] : Frames(e)'
  BY <1>1, <1>2, BlankShown, FramesSent
<1>3. CASE toClient' = Append(toClient, Update(<<NewFBSize>>))
  <2> DEFINE m == Update(<<NewFBSize>>)
  <2>1. SizeRect \subseteq Rect /\ NewFBSize \in SizeRect
    BY DEF Rect, NewFBSize, SizeRect, Typed, TypeOK, Size
  <2>2. m \in ToClient
    BY <2>1 DEF Update, ToClient, UpdateMessage
  <2>3. m.type = "update" /\ Resizes(m.rects)
    BY DEF Update, NewFBSize, Resizes
  <2>4. Leaves(m, h[Len(toClient) + 1], BlankFrame)
    BY <2>3, BlankShown DEF Leaves, Makes, Settled
  <2>5. QED
    BY <1>2, <1>3, <2>2, <2>4
<1>4. CASE toClient' = Append(toClient, [type |-> "resize", size |-> size])
  <2> DEFINE m == [type |-> "resize", size |-> size]
  <2>1. m \in ToClient /\ m.type = "resize"
    BY DEF ToClient, ResizeMessage, Typed, TypeOK, Size
  <2>2. Leaves(m, h[Len(toClient) + 1], BlankFrame)
    BY <2>1, BlankShown DEF Leaves
  <2>3. QED
    BY <1>2, <1>4, <2>1, <2>2
<1>5. QED
  BY <1>3, <1>4 DEF TellSize

\* The client's steps after the start.
LEMMA ClientPicture ==
    ASSUME Typed, AtRest, SizeInv, PixelsFit, ~requalified,
           NEW h \in [Nat -> Shown], Frames(h), Client, ~Start
    PROVE  \E e \in [Nat -> Shown] : Frames(e)'
<1>1. UNCHANGED <<screen, known, modified>>
  BY DEF Client, HandleUpdate, HandlePixels, HandleCopyRect, HandleNewFBSize,
     HandlePseudo, HandleLastRect, FinishUpdate, HandleResize, NextRect, server
<1>2. ASSUME UNCHANGED toClient, Makes(rects', frame', h[1])
      PROVE  \E e \in [Nat -> Shown] : Frames(e)'
  BY <1>1, <1>2, FramesKept
<1>3. h[1] \in Shown /\ h[2] \in Shown /\ Makes(rects, frame, h[1])
  BY DEF Frames
<1>4. /\ toClient # << >> =>
            /\ 1 \in 1 .. Len(toClient) /\ Head(toClient) = toClient[1]
            /\ Leaves(Head(toClient), h[1], h[2])
  <2>1. ASSUME toClient # << >>
        PROVE  1 \in 1 .. Len(toClient) /\ Head(toClient) = toClient[1]
    BY <2>1, LenProperties, HeadTailProperties, EmptySeq DEF Typed, Streams
  <2>2. 1 + 1 = 2
    OBVIOUS
  <2>3. QED
    BY <2>1, <2>2 DEF Frames
<1>5. pc # "rects" => \A t \in Tiles : h[1][t] = frame[t]
  BY <1>3, MakesNothing DEF AtRest
<1>6. frame \in Shown
  BY DEF Typed, TypeOK, Shown
<1>7. CASE HandleUpdate
  <2>1. /\ toClient # << >> /\ Head(toClient).type = "update" /\ pc # "rects"
        /\ rects' = Head(toClient).rects /\ toClient' = Tail(toClient)
        /\ frame' = frame
    BY <1>7 DEF HandleUpdate
  <2>2. Makes(rects', h[1], h[2])
    BY <1>4, <2>1 DEF Leaves
  <2>3. h[1] = frame
    BY <1>3, <1>5, <1>6, <2>1 DEF Shown
  <2>4. QED
    BY <1>1, <2>1, <2>2, <2>3, FramesTaken
<1>8. CASE HandleResize
  <2>1. /\ toClient # << >> /\ Head(toClient).type = "resize" /\ pc # "rects"
        /\ rects' = rects /\ toClient' = Tail(toClient)
        /\ frame' = [t \in Tiles |-> Blank]
    BY <1>8 DEF HandleResize, ChangeSize, NewClient
  <2>2. \A t \in Tiles : h[2][t] = frame'[t]
    BY <1>4, <2>1 DEF Leaves
  <2>3. Makes(rects', frame', h[2])
    BY <2>1, <2>2, MakesNothing DEF AtRest
  <2>4. QED
    BY <1>1, <2>1, <2>3, FramesTaken
<1>9. CASE HandlePixels \/ HandleCopyRect \/ HandlePseudo
  <2>1. /\ rects # << >> /\ rects' = Tail(rects) /\ UNCHANGED toClient
    BY <1>9 DEF HandlePixels, HandleCopyRect, HandlePseudo, NextRect
  <2>2. \/ Head(rects).enc = "pseudo" /\ frame' = frame
        \/ /\ Head(rects).enc = "pixels"
           /\ frame' = [frame EXCEPT ![Head(rects).tile] = Head(rects).picture]
        \/ /\ Head(rects).enc = "copy"
           /\ frame' = [frame EXCEPT ![Head(rects).tile] =
                                         frame[Head(rects).from]]
    BY <1>9 DEF HandlePixels, HandleCopyRect, HandlePseudo, NextRect, PixelsFit
  <2>3. FittingNow
    BY DEF SizeInv
  <2>4. Makes(rects', frame', h[1])
    BY <1>3, <2>1, <2>2, <2>3, MakesNext
  <2>5. QED
    BY <1>2, <2>1, <2>4
<1>10. CASE HandleNewFBSize
  <2>1. /\ rects # << >> /\ Head(rects).enc = "newSize" /\ rects' = Tail(rects)
        /\ UNCHANGED toClient /\ frame' = [t \in Tiles |-> Blank]
    BY <1>10 DEF HandleNewFBSize, NextRect, ChangeSize, NewClient
  <2>2. \A t \in Tiles : h[1][t] = frame'[t]
    BY <1>3, <2>1 DEF Makes, Settled, Resizes
  <2>3. rects' = << >>
    <3>1. /\ rects \in Seq(Rect) /\ Head(rects) = rects[1]
          /\ 1 \in 1 .. Len(rects) /\ Tail(rects) \in Seq(Rect)
          /\ Len(Tail(rects)) = Len(rects) - 1
      BY <2>1, LenProperties, HeadTailProperties, EmptySeq DEF Typed, Streams
    <3>2. Len(rects) = 1
      BY <2>1, <3>1 DEF SizeInv, FittingNow
    <3>3. Len(Tail(rects)) = 0
      BY <3>1, <3>2
    <3>4. QED
      BY <2>1, <3>1, <3>3, EmptySeq
  <2>4. Makes(rects', frame', h[1])
    BY <2>2, <2>3, MakesNothing
  <2>5. QED
    BY <1>2, <2>1, <2>4
<1>11. CASE HandleLastRect
  <2>1. /\ rects # << >> /\ Head(rects).enc = "last" /\ rects' = << >>
        /\ UNCHANGED <<toClient, frame>>
    BY <1>11 DEF HandleLastRect
  <2>2. /\ Len(rects) \in Nat /\ Head(rects) = rects[1] /\ 1 \in 1 .. Len(rects)
    BY <2>1, LenProperties, HeadTailProperties, EmptySeq DEF Typed, Streams
  <2>3. ~Resizes(rects)
    BY <2>1 DEF Resizes
  <2>4. Len(rects) = 1
    BY <1>3, <2>1, <2>2, <2>3 DEF Makes, Settled
  <2>5. \A t \in Tiles, k \in 1 .. Len(rects) : ~Writes(rects[k], t)
    <3>1. \A k \in 1 .. Len(rects) : k = 1
      BY <2>4
    <3>2. QED
      BY <2>1, <2>2, <3>1 DEF Writes
  <2>6. \A t \in Tiles : h[1][t] = frame[t]
    BY <1>3, <2>3, <2>5 DEF Makes, Settled
  <2>7. Makes(rects', frame', h[1])
    BY <2>1, <2>6, MakesNothing
  <2>8. QED
    BY <1>2, <2>1, <2>7
<1>12. CASE FinishUpdate
  <2>1. UNCHANGED <<toClient, rects, frame>>
    BY <1>12 DEF FinishUpdate
  <2>2. Makes(rects', frame', h[1])
    BY <1>3, <2>1
  <2>3. QED
    BY <1>2, <2>1, <2>2
<1>13. QED
  BY <1>7, <1>8, <1>9, <1>10, <1>11, <1>12 DEF Client

LEMMA PictureStep ==
    ASSUME Typed, FormatInv, SizeInv, KnownInv, PictureInv, [Next]_vars
    PROVE  PictureInv'
<1> SUFFICES ASSUME ~requalified', pc' # "init"
             PROVE  \E e \in [Nat -> Shown] : Frames(e)'
  BY DEF PictureInv
<1>1. AtRest
  BY DEF FormatInv
<1>2. PixelsFit
  BY Fits
<1>3. CASE Start
  <2>1. /\ toClient' = << >> /\ rects' = << >> /\ known' = {}
        /\ frame' = BlankFrame
    BY <1>1, <1>3 DEF Start, NewClient, AtRest, KnownInv, server, BlankFrame
  <2>2. PICK e : e = [k \in Nat |-> BlankFrame]
    OBVIOUS
  <2>3. e \in [Nat -> Shown] /\ e[1] = BlankFrame
    BY <2>2, BlankShown
  <2>4. Makes(rects', frame', e[1])
    BY <2>1, <2>3, MakesNothing
  <2>5. Makes(rects, frame, e[1])'
    BY <2>4 DEF Makes, Settled, Writes, Resizes
  <2>6. 1 .. Len(toClient') = {}
    BY <2>1
  <2>7. Frames(e)'
    BY <2>1, <2>5, <2>6 DEF Frames
  <2>8. QED
    BY <2>3, <2>7
<1>4. ASSUME NEW q \in Qualities, SetQuality(q) PROVE FALSE
  BY <1>4 DEF SetQuality, client
<1>5. CASE ~Start /\ ~\E q \in Qualities : SetQuality(q)
  <2>1. ~requalified /\ pc # "init"
    <3>1. CASE Screen \/ UNCHANGED vars
      BY <3>1 DEF Screen, Draw, Scroll, Resize, vars, client, server
    <3>2. CASE Server
      <4>1. UNCHANGED <<client, requalified>>
        BY <3>2 DEF Server, SendUpdate, TellSize, ServerRequest,
           ServerSetFormat, ServerReceive
      <4>2. QED
        BY <4>1 DEF client
    <3>3. CASE Client
      <4>1. pc \in {"message", "rects"}
        BY <1>5, <3>3 DEF Client, HandleUpdate, HandlePixels, HandleCopyRect,
           HandleNewFBSize, HandlePseudo, HandleLastRect, FinishUpdate,
           HandleResize, NextRect
      <4>2. UNCHANGED requalified
        BY <1>5, <3>3 DEF Client, HandleUpdate, HandlePixels, HandleCopyRect,
           HandleNewFBSize, HandlePseudo, HandleLastRect, FinishUpdate,
           HandleResize, NextRect
      <4>3. QED
        BY <4>1, <4>2
    <3>4. QED
      BY <1>5, <3>1, <3>2, <3>3 DEF Next
  <2>2. PICK h \in [Nat -> Shown] : Frames(h)
    BY <2>1 DEF PictureInv
  <2>3. CASE \/ Screen \/ ServerRequest \/ ServerSetFormat \/ UNCHANGED vars
    <3>1. UNCHANGED <<toClient, rects, frame>>
      BY <2>3 DEF Screen, Draw, Scroll, Resize, ServerRequest, ServerSetFormat,
         ServerReceive, vars, client, server
    <3>2. \A t \in known' \ modified' :
             t \in known \ modified /\ screen'[t] = screen[t]
      <4>1. CASE Screen
        BY <4>1 DEF Screen, Draw, Scroll, Resize, Typed, TypeOK
      <4>2. CASE ServerRequest \/ ServerSetFormat \/ UNCHANGED vars
        BY <4>2 DEF ServerRequest, ServerSetFormat, ServerReceive, vars, server,
           Typed, TypeOK
      <4>3. QED
        BY <2>3, <4>1, <4>2
    <3>3. Makes(rects', frame', h[1])
      BY <2>2, <3>1 DEF Frames
    <3>4. QED
      BY <2>2, <3>1, <3>2, <3>3, FramesKept
  <2>4. CASE SendUpdate
    <3>1. InFormat(BitsPerPixel(quality))
      BY <2>1 DEF FormatInv
    <3>2. QED
      BY <2>2, <2>4, <3>1, SendUpdatePicture
  <2>5. CASE TellSize
    BY <2>2, <2>5, TellSizePicture
  <2>6. CASE Client
    BY <1>1, <1>2, <1>5, <2>1, <2>2, <2>6, ClientPicture
  <2>7. QED
    BY <1>5, <2>3, <2>4, <2>5, <2>6 DEF Next, Server
<1>6. QED
  BY <1>3, <1>4, <1>5

\* A message more at the end of the stream of requests.
LEMMA AskedAppended ==
    ASSUME NEW q \in Seq(ToServer), NEW x \in ToServer
    PROVE  /\ \A k \in 1 .. Len(q) : k \in 1 .. Len(Append(q, x))
                                     /\ Append(q, x)[k] = q[k]
           /\ Len(q) + 1 \in 1 .. Len(Append(q, x))
           /\ Append(q, x)[Len(q) + 1] = x
<1>1. Len(q) \in Nat /\ Len(Append(q, x)) = Len(q) + 1
  BY AppendProperties
<1>2. QED
  BY <1>1, AppendProperties

LEMMA AllAsked ==
    ASSUME Typed, NEW q \in Seq(ToServer), toServer' = q \o <<Request(FALSE)>>
    PROVE  AskedForAll'
<1>1. toServer' = Append(q, Request(FALSE))
  BY RequestTypes, AppendIsConcat, Zenon
<1>2. /\ Len(q) + 1 \in 1 .. Len(Append(q, Request(FALSE)))
      /\ Append(q, Request(FALSE))[Len(q) + 1] = Request(FALSE)
  BY RequestTypes, AskedAppended, Zenon
<1>3. Request(FALSE).type = "request" /\ ~Request(FALSE).incremental
  BY Zenon DEF Request
<1>4. \E k \in 1 .. Len(toServer') :
         toServer'[k].type = "request" /\ ~toServer'[k].incremental
  BY <1>1, <1>2, <1>3, Zenon
<1>5. QED
  BY <1>4 DEF AskedForAll

\* A request for all stays asked for until it is read.
LEMMA AskedKept ==
    ASSUME Typed, AskedForAll, UNCHANGED <<toClient, rects>>,
           \/ toServer' = toServer
           \/ \E x \in ToServer : toServer' = Append(toServer, x)
           \/ /\ toServer # << >> /\ toServer' = Tail(toServer)
              /\ Head(toServer).type = "request" => Head(toServer).incremental
    PROVE  AskedForAll'
<1>1. toServer \in Seq(ToServer)
  BY DEF Typed, Streams, ToServer
<1> DEFINE Full(m) == m.type = "request" /\ ~m.incremental
<1>2. ASSUME NEW k \in 1 .. Len(toServer), Full(toServer[k])
      PROVE  \E l \in 1 .. Len(toServer') : Full(toServer'[l])
  <2>1. CASE toServer' = toServer
    BY <1>2, <2>1
  <2>2. ASSUME NEW x \in ToServer, toServer' = Append(toServer, x)
        PROVE  \E l \in 1 .. Len(toServer') : Full(toServer'[l])
    BY <1>1, <1>2, <2>2, AskedAppended, Zenon
  <2>3. CASE /\ toServer # << >> /\ toServer' = Tail(toServer)
             /\ Head(toServer).type = "request" => Head(toServer).incremental
    <3>1. /\ Len(toServer) \in Nat \ {0} /\ Head(toServer) = toServer[1]
          /\ Len(toServer') = Len(toServer) - 1
          /\ \A l \in 1 .. Len(toServer) - 1 : toServer'[l] = toServer[l + 1]
      BY <1>1, <2>3, LenProperties, HeadTailProperties, EmptySeq
    <3>2. k # 1
      BY <1>2, <2>3, <3>1
    <3>3. k - 1 \in 1 .. Len(toServer') /\ (k - 1) + 1 = k
      BY <3>1, <3>2
    <3>4. toServer'[k - 1] = toServer[k]
      BY <3>1, <3>3
    <3>5. QED
      BY <1>2, <3>3, <3>4
  <2>4. QED
    BY <2>1, <2>2, <2>3
<1>3. QED
  BY <1>2 DEF AskedForAll, Announces, Announced, Resizes

\* Two messages at once are one after the other.
LEMMA TwoMore ==
    ASSUME NEW S, NEW q \in Seq(S), NEW x \in S, NEW y \in S
    PROVE  q \o <<x, y>> = Append(q, x) \o <<y>>
<1> DEFINE l == q \o <<x, y>>
           p == Append(q, x)
           r == p \o <<y>>
<1>1. <<x, y>> \in Seq(S) /\ <<y>> \in Seq(S) /\ Len(<<x, y>>) = 2
      /\ Len(<<y>>) = 1 /\ <<x, y>>[1] = x /\ <<x, y>>[2] = y /\ <<y>>[1] = y
  OBVIOUS
<1>2. /\ p \in Seq(S) /\ Len(p) = Len(q) + 1 /\ Len(q) \in Nat
      /\ \A k \in 1 .. Len(q) : p[k] = q[k]
      /\ p[Len(q) + 1] = x
  BY AppendProperties
<1>3. /\ l \in Seq(S) /\ Len(l) = Len(q) + Len(<<x, y>>)
      /\ \A k \in 1 .. Len(q) + Len(<<x, y>>) :
            l[k] = IF k <= Len(q) THEN q[k] ELSE <<x, y>>[k - Len(q)]
  BY <1>1, ConcatProperties, Zenon
<1> HIDE DEF p
<1>4. /\ r \in Seq(S) /\ Len(r) = Len(p) + Len(<<y>>)
      /\ \A k \in 1 .. Len(p) + Len(<<y>>) :
            r[k] = IF k <= Len(p) THEN p[k] ELSE <<y>>[k - Len(p)]
  BY <1>1, <1>2, ConcatProperties, Zenon
<1> HIDE DEF l, r
<1>5. Len(l) = Len(q) + 2 /\ Len(r) = Len(q) + 2
  BY <1>1, <1>2, <1>3, <1>4
<1>6. ASSUME NEW k \in 1 .. Len(q) + 2
      PROVE  l[k] = r[k]
  <2>1. CASE k <= Len(q)
    BY <1>1, <1>2, <1>3, <1>4, <2>1
  <2>2. CASE k = Len(q) + 1
    BY <1>1, <1>2, <1>3, <1>4, <2>2
  <2>3. CASE k = Len(q) + 2
    BY <1>1, <1>2, <1>3, <1>4, <2>3
  <2>4. QED
    BY <1>2, <2>1, <2>2, <2>3
<1>7. l = r
  BY <1>3, <1>4, <1>5, <1>6, SeqEqual
<1>8. QED
  BY <1>7 DEF l, r, p

\* The session begins once.
LEMMA Begun ==
    ASSUME [Next]_vars, pc # "init"
    PROVE  pc' # "init"
<1>1. CASE UNCHANGED pc
  BY <1>1
<1>2. CASE Screen \/ Server
  <2>1. UNCHANGED client
    BY <1>2 DEF Screen, Draw, Scroll, Resize, Server, SendUpdate, TellSize,
       ServerRequest, ServerSetFormat, ServerReceive
  <2>2. QED
    BY <2>1 DEF client
<1>3. CASE Client
  BY <1>3 DEF Client, Start, HandleUpdate, HandlePixels, HandleCopyRect,
     HandleNewFBSize, HandlePseudo, HandleLastRect, FinishUpdate, HandleResize,
     NextRect
<1>4. CASE UNCHANGED vars \/ \E q \in Qualities : SetQuality(q)
  BY <1>4 DEF vars, client, SetQuality
<1>5. QED
  BY <1>2, <1>3, <1>4 DEF Next

LEMMA KnownStep ==
    ASSUME Typed, AtRest, KnownInv, [Next]_vars
    PROVE  KnownInv'
<1>1. /\ toServer \in Seq(ToServer) /\ toClient \in Seq(ToClient)
      /\ toServer \o NewClientMessages \in Seq(ToServer)
      /\ known \subseteq Tiles /\ modified \subseteq Tiles
  BY NewMessages DEF Typed, TypeOK, Streams, ToServer, ToClient
<1>2. ASSUME UNCHANGED <<known, sizeTold>>, AskedForAll', pc # "init"
      PROVE  KnownInv'
  <2>1. pc' # "init"
    BY <1>2, Begun
  <2>2. ~sizeTold => known = {}
    BY DEF KnownInv
  <2>3. QED
    BY <1>2, <2>1, <2>2 DEF KnownInv
<1>3. CASE Screen
  <2>1. CASE Resize
    BY <2>1 DEF Resize, KnownInv
  <2>2. CASE Screen /\ ~Resize
    <3>1. /\ modified \subseteq modified'
          /\ UNCHANGED <<known, sizeTold, pc, toServer, toClient, rects>>
      BY <2>2 DEF Screen, Draw, Scroll, client
    <3>2. AskedForAll => AskedForAll'
      BY <3>1, AskedKept
    <3>3. QED
      BY <3>1, <3>2 DEF KnownInv
  <2>3. QED
    BY <1>3, <2>1, <2>2
<1>4. CASE SendUpdate
  <2>1. /\ known \union modified \subseteq known' \union modified'
        /\ sizeTold /\ sizeTold' /\ pc # "init"
        /\ UNCHANGED <<pc, toServer, rects>>
    BY <1>1, <1>4 DEF SendUpdate, client, AtRest
  <2>2. ASSUME AskedForAll PROVE AskedForAll'
    <3>1. PICK rs : Timely(rs) /\ toClient' = Append(toClient, Update(rs))
      BY <1>4, SentRects
    <3>2. Update(rs) \in ToClient
      BY <3>1 DEF Timely, Update, ToClient, UpdateMessage
    <3>3. \A k \in 1 .. Len(toClient) :
             k \in 1 .. Len(toClient') /\ toClient'[k] = toClient[k]
      <4>1. Len(toClient) \in Nat /\ Len(toClient') = Len(toClient) + 1
        BY <1>1, <3>1, <3>2, AppendProperties
      <4>2. QED
        BY <1>1, <3>1, <3>2, <4>1, AppendProperties
    <3>4. QED
      BY <2>1, <2>2, <3>3 DEF AskedForAll, Announces, Resizes
  <2>3. QED
    BY <2>1, <2>2 DEF KnownInv
<1>5. CASE TellSize
  <2>1. known' = {} /\ known = {} /\ UNCHANGED pc
    BY <1>5 DEF TellSize, KnownInv, client
  <2>2. ASSUME NEW m \in ToClient, Announces(m), toClient' = Append(toClient, m)
        PROVE  AskedForAll'
    <3>1. Len(toClient) + 1 \in 1 .. Len(toClient')
          /\ toClient'[Len(toClient) + 1] = m
      <4>1. Len(toClient) \in Nat /\ Len(toClient') = Len(toClient) + 1
        BY <1>1, <2>2, AppendProperties
      <4>2. QED
        BY <1>1, <2>2, <4>1, AppendProperties
    <3>2. QED
      BY <2>2, <3>1 DEF AskedForAll, Announces, Resizes
  <2>3. AskedForAll'
    <3>1. SizeRect \subseteq Rect /\ NewFBSize \in SizeRect
      BY DEF Rect, NewFBSize, SizeRect, Typed, TypeOK, Size
    <3>2. /\ Update(<<NewFBSize>>) \in ToClient
          /\ Announces(Update(<<NewFBSize>>))
      BY <3>1 DEF Update, ToClient, UpdateMessage, Announces, Resizes, NewFBSize
    <3>3. /\ [type |-> "resize", size |-> size] \in ToClient
          /\ Announces([type |-> "resize", size |-> size])
      BY DEF ToClient, ResizeMessage, Typed, TypeOK, Size, Announces
    <3>4. \/ toClient' = Append(toClient, Update(<<NewFBSize>>))
          \/ toClient' = Append(toClient, [type |-> "resize", size |-> size])
      BY <1>5 DEF TellSize
    <3>5. QED
      BY <2>2, <3>2, <3>3, <3>4
  <2>4. QED
    BY <2>1, <2>3 DEF KnownInv
<1>6. CASE ServerRequest \/ ServerSetFormat
  <2>1. /\ toServer # << >> /\ toServer' = Tail(toServer)
        /\ UNCHANGED <<known, sizeTold, pc, toClient, rects>>
        /\ \/ Head(toServer).type = "request"
              /\ modified' = IF Head(toServer).incremental THEN modified ELSE Tiles
           \/ Head(toServer).type # "request" /\ modified' = modified
    BY <1>6 DEF ServerRequest, ServerSetFormat, ServerReceive, client
  <2>2. CASE modified' = Tiles
    BY <2>1, <2>2 DEF KnownInv
  <2>3. CASE modified' # Tiles
    <3>1. /\ modified' = modified
          /\ Head(toServer).type = "request" => Head(toServer).incremental
      BY <2>1, <2>3
    <3>2. AskedForAll => AskedForAll'
      BY <2>1, <3>1, AskedKept
    <3>3. QED
      BY <2>1, <3>1, <3>2 DEF KnownInv
  <2>4. QED
    BY <2>2, <2>3
<1>7. CASE Start
  <2>1. /\ toServer' = (toServer \o NewClientMessages)
                          \o <<SetPixelFormat(format'), Request(FALSE)>>
        /\ UNCHANGED <<known, sizeTold>> /\ known = {}
    BY <1>7 DEF Start, KnownInv, server
  <2>2. AskedForAll'
    <3>1. SetPixelFormat(format') \in ToServer
      BY <1>7, ClientMessages DEF Start, NewClient
    <3> DEFINE q == toServer \o NewClientMessages
               x == SetPixelFormat(format')
               y == Request(FALSE)
    <3>2. toServer' = Append(q, x) \o <<y>>
      BY ZenonT(60), <1>1, <2>1, <3>1, RequestTypes, TwoMore
    <3>3. Append(q, x) \in Seq(ToServer)
      BY <1>1, <3>1, Appended, Zenon
    <3>4. QED
      BY <3>2, <3>3, AllAsked
  <2>3. QED
    BY <2>1, <2>2 DEF KnownInv
<1>8. CASE HandleUpdate \/ HandleResize
  <2>1. /\ toClient # << >> /\ toClient' = Tail(toClient) /\ pc # "init"
        /\ UNCHANGED <<known, modified, sizeTold>> /\ rects = << >>
        /\ pc' # "init"
    BY <1>8, Begun DEF HandleUpdate, HandleResize, server, AtRest
  <2>2. CASE HandleResize
    <3>1. toServer' = (toServer \o NewClientMessages) \o <<Request(FALSE)>>
      BY <2>2 DEF HandleResize, ChangeSize
    <3>2. AskedForAll'
      BY <1>1, <3>1, AllAsked
    <3>3. QED
      BY <1>2, <2>1, <3>2
  <2>3. CASE HandleUpdate
    <3>1. /\ toServer' = toServer /\ rects' = Head(toClient).rects
          /\ Head(toClient).type = "update"
      BY <2>3 DEF HandleUpdate
    <3>2. ASSUME AskedForAll PROVE AskedForAll'
      <4>1. ~Resizes(rects)
        BY <2>1 DEF Resizes
      <4>2. /\ Len(toClient) \in Nat \ {0} /\ Head(toClient) = toClient[1]
            /\ Len(toClient') = Len(toClient) - 1
            /\ \A k \in 1 .. Len(toClient) - 1 : toClient'[k] = toClient[k + 1]
        BY <1>1, <2>1, LenProperties, HeadTailProperties, EmptySeq
      <4>3. ASSUME NEW k \in 1 .. Len(toClient), Announces(toClient[k])
            PROVE  AskedForAll'
        <5>1. CASE k = 1
          BY <3>1, <4>2, <4>3, <5>1 DEF AskedForAll, Announces, Resizes
        <5>2. CASE k # 1
          <6>1. k - 1 \in 1 .. Len(toClient') /\ (k - 1) + 1 = k
            BY <4>2, <5>2
          <6>2. toClient'[k - 1] = toClient[k]
            BY <4>2, <6>1
          <6>3. QED
            BY <4>3, <6>1, <6>2 DEF AskedForAll, Announces, Resizes
        <5>3. QED
          BY <5>1, <5>2
      <4>4. QED
        BY <3>1, <3>2, <4>1, <4>3 DEF AskedForAll
    <3>3. QED
      BY <2>1, <3>2 DEF KnownInv
  <2>4. QED
    BY <1>8, <2>2, <2>3
<1>9. CASE HandleNewFBSize
  <2>1. /\ toServer' = (toServer \o NewClientMessages) \o <<Request(FALSE)>>
        /\ UNCHANGED <<known, sizeTold>> /\ pc # "init"
    BY <1>9 DEF HandleNewFBSize, NextRect, ChangeSize, server
  <2>2. AskedForAll'
    BY <1>1, <2>1, AllAsked
  <2>3. QED
    BY <1>2, <2>1, <2>2
<1>10. CASE HandlePixels \/ HandleCopyRect \/ HandlePseudo \/ HandleLastRect
  <2>1. /\ UNCHANGED <<known, modified, sizeTold, pc, toServer, toClient>>
        /\ ~Resizes(rects)
    BY <1>10 DEF HandlePixels, HandleCopyRect, HandlePseudo, HandleLastRect,
       NextRect, server, Resizes
  <2>2. AskedForAll => AskedForAll'
    BY <2>1 DEF AskedForAll, Announces, Resizes
  <2>3. QED
    BY <2>1, <2>2 DEF KnownInv
<1>11. CASE FinishUpdate
  <2>1. /\ UNCHANGED <<known, modified, sizeTold, toClient, rects>>
        /\ pc # "init" /\ pc' # "init"
        /\ toServer' = Append(toServer, Request(TRUE))
    BY <1>11, Begun DEF FinishUpdate, server
  <2>2. \E x \in ToServer : toServer' = Append(toServer, x)
    BY <2>1, RequestTypes, Zenon
  <2>3. AskedForAll => AskedForAll'
    BY <2>1, <2>2, AskedKept
  <2>4. QED
    BY <2>1, <2>3 DEF KnownInv
<1>12. CASE UNCHANGED vars \/ \E q \in Qualities : SetQuality(q)
  <2>1. UNCHANGED <<known, modified, sizeTold, pc, toServer, toClient, rects>>
    BY <1>12 DEF vars, SetQuality, server, client
  <2>2. AskedForAll => AskedForAll'
    BY <2>1, AskedKept
  <2>3. QED
    BY <2>1, <2>2 DEF KnownInv
<1>13. QED
  BY <1>3, <1>4, <1>5, <1>6, <1>7, <1>8, <1>9, <1>10, <1>11, <1>12
  DEF Next, Server, Client

\* With nothing under way the promises are kept.
LEMMA Complete ==
    Typed /\ FormatInv /\ SizeInv /\ KnownInv /\ PictureInv => PictureComplete
<1> SUFFICES ASSUME Typed, FormatInv, SizeInv, KnownInv, PictureInv,
                    ~requalified, Quiet, sizeTold
             PROVE  width = size /\ \A t \in Tiles \ modified : frame[t] = screen[t]
  BY DEF PictureComplete
<1>1. /\ toClient = << >> /\ toServer = << >> /\ rects = << >> /\ pc # "init"
      /\ Len(toClient) = 0 /\ 1 .. Len(toClient) = {} /\ 1 .. Len(toServer) = {}
  BY DEF Quiet, FormatInv, AtRest
<1>2. ~Resizes(rects) /\ Current = width
  BY <1>1 DEF Resizes, Current
<1>3. width = size
  <2>1. SizeAt(toClient, width, 1, size) /\ 1 .. 1 - 1 = {}
    BY <1>1, <1>2 DEF SizeInv
  <2>2. QED
    BY <2>1 DEF SizeAt
<1>4. PICK h \in [Nat -> Shown] : Frames(h)
  BY <1>1 DEF PictureInv
<1>5. Makes(<< >>, frame, h[1]) /\ \A t \in known \ modified : h[1][t] = screen[t]
  BY <1>1, <1>4 DEF Frames
<1>6. \A t \in Tiles : h[1][t] = frame[t]
  BY <1>5, MakesNothing
<1>7. Tiles \subseteq known \union modified
  BY <1>1, <1>2 DEF KnownInv, AskedForAll
<1>8. QED
  BY <1>3, <1>5, <1>6, <1>7

\* What HandleRFBServerMessage has decoded by the time nothing is under way is
\* the server's screen, in the server's size, on every tile that is not to be
\* sent: the full request after each new size makes up for the empty frame that
\* newclient has made, CopyRect finds its source drawn, and no rectangle of an
\* update is left out by the end mark.
THEOREM PictureCorrect == Spec => []PictureComplete
<1>1. Init => KnownInv /\ PictureInv
  BY DEF Init, KnownInv, PictureInv
<1>2. Typed /\ FormatInv /\ SizeInv /\ KnownInv /\ PictureInv /\ [Next]_vars
          => KnownInv' /\ PictureInv'
  BY KnownStep, PictureStep DEF FormatInv
<1>3. QED
  BY <1>1, <1>2, Complete, FormatSizeInductive, TypedInductive, PTL DEF Spec

(***************************************************************************)
(* The traffic comes to rest when the screen does.                         *)
(***************************************************************************)
\* The length of the least prefix of s with all of its elements that are in M.
IsBehind(k, s, M) == /\ k \in 0 .. Len(s)
                     /\ k # 0 => s[k] \in M
                     /\ \A i \in (k + 1) .. Len(s) : s[i] \notin M
Behind(s, M) == CHOOSE k : IsBehind(k, s, M)

FullRequests == {m \in ToServer : m.type = "request" /\ ~m.incremental}
SizeRects    == {r \in Rect : r.enc = "newSize"}
SizeMessages ==
    {m \in ToClient : \/ m.type = "resize"
                      \/ \E i \in 1 .. Len(m.rects) : m.rects[i] \in SizeRects}

\* What is still to happen if the screen stays as it is, what causes the most
\* traffic first: the client has to begin and the server to tell the size; the
\* client will read of the size in a message or a rectangle and ask for a whole
\* screen; the server will read that, and send it; the rest is on its way.
Owed       == (IF pc = "init" THEN 1 ELSE 0) + (IF sizeTold THEN 0 ELSE 1)
SizesTold  == Behind(toClient, SizeMessages)
SizesRead  == Behind(rects, SizeRects)
AllAwaited == Behind(toServer, FullRequests)
Marked     == Cardinality(modified)
InHandling == IF pc = "rects" THEN Len(rects) + 1 ELSE 0
Traffic == <<Owed, SizesTold, SizesRead, AllAwaited, Marked, Len(toClient),
             InHandling, Len(toServer)>>

LEMMA Least ==
    ASSUME NEW T \in SUBSET Nat, T # {}
    PROVE  \E n \in T : \A m \in T : ~(m < n)
<1>1. PICK R : R = OpToRel(<, Nat)
  BY Zenon
<1>2. IsWellFoundedOn(R, Nat)
  BY <1>1, NatLessThanWellFounded, Zenon
<1>3. PICK n \in T : \A m \in T : ~(<<m, n>> \in R)
  BY <1>2, WFMin
<1>4. \A m \in T : ~(m < n)
  BY <1>1, <1>3, Zenon DEF OpToRel
<1>5. QED
  BY <1>4

LEMMA LowestTuple ==
    ASSUME NEW n \in Nat, NEW T \in SUBSET Tuples(n), T # {}
    PROVE  \E t \in T : \A s \in T : ~Lower(n, s, t)
<1> DEFINE Below(k, s, t) == s[k] < t[k] /\ \A j \in 1 .. (k - 1) : s[j] = t[j]
           Lowest(t, k) == \A s \in T : \A i \in 1 .. k : ~Below(i, s, t)
           Failing == {k \in 0 .. n : \A t \in T : ~Lowest(t, k)}
<1>1. ASSUME Failing # {} PROVE FALSE
  <2>1. PICK l \in Failing : \A m \in Failing : ~(m < l)
    <3>1. Failing \in SUBSET Nat
      OBVIOUS
    <3>2. QED
      BY <1>1, <3>1, Least, Zenon
  <2>2. l \in 0 .. n /\ \A t \in T : ~Lowest(t, l)
    OBVIOUS
  <2>3. l # 0
    <3>1. \A t \in T : Lowest(t, 0)
      <4>1. 1 .. 0 = {}
        OBVIOUS
      <4>2. QED
        BY <4>1, Zenon
    <3>2. PICK t : t \in T
      OBVIOUS
    <3>3. l = 0 => ~Lowest(t, 0)
      BY <2>2, <3>2, Zenon
    <3>4. QED
      BY <3>1, <3>2, <3>3, Zenon
  <2> DEFINE k == l - 1
  <2>4. k \in 0 .. n /\ k + 1 = l /\ k < l /\ k \in Nat /\ l \in 1 .. n
    BY <2>2, <2>3
  <2> HIDE DEF k
  <2>5. PICK t \in T : Lowest(t, k)
    <3>1. k \notin Failing
      <4> HIDE DEF Failing
      <4> QED BY <2>1, <2>4
    <3>2. QED
      BY <2>4, <3>1
  <2> DEFINE U == {s \in T : \A j \in 1 .. k : s[j] = t[j]}
             Values == {s[l] : s \in U}
  <2>6. Values \in SUBSET Nat /\ Values # {}
    <3>1. \A s \in T : s[l] \in Nat
      BY <2>4 DEF Tuples
    <3>2. t \in U
      OBVIOUS
    <3>3. QED
      BY <3>1, <3>2
  <2>7. PICK v \in Values : \A w \in Values : ~(w < v)
    <3> HIDE DEF Values
    <3> QED BY <2>6, Least
  <2>8. PICK u \in U : v = u[l]
    OBVIOUS
  <2>9. ASSUME NEW s \in T, NEW i \in 1 .. l, Below(i, s, u) PROVE FALSE
    <3>1. \A j \in 1 .. k : u[j] = t[j]
      BY <2>8
    <3>2. CASE i = l
      <4>1. \A j \in 1 .. k : s[j] = u[j]
        BY <2>4, <2>9, <3>2
      <4>2. s \in U
        BY <3>1, <4>1
      <4>3. QED
        BY <2>7, <2>8, <2>9, <3>2, <4>2
    <3>3. CASE i # l
      <4>1. i \in 1 .. k /\ \A j \in 1 .. (i - 1) : j \in 1 .. k
        BY <2>4, <3>3
      <4>2. Below(i, s, t)
        BY <2>9, <3>1, <4>1
      <4>3. QED
        BY <2>5, <4>1, <4>2
    <3>4. QED
      BY <3>2, <3>3
  <2>10. u \in T /\ Lowest(u, l)
    <3>1. u \in T
      BY <2>8
    <3>2. Lowest(u, l)
      <4> HIDE DEF Below
      <4> QED BY <2>9
    <3>3. QED
      BY <3>1, <3>2, Zenon
  <2>11. ~Lowest(u, l)
    <3> HIDE DEF Lowest
    <3> QED BY <2>2, <2>10
  <2>12. QED
    BY <2>10, <2>11, Zenon
<1>2. n \notin Failing /\ n \in 0 .. n
  <2> HIDE DEF Failing
  <2> QED BY <1>1
<1>3. PICK t \in T : Lowest(t, n)
  <2> HIDE DEF Lowest
  <2> QED BY <1>2
<1>4. QED
  BY <1>3 DEF Lower

\* Why a measure that falls with every step is a proof that something ends: no
\* sequence falls for ever, neither of the triples by which the other modules
\* measure a run, a read, a refresh and the decoding of a rectangle, nor of the
\* tuples of any length.
THEOREM NoDescent ==
    /\ \A n \in Nat : \A f \in [Nat -> Tuples(n)] :
          \E i \in Nat : ~Lower(n, f[i + 1], f[i])
    /\ \A f \in [Nat -> Triples] : \E i \in Nat : ~Less(f[i + 1], f[i])
<1>1. ASSUME NEW n \in Nat, NEW f \in [Nat -> Tuples(n)]
      PROVE  \E i \in Nat : ~Lower(n, f[i + 1], f[i])
  <2> DEFINE T == {f[i] : i \in Nat}
  <2>1. T \in SUBSET Tuples(n) /\ T # {}
    OBVIOUS
  <2>2. PICK t \in T : \A s \in T : ~Lower(n, s, t)
    <3> HIDE DEF T
    <3> QED BY <2>1, LowestTuple
  <2>3. PICK i \in Nat : t = f[i]
    OBVIOUS
  <2>4. i + 1 \in Nat /\ f[i + 1] \in T
    OBVIOUS
  <2>5. QED
    BY <2>2, <2>3, <2>4
<1>2. \A t \in Triples : t \in Tuples(3)
  BY DEF Triples, Tuples
<1>3. \A s, t \in Triples : Less(s, t) => Lower(3, s, t)
  <2> SUFFICES ASSUME NEW s \in Triples, NEW t \in Triples, Less(s, t)
               PROVE  Lower(3, s, t)
    OBVIOUS
  <2>1. \/ s[1] < t[1]
        \/ s[1] = t[1] /\ s[2] < t[2]
        \/ s[1] = t[1] /\ s[2] = t[2] /\ s[3] < t[3]
    BY DEF Less
  <2>2. /\ \A j \in 1 .. (1 - 1) : FALSE
        /\ \A j \in 1 .. (2 - 1) : j = 1
        /\ \A j \in 1 .. (3 - 1) : j = 1 \/ j = 2
        /\ 1 \in 1 .. 3 /\ 2 \in 1 .. 3 /\ 3 \in 1 .. 3
    OBVIOUS
  <2>3. QED
    BY <2>1, <2>2, Zenon DEF Lower
<1>4. ASSUME NEW f \in [Nat -> Triples]
      PROVE  \E i \in Nat : ~Less(f[i + 1], f[i])
  <2>1. f \in [Nat -> Tuples(3)]
    BY <1>2
  <2>2. PICK i \in Nat : ~Lower(3, f[i + 1], f[i])
    BY <1>1, <2>1
  <2>3. f[i + 1] \in Triples /\ f[i] \in Triples
    OBVIOUS
  <2>4. QED
    BY <1>3, <2>2, <2>3
<1>5. QED
  BY <1>1, <1>4

LEMMA BehindIs ==
    ASSUME NEW S, NEW s \in Seq(S), NEW M
    PROVE  /\ IsBehind(Behind(s, M), s, M)
           /\ \A k : IsBehind(k, s, M) => Behind(s, M) = k
<1>1. Len(s) \in Nat
  BY LenProperties
<1> DEFINE T == {k \in 0 .. Len(s) : \A i \in (k + 1) .. Len(s) : s[i] \notin M}
<1>2. T \in SUBSET Nat /\ Len(s) \in T
  BY <1>1
<1>3. PICK n \in T : \A m \in T : ~(m < n)
  BY <1>2, Least
<1>4. ASSUME n # 0 PROVE s[n] \in M
  <2>1. n \in 0 .. Len(s)
    OBVIOUS
  <2>2. n - 1 \in 0 .. Len(s) /\ (n - 1) + 1 = n /\ n - 1 < n
    BY <1>1, <1>4, <2>1
  <2>3. n - 1 \notin T
    <3> HIDE DEF T
    <3> QED BY <1>3, <2>2
  <2>4. PICK i \in n .. Len(s) : s[i] \in M
    BY <2>2, <2>3
  <2>5. i = n
    BY <1>1, <1>3, <2>4
  <2>6. QED
    BY <2>4, <2>5
<1>5. IsBehind(n, s, M)
  BY <1>3, <1>4 DEF IsBehind
<1>6. ASSUME NEW k, NEW l, IsBehind(k, s, M), IsBehind(l, s, M)
      PROVE  k = l
  <2>1. k \in Nat /\ l \in Nat
    BY <1>1, <1>6 DEF IsBehind
  <2>2. ~(k < l)
    BY <1>1, <1>6, <2>1 DEF IsBehind
  <2>3. ~(l < k)
    BY <1>1, <1>6, <2>1 DEF IsBehind
  <2>4. QED
    BY <2>1, <2>2, <2>3
<1>7. IsBehind(Behind(s, M), s, M)
  BY <1>5, Zenon DEF Behind
<1>8. QED
  BY <1>6, <1>7

\* Behind is a number; the head leaves, others come.
LEMMA BehindSome ==
    ASSUME NEW S, NEW s \in Seq(S), NEW M
    PROVE  /\ Behind(s, M) \in Nat
           /\ s # << >> /\ Head(s) \in M => Behind(s, M) > 0
           /\ (\A i \in 1 .. Len(s) : s[i] \notin M) => Behind(s, M) = 0
<1>1. Len(s) \in Nat
  BY LenProperties
<1>2. IsBehind(Behind(s, M), s, M) /\ \A k : IsBehind(k, s, M) => Behind(s, M) = k
  BY BehindIs
<1>3. Behind(s, M) \in Nat
  BY <1>1, <1>2 DEF IsBehind
<1>4. ASSUME s # << >>, Head(s) \in M PROVE Behind(s, M) > 0
  <2>1. 1 \in 1 .. Len(s) /\ s[1] = Head(s)
    BY <1>1, <1>4, EmptySeq, HeadTailProperties
  <2>2. Behind(s, M) # 0
    BY <1>2, <1>4, <2>1 DEF IsBehind
  <2>3. QED
    BY <1>3, <2>2
<1>5. ASSUME \A i \in 1 .. Len(s) : s[i] \notin M PROVE Behind(s, M) = 0
  <2>1. IsBehind(0, s, M)
    BY <1>1, <1>5 DEF IsBehind
  <2>2. QED
    BY <1>2, <2>1
<1>6. QED
  BY <1>3, <1>4, <1>5

LEMMA BehindTail ==
    ASSUME NEW S, NEW s \in Seq(S), s # << >>, NEW M
    PROVE  Behind(Tail(s), M) = IF Behind(s, M) = 0 THEN 0 ELSE Behind(s, M) - 1
<1> DEFINE t == Tail(s)
           k == Behind(s, M)
<1>1. /\ t \in Seq(S) /\ Len(s) \in Nat \ {0} /\ Len(t) = Len(s) - 1
      /\ \A i \in 1 .. Len(s) - 1 : t[i] = s[i + 1]
  BY LenProperties, HeadTailProperties, EmptySeq
<1>2. IsBehind(k, s, M)
  BY BehindIs
<1>3. \A l : IsBehind(l, t, M) => Behind(t, M) = l
  BY <1>1, BehindIs
<1> HIDE DEF t, k
<1>4. k \in 0 .. Len(s) /\ k \in Nat
  BY <1>1, <1>2 DEF IsBehind
<1>5. CASE k = 0
  <2>1. \A i \in 1 .. Len(t) : i + 1 \in (k + 1) .. Len(s) /\ t[i] = s[i + 1]
    BY <1>1, <1>5
  <2>2. IsBehind(0, t, M)
    BY <1>1, <1>2, <1>5, <2>1 DEF IsBehind
  <2>3. QED
    BY <1>3, <1>5, <2>2 DEF k, t
<1>6. CASE k # 0
  <2>1. k - 1 \in 0 .. Len(t) /\ (k - 1) + 1 = k
    BY <1>1, <1>4, <1>6
  <2>2. k - 1 # 0 => t[k - 1] = s[k]
    BY <1>1, <1>4, <2>1
  <2>3. \A i \in k .. Len(t) : i + 1 \in (k + 1) .. Len(s) /\ t[i] = s[i + 1]
    BY <1>1, <1>4, <1>6
  <2>4. IsBehind(k - 1, t, M)
    BY <1>2, <1>6, <2>1, <2>2, <2>3 DEF IsBehind
  <2>5. QED
    BY <1>3, <1>6, <2>4 DEF k, t
<1>7. QED
  BY <1>5, <1>6

LEMMA BehindAppend ==
    ASSUME NEW S, NEW s \in Seq(S), NEW M, NEW x \in S, x \notin M
    PROVE  Behind(Append(s, x), M) = Behind(s, M)
<1> DEFINE r == Append(s, x)
           k == Behind(s, M)
<1>1. /\ r \in Seq(S) /\ Len(s) \in Nat /\ Len(r) = Len(s) + 1
      /\ \A i \in 1 .. Len(s) : r[i] = s[i]
      /\ r[Len(s) + 1] = x
  BY LenProperties, AppendProperties
<1>2. IsBehind(k, s, M)
  BY BehindIs
<1>3. \A l : IsBehind(l, r, M) => Behind(r, M) = l
  BY <1>1, BehindIs
<1> HIDE DEF r, k
<1>4. k \in 0 .. Len(r) /\ (k # 0 => r[k] \in M)
  BY <1>1, <1>2 DEF IsBehind
<1>5. ASSUME NEW i \in (k + 1) .. Len(r) PROVE r[i] \notin M
  <2>1. CASE i = Len(s) + 1
    BY <1>1, <2>1
  <2>2. CASE i # Len(s) + 1
    <3>1. i \in (k + 1) .. Len(s) /\ i \in 1 .. Len(s)
      BY <1>1, <1>4, <1>5, <2>2
    <3>2. QED
      BY <1>1, <1>2, <3>1 DEF IsBehind
  <2>3. QED
    BY <2>1, <2>2
<1>6. IsBehind(k, r, M)
  BY <1>4, <1>5 DEF IsBehind
<1>7. QED
  BY <1>3, <1>6 DEF r, k

LEMMA Lexicographic ==
    ASSUME NEW s, NEW t, \A i \in 1 .. 8 : s[i] \in Nat /\ t[i] \in Nat,
           NEW k \in 1 .. 8, s[k] < t[k],
           \A j \in 1 .. (k - 1) : s[j] <= t[j]
    PROVE  Lower(8, s, t)
<1> DEFINE T == {i \in 1 .. 8 : s[i] < t[i]}
<1>1. T \in SUBSET Nat /\ k \in T
  OBVIOUS
<1>2. PICK n \in T : \A m \in T : ~(m < n)
  BY <1>1, Least
<1>3. ASSUME NEW j \in 1 .. (n - 1) PROVE s[j] = t[j]
  <2>1. j \in 1 .. 8 /\ j < n /\ ~(k < n)
    BY <1>1, <1>2
  <2>2. j \in 1 .. (k - 1) /\ j \notin T
    BY <1>2, <2>1
  <2>3. QED
    BY <2>1, <2>2
<1>4. QED
  BY <1>2, <1>3 DEF Lower

Measured == /\ Owed \in Nat /\ SizesTold \in Nat /\ SizesRead \in Nat
            /\ AllAwaited \in Nat /\ Marked \in Nat /\ Len(toClient) \in Nat
            /\ InHandling \in Nat /\ Len(toServer) \in Nat

LEMMA TrafficMeasured == Typed => Measured
<1> SUFFICES ASSUME Typed PROVE Measured
  OBVIOUS
<1>1. /\ toClient \in Seq(ToClient) /\ toServer \in Seq(ToServer)
      /\ rects \in Seq(Rect) /\ modified \subseteq Tiles
  BY DEF Typed, TypeOK, Streams, ToClient, ToServer
<1>2. Len(toClient) \in Nat /\ Len(toServer) \in Nat /\ Len(rects) \in Nat
  BY <1>1, LenProperties
<1>3. SizesTold \in Nat /\ SizesRead \in Nat /\ AllAwaited \in Nat
  BY <1>1, BehindSome DEF SizesTold, SizesRead, AllAwaited
<1>4. Marked \in Nat
  BY <1>1, Numbers, FS_Subset, FS_CardinalityType DEF Marked
<1>5. Owed \in Nat /\ InHandling \in Nat
  BY <1>2 DEF Owed, InHandling
<1>6. QED
  BY <1>2, <1>3, <1>4, <1>5 DEF Measured

LEMMA TrafficLess ==
    ASSUME Measured, Measured',
           \/ Owed' < Owed
           \/ Owed' <= Owed /\ SizesTold' < SizesTold
           \/ Owed' <= Owed /\ SizesTold' <= SizesTold /\ SizesRead' < SizesRead
           \/ /\ Owed' <= Owed /\ SizesTold' <= SizesTold
              /\ SizesRead' <= SizesRead /\ AllAwaited' < AllAwaited
           \/ /\ Owed' <= Owed /\ SizesTold' <= SizesTold
              /\ SizesRead' <= SizesRead /\ AllAwaited' <= AllAwaited
              /\ Marked' < Marked
           \/ /\ Owed' <= Owed /\ SizesTold' <= SizesTold
              /\ SizesRead' <= SizesRead /\ AllAwaited' <= AllAwaited
              /\ Marked' <= Marked /\ Len(toClient') < Len(toClient)
           \/ /\ Owed' <= Owed /\ SizesTold' <= SizesTold
              /\ SizesRead' <= SizesRead /\ AllAwaited' <= AllAwaited
              /\ Marked' <= Marked /\ Len(toClient') <= Len(toClient)
              /\ InHandling' < InHandling
           \/ /\ Owed' <= Owed /\ SizesTold' <= SizesTold
              /\ SizesRead' <= SizesRead /\ AllAwaited' <= AllAwaited
              /\ Marked' <= Marked /\ Len(toClient') <= Len(toClient)
              /\ InHandling' <= InHandling /\ Len(toServer') < Len(toServer)
    PROVE  Lower(8, Traffic', Traffic)
<1> DEFINE s == Traffic'
           t == Traffic
<1>1. /\ t[1] = Owed /\ t[2] = SizesTold /\ t[3] = SizesRead
      /\ t[4] = AllAwaited /\ t[5] = Marked /\ t[6] = Len(toClient)
      /\ t[7] = InHandling /\ t[8] = Len(toServer)
  BY DEF Traffic
<1>2. /\ s[1] = Owed' /\ s[2] = SizesTold' /\ s[3] = SizesRead'
      /\ s[4] = AllAwaited' /\ s[5] = Marked' /\ s[6] = Len(toClient')
      /\ s[7] = InHandling' /\ s[8] = Len(toServer')
  BY DEF Traffic
<1> HIDE DEF s, t
<1>3. \A i \in 1 .. 8 : s[i] \in Nat /\ t[i] \in Nat
  <2>1. /\ s[1] \in Nat /\ s[2] \in Nat /\ s[3] \in Nat /\ s[4] \in Nat
        /\ s[5] \in Nat /\ s[6] \in Nat /\ s[7] \in Nat /\ s[8] \in Nat
    BY <1>2, Zenon DEF Measured
  <2>2. /\ t[1] \in Nat /\ t[2] \in Nat /\ t[3] \in Nat /\ t[4] \in Nat
        /\ t[5] \in Nat /\ t[6] \in Nat /\ t[7] \in Nat /\ t[8] \in Nat
    BY <1>1, Zenon DEF Measured
  <2>3. \A i \in 1 .. 8 : i = 1 \/ i = 2 \/ i = 3 \/ i = 4 \/ i = 5 \/ i = 6
                          \/ i = 7 \/ i = 8
    OBVIOUS
  <2>4. QED
    BY <2>1, <2>2, <2>3, Zenon
<1>4. \E k \in 1 .. 8 : s[k] < t[k] /\ \A j \in 1 .. (k - 1) : s[j] <= t[j]
  <2> DEFINE Upto(k) == \A j \in 1 .. (k - 1) : s[j] <= t[j]
  <2>1. Upto(1)
    OBVIOUS
  <2>2. \A k \in 1 .. 7 : Upto(k) /\ s[k] <= t[k] => Upto(k + 1)
    <3>1. \A k \in 1 .. 7 : \A j \in 1 .. ((k + 1) - 1) :
             j = k \/ j \in 1 .. (k - 1)
      OBVIOUS
    <3>2. QED
      BY <3>1, Zenon
  <2> HIDE DEF Upto
  <2>3. /\ s[1] <= t[1] => Upto(2)
        /\ s[1] <= t[1] /\ s[2] <= t[2] => Upto(3)
        /\ s[1] <= t[1] /\ s[2] <= t[2] /\ s[3] <= t[3] => Upto(4)
        /\ s[1] <= t[1] /\ s[2] <= t[2] /\ s[3] <= t[3] /\ s[4] <= t[4]
             => Upto(5)
        /\ s[1] <= t[1] /\ s[2] <= t[2] /\ s[3] <= t[3] /\ s[4] <= t[4]
             /\ s[5] <= t[5] => Upto(6)
        /\ s[1] <= t[1] /\ s[2] <= t[2] /\ s[3] <= t[3] /\ s[4] <= t[4]
             /\ s[5] <= t[5] /\ s[6] <= t[6] => Upto(7)
        /\ s[1] <= t[1] /\ s[2] <= t[2] /\ s[3] <= t[3] /\ s[4] <= t[4]
             /\ s[5] <= t[5] /\ s[6] <= t[6] /\ s[7] <= t[7] => Upto(8)
    BY <2>1, <2>2
  <2>4. \E k \in 1 .. 8 : s[k] < t[k] /\ Upto(k)
    <3>1. \/ s[1] < t[1]
          \/ s[2] < t[2] /\ Upto(2)
          \/ s[3] < t[3] /\ Upto(3)
          \/ s[4] < t[4] /\ Upto(4)
          \/ s[5] < t[5] /\ Upto(5)
          \/ s[6] < t[6] /\ Upto(6)
          \/ s[7] < t[7] /\ Upto(7)
          \/ s[8] < t[8] /\ Upto(8)
      BY <1>1, <1>2, <2>3, Zenon
    <3>2. QED
      BY <2>1, <3>1
  <2>5. QED
    BY <2>4 DEF Upto
<1>5. Lower(8, s, t)
  BY <1>3, <1>4, Lexicographic
<1>6. QED
  BY <1>5 DEF s, t

\* What one side takes off its stream no longer counts.
LEMMA TakenOff ==
    ASSUME NEW S, NEW s \in Seq(S), s # << >>, NEW M
    PROVE  /\ Behind(Tail(s), M) <= Behind(s, M)
           /\ Head(s) \in M => Behind(Tail(s), M) < Behind(s, M)
           /\ Len(Tail(s)) < Len(s)
<1>1. Behind(s, M) \in Nat /\ (Head(s) \in M => Behind(s, M) > 0)
  BY BehindSome
<1>2. Behind(Tail(s), M) = IF Behind(s, M) = 0 THEN 0 ELSE Behind(s, M) - 1
  BY BehindTail
<1>3. Len(Tail(s)) < Len(s)
  BY LenProperties, HeadTailProperties, EmptySeq
<1> DEFINE k == Behind(s, M)
           l == Behind(Tail(s), M)
<1> HIDE DEF k, l
<1>4. k \in Nat /\ (Head(s) \in M => k > 0) /\ l = IF k = 0 THEN 0 ELSE k - 1
  BY <1>1, <1>2 DEF k, l
<1>5. l <= k /\ (Head(s) \in M => l < k)
  BY <1>4
<1>6. QED
  BY <1>3, <1>5 DEF k, l

LEMMA ServerLowers ==
    ASSUME Typed, Measured, Measured', Server
    PROVE  Lower(8, Traffic', Traffic)
<1>1. /\ toClient \in Seq(ToClient) /\ toServer \in Seq(ToServer)
      /\ rects \in Seq(Rect) /\ modified \subseteq Tiles
  BY DEF Typed, TypeOK, Streams, ToClient, ToServer
<1>2. UNCHANGED <<pc, rects>>
  BY DEF Server, SendUpdate, TellSize, ServerRequest, ServerSetFormat,
     ServerReceive, client
<1>3. SizesRead' = SizesRead /\ InHandling' = InHandling
  BY <1>2 DEF SizesRead, InHandling
<1>4. CASE TellSize
  <2>1. ~sizeTold /\ sizeTold'
    BY <1>4 DEF TellSize
  <2>2. Owed' < Owed
    BY <1>2, <2>1 DEF Owed
  <2>3. QED
    BY <2>2, TrafficLess
<1>5. CASE SendUpdate
  <2>1. UNCHANGED <<sizeTold, toServer>>
    BY <1>5 DEF SendUpdate
  <2>2. PICK rs : Timely(rs) /\ toClient' = Append(toClient, Update(rs))
    BY <1>5, SentRects
  <2>3. Update(rs) \in ToClient /\ Update(rs).type = "update" /\ Update(rs).rects = rs
    BY <2>2 DEF Update, ToClient, UpdateMessage, Timely
  <2>4. Update(rs) \notin SizeMessages
    BY <2>2, <2>3 DEF SizeMessages, SizeRects, Timely
  <2>5. SizesTold' = SizesTold
    <3>1. Behind(Append(toClient, Update(rs)), SizeMessages)
             = Behind(toClient, SizeMessages)
      BY <1>1, <2>3, <2>4, BehindAppend, Zenon
    <3>2. QED
      BY <2>2, <3>1, Zenon DEF SizesTold
  <2>6. Marked' < Marked
    <3>1. PICK sent \in (SUBSET modified) \ {{}} : modified' = modified \ sent
      BY <1>5 DEF SendUpdate
    <3>2. modified' \subseteq modified /\ modified' # modified
      <4>1. sent \subseteq modified /\ sent # {}
        OBVIOUS
      <4>2. PICK x : x \in sent
        BY <4>1
      <4>3. x \in modified /\ x \notin modified'
        BY <3>1, <4>1, <4>2
      <4>4. QED
        BY <3>1, <4>3
    <3>3. IsFiniteSet(modified)
      BY <1>1, Numbers, FS_Subset
    <3>4. QED
      BY <3>2, <3>3, FS_Subset, FS_CardinalityType DEF Marked, Measured
  <2>7. Owed' = Owed /\ AllAwaited' = AllAwaited
    BY <1>2, <2>1 DEF Owed, AllAwaited
  <2>8. QED
    BY <1>3, <2>5, <2>6, <2>7, TrafficLess DEF Measured
<1>6. CASE ServerRequest \/ ServerSetFormat
  <2>1. /\ UNCHANGED <<sizeTold, toClient>>
        /\ toServer # << >> /\ toServer' = Tail(toServer)
    BY <1>6 DEF ServerRequest, ServerSetFormat, ServerReceive
  <2>2. Owed' = Owed /\ SizesTold' = SizesTold
    BY <1>2, <2>1 DEF Owed, SizesTold
  <2>3. /\ AllAwaited' <= AllAwaited /\ Len(toServer') < Len(toServer)
        /\ Head(toServer) \in FullRequests => AllAwaited' < AllAwaited
    BY <1>1, <2>1, TakenOff DEF AllAwaited
  <2>4. CASE Head(toServer) \in FullRequests
    BY <1>3, <2>2, <2>3, <2>4, TrafficLess DEF Measured
  <2>5. CASE Head(toServer) \notin FullRequests
    <3>1. Head(toServer) \in ToServer
      BY <1>1, <2>1, HeadTailProperties
    <3>2. modified' = modified
      BY <1>6, <2>5, <3>1
      DEF ServerRequest, ServerSetFormat, ServerReceive, FullRequests
    <3>3. Marked' = Marked
      BY <3>2 DEF Marked
    <3>4. QED
      BY <1>3, <2>1, <2>2, <2>3, <3>3, TrafficLess DEF Measured
  <2>6. QED
    BY <2>4, <2>5
<1>7. QED
  BY <1>4, <1>5, <1>6 DEF Server


\* No rectangle is left that tells of a size, or the first one did.
LEMMA NoSizeLeft ==
    ASSUME Typed, NEW s \in Seq(Rect), \A i \in 1 .. Len(s) : s[i] \notin SizeRects
    PROVE  Behind(s, SizeRects) = 0
BY BehindSome

LEMMA NextRectLowers ==
    ASSUME Typed, Measured, Measured', \E enc : NextRect(enc),
           UNCHANGED <<toServer, sizeTold, modified>>
    PROVE  Lower(8, Traffic', Traffic)
<1>1. /\ pc = "rects" /\ pc' = "rects" /\ UNCHANGED toClient
      /\ rects # << >> /\ rects' = Tail(rects) /\ rects \in Seq(Rect)
  BY DEF NextRect, Typed, Streams
<1>2. /\ Behind(Tail(rects), SizeRects) <= Behind(rects, SizeRects)
      /\ Len(Tail(rects)) < Len(rects)
  BY <1>1, TakenOff
<1>3. SizesRead' <= SizesRead
  BY <1>1, <1>2 DEF SizesRead
<1>4. Len(rects) \in Nat /\ Len(rects') \in Nat /\ Len(rects') < Len(rects)
  BY <1>1, <1>2, LenProperties, HeadTailProperties
<1>5. InHandling = Len(rects) + 1 /\ InHandling' = Len(rects') + 1
  BY <1>1 DEF InHandling
<1>6. InHandling' < InHandling
  BY <1>4, <1>5
<1>7. /\ Owed' = Owed /\ SizesTold' = SizesTold /\ AllAwaited' = AllAwaited
      /\ Marked' = Marked
  BY <1>1 DEF Owed, SizesTold, AllAwaited, Marked
<1>8. QED
  BY <1>1, <1>3, <1>6, <1>7, TrafficLess DEF Measured

LEMMA ClientLowers ==
    ASSUME Typed, AtRest, Measured, Measured', Client
    PROVE  Lower(8, Traffic', Traffic)
<1>1. /\ toClient \in Seq(ToClient) /\ toServer \in Seq(ToServer)
      /\ rects \in Seq(Rect)
  BY DEF Typed, Streams, ToClient, ToServer
<1>2. UNCHANGED <<sizeTold, modified>>
  BY DEF Client, Start, HandleUpdate, HandlePixels, HandleCopyRect,
     HandleNewFBSize, HandlePseudo, HandleLastRect, FinishUpdate, HandleResize,
     NextRect, server
<1>3. CASE Start
  <2>1. pc = "init" /\ pc' = "message"
    BY <1>3 DEF Start
  <2>2. Owed' < Owed
    BY <1>2, <2>1 DEF Owed
  <2>3. QED
    BY <2>2, TrafficLess
<1>4. CASE HandleUpdate
  <2>1. /\ pc = "message" /\ pc' = "rects" /\ UNCHANGED toServer
        /\ toClient # << >> /\ toClient' = Tail(toClient)
        /\ rects' = Head(toClient).rects /\ Head(toClient).type = "update"
    BY <1>4 DEF HandleUpdate
  <2>2. Head(toClient) \in UpdateMessage
    BY <1>1, <2>1, HeadTailProperties DEF ToClient, ResizeMessage
  <2>3. /\ SizesTold' <= SizesTold /\ Len(toClient') < Len(toClient)
        /\ Head(toClient) \in SizeMessages => SizesTold' < SizesTold
    BY <1>1, <2>1, TakenOff DEF SizesTold
  <2>4. Owed' = Owed /\ AllAwaited' = AllAwaited /\ Marked' = Marked
    <3>1. Owed' = Owed
      BY <1>2, <2>1 DEF Owed
    <3>2. QED
      BY <1>2, <2>1, <3>1 DEF AllAwaited, Marked
  <2>5. CASE Head(toClient) \in SizeMessages
    BY <2>3, <2>4, <2>5, TrafficLess DEF Measured
  <2>6. CASE Head(toClient) \notin SizeMessages
    <3>1. rects' \in Seq(Rect) /\ \A i \in 1 .. Len(rects') : rects'[i] \notin SizeRects
      BY <2>1, <2>2, <2>6 DEF SizeMessages, UpdateMessage, ToClient
    <3>2. SizesRead' = 0
      BY <3>1, NoSizeLeft DEF SizesRead
    <3>3. SizesRead' <= SizesRead
      BY <3>2 DEF Measured
    <3>4. QED
      BY <2>3, <2>4, <3>3, TrafficLess DEF Measured
  <2>7. QED
    BY <2>5, <2>6
<1>5. CASE HandlePixels \/ HandleCopyRect \/ HandlePseudo
  <2>1. (\E enc : NextRect(enc)) /\ UNCHANGED toServer
    BY <1>5 DEF HandlePixels, HandleCopyRect, HandlePseudo
  <2>2. QED
    BY <1>2, <2>1, NextRectLowers
<1>6. CASE HandleNewFBSize
  <2>1. /\ pc' = pc /\ pc = "rects" /\ UNCHANGED toClient
        /\ rects # << >> /\ rects' = Tail(rects)
        /\ Head(rects).enc = "newSize"
    BY <1>6 DEF HandleNewFBSize, NextRect
  <2>2. Head(rects) \in SizeRects
    BY <1>1, <2>1, HeadTailProperties DEF SizeRects
  <2>3. SizesRead' < SizesRead
    BY <1>1, <2>1, <2>2, TakenOff DEF SizesRead
  <2>4. Owed' = Owed /\ SizesTold' = SizesTold
    BY <1>2, <2>1 DEF Owed, SizesTold
  <2>5. QED
    BY <2>3, <2>4, TrafficLess DEF Measured
<1>7. CASE HandleLastRect
  <2>1. /\ pc' = pc /\ pc = "rects" /\ UNCHANGED <<toClient, toServer>>
        /\ rects # << >> /\ rects' = << >>
    BY <1>7 DEF HandleLastRect
  <2>2. Len(rects) \in Nat \ {0} /\ Len(rects') = 0 /\ rects' \in Seq(Rect)
        /\ 1 .. Len(rects') = {}
    <3>1. Len(rects) # 0
      BY <1>1, <2>1, EmptySeq
    <3>2. Len(rects) \in Nat
      BY <1>1, LenProperties
    <3>3. QED
      BY <2>1, <3>1, <3>2
  <2>3. SizesRead' = 0
    BY <2>2, NoSizeLeft DEF SizesRead
  <2>4. InHandling = Len(rects) + 1 /\ InHandling' = Len(rects') + 1
    BY <2>1 DEF InHandling
  <2>5. SizesRead' <= SizesRead /\ InHandling' < InHandling
    BY SMTT(30), <2>2, <2>3, <2>4 DEF Measured
  <2>6. /\ Owed' = Owed /\ SizesTold' = SizesTold /\ AllAwaited' = AllAwaited
        /\ Marked' = Marked
    BY <1>2, <2>1 DEF Owed, SizesTold, AllAwaited, Marked
  <2>7. QED
    BY <2>1, <2>5, <2>6, TrafficLess DEF Measured
<1>8. CASE FinishUpdate
  <2>1. /\ pc = "rects" /\ pc' = "message" /\ UNCHANGED <<toClient, rects>>
        /\ rects = << >> /\ toServer' = Append(toServer, Request(TRUE))
    BY <1>8 DEF FinishUpdate
  <2>2. Request(TRUE) \in ToServer /\ Request(TRUE) \notin FullRequests
    BY ClientMessages DEF FullRequests, Request
  <2>3. AllAwaited' = AllAwaited
    <3>1. Behind(Append(toServer, Request(TRUE)), FullRequests)
             = Behind(toServer, FullRequests)
      BY <1>1, <2>2, BehindAppend, Zenon
    <3>2. QED
      BY <2>1, <3>1, Zenon DEF AllAwaited
  <2>4. InHandling' < InHandling
    BY <2>1 DEF InHandling
  <2>5. /\ Owed' = Owed /\ SizesTold' = SizesTold /\ SizesRead' = SizesRead
        /\ Marked' = Marked
    BY <1>2, <2>1 DEF Owed, SizesTold, SizesRead, Marked
  <2>6. QED
    BY <2>1, <2>3, <2>4, <2>5, TrafficLess DEF Measured
<1>9. CASE HandleResize
  <2>1. /\ pc = "message" /\ pc' = pc
        /\ toClient # << >> /\ toClient' = Tail(toClient)
        /\ Head(toClient).type = "resize"
    BY <1>9 DEF HandleResize
  <2>2. Head(toClient) \in SizeMessages
    BY <1>1, <2>1, HeadTailProperties DEF SizeMessages
  <2>3. SizesTold' < SizesTold
    BY <1>1, <2>1, <2>2, TakenOff DEF SizesTold
  <2>4. Owed' = Owed
    BY <1>2, <2>1 DEF Owed
  <2>5. QED
    BY <2>3, <2>4, TrafficLess DEF Measured
<1>10. QED
  BY <1>3, <1>4, <1>5, <1>6, <1>7, <1>8, <1>9 DEF Client

\* The request after every update and the full request after every new size do
\* not keep the session busy: whatever the server sends of what it has marked
\* and the client of what HandleRFBServerMessage has decoded, each of these
\* steps lowers the measure, in an order without infinite descent.  So between
\* two changes of the screen, or of the quality, only finitely many messages
\* and rectangles are handled, however the two sides take turns.
THEOREM TrafficEnds ==
    Spec => /\ [](Traffic \in Tuples(8))
            /\ [][Server \/ Client => Lower(8, Traffic', Traffic)]_vars
<1>1. Typed => Measured
  BY TrafficMeasured
<1>2. Measured => Traffic \in Tuples(8)
  <2>1. ASSUME NEW a \in Nat, NEW b \in Nat, NEW c \in Nat, NEW d \in Nat,
               NEW e \in Nat, NEW f \in Nat, NEW g \in Nat, NEW h \in Nat
        PROVE  <<a, b, c, d, e, f, g, h>> \in [1 .. 8 -> Nat]
    OBVIOUS
  <2>2. QED
    BY <2>1, Zenon DEF Measured, Traffic, Tuples
<1>3. Typed /\ FormatInv /\ Measured /\ Measured' /\ [Next]_vars
          => [Server \/ Client => Lower(8, Traffic', Traffic)]_vars
  BY ServerLowers, ClientLowers DEF FormatInv
<1>4. QED
  BY <1>1, <1>2, <1>3, TypedInductive, FormatSizeInductive, PTL DEF Spec

\* Neither side has anything to do: nothing to read, no request that could be
\* answered, no size that could be told.
Stopped == /\ Quiet
           /\ ~(requested /\ sizeTold /\ modified # {})
           /\ sizeTold \/ sFormat = DefaultFormat

\* The traffic never stops too early: where neither side has a step to take, the
\* client's next request waits at the server, nothing is marked, the size has
\* been told, and what HandleRFBServerMessage has drawn on the frame is the
\* screen.  The two sides do not wait for each other, and no tile is forgotten.
THEOREM RestIsComplete ==
    Spec => [](Stopped => requalified \/ (width = size /\ frame = screen))
<1>1. Typed /\ RequestPending /\ FormatInv /\ PictureComplete
          => (Stopped => requalified \/ (width = size /\ frame = screen))
  <2> SUFFICES ASSUME Typed, RequestPending, FormatInv, PictureComplete, Stopped,
                      ~requalified
               PROVE  width = size /\ frame = screen
    OBVIOUS
  <2>1. pc = "message" /\ toClient = << >> /\ toServer = << >>
    BY DEF Stopped, Quiet
  <2>2. 1 .. Len(toClient) = {} /\ 1 .. Len(toServer) = {}
    BY <2>1
  <2>3. requested
    BY <2>1, <2>2 DEF RequestPending
  <2>4. sFormat # DefaultFormat
    BY <2>1 DEF FormatInv, InFormat
  <2>5. sizeTold /\ modified = {}
    BY <2>3, <2>4 DEF Stopped
  <2>6. width = size /\ \A t \in Tiles : frame[t] = screen[t]
    BY <2>5 DEF PictureComplete, Stopped
  <2>7. frame = [t \in Tiles |-> frame[t]] /\ screen = [t \in Tiles |-> screen[t]]
    BY DEF Typed, TypeOK
  <2>8. frame = screen
    BY <2>6, <2>7, Zenon
  <2>9. QED
    BY <2>6, <2>8
<1>2. QED
  BY <1>1, TypedInductive, CycleKept, FormatSizeInductive, PictureCorrect, PTL
==============================================================================
