----------------------- MODULE RectanglesPicture_proofs -----------------------
(***************************************************************************)
(* Proofs about what the decoders draw, for every size of the frame, of    *)
(* the tiles and of the buffers: when a handler has returned TRUE the      *)
(* frame shows what the server means (PictureSent), the variables have     *)
(* their types (TypeCorrect), a handler gives up for four named reasons    *)
(* only (RejectedForNamedReasons), and each turn of its loops brings it    *)
(* nearer to its end (HandlersEnd).                                        *)
(*                                                                         *)
(* Drawing says of each loop what it has drawn and what it has still to    *)
(* draw; EmptyPicture, that of an empty rectangle there is nothing.        *)
(* RejectedForNamedReasons needs the length of what a server writes for    *)
(* all the tiles of a rectangle, a sum over a set: Sums is proved by the   *)
(* least of its counterexamples.                                           *)
(***************************************************************************)
EXTENDS Rectangles_proofs, Measures, FiniteSetTheorems

(***************************************************************************)
(* Arithmetic of pixels and of their numbers.                              *)
(***************************************************************************)
LEMMA Division ==
    ASSUME NEW a \in Nat, NEW b \in Nat, NEW w \in Nat, b < w
    PROVE  /\ a * w + b \in Nat
           /\ (a * w + b) \div w = a
           /\ (a * w + b) % w = b
<1>1. PICK x \in Nat : x = a * w + b /\ a * w \in Nat
  OBVIOUS
<1>2. PICK q \in Nat : q = x \div w
  BY <1>1
<1>3. PICK m \in Nat : m = x % w
  BY <1>1
<1>4. x = q * w + m /\ m < w /\ q * w \in Nat
  BY <1>1, <1>2, <1>3
<1>5. CASE q = a
  BY <1>1, <1>2, <1>3, <1>4, <1>5
<1>6. CASE q > a
  <2>1. PICK d \in Nat : q = (a + 1) + d
    <3>1. q - (a + 1) \in Nat /\ q = (a + 1) + (q - (a + 1))
      BY <1>6
    <3>2. QED
      BY <3>1
  <2>2. q * w = (a + 1) * w + d * w /\ (a + 1) * w = a * w + 1 * w
    BY <2>1, Distribute
  <2>3. d * w \in Nat /\ 1 * w = w
    BY <2>1
  <2>4. QED
    BY <1>1, <1>4, <2>2, <2>3
<1>7. CASE q < a
  <2>1. PICK d \in Nat : a = (q + 1) + d
    <3>1. a - (q + 1) \in Nat /\ a = (q + 1) + (a - (q + 1))
      BY <1>7
    <3>2. QED
      BY <3>1
  <2>2. a * w = (q + 1) * w + d * w /\ (q + 1) * w = q * w + 1 * w
    BY <2>1, Distribute
  <2>3. d * w \in Nat /\ 1 * w = w
    BY <2>1
  <2>4. QED
    BY <1>1, <1>4, <2>2, <2>3
<1>8. QED
  BY <1>5, <1>6, <1>7

LEMMA PixelInts ==
    ASSUME NEW p \in Pixels
    PROVE  p[1] \in Nat /\ p[2] \in Nat /\ p = <<p[1], p[2]>>
BY RectanglesAssumption DEF Pixels, RectanglesAssumption

\* The number, in the data of a rectangle, of a pixel in it.
LEMMA NumberNat ==
    ASSUME NEW p \in Pixels, NEW x \in Int, NEW y \in Int, NEW w \in Nat,
           NEW h \in Int, In(p, x, y, w, h)
    PROVE  /\ p[2] - y \in Nat /\ p[1] - x \in Nat
           /\ p[2] - y < h /\ p[1] - x < w
           /\ (p[2] - y) * w + p[1] - x \in Nat
           /\ (p[2] - y) * w + p[1] - x = (p[2] - y) * w + (p[1] - x)
<1>1. p[1] \in Nat /\ p[2] \in Nat
  BY PixelInts
<1>2. PICK a \in Nat, b \in Nat : a = p[2] - y /\ b = p[1] - x
  BY <1>1 DEF In
<1>3. a < h /\ b < w
  BY <1>1, <1>2 DEF In
<1>4. a * w + b \in Nat
  BY <1>3, Division
<1>5. a * w \in Nat
  BY <1>2
<1>6. a * w + p[1] - x = a * w + b
  BY <1>1, <1>2, <1>5
<1>7. QED
  BY <1>2, <1>3, <1>4, <1>6

Numbers(n, p, x, y, w, h) ==
    /\ p \in Pixels /\ x \in Int /\ y \in Int /\ w \in Nat /\ h \in Int
    /\ In(p, x, y, w, h)
    /\ n = (p[2] - y) * w + p[1] - x

LEMMA Numbered ==
    ASSUME NEW n, NEW p, NEW x, NEW y, NEW w, NEW h, Numbers(n, p, x, y, w, h)
    PROVE  n \in Nat /\ n \div w = p[2] - y /\ n % w = p[1] - x
<1> USE DEF Numbers
<1>1. p[1] \in Nat /\ p[2] \in Nat
  BY PixelInts
<1>2. PICK a \in Nat, b \in Nat : a = p[2] - y /\ b = p[1] - x
  BY <1>1 DEF In
<1>3. b < w
  BY <1>1, <1>2 DEF In
<1>4. a * w + b \in Nat /\ (a * w + b) \div w = a /\ (a * w + b) % w = b
  BY <1>3, Division
<1>5. n = a * w + b
  <2>1. a * w \in Nat
    OBVIOUS
  <2>2. n = a * w + p[1] - x
    BY <1>2
  <2>3. QED
    BY <1>1, <1>2, <2>1, <2>2
<1>6. n \in Nat /\ n \div w = a /\ n % w = b
  BY <1>4, <1>5
<1>7. QED
  BY <1>2, <1>6

LEMMA PictureFacts ==
    ASSUME NEW r \in Rects, NEW p \in Pixels
    PROVE  Picture(r)[p] = IF In(p, r.x, r.y, r.w, r.h)
                           THEN Datum((p[2] - r.y) * r.w + (p[1] - r.x))
                           ELSE Old(p)
<1>1. r.x \in Nat /\ r.y \in Nat /\ r.w \in Nat /\ r.h \in Nat
  BY RectFacts
<1>2. CASE In(p, r.x, r.y, r.w, r.h)
  <2>1. r.x \in Int /\ r.y \in Int /\ r.w \in Nat /\ r.h \in Int
    BY <1>1
  <2>2. PICK n \in Nat : /\ n = (p[2] - r.y) * r.w + p[1] - r.x
                         /\ n = (p[2] - r.y) * r.w + (p[1] - r.x)
    BY <1>2, <2>1, NumberNat, Zenon
  <2>3. Picture(r)[p] = Datum(n)
    BY <1>2, <2>2 DEF Picture, CopyRectangle
  <2>4. QED
    BY <1>2, <2>2, <2>3
<1>3. CASE ~In(p, r.x, r.y, r.w, r.h)
  BY <1>3 DEF Picture, CopyRectangle, OldFrame
<1>4. QED
  BY <1>2, <1>3

\* No pixel lies in an empty rectangle, and data for none change nothing.
LEMMA EmptyRect ==
    ASSUME NEW r \in Rects, r \notin Wide, NEW p \in Pixels, NEW n \in Int,
           n <= r.h
    PROVE  ~In(p, r.x, r.y, r.w, n)
BY RectFacts, PixelInts DEF In

LEMMA EmptyPicture ==
    ASSUME NEW r \in Rects, r \notin Wide
    PROVE  /\ Picture(r) = OldFrame
           /\ \A kinds : ZRLEPicture(r, kinds) = OldFrame
<1>1. ASSUME NEW p \in Pixels
      PROVE  ~In(p, r.x, r.y, r.w, r.h)
  BY EmptyRect, RectFacts
<1>2. Picture(r) = OldFrame
  BY <1>1 DEF Picture, CopyRectangle, OldFrame
<1>3. ASSUME NEW kinds
      PROVE  ZRLEPicture(r, kinds) = OldFrame
  <2>1. ZRLEPicture(r, kinds) = [p \in Pixels |-> Picture(r)[p]]
    BY <1>1, Zenon DEF ZRLEPicture
  <2>2. QED
    BY <1>2, <2>1 DEF OldFrame
<1>4. QED
  BY <1>2, <1>3

(***************************************************************************)
(* What each loop has drawn so far.                                        *)
(***************************************************************************)
InRect(p) == In(p, rect.x, rect.y, rect.w, rect.h)

\* Of g, the first n lines of the rectangle r.
LinesDrawn(f, g, r, n) ==
    \A p \in Pixels : f[p] = IF In(p, r.x, r.y, r.w, n) THEN g[p] ELSE Old(p)

\* CopyRectangleFromRectangle: all that comes before <<i, j>> in its order.
Before(a, b, upwards) == IF upwards THEN a < b ELSE a > b
Copied(p) ==
    LET d == <<rect.x, rect.y>>
    IN /\ InRect(p)
       /\ \/ Before(p[2], j, Downwards(d, source))
          \/ p[2] = j /\ Before(p[1], i, Rightwards(d, source))
CopyDrawn ==
    /\ source \in Pixels
    /\ source[1] + rect.w <= Width /\ source[2] + rect.h <= Height
    /\ \A p \in Pixels :
          /\ meant[p] = IF InRect(p)
                        THEN Old(<<p[1] - rect.x + source[1],
                                   p[2] - rect.y + source[2]>>)
                        ELSE Old(p)
          /\ frame[p] = IF Copied(p) THEN meant[p] ELSE Old(p)

\* The client's colours are the server's, as long as the server has any.
HextileDrawn ==
    /\ frame = meant
    /\ DOMAIN job = DOMAIN NoJob
    /\ job.lastBg # Junk => job.bg = job.lastBg
    /\ job.lastFg # Junk => job.fg = job.lastFg

\* raw_buffer has room for all that the server has put in.
ZlibInflated ==
    /\ meant = Picture(rect)
    /\ job.total = rect.w * rect.h * BytesPerPixel
    /\ job.out <= job.total /\ job.total <= rawSize
ZRLEInflated ==
    /\ meant = ZRLEPicture(rect, job.tiles)
    /\ i = 0 /\ j = 0 /\ job.at = 0 /\ job.due = 0
Inflated ==
    /\ frame = OldFrame
    /\ DOMAIN job = DOMAIN NoJob
    /\ job.left \in Nat /\ job.out \in Nat /\ rawSize \in Nat
    /\ job.out <= rawSize
    /\ \/ encoding = "zlib" /\ ZlibInflated
       \/ encoding = "zrle" /\ ZRLEInflated

ZlibDrawn ==
    /\ frame = OldFrame
    /\ meant = Picture(rect)
    /\ job.out = rect.w * rect.h * BytesPerPixel

\* The tiles to the left of the next one and those above it.
Visited(p) ==
    /\ InRect(p)
    /\ \/ p[2] - rect.y < j
       \/ /\ p[2] - rect.y < j + TileHeight(ZRLETileSize)
          /\ p[1] - rect.x < i
TilesDrawn ==
    /\ encoding = "zrle"
    /\ DOMAIN job = DOMAIN NoJob
    /\ meant = ZRLEPicture(rect, job.tiles)
    /\ depth = 16 =>
          /\ job.at = job.due
          /\ \A p \in Pixels :
                frame[p] = IF Visited(p) THEN meant[p] ELSE Old(p)

\* The buffer begins with the bytes of the row that is not yet full.
Buffered ==
    /\ DOMAIN job.buffer = 1 .. job.room
    /\ \A k \in 1 .. job.extra : job.buffer[k] = job.out - job.extra + k
    /\ job.extra < job.rowSize
RowsDrawn == meant = Picture(rect) /\ LinesDrawn(frame, meant, rect, j) /\ Buffered

Drawing ==
    /\ pc = "idle" => meant = OldFrame
    /\ pc = "raw" => meant = Picture(rect) /\ LinesDrawn(frame, meant, rect, j)
    /\ pc = "copy" => CopyDrawn
    /\ pc = "subrects" => frame = meant
    /\ pc = "hextile" => HextileDrawn
    /\ pc = "inflate" => Inflated
    /\ pc = "draw" => ZlibDrawn
    /\ pc = "tiles" => TilesDrawn
    /\ pc \in {"portion", "rows"} => RowsDrawn
    /\ PictureAsSent

IsFrame(f) == f = [p \in Pixels |-> f[p]]

Framed == /\ IsFrame(frame) /\ IsFrame(meant)
          /\ rawSize \in Nat \union {-1} /\ depth \in {15, 16}

LEMMA SameFrame ==
    ASSUME NEW f, NEW g, IsFrame(f), IsFrame(g), \A p \in Pixels : f[p] = g[p]
    PROVE  f = g
BY DEF IsFrame

LEMMA PictureFrame ==
    ASSUME NEW r
    PROVE  IsFrame(Picture(r))
BY DEF IsFrame, Picture, CopyRectangle

(***************************************************************************)
(* Lines.                                                                  *)
(***************************************************************************)
LEMMA NoLines ==
    ASSUME NEW g, NEW r \in Wide
    PROVE  LinesDrawn(OldFrame, g, r, 0)
<1> SUFFICES ASSUME NEW p \in Pixels
             PROVE  OldFrame[p] = IF In(p, r.x, r.y, r.w, 0) THEN g[p] ELSE Old(p)
  BY DEF LinesDrawn
<1>1. ~In(p, r.x, r.y, r.w, 0)
  BY WideFacts, PixelInts DEF In
<1>2. QED
  BY <1>1 DEF OldFrame

LEMMA MoreLines ==
    ASSUME NEW f, NEW g, NEW r \in Wide, NEW n \in Nat, NEW m \in Nat, NEW data,
           LinesDrawn(f, g, r, n),
           \A p \in Pixels :
              In(p, r.x, r.y + n, r.w, m) =>
                 data[(p[2] - (r.y + n)) * r.w + p[1] - r.x] = g[p]
    PROVE  LinesDrawn(CopyRectangle(f, r.x, r.y + n, r.w, m, data),
                      g, r, n + m)
<1> SUFFICES ASSUME NEW p \in Pixels
             PROVE  CopyRectangle(f, r.x, r.y + n, r.w, m, data)[p] =
                       IF In(p, r.x, r.y, r.w, n + m) THEN g[p] ELSE Old(p)
  BY DEF LinesDrawn
<1>1. /\ r.x \in Nat /\ r.y \in Nat /\ r.w \in Nat
      /\ p[1] \in Nat /\ p[2] \in Nat
  BY WideFacts, PixelInts
<1>2. In(p, r.x, r.y, r.w, n + m) <=> \/ In(p, r.x, r.y + n, r.w, m)
                                      \/ In(p, r.x, r.y, r.w, n)
  BY <1>1 DEF In
<1>3. CASE In(p, r.x, r.y + n, r.w, m)
  BY <1>2, <1>3 DEF CopyRectangle
<1>4. CASE ~In(p, r.x, r.y + n, r.w, m)
  BY <1>2, <1>4 DEF CopyRectangle, LinesDrawn
<1>5. QED
  BY <1>3, <1>4

LEMMA AllLines ==
    ASSUME NEW f, NEW r \in Wide, IsFrame(f), LinesDrawn(f, Picture(r), r, r.h)
    PROVE  f = Picture(r)
<1>1. ASSUME NEW p \in Pixels
      PROVE  f[p] = Picture(r)[p]
  BY PictureFacts, WideFacts DEF LinesDrawn
<1>2. QED
  BY <1>1, PictureFrame, SameFrame

LEMMA RawDraws ==
    Placed /\ Framed /\ Drawing /\ (StartRaw \/ RawLines) => Drawing'
<1> SUFFICES ASSUME Placed, Framed, Drawing, StartRaw \/ RawLines
             PROVE  Drawing'
  OBVIOUS
<1>1. CASE StartRaw
  <2>1. /\ rect' \in Rects /\ meant' = Picture(rect')
        /\ frame' = OldFrame /\ j' = 0
        /\ \/ pc' \in {"crashed", "spins"}
           \/ pc' = "done" /\ rect'.h = 0
           \/ pc' = "raw" /\ rect'.h # 0 /\ rect'.w # 0
    BY <1>1 DEF StartRaw, Begin, Placed
  <2>2. CASE pc' \in {"crashed", "spins"}
    BY <2>2 DEF Drawing, PictureAsSent
  <2>3. CASE pc' = "done" /\ rect'.h = 0
    <3>1. rect' \notin Wide
      BY <2>1, <2>3, RectFacts
    <3>2. frame' = meant'
      BY <2>1, <3>1, EmptyPicture
    <3>3. QED
      BY <2>3, <3>2 DEF Drawing, PictureAsSent
  <2>4. CASE pc' = "raw" /\ rect'.h # 0 /\ rect'.w # 0
    <3>1. rect' \in Wide
      BY <2>1, <2>4, RectFacts
    <3>2. LinesDrawn(frame', meant', rect', j')
      BY <2>1, <3>1, NoLines
    <3>3. QED
      BY <2>1, <2>4, <3>2 DEF Drawing, PictureAsSent
  <2>5. QED
    BY <2>1, <2>2, <2>3, <2>4
<1>2. CASE RawLines
  <2>1. /\ pc = "raw" /\ rect \in Wide /\ rect \in Rects
        /\ j \in 0 .. rect.h - 1
        /\ UNCHANGED <<rect, encoding, meant, depth>>
        /\ meant = Picture(rect) /\ LinesDrawn(frame, meant, rect, j)
    BY <1>2 DEF RawLines, Placed, Loops, header, session, Drawing
  <2>2. PICK n : n = Min2(LinesToRead(rect.w), rect.h - j)
    OBVIOUS
  <2>3. PICK data : data = [k \in Nat |-> Datum(j * rect.w + k)]
    OBVIOUS
  <2>4. /\ frame' = CopyRectangle(frame, rect.x, rect.y + j, rect.w, n, data)
        /\ j' = j + n
        /\ IF j + n < rect.h THEN UNCHANGED <<pc, job>> ELSE Return
    BY <1>2, <2>2, <2>3 DEF RawLines
  <2>5. /\ rect.x \in Nat /\ rect.y \in Nat /\ rect.w \in Nat /\ rect.h \in Nat
        /\ rect.w > 0 /\ j \in Nat
    BY <2>1, WideFacts
  <2>6. n \in Nat /\ j + n <= rect.h
    <3>1. LinesToRead(rect.w) \in Nat
      BY <2>5, DivNat, RectanglesAssumption
      DEF LinesToRead, BytesPerPixel, RectanglesAssumption
    <3>2. QED
      BY <2>1, <2>2, <2>5, <3>1 DEF Min2
  <2>7. ASSUME NEW p \in Pixels, In(p, rect.x, rect.y + j, rect.w, n)
        PROVE  data[(p[2] - (rect.y + j)) * rect.w + p[1] - rect.x] = meant[p]
    <3>1. PICK a \in Nat, b \in Nat : /\ a = p[2] - (rect.y + j)
                                      /\ b = p[1] - rect.x
      BY <2>5, <2>7, PixelInts DEF In
    <3>2. rect.y + j \in Int /\ rect.x \in Int /\ n \in Int
      BY <2>5, <2>6
    <3>3. /\ (p[2] - (rect.y + j)) * rect.w + p[1] - rect.x = a * rect.w + b
          /\ a * rect.w + b \in Nat
      BY <2>5, <2>7, <3>1, <3>2, NumberNat
    <3>4. In(p, rect.x, rect.y, rect.w, rect.h) /\ p[2] - rect.y = j + a
      BY <2>5, <2>6, <2>7, <3>1, PixelInts DEF In
    <3>5. meant[p] = Datum((j + a) * rect.w + b)
      BY <2>1, <3>1, <3>4, PictureFacts
    <3>6. (j + a) * rect.w + b = j * rect.w + (a * rect.w + b)
      <4>1. (j + a) * rect.w = j * rect.w + a * rect.w
        BY <2>5, Distribute
      <4>2. j * rect.w \in Nat /\ a * rect.w \in Nat
        BY <2>5
      <4>3. QED
        BY <4>1, <4>2
    <3>7. QED
      BY <2>3, <3>3, <3>5, <3>6
  <2>8. LinesDrawn(frame', meant', rect', j')
    BY <2>1, <2>4, <2>5, <2>6, <2>7, MoreLines
  <2>9. CASE j + n < rect.h
    BY <2>1, <2>4, <2>8, <2>9 DEF Drawing, PictureAsSent
  <2>10. CASE ~(j + n < rect.h)
    <3>1. j' = rect.h /\ pc' = "done"
      BY <2>4, <2>5, <2>6, <2>10 DEF Return
    <3>2. IsFrame(frame')
      BY <2>4 DEF IsFrame, CopyRectangle
    <3>3. frame' = meant'
      BY <2>1, <2>8, <3>1, <3>2, AllLines
    <3>4. QED
      BY <3>1, <3>3 DEF Drawing, PictureAsSent
  <2>11. QED
    BY <2>9, <2>10
<1>3. QED
  BY <1>1, <1>2

(***************************************************************************)
(* CopyRect: the pixel that is read has not been written yet.              *)
(***************************************************************************)
\* The order of the pixels before a step to column a and row b.
CopiedTo(p, a, b) ==
    LET d == <<rect.x, rect.y>>
    IN /\ InRect(p)
       /\ \/ Before(p[2], b, Downwards(d, source))
          \/ p[2] = b /\ Before(p[1], a, Rightwards(d, source))

LEMMA CopyDraws ==
    Placed /\ Framed /\ Drawing /\ (StartCopyRect \/ CopyPixel) => Drawing'
<1> SUFFICES ASSUME Placed, Framed, Drawing, StartCopyRect \/ CopyPixel
             PROVE  Drawing'
  OBVIOUS
<1>1. CASE StartCopyRect
  <2>1. PICK r \in Rects, s \in Pixels :
            /\ s[1] + r.w <= Width /\ s[2] + r.h <= Height
            /\ rect' = r /\ frame' = OldFrame /\ source' = s
            /\ \/ pc' = "done" /\ r \notin Wide
               \/ /\ pc' = "copy"
                  /\ i' = FirstColumn(<<r.x, r.y>>, s, r.w)
                  /\ j' = FirstRow(<<r.x, r.y>>, s, r.h)
            /\ meant' = [p \in Pixels |->
                   IF In(p, r.x, r.y, r.w, r.h)
                   THEN Old(<<p[1] - r.x + s[1], p[2] - r.y + s[2]>>)
                   ELSE Old(p)]
    BY <1>1 DEF StartCopyRect, Placed
  <2>2. CASE pc' = "done" /\ r \notin Wide
    <3>1. ASSUME NEW p \in Pixels
          PROVE  ~In(p, r.x, r.y, r.w, r.h)
      BY <2>2, EmptyRect, RectFacts
    <3>2. frame' = meant'
      BY <2>1, <3>1 DEF OldFrame
    <3>3. QED
      BY <2>2, <3>2 DEF Drawing, PictureAsSent
  <2>3. CASE pc' = "copy"
    <3>1. ASSUME NEW p \in Pixels
          PROVE  ~Copied(p)'
      <4>1. /\ r.x \in Nat /\ r.y \in Nat /\ r.w \in Nat /\ r.h \in Nat
            /\ p[1] \in Nat /\ p[2] \in Nat /\ s[1] \in Nat /\ s[2] \in Nat
        BY RectFacts, PixelInts
      <4>2. QED
        BY <2>1, <2>3, <4>1 DEF Copied, Before, InRect, In, FirstColumn,
           FirstRow, Downwards, Rightwards
    <3>2. CopyDrawn'
      BY <2>1, <3>1 DEF CopyDrawn, OldFrame, InRect
    <3>3. QED
      BY <2>3, <3>2 DEF Drawing, PictureAsSent
  <2>4. QED
    BY <2>1, <2>2, <2>3
<1>2. CASE CopyPixel
  <2> DEFINE d == <<rect.x, rect.y>>
             nextI == IF Rightwards(d, source) THEN i + 1 ELSE i - 1
             nextJ == IF Downwards(d, source) THEN j + 1 ELSE j - 1
             inRow == nextI \in rect.x .. rect.x + rect.w - 1
             more  == nextJ \in rect.y .. rect.y + rect.h - 1
  <2>1. /\ pc = "copy" /\ rect \in Wide /\ CopyDrawn
        /\ UNCHANGED <<rect, encoding, source, meant, depth>>
        /\ i \in rect.x .. rect.x + rect.w - 1
        /\ j \in rect.y .. rect.y + rect.h - 1
    BY <1>2 DEF CopyPixel, Placed, Loops, header, session, Drawing
  <2>2. /\ rect.x \in Nat /\ rect.y \in Nat /\ rect.w \in Nat /\ rect.h \in Nat
        /\ rect.w > 0 /\ rect.h > 0
        /\ rect.x + rect.w <= Width /\ rect.y + rect.h <= Height
        /\ source[1] \in Nat /\ source[2] \in Nat
        /\ source[1] + rect.w <= Width /\ source[2] + rect.h <= Height
        /\ Width \in Nat /\ Height \in Nat
    BY <2>1, WideFacts, PixelInts, RectanglesAssumption
    DEF CopyDrawn, RectanglesAssumption
  <2>3. PICK q : q = <<i - rect.x + source[1], j - rect.y + source[2]>>
    OBVIOUS
  <2>4. PICK o : o = <<i, j>>
    OBVIOUS
  <2>5. /\ q \in Pixels /\ o \in Pixels /\ InRect(o) /\ o[1] = i /\ o[2] = j
    BY <2>1, <2>2, <2>3, <2>4 DEF Pixels, InRect, In
  <2>6. ~Copied(q)
    BY <2>1, <2>2, <2>3 DEF Copied, Before, Downwards, Rightwards
  <2>7. frame[q] = meant[o]
    BY <2>1, <2>3, <2>5, <2>6 DEF CopyDrawn
  <2>8. /\ frame' = [frame EXCEPT ![o] = frame[q]]
        /\ i' = IF inRow THEN nextI ELSE FirstColumn(d, source, rect.w)
        /\ j' = IF inRow THEN j ELSE nextJ
        /\ IF inRow \/ more THEN UNCHANGED <<pc, job>> ELSE Return
    BY <1>2, <2>3, <2>4 DEF CopyPixel
  <2>9. \A p \in Pixels :
           frame'[p] = IF Copied(p) \/ p = o THEN meant[p] ELSE Old(p)
    BY <2>1, <2>5, <2>7, <2>8 DEF CopyDrawn, Framed, IsFrame
  <2>10. ASSUME NEW p \in Pixels
         PROVE  /\ p[1] \in Nat /\ p[2] \in Nat
                /\ p = o <=> p[1] = i /\ p[2] = j
    BY <2>4, PixelInts
  <2>11. CASE inRow \/ more
    <3>1. ASSUME NEW p \in Pixels
          PROVE  CopiedTo(p, i', j') <=> Copied(p) \/ p = o
      <4>1. CASE inRow
        <5>1. i' = nextI /\ j' = j /\ i \in Int /\ j \in Int
          BY <2>1, <2>2, <2>8, <4>1
        <5>2. InRect(o) /\ o[1] = i /\ o[2] = j
          BY <2>5
        <5>3. CASE Rightwards(d, source)
          BY <2>10, <5>1, <5>2, <5>3 DEF CopiedTo, Copied, Before
        <5>4. CASE ~Rightwards(d, source)
          BY <2>10, <5>1, <5>2, <5>4 DEF CopiedTo, Copied, Before
        <5>5. QED
          BY <5>3, <5>4
      <4>2. CASE ~inRow /\ more
        BY <2>1, <2>2, <2>5, <2>8, <2>10, <4>2
        DEF CopiedTo, Copied, Before, InRect, In, FirstColumn
      <4>3. QED
        BY <2>11, <4>1, <4>2
    <3>2. ASSUME NEW p \in Pixels
          PROVE  frame'[p] = IF Copied(p)' THEN meant'[p] ELSE Old(p)
      <4>1. Copied(p)' <=> CopiedTo(p, i', j')
        BY <2>1 DEF Copied, CopiedTo, InRect
      <4>2. QED
        BY <2>1, <2>9, <3>1, <4>1
    <3>3. CopyDrawn'
      BY <2>1, <3>2 DEF CopyDrawn, InRect
    <3>4. QED
      BY <2>1, <2>8, <2>11, <3>3 DEF Drawing, PictureAsSent
  <2>12. CASE ~inRow /\ ~more
    <3>1. ASSUME NEW p \in Pixels
          PROVE  InRect(p) => Copied(p) \/ p = o
      BY <2>1, <2>2, <2>10, <2>12 DEF Copied, Before, InRect, In
    <3>2. \A p \in Pixels : frame'[p] = meant'[p]
      BY <2>1, <2>5, <2>9, <3>1 DEF CopyDrawn
    <3>3. IsFrame(frame') /\ IsFrame(meant')
      BY <2>1, <2>8 DEF Framed, IsFrame
    <3>4. frame' = meant' /\ pc' = "done"
      BY <2>8, <2>12, <3>2, <3>3, SameFrame DEF Return
    <3>5. QED
      BY <3>4 DEF Drawing, PictureAsSent
  <2>13. QED
    BY <2>11, <2>12
<1>3. QED
  BY <1>1, <1>2

LEMMA SubrectsDraw ==
    Placed /\ Framed /\ Drawing /\ (StartRRE \/ StartCoRRE \/ Subrect)
        => Drawing'
<1> SUFFICES ASSUME Placed, Framed, Drawing, StartRRE \/ StartCoRRE \/ Subrect
             PROVE  Drawing'
  OBVIOUS
<1>1. CASE StartRRE \/ StartCoRRE
  <2>1. /\ DrawBackground
        /\ pc' \in {"subrects", "done", "cut"}
    BY <1>1 DEF StartRRE, StartCoRRE, AwaitSubrects, Return
  <2>2. frame' = meant' /\ pc' \in {"subrects", "done", "cut"}
    BY <2>1 DEF DrawBackground
  <2>3. QED
    BY <2>2 DEF Drawing, PictureAsSent
<1>2. CASE Subrect
  <2>1. /\ pc = "subrects" /\ rect \in Rects /\ frame = meant
        /\ pc' \in {"subrects", "done"}
    BY <1>2 DEF Subrect, Placed, Loops, Drawing, Return
  <2>2. PICK c \in Colours, r \in Rects :
            /\ frame' = FillRectangle(frame, rect.x + r.x, rect.y + r.y,
                                      r.w, r.h, Colour(c))
            /\ meant' = [p \in Pixels |->
                   IF In(<<p[1] - rect.x, p[2] - rect.y>>, r.x, r.y, r.w, r.h)
                   THEN Colour(c) ELSE meant[p]]
    BY <1>2 DEF Subrect
  <2>3. ASSUME NEW p \in Pixels
        PROVE  In(<<p[1] - rect.x, p[2] - rect.y>>, r.x, r.y, r.w, r.h)
                   <=> In(p, rect.x + r.x, rect.y + r.y, r.w, r.h)
    BY <2>1, RectFacts, PixelInts DEF In
  <2>4. \A p \in Pixels : frame'[p] = meant'[p]
    BY <2>1, <2>2, <2>3 DEF FillRectangle
  <2>5. IsFrame(frame') /\ IsFrame(meant')
    BY <2>2 DEF IsFrame, FillRectangle
  <2>6. frame' = meant'
    BY <2>4, <2>5, SameFrame
  <2>7. QED
    BY <2>1, <2>6 DEF Drawing, PictureAsSent
<1>3. QED
  BY <1>1, <1>2

(***************************************************************************)
(* Tiles of the hextile encoding.                                          *)
(***************************************************************************)
LEMMA TileFacts ==
    ASSUME TilePlaced, NEW size \in Nat, size > 0
    PROVE  /\ rect.x \in Nat /\ rect.y \in Nat
           /\ rect.w \in Nat /\ rect.h \in Nat /\ i \in Nat /\ j \in Nat
           /\ rect.x + rect.w <= Width /\ rect.y + rect.h <= Height
           /\ i < rect.w /\ j < rect.h
           /\ TileWidth(size) \in Nat /\ TileWidth(size) > 0
           /\ TileHeight(size) \in Nat /\ TileHeight(size) > 0
           /\ TileWidth(size) = IF i + size < rect.w THEN size ELSE rect.w - i
           /\ TileHeight(size) = IF j + size < rect.h THEN size ELSE rect.h - j
<1>1. /\ rect.x \in Nat /\ rect.y \in Nat /\ rect.w \in Nat /\ rect.h \in Nat
      /\ rect.x + rect.w <= Width /\ rect.y + rect.h <= Height
  BY WideFacts DEF TilePlaced
<1>2. i \in 0 .. rect.w - 1 /\ j \in 0 .. rect.h - 1
  BY DEF TilePlaced
<1>3. QED
  BY <1>1, <1>2 DEF TileWidth, TileHeight, Min2

LEMMA NextTileEnds ==
    ASSUME NEW size, NEW next, NextTile(size, next)
    PROVE  \/ pc' = pc /\ job' = next
           \/ pc' = "done"
BY DEF NextTile, Return

\* A raw tile has the pixels of its place in the rectangle.
LEMMA RawTile ==
    ASSUME TilePlaced, NEW size \in Nat, size > 0, NEW p \in Pixels,
           In(p, rect.x + i, rect.y + j, TileWidth(size), TileHeight(size))
    PROVE  [n \in Nat |-> TileDatum(n, TileWidth(size))]
              [(p[2] - (rect.y + j)) * TileWidth(size) + p[1] - (rect.x + i)]
           = Picture(rect)[p]
<1> DEFINE w == TileWidth(size)
           h == TileHeight(size)
<1>1. /\ rect.x \in Nat /\ rect.y \in Nat
      /\ rect.w \in Nat /\ rect.h \in Nat /\ i \in Nat /\ j \in Nat
      /\ w \in Nat /\ w > 0 /\ h \in Nat /\ i + w <= rect.w /\ j + h <= rect.h
      /\ rect \in Wide
  <2>1. /\ rect.x \in Nat /\ rect.y \in Nat
        /\ rect.w \in Nat /\ rect.h \in Nat /\ i \in Nat /\ j \in Nat
        /\ i < rect.w /\ j < rect.h
        /\ w \in Nat /\ w > 0 /\ h \in Nat
        /\ w = IF i + size < rect.w THEN size ELSE rect.w - i
        /\ h = IF j + size < rect.h THEN size ELSE rect.h - j
    BY TileFacts, Zenon
  <2> HIDE DEF w, h
  <2>2. i + w <= rect.w /\ j + h <= rect.h
    BY <2>1
  <2>3. rect \in Wide
    BY DEF TilePlaced
  <2>4. QED
    BY <2>1, <2>2, <2>3
<1>2. p[1] \in Nat /\ p[2] \in Nat
  BY PixelInts
<1> HIDE DEF w, h
<1>3. In(p, rect.x + i, rect.y + j, w, h)
  BY DEF w, h
<1>4. In(p, rect.x, rect.y, rect.w, rect.h)
  BY <1>1, <1>2, <1>3 DEF In
<1>5. PICK x \in Int, y \in Int : x = rect.x + i /\ y = rect.y + j
  <2>1. rect.x + i \in Int /\ rect.y + j \in Int
    BY <1>1
  <2>2. QED
    BY <2>1, Zenon
<1>6. h \in Int /\ w \in Nat /\ In(p, x, y, w, h)
  BY <1>1, <1>3, <1>5
<1>7. PICK n : n = (p[2] - y) * w + p[1] - x
  OBVIOUS
<1>8. n \in Nat /\ n \div w = p[2] - y /\ n % w = p[1] - x
  <2>1. Numbers(n, p, x, y, w, h)
    BY <1>6, <1>7 DEF Numbers
  <2>2. QED
    BY <2>1, Numbered
<1>9. /\ j + n \div w = p[2] - rect.y
      /\ n % w \in Int /\ i + (n % w) = p[1] - rect.x
  <2>1. PICK a, b : a = n \div w /\ b = n % w
    OBVIOUS
  <2>2. a = p[2] - y /\ b = p[1] - x
    BY <1>8, <2>1, Zenon
  <2>3. j + a = p[2] - rect.y /\ b \in Int /\ i + b = p[1] - rect.x
    BY <1>1, <1>2, <1>5, <2>2
  <2>4. QED
    BY <2>1, <2>3, Zenon
<1>10. p[2] - rect.y \in Int /\ (p[2] - rect.y) * rect.w \in Int
  BY <1>1, <1>2
<1>11. (j + n \div w) * rect.w + i + (n % w)
         = (p[2] - rect.y) * rect.w + (p[1] - rect.x)
  <2>1. PICK a \in Int : a = (p[2] - rect.y) * rect.w
    BY <1>10
  <2>2. PICK b \in Int : b = n % w
    BY <1>9
  <2>3. a + i + b = a + (p[1] - rect.x)
    BY <1>1, <1>2, <1>9, <2>2
  <2>4. QED
    BY <1>9, <2>1, <2>2, <2>3
<1>12. [k \in Nat |-> TileDatum(k, w)][n]
         = Datum((p[2] - rect.y) * rect.w + (p[1] - rect.x))
  BY <1>8, <1>11 DEF TileDatum
<1>13. Picture(rect)[p] = Datum((p[2] - rect.y) * rect.w + (p[1] - rect.x))
  BY <1>1, <1>4, PictureFacts, WideFacts
<1>14. QED
  BY <1>5, <1>7, <1>12, <1>13 DEF w

LEMMA HextileDraws ==
    Placed /\ Framed /\ Drawing /\ (StartHextile \/ HextileRaw \/ HextileTile)
        => Drawing'
<1> SUFFICES ASSUME Placed, Framed, Drawing,
                    StartHextile \/ HextileRaw \/ HextileTile
             PROVE  Drawing'
  OBVIOUS
<1>1. CASE StartHextile
  <2>1. /\ pc' \in {"hextile", "done"} /\ frame' = meant'
        /\ job'.lastBg = Junk /\ job'.lastFg = Junk
        /\ DOMAIN job' = DOMAIN NoJob
    BY <1>1 DEF StartHextile, Begin, Placed, Drawing, NoJob
  <2>2. QED
    BY <2>1 DEF Drawing, PictureAsSent, HextileDrawn
<1>2. ASSUME HextileRaw \/ HextileTile
      PROVE  /\ pc = "hextile" /\ TilePlaced /\ HextileDrawn
             /\ HextileSize \in Nat /\ HextileSize > 0
  BY <1>2, WideFacts, RectanglesAssumption
  DEF HextileRaw, HextileTile, Placed, TilePlaced, Loops, Drawing,
      RectanglesAssumption
<1>3. CASE HextileRaw
  <2> DEFINE x == rect.x + i
             y == rect.y + j
             w == TileWidth(HextileSize)
             h == TileHeight(HextileSize)
  <2>1. /\ frame' = CopyRectangle(frame, x, y, w, h,
                                  [n \in Nat |-> TileDatum(n, w)])
        /\ meant' = [p \in Pixels |->
               IF In(p, x, y, w, h) THEN Picture(rect)[p] ELSE meant[p]]
    BY <1>3 DEF HextileRaw
  <2>2. \A p \in Pixels :
           In(p, x, y, w, h) =>
              [n \in Nat |-> TileDatum(n, w)][(p[2] - y) * w + p[1] - x]
                 = Picture(rect)[p]
    BY <1>2, <1>3, RawTile
  <2>3. PICK data : data = [n \in Nat |-> TileDatum(n, w)]
    OBVIOUS
  <2>4. frame = meant
    BY <1>2, <1>3 DEF HextileDrawn
  <2> HIDE DEF x, y, w, h
  <2>5. ASSUME NEW p \in Pixels
        PROVE  frame'[p] = meant'[p]
    BY <2>1, <2>2, <2>3, <2>4 DEF CopyRectangle
  <2>6. IsFrame(frame') /\ IsFrame(meant')
    BY <2>1 DEF IsFrame, CopyRectangle
  <2>7. frame' = meant'
    BY <2>5, <2>6, SameFrame
  <2>8. NextTile(HextileSize, job)
    BY <1>3 DEF HextileRaw
  <2>9. \/ pc' = "hextile" /\ job' = job
        \/ pc' = "done"
    BY <1>2, <1>3, <2>8, NextTileEnds
  <2>10. QED
    BY <1>2, <1>3, <2>7, <2>9 DEF Drawing, PictureAsSent, HextileDrawn
<1>4. CASE HextileTile
  <2>1. PICK b, f, c : \E s \in {NoRect} \union Wide : PaintTile(b, f, c, s)
    BY <1>4 DEF HextileTile
  <2> PICK sub \in {NoRect} \union Wide : PaintTile(b, f, c, sub)
    BY <2>1
  <2> DEFINE x == rect.x + i
             y == rect.y + j
             w == TileWidth(HextileSize)
             h == TileHeight(HextileSize)
             bg == Specified(b, job.bg)
             fg == Specified(c, Specified(f, job.fg))
             serverBg == Specified(b, job.lastBg)
             serverFg == Specified(c, Specified(f, job.lastFg))
             next == [job EXCEPT !.bg = bg, !.fg = fg, !.lastBg = serverBg,
                          !.lastFg = IF c # Junk THEN Junk ELSE serverFg]
  <2>2. /\ serverBg # Junk
        /\ sub # NoRect => serverFg # Junk
        /\ frame' = FillRectangle(FillRectangle(frame, x, y, w, h, bg),
                        x + sub.x, y + sub.y, sub.w, sub.h, fg)
        /\ meant' = [p \in Pixels |->
               IF In(<<p[1] - x, p[2] - y>>, sub.x, sub.y, sub.w, sub.h)
               THEN serverFg
               ELSE IF In(p, x, y, w, h) THEN serverBg ELSE meant[p]]
        /\ NextTile(HextileSize, next)
    BY DEF PaintTile
  <2>3. serverBg = bg /\ (serverFg # Junk => serverFg = fg)
    BY <1>2, <1>4, <2>2 DEF HextileDrawn, Specified
  <2>4. /\ x \in Nat /\ y \in Nat /\ frame = meant
    BY <1>2, <1>4, TileFacts DEF HextileDrawn
  <2>5. /\ sub.x \in Nat /\ sub.y \in Nat /\ sub.w \in Nat /\ sub.h \in Nat
        /\ sub = NoRect => sub.w = 0
    BY <2>1, WideFacts DEF NoRect
  <2>6. /\ next.bg = bg /\ next.fg = fg /\ next.lastBg = serverBg
        /\ next.lastFg # Junk => next.lastFg = serverFg
        /\ DOMAIN next = DOMAIN NoJob
    BY <1>2, <1>4 DEF NoJob, HextileDrawn
  <2> HIDE DEF x, y, w, h, bg, fg, serverBg, serverFg
  <2>7. ASSUME NEW p \in Pixels
        PROVE  frame'[p] = meant'[p]
    <3>1. p[1] \in Nat /\ p[2] \in Nat
      BY PixelInts
    <3>2. In(<<p[1] - x, p[2] - y>>, sub.x, sub.y, sub.w, sub.h)
             <=> In(p, x + sub.x, y + sub.y, sub.w, sub.h)
      BY <2>4, <2>5, <3>1 DEF In
    <3>3. In(p, x + sub.x, y + sub.y, sub.w, sub.h) => sub # NoRect
      BY <2>4, <2>5, <3>1 DEF In
    <3>4. QED
      BY <2>2, <2>3, <2>4, <3>2, <3>3 DEF FillRectangle
  <2>8. IsFrame(frame') /\ IsFrame(meant')
    BY <2>2 DEF IsFrame, FillRectangle
  <2>9. frame' = meant'
    BY <2>7, <2>8, SameFrame
  <2>10. \/ pc' = "hextile" /\ job' = next
         \/ pc' = "done"
    BY <1>2, <1>4, <2>2, NextTileEnds
  <2>11. QED
    BY <2>3, <2>6, <2>9, <2>10 DEF Drawing, PictureAsSent, HextileDrawn
<1>5. QED
  BY <1>1, <1>3, <1>4

(***************************************************************************)
(* zlib, ZRLE and Ultra.                                                   *)
(***************************************************************************)
LEMMA Larger ==
    ASSUME NEW a \in Nat \union {-1}, NEW b \in Nat
    PROVE  Max2(a, b) \in Nat /\ b <= Max2(a, b) /\ a <= Max2(a, b)
BY DEF Max2

LEMMA CPixelNat == ASSUME Framed PROVE CPixel \in {1, 2} /\ (depth = 16 => CPixel = 2)
BY DEF Framed, CPixel

LEMMA LengthFacts ==
    ASSUME NEW r \in Rects, NEW len \in DataLengths(r)
    PROVE  /\ len \in Nat
           /\ len = 0 => r \notin Wide
BY RectanglesAssumption DEF DataLengths, RectanglesAssumption

LEMMA InflateStarts ==
    Placed /\ Framed /\ Drawing /\ (StartUltra \/ StartZlib \/ StartZRLE)
        => Drawing'
<1> SUFFICES ASSUME Placed, Framed, Drawing,
                    StartUltra \/ StartZlib \/ StartZRLE
             PROVE  Drawing'
  OBVIOUS
<1>1. CASE StartUltra
  <2>1. /\ rect' \in Rects /\ meant' = Picture(rect')
        /\ pc' \in {"done", "rejected"}
        /\ \/ frame' = Picture(rect')
           \/ frame' = OldFrame /\ rect' \notin Wide
    BY <1>1 DEF StartUltra, Begin, Placed
  <2>2. frame' = meant'
    BY <2>1, EmptyPicture
  <2>3. QED
    BY <2>1, <2>2 DEF Drawing, PictureAsSent
<1>2. CASE StartZlib \/ StartZRLE
  <2>1. /\ rect' \in Rects /\ i' = 0 /\ j' = 0
        /\ frame' = OldFrame /\ rawSize \in Nat \union {-1}
    BY <1>2 DEF StartZlib, StartZRLE, Begin, Placed, Framed
  <2>2. PICK w, h : w = rect'.w /\ h = rect'.h
    OBVIOUS
  <2>3. w \in Nat /\ h \in Nat
    BY <2>1, <2>2, RectFacts
  <2>4. CASE StartZlib
    <3>1. PICK size : size = w * h * BytesPerPixel
      OBVIOUS
    <3>2. size \in Nat
      BY <2>3, <3>1 DEF BytesPerPixel
    <3>3. PICK len \in DataLengths(rect') :
             /\ job' = [NoJob EXCEPT !.left = len, !.total = size]
             /\ pc' = IF len > 0 THEN "inflate" ELSE "draw"
      BY <2>2, <2>4, <3>1 DEF StartZlib
    <3>4. /\ DOMAIN job' = DOMAIN NoJob
          /\ job'.left = len /\ job'.out = 0 /\ job'.total = size
      BY <3>3 DEF NoJob
    <3>5. len \in Nat /\ (len = 0 => rect' \notin Wide)
      BY <2>1, <3>3, LengthFacts
    <3>6. rawSize' = Max2(rawSize, size)
      BY <2>2, <2>4, <3>1 DEF StartZlib
    <3>7. rawSize' \in Nat /\ size <= rawSize'
      BY <2>1, <3>2, <3>6, Larger
    <3>8. encoding' = "zlib" /\ meant' = Picture(rect')
      BY <2>4 DEF StartZlib, Begin
    <3>9. ZlibInflated'
      BY <2>2, <3>1, <3>2, <3>4, <3>7, <3>8 DEF ZlibInflated
    <3>10. Inflated'
      BY <2>1, <3>4, <3>5, <3>7, <3>8, <3>9 DEF Inflated
    <3>11. CASE len > 0
      BY <3>3, <3>10, <3>11 DEF Drawing, PictureAsSent
    <3>12. CASE len = 0
      <4>1. size = 0
        <5>1. w = 0 \/ h = 0
          BY <2>1, <2>2, <2>3, <3>5, <3>12, RectFacts
        <5>2. QED
          BY <2>3, <3>1, <5>1 DEF BytesPerPixel
      <4>2. ZlibDrawn'
        BY <2>1, <2>2, <3>1, <3>4, <3>8, <4>1 DEF ZlibDrawn
      <4>3. QED
        BY <3>3, <3>12, <4>2 DEF Drawing, PictureAsSent
    <3>13. QED
      BY <3>5, <3>11, <3>12
  <2>5. CASE StartZRLE
    <3> PICK len \in DataLengths(rect') : \E kinds, total :
             /\ job' = [NoJob EXCEPT !.left = len, !.tiles = kinds,
                                     !.total = total]
             /\ meant' = ZRLEPicture(rect', kinds)
             /\ pc' = IF len > 0 THEN "inflate" ELSE "tiles"
      BY <2>5 DEF StartZRLE
    <3>1. PICK kinds, total :
             /\ job' = [NoJob EXCEPT !.left = len, !.tiles = kinds,
                                     !.total = total]
             /\ meant' = ZRLEPicture(rect', kinds)
             /\ pc' = IF len > 0 THEN "inflate" ELSE "tiles"
      OBVIOUS
    <3>2. /\ DOMAIN job' = DOMAIN NoJob
          /\ job'.left = len /\ job'.out = 0 /\ job'.tiles = kinds
          /\ job'.at = 0 /\ job'.due = 0
      BY <3>1 DEF NoJob
    <3>3. len \in Nat /\ (len = 0 => rect' \notin Wide)
      BY <2>1, <3>1, LengthFacts
    <3>4. rawSize' = Max2(rawSize, MinBufferSize(w, h))
      BY <2>2, <2>5 DEF StartZRLE
    <3>5. MinBufferSize(w, h) \in Nat
      BY <2>3, CPixelNat DEF MinBufferSize
    <3>6. rawSize' \in Nat
      BY <2>1, <3>4, <3>5, Larger
    <3>7. encoding' = "zrle" /\ ZRLEInflated'
      BY <2>1, <2>5, <3>1, <3>2 DEF StartZRLE, Begin, ZRLEInflated
    <3>8. Inflated'
      BY <2>1, <3>2, <3>3, <3>6, <3>7 DEF Inflated
    <3>9. CASE len > 0
      BY <3>1, <3>8, <3>9 DEF Drawing, PictureAsSent
    <3>10. CASE len = 0
      <4>1. ASSUME NEW p \in Pixels
            PROVE  ~InRect(p)'
        BY <2>1, <3>3, <3>10, EmptyRect, RectFacts DEF InRect
      <4>2. TilesDrawn'
        BY <2>1, <3>1, <3>2, <3>7, <4>1 DEF TilesDrawn, Visited, OldFrame
      <4>3. QED
        BY <3>1, <3>10, <4>2 DEF Drawing, PictureAsSent
    <3>11. QED
      BY <3>3, <3>9, <3>10
  <2>6. QED
    BY <1>2, <2>4, <2>5
<1>3. QED
  BY <1>1, <1>2

\* With the last portion all of the output is there, for a buffer that has room
\* for it.
LEMMA InflateDraws == Placed /\ Framed /\ Drawing /\ InflatePortion => Drawing'
<1> SUFFICES ASSUME Placed, Framed, Drawing, InflatePortion
             PROVE  Drawing'
  OBVIOUS
<1> DEFINE toRead == Min2(job.left, BufferSize)
           room   == rawSize - job.out
<1>1. /\ pc = "inflate" /\ rect \in Rects /\ Inflated
      /\ UNCHANGED <<rect, encoding, frame, meant, i, j, depth, rawSize>>
  BY DEF InflatePortion, Placed, Loops, Drawing, header, session
<1>2. CASE pc' \in {"rejected", "space"}
  BY <1>2 DEF Drawing, PictureAsSent
<1>3. CASE pc' \notin {"rejected", "space"}
  <2>1. /\ job.left \in Nat /\ job.out \in Nat /\ rawSize \in Nat
        /\ job.out <= rawSize /\ BufferSize \in Nat
    BY <1>1, RectanglesAssumption DEF Inflated, RectanglesAssumption
  <2>2. toRead \in Nat /\ toRead <= job.left
    BY <2>1 DEF Min2
  <2>3. PICK m \in 0 .. room :
           /\ Inflate(toRead, m, toRead, room, job.left > toRead)
           /\ pc' = IF job.left > toRead THEN "inflate"
                    ELSE IF encoding = "zlib" THEN "draw" ELSE "tiles"
           /\ job' = [job EXCEPT !.left = @ - toRead, !.out = @ + m]
    <3>1. PICK n \in {toRead - 1, toRead}, m \in 0 .. room :
             /\ Inflate(n, m, toRead, room, job.left > toRead)
             /\ IF n < toRead
                THEN pc' = "space" /\ job' = NoJob
                ELSE /\ pc' = IF job.left > toRead THEN "inflate"
                              ELSE IF encoding = "zlib" THEN "draw" ELSE "tiles"
                     /\ job' = [job EXCEPT !.left = @ - toRead, !.out = @ + m]
      BY <1>3, Zenon DEF InflatePortion
    <3> HIDE DEF toRead, room
    <3>2. n = toRead
      BY <1>3, <2>2, <3>1
    <3>3. ~(n < toRead)
      BY <2>2, <3>2
    <3>4. QED
      BY <3>1, <3>2, <3>3
  <2>4. /\ DOMAIN job' = DOMAIN NoJob
        /\ job'.left = job.left - toRead /\ job'.out = job.out + m
        /\ job'.total = job.total /\ job'.tiles = job.tiles
        /\ job'.at = job.at /\ job'.due = job.due
    BY <1>1, <2>3 DEF Inflated, NoJob
  <2> HIDE DEF toRead
  <2>5. job'.left \in Nat /\ job'.out \in Nat /\ job'.out <= rawSize
    BY <2>3, <2>1, <2>2, <2>4
  <2>6. /\ job.out + m <= job.total
        /\ ~(job.left > toRead) /\ m < room => job.out + m = job.total
    BY <2>3 DEF Inflate
  <2>7. CASE job.left > toRead
    <3>1. Inflated'
      BY <1>1, <2>4, <2>5, <2>6
      DEF Inflated, ZlibInflated, ZRLEInflated
    <3>2. QED
      BY <2>3, <2>7, <3>1 DEF Drawing, PictureAsSent
  <2>8. CASE ~(job.left > toRead) /\ encoding = "zlib"
    <3>1. ZlibInflated
      BY <1>1, <2>8 DEF Inflated
    <3>2. job.total \in Nat /\ job.total <= rawSize
      <4>1. rect.w \in Nat /\ rect.h \in Nat
        BY <1>1, RectFacts
      <4>2. QED
        BY <3>1, <4>1 DEF ZlibInflated, BytesPerPixel
    <3>3. job'.out = job.total
      BY <2>3, <2>1, <2>4, <2>6, <2>8, <3>2
    <3>4. ZlibDrawn'
      BY <1>1, <3>1, <3>3 DEF ZlibDrawn, ZlibInflated, Inflated
    <3>5. QED
      BY <2>3, <2>8, <3>4 DEF Drawing, PictureAsSent
  <2>9. CASE ~(job.left > toRead) /\ encoding # "zlib"
    <3>1. encoding = "zrle" /\ ZRLEInflated /\ frame = OldFrame
      BY <1>1, <2>9 DEF Inflated
    <3>2. ASSUME NEW p \in Pixels
          PROVE  ~Visited(p)'
      <4>1. /\ rect.x \in Nat /\ rect.y \in Nat
            /\ rect.w \in Nat /\ rect.h \in Nat
        BY <1>1, RectFacts
      <4>2. i' = 0 /\ j' = 0 /\ rect' = rect
        BY <1>1, <3>1 DEF ZRLEInflated
      <4>3. QED
        BY <4>1, <4>2, PixelInts DEF Visited, InRect, In
    <3>3. TilesDrawn'
      BY <1>1, <2>4, <3>1, <3>2 DEF TilesDrawn, ZRLEInflated, OldFrame
    <3>4. QED
      BY <2>3, <2>9, <3>3 DEF Drawing, PictureAsSent
  <2>10. QED
    BY <2>7, <2>8, <2>9
<1>4. QED
  BY <1>2, <1>3

\* All pixels of the rectangle have a number below that of its pixels.
LEMMA NumberBound ==
    ASSUME NEW a \in Nat, NEW b \in Nat, NEW w \in Nat, NEW h \in Nat,
           a < h, b < w
    PROVE  (a * w + b + 1) * 2 <= w * h * 2
<1>1. PICK d \in Nat : h = (a + 1) + d
  <2>1. h - (a + 1) \in Nat /\ h = (a + 1) + (h - (a + 1))
    OBVIOUS
  <2>2. QED
    BY <2>1
<1>2. h * w = (a + 1) * w + d * w /\ (a + 1) * w = a * w + 1 * w
  BY <1>1, Distribute
<1>3. d * w \in Nat /\ 1 * w = w /\ a * w \in Nat /\ w * h = h * w
  BY <1>1
<1>4. PICK n \in Nat : n = w * h
  BY <1>3
<1>5. a * w + b + 1 <= n
  BY <1>2, <1>3, <1>4
<1>6. (a * w + b + 1) * 2 <= n * 2
  BY <1>3, <1>5
<1>7. QED
  BY <1>4, <1>6

LEMMA ZlibDraws == Placed /\ Framed /\ Drawing /\ DrawZlib => Drawing'
<1> SUFFICES ASSUME Placed, Framed, Drawing, DrawZlib
             PROVE  Drawing'
  OBVIOUS
<1>1. /\ pc' = "done" /\ rect \in Rects /\ ZlibDrawn /\ meant' = meant
  BY DEF DrawZlib, Placed, Loops, Drawing, Return
<1>2. PICK data :
         /\ data = [n \in Nat |-> IF (n + 1) * BytesPerPixel <= job.out
                                  THEN Datum(n) ELSE Junk]
         /\ frame' = CopyRectangle(frame, rect.x, rect.y, rect.w, rect.h, data)
  BY DEF DrawZlib
<1>3. /\ rect.x \in Nat /\ rect.y \in Nat /\ rect.w \in Nat /\ rect.h \in Nat
  BY <1>1, RectFacts
<1>4. job.out = rect.w * rect.h * 2 /\ frame = OldFrame /\ meant = Picture(rect)
  BY <1>1 DEF ZlibDrawn, BytesPerPixel
<1>5. ASSUME NEW p \in Pixels
      PROVE  frame'[p] = meant'[p]
  <2>1. CASE In(p, rect.x, rect.y, rect.w, rect.h)
    <3>1. PICK a \in Nat, b \in Nat : a = p[2] - rect.y /\ b = p[1] - rect.x
      BY <1>3, <2>1, PixelInts DEF In
    <3>2. a < rect.h /\ b < rect.w
      BY <1>3, <2>1, <3>1, PixelInts DEF In
    <3>3. PICK n : n = a * rect.w + b
      OBVIOUS
    <3>4. n \in Nat /\ n = (p[2] - rect.y) * rect.w + p[1] - rect.x
      <4>1. a * rect.w \in Nat
        BY <1>3, <3>1
      <4>2. a * rect.w + p[1] - rect.x = a * rect.w + b
        BY <1>3, <3>1, <4>1, PixelInts
      <4>3. QED
        BY <3>1, <3>3, <4>1, <4>2
    <3>5. (n + 1) * BytesPerPixel <= job.out
      BY <1>3, <1>4, <3>1, <3>2, <3>3, NumberBound DEF BytesPerPixel
    <3>6. data[n] = Datum(n)
      BY <1>2, <3>4, <3>5
    <3>7. frame'[p] = Datum(n)
      BY <1>2, <2>1, <3>4, <3>6 DEF CopyRectangle
    <3>8. meant[p] = Datum(n)
      BY <1>1, <1>4, <2>1, <3>1, <3>3, PictureFacts
    <3>9. QED
      BY <1>1, <3>7, <3>8
  <2>2. CASE ~In(p, rect.x, rect.y, rect.w, rect.h)
    BY <1>1, <1>2, <1>4, <2>2, PictureFacts DEF CopyRectangle, OldFrame
  <2>3. QED
    BY <2>1, <2>2
<1>6. IsFrame(frame') /\ IsFrame(meant')
  BY <1>1, <1>2 DEF IsFrame, CopyRectangle, Framed
<1>7. frame' = meant'
  BY <1>5, <1>6, SameFrame
<1>8. QED
  BY <1>1, <1>7 DEF Drawing, PictureAsSent

\* A tile more.
LEMMA TileVisited ==
    ASSUME TilePlaced, UNCHANGED rect, NEW next, NextTile(ZRLETileSize, next),
           NEW p \in Pixels
    PROVE  LET more == \/ Visited(p)
                       \/ In(p, rect.x + i, rect.y + j,
                             TileWidth(ZRLETileSize), TileHeight(ZRLETileSize))
           IN /\ pc' # "done" => (Visited(p)' <=> more)
              /\ pc' = "done" => (InRect(p) <=> more)
<1> DEFINE size == ZRLETileSize
           w == TileWidth(size)
           h == TileHeight(size)
<1>1. size \in Nat /\ size > 0
  BY RectanglesAssumption DEF RectanglesAssumption
<1>2. /\ rect.x \in Nat /\ rect.y \in Nat
      /\ rect.w \in Nat /\ rect.h \in Nat /\ i \in Nat /\ j \in Nat
      /\ i < rect.w /\ j < rect.h
      /\ w \in Nat /\ w > 0 /\ h \in Nat /\ h > 0
      /\ w = IF i + size < rect.w THEN size ELSE rect.w - i
      /\ h = IF j + size < rect.h THEN size ELSE rect.h - j
  BY <1>1, TileFacts
<1>3. p[1] \in Nat /\ p[2] \in Nat
  BY PixelInts
<1>4. pc # "done"
  BY DEF TilePlaced
<1>5. h' = Min2(size, rect.h - j')
  BY DEF TileHeight
<1>6. \/ i + size < rect.w /\ i' = i + size /\ j' = j /\ pc' # "done"
      \/ /\ i + size >= rect.w /\ j + size < rect.h
         /\ i' = 0 /\ j' = j + size /\ pc' # "done"
      \/ i + size >= rect.w /\ j + size >= rect.h /\ pc' = "done"
  BY <1>1, <1>2, <1>4 DEF NextTile, Return
<1>7. /\ Visited(p) <=> /\ InRect(p)
                        /\ \/ p[2] - rect.y < j
                           \/ p[2] - rect.y < j + h /\ p[1] - rect.x < i
      /\ Visited(p)' <=> /\ InRect(p)
                         /\ \/ p[2] - rect.y < j'
                            \/ p[2] - rect.y < j' + h' /\ p[1] - rect.x < i'
  BY DEF Visited, InRect
<1>8. CASE i + size < rect.w /\ i' = i + size /\ j' = j /\ pc' # "done"
  <2>1. h' = h
    BY <1>5, <1>8 DEF TileHeight
  <2> HIDE DEF size, w, h
  <2>2. QED
    BY <1>2, <1>3, <1>7, <1>8, <2>1 DEF InRect, In, w, h, size
<1>9. CASE /\ i + size >= rect.w /\ j + size < rect.h
           /\ i' = 0 /\ j' = j + size /\ pc' # "done"
  <2>1. InRect(p) => ~(p[1] - rect.x < i')
    BY <1>2, <1>3, <1>9 DEF InRect, In
  <2>2. QED
    BY <1>2, <1>3, <1>7, <1>9, <2>1 DEF InRect, In
<1>10. CASE i + size >= rect.w /\ j + size >= rect.h /\ pc' = "done"
  BY <1>1, <1>2, <1>3, <1>7, <1>10 DEF InRect, In
<1>11. QED
  BY <1>6, <1>8, <1>9, <1>10

LEMMA ZRLEDraws == Placed /\ Framed /\ Drawing /\ DrawTile => Drawing'
<1> SUFFICES ASSUME Placed, Framed, Drawing, DrawTile
             PROVE  Drawing'
  OBVIOUS
<1> DEFINE w == TileWidth(ZRLETileSize)
           h == TileHeight(ZRLETileSize)
           kind == job.tiles[<<i, j>>]
           right == /\ job.at = job.due
                    /\ CPixel = BytesPerPixel \/ kind = "solid"
           next == [job EXCEPT !.at = @ + TileBytes(kind, w, h, CPixel),
                               !.due = @ + TileBytes(kind, w, h, BytesPerPixel)]
<1>1. /\ pc = "tiles" /\ TilePlaced /\ rect \in Wide /\ TilesDrawn
      /\ UNCHANGED <<rect, encoding, meant, depth>>
  BY DEF DrawTile, Placed, TilePlaced, Loops, Drawing, header, session
<1>2. \/ /\ frame' = [p \in Pixels |->
                IF In(p, rect.x + i, rect.y + j, w, h)
                THEN IF right THEN ZRLEPicture(rect, job.tiles)[p] ELSE Junk
                ELSE frame[p]]
         /\ NextTile(ZRLETileSize, next)
      \/ ~right /\ Return
  BY DEF DrawTile
<1>3. /\ DOMAIN next = DOMAIN NoJob /\ next.tiles = job.tiles
      /\ next.at = job.at + TileBytes(kind, w, h, CPixel)
      /\ next.due = job.due + TileBytes(kind, w, h, BytesPerPixel)
  BY <1>1 DEF TilesDrawn, NoJob
<1>4. \/ pc' = "tiles" /\ job' = next
      \/ pc' = "done"
  BY <1>1, <1>2, NextTileEnds DEF Return
<1>5. encoding' = "zrle" /\ meant' = ZRLEPicture(rect', job.tiles)
  BY <1>1 DEF TilesDrawn
<1>6. CASE depth = 15
  <2>1. CASE pc' = "tiles" /\ job' = next
    <3>1. TilesDrawn'
      BY <1>1, <1>3, <1>5, <1>6, <2>1 DEF TilesDrawn
    <3>2. QED
      BY <2>1, <3>1 DEF Drawing, PictureAsSent
  <2>2. CASE pc' = "done"
    BY <1>1, <1>5, <1>6, <2>2 DEF Drawing, PictureAsSent
  <2>3. QED
    BY <1>4, <2>1, <2>2
<1>7. CASE depth = 16
  <2>1. CPixel = BytesPerPixel
    BY <1>7, CPixelNat DEF BytesPerPixel
  <2>2. right /\ next.at = next.due
    BY <1>1, <1>3, <1>7, <2>1 DEF TilesDrawn
  <2>3. NextTile(ZRLETileSize, next)
    BY <1>2, <2>2
  <2>4. \A p \in Pixels :
           frame'[p] = IF Visited(p) \/ In(p, rect.x + i, rect.y + j, w, h)
                       THEN meant[p] ELSE Old(p)
    BY <1>1, <1>2, <1>7, <2>2 DEF TilesDrawn
  <2> HIDE DEF right, next, kind
  <2>5. CASE pc' = "tiles" /\ job' = next
    <3>1. ASSUME NEW p \in Pixels
          PROVE  frame'[p] = IF Visited(p)' THEN meant'[p] ELSE Old(p)
      BY <1>1, <2>3, <2>4, <2>5, TileVisited
    <3>2. TilesDrawn'
      BY <1>3, <1>5, <2>2, <2>5, <3>1 DEF TilesDrawn
    <3>3. QED
      BY <2>5, <3>2 DEF Drawing, PictureAsSent
  <2>6. CASE pc' = "done"
    <3>1. ASSUME NEW p \in Pixels
          PROVE  frame'[p] = meant'[p]
      <4>1. CASE InRect(p)
        BY <1>1, <2>3, <2>4, <2>6, <4>1, TileVisited
      <4>2. CASE ~InRect(p)
        <5>1. meant[p] = Old(p)
          BY <1>1, <4>2, PictureFacts, WideFacts
          DEF TilesDrawn, ZRLEPicture, InRect
        <5>2. QED
          BY <1>1, <2>4, <5>1
      <4>3. QED
        BY <4>1, <4>2
    <3>2. IsFrame(frame') /\ IsFrame(meant')
      BY <1>1, <1>2, <2>2 DEF IsFrame, Framed
    <3>3. frame' = meant'
      BY <3>1, <3>2, SameFrame
    <3>4. QED
      BY <2>6, <3>3 DEF Drawing, PictureAsSent
  <2>7. QED
    BY <1>4, <2>5, <2>6
<1>8. QED
  BY <1>6, <1>7 DEF Framed

\* An empty rectangle is drawn before its first tile.
LEMMA NoTilesDraw == Placed /\ Framed /\ Drawing /\ NoTiles => Drawing'
<1> SUFFICES ASSUME Placed, Framed, Drawing, NoTiles
             PROVE  Drawing'
  OBVIOUS
<1>1. /\ pc' = "done" /\ rect \in Rects /\ rect \notin Wide /\ TilesDrawn
      /\ UNCHANGED <<encoding, frame, meant, depth>>
  BY DEF NoTiles, Placed, Loops, Drawing, Return, header, session
<1>2. CASE depth = 15
  BY <1>1, <1>2 DEF TilesDrawn, Drawing, PictureAsSent
<1>3. CASE depth = 16
  <2>1. meant = OldFrame
    BY <1>1, EmptyPicture DEF TilesDrawn
  <2>2. ASSUME NEW p \in Pixels
        PROVE  frame[p] = Old(p)
    <3>1. ~InRect(p)
      BY <1>1, EmptyRect, RectFacts DEF InRect
    <3>2. QED
      BY <1>1, <1>3, <3>1 DEF TilesDrawn, Visited
  <2>3. frame' = meant'
    BY <1>1, <2>1, <2>2 DEF Framed, IsFrame, OldFrame
  <2>4. QED
    BY <1>1, <2>3 DEF Drawing, PictureAsSent
<1>4. QED
  BY <1>2, <1>3 DEF Framed

(***************************************************************************)
(* Tight.                                                                  *)
(***************************************************************************)
LEMMA TightStarts ==
    Placed /\ Framed /\ Drawing /\ (TightFill \/ TightJpeg \/ TightBasic)
        => Drawing'
<1> SUFFICES ASSUME Placed, Framed, Drawing, TightFill \/ TightJpeg \/ TightBasic
             PROVE  Drawing'
  OBVIOUS
<1>1. CASE TightFill \/ TightJpeg
  <2>1. pc' = "done" /\ frame' = meant'
    BY <1>1 DEF TightFill, TightJpeg, Return
  <2>2. QED
    BY <2>1 DEF Drawing, PictureAsSent
<1>2. CASE TightBasic
  <2>1. /\ rect' \in Rects /\ j' = 0 /\ meant' = Picture(rect')
        /\ frame = OldFrame
    BY <1>2 DEF TightBasic, Begin, Placed
  <2>2. PICK bits \in BitsPixel, id \in Streams, len \in 1 .. MaxCompressed :
            \/ pc' = "done" /\ frame' = Picture(rect')
            \/ pc' = "rejected"
            \/ /\ pc' = "portion" /\ UNCHANGED frame
               /\ ~(rect'.h * RowSize(rect'.w, bits) < MinToCompress)
               /\ job' = TightJob(rect', bits, id, len)
    BY ZenonT(60), <1>2 DEF TightBasic, Return
  <2>3. CASE pc' = "done" /\ frame' = Picture(rect')
    BY <2>1, <2>3 DEF Drawing, PictureAsSent
  <2>4. CASE pc' = "rejected"
    BY <2>4 DEF Drawing, PictureAsSent
  <2>5. CASE /\ pc' = "portion" /\ UNCHANGED frame
             /\ ~(rect'.h * RowSize(rect'.w, bits) < MinToCompress)
             /\ job' = TightJob(rect', bits, id, len)
    <3> rect' \in Wide
      BY <2>1, <2>5, LongIsWide
    <3>1. /\ job'.rowSize = RowSize(rect'.w, bits) /\ job'.extra = 0
          /\ job'.room = Room(bits)
          /\ job'.buffer = [k \in 1 .. Room(bits) |-> 0]
      BY <2>5 DEF TightJob, NoJob
    <3>2. job'.rowSize \in Nat /\ job'.rowSize > 0
      BY <2>1, <3>1, WideFacts, RowSizeNat
    <3>3. Buffered'
      BY <3>1, <3>2 DEF Buffered
    <3>4. LinesDrawn(frame', meant', rect', j')
      BY <2>1, <2>5, NoLines
    <3>5. RowsDrawn'
      BY <2>1, <3>3, <3>4 DEF RowsDrawn
    <3>6. QED
      BY <2>5, <3>5 DEF Drawing, PictureAsSent
  <2>6. QED
    BY <2>2, <2>3, <2>4, <2>5
<1>3. QED
  BY <1>1, <1>2

LEMMA DivRest ==
    ASSUME NEW a \in Nat, NEW b \in Nat, b > 0
    PROVE  a - (a \div b) * b \in Nat /\ a - (a \div b) * b < b
OBVIOUS

LEMMA Rebased ==
    ASSUME NEW out \in Nat, NEW extra \in Nat, NEW m \in Nat, NEW used \in Nat,
           NEW rest \in Nat, NEW done \in Nat, NEW k \in Nat,
           out = done + extra, used + rest = extra + m
    PROVE  out + m - rest + k = done + (used + k)
OBVIOUS

LEMMA MoreRows ==
    ASSUME NEW a \in Nat, NEW b \in Nat, NEW c \in Nat, a <= b
    PROVE  a * c <= b * c
<1>1. PICK d \in Nat : b = a + d
  <2>1. b - a \in Nat /\ b = a + (b - a)
    OBVIOUS
  <2>2. QED
    BY <2>1
<1>2. b * c = a * c + d * c /\ a * c \in Nat /\ d * c \in Nat
  BY <1>1, Distribute
<1>3. QED
  BY <1>2

\* bytes begins with the bytes after the first f of the rectangle's.
Numbering(bytes, filled, f) == \A k \in 1 .. filled : bytes[k] = f + k

\* bytes has, from its first byte on, the rows of the rectangle from first on.
LEMMA RowOfBytes ==
    ASSUME NEW bytes, NEW filled \in Nat, NEW a \in Nat, NEW first \in Nat,
           NEW c \in Nat, c > 0, c = job.rowSize,
           NEW f \in Nat, f = first * c, Numbering(bytes, filled, f),
           (a + 1) * c <= filled
    PROVE  RowAt(bytes, a * job.rowSize) = first + a
<1>1. PICK o \in Nat : o = a * c
  <2>1. a * c \in Nat
    OBVIOUS
  <2>2. QED
    BY <2>1, Zenon
<1>2. (first + a) * c = f + o /\ o + c <= filled
  <2>1. (first + a) * c = f + o
    BY <1>1, Distribute
  <2>2. (a + 1) * c = o + 1 * c /\ 1 * c = c
    BY <1>1, Distribute
  <2>3. QED
    BY <2>1, <2>2
<1>3. ASSUME NEW k \in 1 .. c
      PROVE  bytes[o + k] = f + (o + k)
  <2>1. o + k \in 1 .. filled
    BY <1>2
  <2>2. QED
    BY <2>1, Zenon DEF Numbering
<1>4. PICK b \in Nat : b = f + o + 1
  OBVIOUS
<1>5. bytes[o + 1] = b
  <2>1. 1 \in 1 .. c /\ f + (o + 1) = b
    BY <1>4
  <2>2. QED
    BY <1>3, <2>1, Zenon
<1>6. ASSUME NEW k \in 1 .. job.rowSize
      PROVE  bytes[o + k] = b + k - 1
  <2>1. k \in 1 .. c /\ f + (o + k) = b + k - 1
    BY <1>4
  <2>2. QED
    BY <1>3, <2>1, Zenon
<1>7. /\ b > 0 /\ b - 1 = (first + a) * c + 0
  BY <1>2, <1>4
<1>8. (b - 1) \div c = first + a /\ (b - 1) % c = 0
  <2>1. first + a \in Nat /\ 0 < c /\ 0 \in Nat
    OBVIOUS
  <2>2. /\ ((first + a) * c + 0) \div c = first + a
        /\ ((first + a) * c + 0) % c = 0
    BY <2>1, Division
  <2>3. QED
    BY <1>7, <2>2
<1>9. QED
  BY <1>1, <1>5, <1>6, <1>7, <1>8 DEF RowAt

LEMMA TightDraws ==
    Placed /\ Within /\ Framed /\ Drawing /\ (TightPortion \/ TightRows)
        => Drawing'
<1> SUFFICES ASSUME Placed, Within, Framed, Drawing, TightPortion \/ TightRows
             PROVE  Drawing'
  OBVIOUS
<1>1. /\ pc \in {"portion", "rows"} /\ rect \in Wide /\ RowsPlaced /\ RowsDrawn
      /\ UNCHANGED <<rect, encoding, meant, depth>>
  BY DEF TightPortion, TightRows, Placed, Loops, Drawing, header, session
<1>2. ASSUME NEW l, NEW a, job' = [job EXCEPT !.left = l, !.avail = a],
             UNCHANGED <<frame, j>>, pc' \in {"portion", "rows"}
      PROVE  Drawing'
  <2>1. /\ job'.room = job.room /\ job'.extra = job.extra /\ job'.out = job.out
        /\ job'.buffer = job.buffer /\ job'.rowSize = job.rowSize
    BY <1>1, <1>2 DEF RowsPlaced, NoJob
  <2>2. RowsDrawn'
    BY <1>1, <1>2, <2>1 DEF RowsDrawn, Buffered
  <2>3. QED
    BY <1>2, <2>2 DEF Drawing, PictureAsSent
<1>3. CASE TightPortion
  <2>1. CASE pc' = "rows"
    <3>1. PICK l, a : job' = [job EXCEPT !.left = l, !.avail = a]
      BY <1>3, <2>1 DEF TightPortion, Return
    <3>2. UNCHANGED <<frame, j>>
      BY <1>3 DEF TightPortion
    <3>3. QED
      BY <1>2, <2>1, <3>1, <3>2
  <2>2. CASE pc' # "rows"
    <3>1. \/ pc' = "rejected"
          \/ pc' = "done" /\ j = rect.h /\ UNCHANGED frame
      <4>1. UNCHANGED frame
        BY <1>3 DEF TightPortion
      <4>2. \/ pc' = "rows"
            \/ pc' = "rejected"
            \/ j = rect.h /\ pc' = "done"
        BY <1>3, Zenon DEF TightPortion, Return
      <4>3. QED
        BY <2>2, <4>1, <4>2
    <3>2. CASE pc' = "rejected"
      BY <3>2 DEF Drawing, PictureAsSent
    <3>3. CASE pc' = "done" /\ j = rect.h /\ UNCHANGED frame
      <4>1. frame = Picture(rect) /\ meant = Picture(rect)
        BY <1>1, <3>3, AllLines DEF RowsDrawn, Framed
      <4>2. QED
        BY <1>1, <3>3, <4>1 DEF Drawing, PictureAsSent
    <3>4. QED
      BY <3>1, <3>2, <3>3
  <2>3. QED
    BY <2>1, <2>2
<1>4. CASE TightRows
  <2>1. PICK n \in 0 .. job.avail, m \in 0 .. job.room - job.extra :
            \/ /\ pc' = "portion" /\ job' = [job EXCEPT !.avail = 0]
               /\ UNCHANGED <<frame, j>>
            \/ DrawRows(n, m)
    BY <1>4, Zenon DEF TightRows
  <2>2. CASE /\ pc' = "portion" /\ job' = [job EXCEPT !.avail = 0]
             /\ UNCHANGED <<frame, j>>
    <3>1. job' = [job EXCEPT !.left = job.left, !.avail = 0]
      BY <1>1, <2>2 DEF RowsPlaced, NoJob
    <3>2. QED
      BY <1>2, <2>2, <3>1
  <2>3. CASE DrawRows(n, m)
    <3>1. PICK filled, bytes, pixel :
             /\ filled = job.extra + m
             /\ bytes = [k \in 1 .. job.room |->
                            IF k \in job.extra + 1 .. filled
                            THEN job.out + k - job.extra ELSE job.buffer[k]]
             /\ pixel = [k \in Nat |->
                   LET row == RowAt(bytes, (k \div rect.w) * job.rowSize)
                   IN IF row < 0 THEN Junk
                      ELSE Datum(row * rect.w + (k % rect.w))]
      OBVIOUS
    <3>2. PICK rows, rest : rows = NumRows(m) /\ rest = Extra(m)
      OBVIOUS
    <3>3. /\ pc' \in {"rows", "portion"}
          /\ job' = [job EXCEPT
                 !.out = @ + m, !.avail = @ - n, !.extra = rest,
                 !.buffer = Moved(bytes, rows * job.rowSize, rest)]
          /\ frame' = CopyRectangle(frame, rect.x, rect.y + j,
                                    rect.w, rows, pixel)
          /\ j' = j + rows
      BY <2>3, <3>1, <3>2 DEF DrawRows
    <3>4. /\ job'.out = job.out + m /\ job'.extra = rest
          /\ job'.buffer = Moved(bytes, rows * job.rowSize, rest)
          /\ job'.room = job.room /\ job'.rowSize = job.rowSize
      BY <1>1, <3>3 DEF RowsPlaced, NoJob
    <3>5. PICK c \in Nat : c = job.rowSize /\ c > 0
      BY <1>1 DEF RowsPlaced
    <3>6. /\ m \in Nat /\ filled \in Nat /\ filled <= job.room
          /\ job.extra \in Nat /\ job.out \in Nat /\ job.room \in Nat
          /\ job.out = j * c + job.extra /\ j \in Nat /\ j * c \in Nat
      <4>1. rect.h \in Nat
        BY <1>1, WideFacts
      <4>2. /\ job.extra \in Nat /\ job.out \in Nat /\ job.room \in Nat
            /\ job.extra <= job.room /\ job.out = j * c + job.extra /\ j \in Nat
        BY <1>1, <3>5, <4>1 DEF RowsPlaced
      <4>3. m \in Nat /\ filled \in Nat /\ filled <= job.room
        BY <3>1, <4>2
      <4>4. QED
        BY <3>5, <4>2, <4>3
    <3>7. filled = job.extra + m
      BY <3>1
    <3>8. rows = filled \div c /\ rest = filled - rows * c
      <4>1. NumRows(m) = filled \div c
        BY <3>5, <3>6, <3>7 DEF NumRows
      <4>2. Extra(m) = filled - NumRows(m) * c
        <5>1. NumRows(m) \in Nat
          BY <3>5, <3>6, <4>1, DivNat
        <5>2. /\ job.extra \in Nat /\ m \in Nat
              /\ job.rowSize = c /\ filled = job.extra + m
          BY <3>5, <3>6, <3>7
        <5>3. QED
          BY <5>1, <5>2 DEF Extra
      <4>3. QED
        BY <3>2, <4>1, <4>2, Zenon
    <3>9. rows \in Nat
      BY <3>5, <3>6, <3>8, DivNat
    <3>10. PICK used \in Nat : used = rows * c
      <4>1. rows * c \in Nat
        BY <3>9
      <4>2. QED
        BY <4>1, Zenon
    <3>11. rest \in Nat /\ rest < c /\ used + rest = filled
      <4>1. /\ filled - (filled \div c) * c \in Nat
            /\ filled - (filled \div c) * c < c
        BY <3>5, <3>6, DivRest
      <4>2. rest = filled - used
        BY <3>8, <3>10
      <4>3. rest \in Nat /\ rest < c
        BY <3>8, <4>1
      <4>4. QED
        BY <3>6, <4>2, <4>3
    <3>12. PICK done \in Nat : done = j * c /\ job.out = done + job.extra
      BY <3>6, Zenon
    <3>13. ASSUME NEW k \in 1 .. filled
           PROVE  bytes[k] = done + k
      <4>1. k \in 1 .. job.room
        BY <3>6
      <4>2. CASE k <= job.extra
        <5>1. bytes[k] = job.out - job.extra + k
          BY <1>1, <3>1, <3>6, <4>1, <4>2 DEF RowsDrawn, Buffered
        <5>2. QED
          BY <3>6, <3>12, <5>1
      <4>3. CASE k > job.extra
        <5>1. bytes[k] = job.out + k - job.extra
          BY <3>1, <3>6, <4>1, <4>3
        <5>2. QED
          BY <3>6, <3>12, <5>1
      <4>4. QED
        BY <3>6, <4>2, <4>3
    <3>14. Buffered'
      <4>1. /\ DOMAIN bytes = 1 .. job.room
            /\ job'.buffer = [k \in 1 .. job.room |->
                                IF k <= rest THEN bytes[used + k] ELSE 0]
        BY <3>1, <3>4, <3>5, <3>10 DEF Moved
      <4>2. ASSUME NEW k \in 1 .. rest
            PROVE  job'.buffer[k] = job'.out - job'.extra + k
        <5>1. used + k \in 1 .. filled /\ k \in 1 .. job.room /\ k <= rest
          BY <3>6, <3>11
        <5>2. job'.buffer[k] = bytes[used + k]
          BY <4>1, <5>1
        <5>3. bytes[used + k] = done + (used + k)
          BY <3>13, <5>1, Zenon
        <5>4. PICK out \in Nat, extra \in Nat : job.out = out /\ job.extra = extra
          BY <3>6
        <5>5. out = done + extra /\ used + rest = extra + m
          BY <3>11, <3>12, <3>7, <5>4, Zenon
        <5>6. out + m - rest + k = done + (used + k)
          BY <3>6, <3>11, <5>5, Rebased
        <5>7. job'.out = out + m /\ job'.extra = rest
          BY <3>4, <5>4, Zenon
        <5>8. PICK x \in Nat, y \in Nat : x = job'.out /\ y = job'.extra
          BY <3>6, <3>11, <5>7
        <5>9. x - y + k = done + (used + k)
          BY <5>6, <5>7, <5>8
        <5>10. job'.buffer[k] = done + (used + k)
          BY <5>2, <5>3, Zenon
        <5>11. QED
          BY <5>8, <5>9, <5>10
      <4>3. QED
        BY <3>4, <3>5, <3>11, <4>1, <4>2 DEF Buffered
    <3>15. LinesDrawn(frame', meant', rect', j')
      <4>1. /\ rect.x \in Nat /\ rect.y \in Nat
            /\ rect.w \in Nat /\ rect.h \in Nat /\ rect.w > 0
        BY <1>1, WideFacts
      <4>2. j + rows <= rect.h
        <5>1. j' \in 0 .. rect'.h
          BY <3>3, TightDataPlaced DEF Placed, RowsPlaced
        <5>2. QED
          BY <1>1, <3>3, <3>6, <4>1, <5>1
      <4>3. ASSUME NEW p \in Pixels, In(p, rect.x, rect.y + j, rect.w, rows)
            PROVE  pixel[(p[2] - (rect.y + j)) * rect.w + p[1] - rect.x]
                      = meant[p]
        <5>1. PICK a \in Nat, b \in Nat : /\ a = p[2] - (rect.y + j)
                                          /\ b = p[1] - rect.x
          BY <3>6, <4>1, <4>3, PixelInts DEF In
        <5>2. a + 1 <= rows
          BY <3>6, <3>8, <3>9, <4>1, <4>3, <5>1, PixelInts DEF In
        <5>3. PICK q : q = (p[2] - (rect.y + j)) * rect.w + p[1] - rect.x
          OBVIOUS
        <5>4. Numbers(q, p, rect.x, rect.y + j, rect.w, rows)
          BY <3>6, <3>8, <3>9, <4>1, <4>3, <5>3 DEF Numbers
        <5>5. q \in Nat /\ q \div rect.w = a /\ q % rect.w = b
          BY <5>1, <5>4, Numbered
        <5>6. (a + 1) * c <= filled
          <6>1. (a + 1) * c <= rows * c
            BY <3>5, <3>9, <5>2, MoreRows
          <6>2. (a + 1) * c \in Nat
            BY <3>5
          <6>3. QED
            BY <3>10, <3>11, <6>1, <6>2
        <5>7. RowAt(bytes, a * job.rowSize) = j + a
          <6>1. Numbering(bytes, filled, done)
            BY <3>13 DEF Numbering
          <6>2. /\ filled \in Nat /\ j \in Nat /\ c \in Nat /\ c > 0
                /\ c = job.rowSize /\ done = j * c
            BY <3>5, <3>6, <3>12, Zenon
          <6>3. QED
            BY <5>6, <6>1, <6>2, RowOfBytes, Zenon
        <5>8. j + a \in Nat
          BY <3>6
        <5>9. pixel[q] = Datum((j + a) * rect.w + b)
          BY <3>1, <5>5, <5>7, <5>8
        <5>10. In(p, rect.x, rect.y, rect.w, rect.h) /\ p[2] - rect.y = j + a
          BY <3>6, <3>8, <3>9, <4>1, <4>2, <4>3, <5>1, PixelInts DEF In
        <5>11. meant[p] = Datum((j + a) * rect.w + b)
          BY <1>1, <5>1, <5>10, PictureFacts, WideFacts DEF RowsDrawn
        <5>12. QED
          BY <5>3, <5>9, <5>11
      <4>4. LinesDrawn(frame, meant, rect, j)
        BY <1>1 DEF RowsDrawn
      <4>5. QED
        BY <1>1, <3>3, <3>6, <3>9, <4>3, <4>4, MoreLines
    <3>16. RowsDrawn'
      BY <1>1, <3>14, <3>15 DEF RowsDrawn
    <3>17. QED
      BY <3>3, <3>16 DEF Drawing, PictureAsSent
  <2>4. QED
    BY <2>1, <2>2, <2>3
<1>5. QED
  BY <1>3, <1>4

(***************************************************************************)
(* The invariant: what is drawn, beside where the loops are.               *)
(***************************************************************************)
LEMMA TileFramed ==
    ASSUME Framed, HextileRaw \/ HextileTile \/ DrawTile
    PROVE  IsFrame(frame') /\ IsFrame(meant')
<1>1. CASE HextileRaw
  <2>1. \E x, y, w, h, data : frame' = CopyRectangle(frame, x, y, w, h, data)
    BY <1>1, Zenon DEF HextileRaw
  <2>2. \E x, y, w, h : meant' = [p \in Pixels |->
            IF In(p, x, y, w, h) THEN Picture(rect)[p] ELSE meant[p]]
    BY <1>1, Zenon DEF HextileRaw
  <2>3. QED
    BY <2>1, <2>2 DEF CopyRectangle, IsFrame
<1>2. CASE HextileTile
  <2>1. PICK b, f, c, sub : PaintTile(b, f, c, sub)
    BY <1>2 DEF HextileTile
  <2>2. QED
    BY <2>1 DEF PaintTile, FillRectangle, IsFrame
<1>3. CASE DrawTile
  BY <1>3 DEF DrawTile, Framed, IsFrame
<1>4. QED
  BY <1>1, <1>2, <1>3

LEMMA BufferFramed ==
    ASSUME Framed, StartUltra \/ StartZlib \/ StartZRLE
    PROVE  rawSize' \in Nat \union {-1} /\ depth' = depth
<1>1. \A r \in Rects : r.w * r.h * BytesPerPixel \in Nat
  BY RectFacts DEF BytesPerPixel
<1>2. CASE StartUltra
  <2>1. PICK size \in Nat :
            rawSize' \in {rawSize, Align4(size)}
    BY <1>1, <1>2 DEF StartUltra, Begin
  <2>2. Align4(size) \in Nat
    BY DEF Align4
  <2>3. QED
    BY <1>2, <2>1, <2>2 DEF Framed, StartUltra
<1>3. CASE StartZlib
  <2>1. PICK size \in Nat : rawSize' = Max2(rawSize, size)
    BY <1>1, <1>3 DEF StartZlib, Begin
  <2>2. QED
    BY <1>3, <2>1 DEF Framed, StartZlib, Max2
<1>4. CASE StartZRLE
  <2>1. rect' \in Rects /\ rawSize' = Max2(rawSize, MinBufferSize(rect'.w, rect'.h))
    BY <1>4 DEF StartZRLE, Begin
  <2>2. PICK c \in {1, 2} : c = CPixel
    BY CPixelNat
  <2>3. PICK size : size = MinBufferSize(rect'.w, rect'.h)
    OBVIOUS
  <2>4. size \in Nat
    BY <2>1, <2>2, <2>3, RectFacts DEF MinBufferSize
  <2>5. QED
    BY <1>4, <2>1, <2>3, <2>4 DEF Framed, StartZRLE, Max2
<1>5. QED
  BY <1>2, <1>3, <1>4

LEMMA FramedStart == Init => Framed
<1> SUFFICES ASSUME Init PROVE Framed
  OBVIOUS
<1>1. Depths \subseteq {15, 16}
  BY RectanglesAssumption DEF RectanglesAssumption
<1>2. QED
  BY <1>1 DEF Init, Framed, IsFrame, OldFrame

LEMMA FramedStep == Framed /\ [Next]_vars => Framed'
<1> SUFFICES ASSUME Framed, [Next]_vars
             PROVE  Framed'
  OBVIOUS
<1>1. ASSUME UNCHANGED <<rawSize, depth>>, IsFrame(frame'), IsFrame(meant')
      PROVE  Framed'
  BY <1>1 DEF Framed
<1>2. ASSUME UNCHANGED session, IsFrame(frame'), IsFrame(meant')
      PROVE  Framed'
  BY <1>1, <1>2 DEF session
<1>3. IsFrame(frame) /\ IsFrame(meant)
  BY DEF Framed
<1>4. IsFrame(OldFrame) /\ \A r : IsFrame(Picture(r))
  BY PictureFrame DEF IsFrame, OldFrame
<1>5. CASE StartRaw \/ RawLines
  BY <1>2, <1>3, <1>4, <1>5 DEF StartRaw, RawLines, CopyRectangle, IsFrame
<1>6. CASE StartCopyRect \/ CopyPixel
  BY <1>2, <1>3, <1>6 DEF StartCopyRect, CopyPixel, IsFrame
<1>7. CASE StartRRE \/ StartCoRRE \/ Subrect
  BY <1>2, <1>7 DEF StartRRE, StartCoRRE, DrawBackground, Subrect,
     FillRectangle, IsFrame
<1>8. CASE StartHextile
  BY <1>2, <1>3, <1>8 DEF StartHextile
<1>9. CASE HextileRaw \/ HextileTile
  BY <1>2, <1>9, TileFramed DEF HextileRaw, HextileTile
<1>10. CASE StartUltra \/ StartZlib \/ StartZRLE
  <2>1. IsFrame(frame') /\ IsFrame(meant')
    BY <1>3, <1>4, <1>10 DEF StartUltra, StartZlib, StartZRLE, ZRLEPicture,
       IsFrame
  <2>2. QED
    BY <1>10, <2>1, BufferFramed DEF Framed
<1>11. CASE InflatePortion \/ NoTiles
  BY <1>2, <1>3, <1>11 DEF InflatePortion, NoTiles
<1>12. CASE DrawZlib
  BY <1>2, <1>3, <1>12 DEF DrawZlib, CopyRectangle, IsFrame
<1>13. CASE DrawTile
  BY <1>2, <1>13, TileFramed DEF DrawTile
<1>14. CASE TightFill \/ TightJpeg
  BY <1>1, <1>4, <1>14 DEF TightFill, TightJpeg, TightControl, FillRectangle,
     IsFrame
<1>15. CASE TightBasic
  <2>1. frame' = frame \/ frame' = Picture(rect')
    BY <1>15 DEF TightBasic
  <2>2. meant' = Picture(rect') /\ UNCHANGED <<rawSize, depth>>
    BY <1>15 DEF TightBasic
  <2>3. QED
    BY <1>1, <1>3, <1>4, <2>1, <2>2
<1>16. CASE TightPortion
  BY <1>2, <1>3, <1>16 DEF TightPortion
<1>17. CASE TightRows
  <2>1. UNCHANGED frame \/ \E n, m : DrawRows(n, m)
    BY <1>17, Zenon DEF TightRows
  <2>2. IsFrame(frame')
    <3>1. CASE UNCHANGED frame
      BY <1>3, <3>1
    <3>2. CASE \E n, m : DrawRows(n, m)
      BY <3>2 DEF DrawRows, CopyRectangle, IsFrame
    <3>3. QED
      BY <2>1, <3>1, <3>2
  <2>3. QED
    BY <1>2, <1>3, <1>17, <2>2 DEF TightRows
<1>18. CASE NextRect \/ Cut
  BY <1>2, <1>3, <1>4, <1>18 DEF NextRect, Rest, Cut
<1>19. CASE NewClient
  <2>1. Depths \subseteq {15, 16}
    BY RectanglesAssumption DEF RectanglesAssumption
  <2>2. QED
    BY <1>4, <1>19, <2>1 DEF NewClient, Rest, Framed
<1>20. CASE UNCHANGED vars \/ Spin
  BY <1>2, <1>3, <1>20 DEF Spin, vars, session
<1>21. QED
  BY <1>5, <1>6, <1>7, <1>8, <1>9, <1>10, <1>11, <1>12, <1>13, <1>14, <1>15,
     <1>16, <1>17, <1>18, <1>19, <1>20 DEF Next

LEMMA DrawingStart == Init => Drawing
<1> SUFFICES ASSUME Init PROVE Drawing
  OBVIOUS
<1>1. pc = "idle" /\ meant = OldFrame
  BY DEF Init
<1>2. QED
  BY <1>1 DEF Drawing, PictureAsSent

LEMMA DrawingStep ==
    Placed /\ Within /\ Framed /\ Drawing /\ [Next]_vars => Drawing'
<1> SUFFICES ASSUME Placed, Within, Framed, Drawing, [Next]_vars
             PROVE  Drawing'
  OBVIOUS
<1>1. CASE NextRect \/ NewClient
  <2>1. pc' = "idle" /\ meant' = OldFrame
    BY <1>1 DEF NextRect, NewClient, Rest
  <2>2. QED
    BY <2>1 DEF Drawing, PictureAsSent
<1>2. CASE Cut
  <2>1. pc' = "cut"
    BY <1>2 DEF Cut
  <2>2. QED
    BY <2>1 DEF Drawing, PictureAsSent
<1>3. CASE UNCHANGED vars \/ Spin
  <2>1. UNCHANGED vars
    BY <1>3 DEF Spin
  <2>2. QED
    BY <2>1 DEF vars, header, session, Drawing, PictureAsSent, CopyDrawn, Copied,
       InRect, HextileDrawn, Inflated, ZlibInflated, ZRLEInflated, ZlibDrawn,
       TilesDrawn, Visited, TileHeight, RowsDrawn, Buffered
<1>4. QED
  BY <1>1, <1>2, <1>3, RawDraws, CopyDraws, SubrectsDraw, HextileDraws,
     InflateStarts, InflateDraws, ZlibDraws, ZRLEDraws, NoTilesDraw,
     TightStarts, TightDraws
  DEF Next

\* When a decoder of rfbproto.c returns TRUE, every pixel of the frame buffer
\* shows what the server means, for every size of the frame, of the rectangle,
\* of the tiles and of the buffers, and for all portions the data come in:
\* lines of raw pixels, a CopyRect onto itself, hextile's colours that survive
\* a tile, the bytes of unfinished rows that the tight decoder moves to the
\* front of its buffer.
THEOREM PictureSent == Spec => []PictureAsSent
<1> DEFINE Inv == Placed /\ Within /\ Framed /\ Drawing
<1>1. Init => Inv
  BY PlacedStart, FramedStart, DrawingStart
<1>2. Inv /\ [Next]_vars => Inv'
  BY PlacedStep, FramedStep, DrawingStep
<1>3. Inv => PictureAsSent
  BY DEF Drawing
<1>4. QED
  BY <1>1, <1>2, <1>3, PTL DEF Spec

(***************************************************************************)
(* Types.  Where the loops are and what the frames show are parts of their *)
(* own; the rest is by assignment.                                         *)
(***************************************************************************)
Headed ==
    /\ pc \in {"idle", "done"} \union Loops \union Failed
    /\ encoding \in Encodings \union {"none"}
    /\ rect \in Rects \union {NoRect}
    /\ source \in Pixels
    /\ shared \in {"none", "zlib", "zrle"}
Active ==
    /\ inflater \in [Streams -> BOOLEAN]
    /\ deflater \in [Streams -> BOOLEAN]
Counted == i \in 0 .. Width - 1 /\ j \in -1 .. Height
Shown ==
    /\ frame \in [Pixels -> PixelValues]
    /\ meant \in [Pixels -> PixelValues]
    /\ pc = "hextile" =>
          {job.bg, job.fg, job.lastBg, job.lastFg} \subseteq PixelValues

LEMMA Origin == <<0, 0>> \in Pixels /\ 0 \in 0 .. Width - 1 /\ 0 \in -1 .. Height
BY RectanglesAssumption DEF RectanglesAssumption, Pixels

LEMMA HeadedStart == Init => Headed /\ Active /\ Counted
BY Origin DEF Init, Headed, Active, Counted

LEMMA HeadedStep == Headed /\ Placed /\ [Next]_vars => Headed'
<1> SUFFICES ASSUME Headed, Placed, [Next]_vars
             PROVE  Headed'
  OBVIOUS
<1>1. ASSUME UNCHANGED <<encoding, rect, source, shared>>,
             pc' \in {"idle", "done"} \union Loops \union Failed
      PROVE  Headed'
  BY <1>1 DEF Headed
<1>2. ASSUME UNCHANGED <<header, source, session>>,
             pc' \in {"idle", "done"} \union Loops \union Failed
      PROVE  Headed'
  BY <1>1, <1>2 DEF header, session
<1>3. ASSUME NEW e \in Encodings, Begin(e), UNCHANGED <<source, shared>>,
             pc' \in {"done"} \union Loops \union Failed
      PROVE  Headed'
  BY <1>3 DEF Headed, Begin
<1>4. CASE StartRaw \/ StartHextile
  <2>1. PICK e \in {"raw", "hextile"} : Begin(e)
    BY <1>4 DEF StartRaw, StartHextile
  <2>2. pc' \in {"crashed", "spins", "done", "raw", "hextile"}
    BY <1>4 DEF StartRaw, StartHextile
  <2>3. UNCHANGED <<source, shared>>
    BY <1>4 DEF StartRaw, StartHextile, session
  <2>4. QED
    BY <1>3, <2>1, <2>2, <2>3 DEF Encodings, Loops, Failed
<1>5. CASE RawLines \/ CopyPixel \/ Subrect
  BY <1>2, <1>5 DEF RawLines, CopyPixel, Subrect, Return, Loops
<1>6. CASE StartCopyRect
  <2>1. /\ rect' \in Rects /\ encoding' = "copyrect" /\ pc' \in {"copy", "done"}
        /\ source' \in Pixels /\ shared' = shared
    BY <1>6 DEF StartCopyRect, session
  <2>2. QED
    BY <2>1 DEF Headed, Encodings, Loops
<1>7. CASE StartRRE \/ StartCoRRE
  <2>1. PICK e \in {"rre", "corre"} : Begin(e)
    BY <1>7 DEF StartRRE, StartCoRRE
  <2>2. pc' \in {"subrects", "done", "cut"}
    BY <1>7 DEF StartRRE, StartCoRRE, AwaitSubrects, Return
  <2>3. UNCHANGED <<source, shared>>
    BY <1>7 DEF StartRRE, StartCoRRE, DrawBackground, session
  <2>4. QED
    BY <1>3, <2>1, <2>2, <2>3 DEF Encodings, Loops, Failed
<1>8. CASE HextileRaw \/ HextileTile \/ DrawTile
  <2>1. pc \in Loops
    BY <1>8 DEF HextileRaw, HextileTile, DrawTile, Loops
  <2>2. Return \/ \E size, next : NextTile(size, next)
    <3>1. CASE HextileRaw
      <4>1. NextTile(HextileSize, job)
        BY <3>1 DEF HextileRaw
      <4>2. QED
        BY <4>1, Zenon
    <3>2. CASE HextileTile
      <4>1. PICK b, f, c, sub : PaintTile(b, f, c, sub)
        BY <3>2 DEF HextileTile
      <4>2. \E next : NextTile(HextileSize, next)
        BY <4>1, Zenon DEF PaintTile
      <4>3. QED
        BY <4>2, Zenon
    <3>3. CASE DrawTile
      <4>1. Return \/ \E next : NextTile(ZRLETileSize, next)
        BY <3>3 DEF DrawTile
      <4>2. QED
        BY <4>1, Zenon
    <3>4. QED
      BY <1>8, <3>1, <3>2, <3>3
  <2>3. pc' \in {"done"} \union Loops
    BY <2>1, <2>2 DEF NextTile, Return
  <2>4. QED
    BY <1>2, <1>8, <2>3 DEF HextileRaw, HextileTile, DrawTile
<1>9. CASE StartUltra
  <2>1. pc' \in {"done", "rejected"}
    BY <1>9 DEF StartUltra
  <2>2. QED
    BY <1>3, <1>9, <2>1 DEF StartUltra, Encodings, Failed
<1>10. CASE StartZlib \/ StartZRLE
  <2>1. /\ pc' \in {"inflate", "draw", "tiles"} /\ rect' \in Rects
        /\ source' = source /\ encoding' \in {"zlib", "zrle"}
        /\ shared' \in {shared, "zlib", "zrle"}
    BY <1>10 DEF StartZlib, StartZRLE, Begin
  <2>2. QED
    BY <2>1 DEF Headed, Encodings, Loops
<1>11. CASE InflatePortion
  <2>1. pc' \in {"rejected", "space", "inflate", "draw", "tiles"}
    BY <1>11 DEF InflatePortion
  <2>2. QED
    BY <1>2, <1>11, <2>1 DEF InflatePortion, Loops, Failed
<1>12. CASE DrawZlib \/ NoTiles
  BY <1>2, <1>12 DEF DrawZlib, NoTiles, Return
<1>13. CASE TightFill \/ TightJpeg
  BY <1>3, <1>13 DEF TightFill, TightJpeg, TightControl, Return, Encodings
<1>14. CASE TightBasic
  <2>1. pc' \in {"done", "rejected", "portion"}
    BY <1>14 DEF TightBasic, Return
  <2>2. QED
    BY <1>3, <1>14, <2>1 DEF TightBasic, Encodings, Loops, Failed
<1>15. CASE TightPortion
  BY <1>2, <1>15 DEF TightPortion, Return, Loops, Failed
<1>16. CASE TightRows
  <2>1. pc' \in {"portion", "rows"}
    BY <1>16, Zenon DEF TightRows, DrawRows
  <2>2. QED
    BY <1>2, <1>16, <2>1 DEF TightRows, Loops
<1>17. CASE NextRect \/ NewClient
  <2>1. /\ pc' = "idle" /\ encoding' = "none" /\ rect' = NoRect
        /\ source' = <<0, 0>> /\ shared' \in {shared, "none"}
    BY <1>17 DEF NextRect, NewClient, Rest, session
  <2>2. QED
    BY <2>1, Origin DEF Headed
<1>18. CASE Cut
  BY <1>2, <1>18 DEF Cut, Failed
<1>19. CASE UNCHANGED vars \/ Spin
  BY <1>2, <1>19 DEF Spin, vars, header, session, Headed
<1>20. QED
  BY <1>4, <1>5, <1>6, <1>7, <1>8, <1>9, <1>10, <1>11, <1>12, <1>13, <1>14,
     <1>15, <1>16, <1>17, <1>18, <1>19 DEF Next

LEMMA ActiveStep == Active /\ [Next]_vars => Active'
<1> SUFFICES ASSUME Active, [Next]_vars
             PROVE  Active'
  OBVIOUS
<1>1. ASSUME UNCHANGED session
      PROVE  Active'
  BY <1>1 DEF session, Active
<1>2. ASSUME UNCHANGED <<inflater, deflater>>
      PROVE  Active'
  BY <1>2 DEF Active
<1>3. CASE TightControl
  BY <1>3 DEF TightControl, Flushed, Active
<1>4. CASE TightBasic
  <2>1. PICK ended, id, active, used :
            /\ ended \in SUBSET Streams /\ id \in Streams
            /\ active = Flushed(inflater, ended, TRUE)
            /\ used = [s \in Streams |-> deflater[s] /\ s \notin ended]
            /\ \/ inflater' = active /\ deflater' = used
               \/ /\ inflater' = [active EXCEPT ![id] = TRUE]
                  /\ deflater' = [used EXCEPT ![id] = TRUE]
    BY <1>4 DEF TightBasic
  <2>2. active \in [Streams -> BOOLEAN] /\ used \in [Streams -> BOOLEAN]
    BY <2>1 DEF Flushed, Active
  <2>3. QED
    BY <2>1, <2>2 DEF Active
<1>5. CASE NewClient
  BY <1>5 DEF NewClient, Active
<1>6. CASE StartRaw \/ RawLines \/ StartCopyRect \/ CopyPixel
  BY <1>1, <1>6 DEF StartRaw, RawLines, StartCopyRect, CopyPixel
<1>7. CASE StartRRE \/ StartCoRRE \/ Subrect
  BY <1>1, <1>7 DEF StartRRE, StartCoRRE, DrawBackground, Subrect
<1>8. CASE StartHextile \/ HextileRaw \/ HextileTile
  BY <1>1, <1>8 DEF StartHextile, HextileRaw, HextileTile
<1>9. CASE StartUltra \/ StartZlib \/ StartZRLE
  BY <1>2, <1>9 DEF StartUltra, StartZlib, StartZRLE
<1>10. CASE InflatePortion \/ DrawZlib \/ DrawTile \/ NoTiles
  BY <1>1, <1>10 DEF InflatePortion, DrawZlib, DrawTile, NoTiles
<1>11. CASE TightPortion \/ TightRows
  BY <1>1, <1>11 DEF TightPortion, TightRows
<1>12. CASE NextRect \/ Cut \/ Spin
  BY <1>1, <1>12 DEF NextRect, Cut, Spin, vars, session
<1>13. CASE UNCHANGED vars
  BY <1>2, <1>13 DEF vars
<1>14. QED
  BY <1>3, <1>4, <1>5, <1>6, <1>7, <1>8, <1>9, <1>10, <1>11, <1>12, <1>13
  DEF Next, TightFill, TightJpeg

LEMMA CountedStep ==
    Placed /\ Within /\ Drawing /\ Counted /\ [Next]_vars => Counted'
<1> SUFFICES ASSUME Placed, Within, Drawing, Counted, [Next]_vars
             PROVE  Counted'
  OBVIOUS
<1>1. ASSUME UNCHANGED <<i, j>>
      PROVE  Counted'
  BY <1>1 DEF Counted
<1>2. ASSUME i' = 0 /\ j' = 0
      PROVE  Counted'
  BY <1>2, Origin DEF Counted
<1>3. Width \in Nat /\ Height \in Nat
  BY RectanglesAssumption DEF RectanglesAssumption
<1>4. \A e : Begin(e) => Counted'
  BY <1>2 DEF Begin
<1>5. CASE \/ StartRaw \/ StartRRE \/ StartCoRRE \/ StartHextile \/ StartUltra
           \/ StartZlib \/ StartZRLE \/ TightFill \/ TightJpeg \/ TightBasic
  BY <1>4, <1>5 DEF StartRaw, StartRRE, StartCoRRE, StartHextile, StartUltra,
     StartZlib, StartZRLE, TightFill, TightJpeg, TightControl, TightBasic
<1>6. CASE RawLines
  <2>1. PICK n : n = Min2(LinesToRead(rect.w), rect.h - j)
    OBVIOUS
  <2>2. rect \in Wide /\ j \in 0 .. rect.h - 1 /\ i' = i /\ j' = j + n
    BY <1>6, <2>1 DEF RawLines, Placed, Loops
  <2>3. /\ rect.h \in Nat /\ rect.y \in Nat /\ rect.w \in Nat /\ rect.w > 0
        /\ rect.y + rect.h <= Height
    BY <2>2, WideFacts
  <2>4. LinesToRead(rect.w) \in Nat
    BY <2>3, DivNat, RectanglesAssumption
    DEF LinesToRead, BytesPerPixel, RectanglesAssumption
  <2>5. n \in Nat /\ j + n <= rect.h
    BY <2>1, <2>2, <2>3, <2>4 DEF Min2
  <2>6. QED
    BY <1>3, <2>2, <2>3, <2>5 DEF Counted
<1>7. ASSUME NEW r \in Wide, NEW s
      PROVE  /\ FirstColumn(<<r.x, r.y>>, s, r.w) \in 0 .. Width - 1
             /\ FirstRow(<<r.x, r.y>>, s, r.h) \in 0 .. Height - 1
  BY <1>3, WideFacts DEF FirstColumn, FirstRow
<1>8. CASE StartCopyRect
  <2>1. \/ i' = 0 /\ j' = 0
        \/ \E r \in Wide, s \in Pixels :
              /\ i' = FirstColumn(<<r.x, r.y>>, s, r.w)
              /\ j' = FirstRow(<<r.x, r.y>>, s, r.h)
    BY <1>8 DEF StartCopyRect
  <2>2. CASE i' = 0 /\ j' = 0
    BY <1>2, <2>2
  <2>3. CASE \E r \in Wide, s \in Pixels :
                /\ i' = FirstColumn(<<r.x, r.y>>, s, r.w)
                /\ j' = FirstRow(<<r.x, r.y>>, s, r.h)
    BY <1>3, <1>7, <2>3 DEF Counted
  <2>4. QED
    BY <2>1, <2>2, <2>3
<1>9. CASE CopyPixel
  <2>1. /\ rect \in Wide
        /\ j \in rect.y .. rect.y + rect.h - 1
    BY <1>9 DEF CopyPixel, Placed, Loops
  <2>2. /\ \/ i' \in rect.x .. rect.x + rect.w - 1
           \/ i' = FirstColumn(<<rect.x, rect.y>>, source, rect.w)
        /\ j' \in {j, j + 1, j - 1}
    BY <1>9 DEF CopyPixel
  <2>3. /\ rect.x \in Nat /\ rect.y \in Nat /\ rect.w \in Nat /\ rect.h \in Nat
        /\ rect.x + rect.w <= Width /\ rect.y + rect.h <= Height
    BY <2>1, WideFacts
  <2>4. i' \in 0 .. Width - 1
    BY <1>3, <1>7, <2>1, <2>2, <2>3
  <2>5. j' \in -1 .. Height
    BY <1>3, <2>1, <2>2, <2>3
  <2>6. QED
    BY <2>4, <2>5 DEF Counted
<1>10. ASSUME TilePlaced, NEW size \in Nat, size > 0, NEW next,
              NextTile(size, next)
       PROVE  Counted'
  <2>1. /\ rect.x \in Nat /\ rect.y \in Nat /\ rect.w \in Nat /\ rect.h \in Nat
        /\ rect.x + rect.w <= Width /\ rect.y + rect.h <= Height
        /\ i \in Nat /\ j \in Nat /\ i < rect.w /\ j < rect.h
    BY <1>10, TileFacts
  <2>2. /\ \/ i' = 0
           \/ i' = i + size /\ i + size < rect.w
        /\ \/ j' \in {0, j}
           \/ j' = j + size /\ j + size < rect.h
    BY <1>10 DEF NextTile
  <2>3. QED
    BY <1>3, <2>1, <2>2 DEF Counted
<1>11. CASE HextileRaw \/ HextileTile
  <2>1. TilePlaced
    BY <1>11, WideFacts DEF HextileRaw, HextileTile, Placed, TilePlaced, Loops
  <2>2. \E next : NextTile(HextileSize, next)
    <3>1. CASE HextileRaw
      BY <3>1 DEF HextileRaw
    <3>2. CASE HextileTile
      <4>1. PICK b, f, c, sub : PaintTile(b, f, c, sub)
        BY <3>2 DEF HextileTile
      <4>2. QED
        BY <4>1, Zenon DEF PaintTile
    <3>3. QED
      BY <1>11, <3>1, <3>2
  <2>3. HextileSize \in Nat /\ HextileSize > 0
    BY RectanglesAssumption DEF RectanglesAssumption
  <2>4. QED
    BY <1>10, <2>1, <2>2, <2>3
<1>12. CASE DrawTile
  <2>1. TilePlaced
    BY <1>12 DEF DrawTile, Placed, TilePlaced, Loops
  <2>2. UNCHANGED <<i, j>> \/ \E next : NextTile(ZRLETileSize, next)
    BY <1>12 DEF DrawTile
  <2>3. ZRLETileSize \in Nat /\ ZRLETileSize > 0
    BY RectanglesAssumption DEF RectanglesAssumption
  <2>4. QED
    BY <1>1, <1>10, <2>1, <2>2, <2>3
<1>13. CASE Subrect \/ InflatePortion \/ DrawZlib \/ NoTiles \/ TightPortion \/ Cut
  BY <1>1, <1>13 DEF Subrect, InflatePortion, DrawZlib, NoTiles, TightPortion, Cut
<1>14. CASE TightRows
  <2>1. pc' \in {"portion", "rows"} /\ i' = i
    BY <1>14, Zenon DEF TightRows, DrawRows
  <2>2. rect' \in Wide /\ j' \in 0 .. rect'.h
    BY <1>14, <2>1, TightDataPlaced DEF Placed, RowsPlaced, Loops
  <2>3. rect'.h \in Nat /\ rect'.y \in Nat /\ rect'.y + rect'.h <= Height
    BY <2>2, WideFacts
  <2>4. QED
    BY <1>3, <2>1, <2>2, <2>3 DEF Counted
<1>15. CASE NextRect \/ NewClient
  BY <1>2, <1>15 DEF NextRect, NewClient, Rest
<1>16. CASE UNCHANGED vars \/ Spin
  BY <1>1, <1>16 DEF Spin, vars
<1>17. QED
  BY <1>5, <1>6, <1>8, <1>9, <1>11, <1>12, <1>13, <1>14, <1>15, <1>16 DEF Next

(***************************************************************************)
(* The values of pixels.                                                   *)
(***************************************************************************)
IsPixelMap(f) == f \in [Pixels -> PixelValues]

LEMMA Values ==
    /\ \A n \in Int : Datum(n) \in PixelValues
    /\ \A c \in Colours : Colour(c) \in PixelValues
    /\ \A p \in Int \X Int : Old(p) \in PixelValues
    /\ Junk \in PixelValues /\ Solid \in PixelValues
BY DEF Datum, Colour, Old, Junk, Solid, PixelValues

LEMMA OldValue ==
    ASSUME NEW p \in Pixels
    PROVE  Old(p) \in PixelValues
<1>1. p[1] \in Int /\ p[2] \in Int
  BY PixelInts
<1>2. QED
  BY <1>1 DEF Old, PixelValues

LEMMA OldFrameMap == IsPixelMap(OldFrame)
BY OldValue DEF IsPixelMap, OldFrame

LEMMA FillMap ==
    ASSUME NEW f, IsPixelMap(f), NEW x, NEW y, NEW w, NEW h,
           NEW v \in PixelValues
    PROVE  IsPixelMap(FillRectangle(f, x, y, w, h, v))
BY DEF IsPixelMap, FillRectangle

LEMMA CopyMap ==
    ASSUME NEW f, IsPixelMap(f), NEW x \in Int, NEW y \in Int, NEW w \in Nat,
           NEW h \in Int, NEW data, \A n \in Nat : data[n] \in PixelValues
    PROVE  IsPixelMap(CopyRectangle(f, x, y, w, h, data))
<1>1. ASSUME NEW p \in Pixels, In(p, x, y, w, h)
      PROVE  data[(p[2] - y) * w + p[1] - x] \in PixelValues
  <2>1. PICK n : n = (p[2] - y) * w + p[1] - x
    OBVIOUS
  <2>2. Numbers(n, p, x, y, w, h)
    BY <1>1, <2>1 DEF Numbers
  <2>3. n \in Nat
    BY <2>2, Numbered
  <2>4. QED
    BY <2>1, <2>3
<1>2. QED
  BY <1>1 DEF IsPixelMap, CopyRectangle

LEMMA PictureMap ==
    ASSUME NEW r \in Rects
    PROVE  IsPixelMap(Picture(r))
<1>1. /\ r.x \in Int /\ r.y \in Int /\ r.w \in Nat /\ r.h \in Int
  BY RectFacts
<1>2. PICK data : data = [n \in Nat |-> Datum(n)]
  OBVIOUS
<1>3. \A n \in Nat : data[n] \in PixelValues
  BY <1>2, Values
<1>4. IsPixelMap(CopyRectangle(OldFrame, r.x, r.y, r.w, r.h, data))
  BY <1>1, <1>3, OldFrameMap, CopyMap
<1>5. QED
  BY <1>2, <1>4 DEF Picture

LEMMA TileValue ==
    ASSUME rect.w \in Nat, i \in Nat, j \in Nat,
           NEW n \in Nat, NEW w \in Nat, w > 0
    PROVE  TileDatum(n, w) \in PixelValues
<1>1. PICK a \in Nat, b \in Nat : a = n \div w /\ b = n % w
  <2>1. n \div w \in Nat /\ n % w \in Nat
    OBVIOUS
  <2>2. QED
    BY <2>1
<1>2. PICK c \in Nat : c = (j + a) * rect.w
  OBVIOUS
<1>3. c + i + b \in Int
  BY <1>2
<1>4. TileDatum(n, w) = Datum(c + i + b)
  BY <1>1, <1>2 DEF TileDatum
<1>5. QED
  BY <1>3, <1>4, Values

\* The kinds of the tiles decide between the picture and one colour.
LEMMA ZRLEMap ==
    ASSUME NEW r \in Rects, NEW kinds
    PROVE  IsPixelMap(ZRLEPicture(r, kinds))
<1>1. IsPixelMap(Picture(r))
  BY PictureMap
<1>2. \A p \in Pixels : ZRLEPicture(r, kinds)[p] \in {Solid, Picture(r)[p]}
  BY DEF ZRLEPicture
<1>3. QED
  BY <1>1, <1>2, Values DEF IsPixelMap, ZRLEPicture

LEMMA PaintShown ==
    ASSUME Shown, HextileDrawn, pc = "hextile",
           NEW b \in {Junk} \union {Colour(k) : k \in Colours},
           NEW f \in {Junk} \union {Colour(k) : k \in Colours},
           NEW c \in {Junk} \union {Colour(k) : k \in Colours},
           NEW sub, PaintTile(b, f, c, sub)
    PROVE  Shown'
<1>1. {b, f, c} \subseteq PixelValues
  BY Values
<1>2. PICK bg, fg, serverBg, serverFg :
          /\ bg = Specified(b, job.bg)
          /\ fg = Specified(c, Specified(f, job.fg))
          /\ serverBg = Specified(b, job.lastBg)
          /\ serverFg = Specified(c, Specified(f, job.lastFg))
  OBVIOUS
<1>3. {bg, fg, serverBg, serverFg} \subseteq PixelValues
  BY <1>1, <1>2 DEF Shown, Specified
<1>4. PICK x, y, w, h :
          /\ frame' = FillRectangle(FillRectangle(frame, x, y, w, h, bg),
                          x + sub.x, y + sub.y, sub.w, sub.h, fg)
          /\ meant' = [p \in Pixels |->
                 IF In(<<p[1] - x, p[2] - y>>, sub.x, sub.y, sub.w, sub.h)
                 THEN serverFg
                 ELSE IF In(p, x, y, w, h) THEN serverBg ELSE meant[p]]
  BY <1>2 DEF PaintTile
<1>5. IsPixelMap(frame')
  <2>1. IsPixelMap(frame)
    BY DEF Shown, IsPixelMap
  <2>2. IsPixelMap(FillRectangle(frame, x, y, w, h, bg))
    BY <1>3, <2>1, FillMap
  <2>3. QED
    BY <1>3, <1>4, <2>2, FillMap
<1>6. IsPixelMap(meant')
  BY <1>3, <1>4 DEF Shown, IsPixelMap
<1>7. PICK last : /\ last \in {Junk, serverFg}
                  /\ NextTile(HextileSize,
                        [job EXCEPT !.bg = bg, !.fg = fg, !.lastBg = serverBg,
                                    !.lastFg = last])
  BY <1>2 DEF PaintTile
<1>8. \/ pc' = "done"
      \/ job' = [job EXCEPT !.bg = bg, !.fg = fg, !.lastBg = serverBg,
                            !.lastFg = last]
  BY <1>7, NextTileEnds
<1>9. pc' = "done" \/ {job'.bg, job'.fg, job'.lastBg, job'.lastFg}
                          \subseteq PixelValues
  <2>1. {"bg", "fg", "lastBg", "lastFg"} \subseteq DOMAIN job
    BY DEF HextileDrawn, NoJob
  <2>2. CASE job' = [job EXCEPT !.bg = bg, !.fg = fg, !.lastBg = serverBg,
                                !.lastFg = last]
    <3>1. /\ job'.bg = bg /\ job'.fg = fg
          /\ job'.lastBg = serverBg /\ job'.lastFg = last
      BY <2>1, <2>2
    <3>2. QED
      BY <1>3, <1>7, <3>1, Values
  <2>3. QED
    BY <1>8, <2>2
<1>10. QED
  BY <1>5, <1>6, <1>9 DEF Shown, IsPixelMap

LEMMA ShownStart == Init => Shown
<1> SUFFICES ASSUME Init PROVE Shown
  OBVIOUS
<1>1. pc = "idle" /\ frame = OldFrame /\ meant = OldFrame
  BY DEF Init
<1>2. QED
  BY <1>1, OldFrameMap DEF Shown, IsPixelMap

LEMMA ShownStep ==
    Placed /\ Framed /\ Within /\ Drawing /\ Shown /\ [Next]_vars => Shown'
<1> SUFFICES ASSUME Placed, Framed, Within, Drawing, Shown, [Next]_vars
             PROVE  Shown'
  OBVIOUS
<1>1. IsPixelMap(frame) /\ IsPixelMap(meant)
  BY DEF Shown, IsPixelMap
<1>2. ASSUME IsPixelMap(frame'), IsPixelMap(meant'), pc' # "hextile"
      PROVE  Shown'
  BY <1>2 DEF Shown, IsPixelMap
<1>3. /\ IsPixelMap(OldFrame)
      /\ \A r \in Rects : IsPixelMap(Picture(r))
  BY OldFrameMap, PictureMap
<1>4. ASSUME UNCHANGED <<frame, meant>>, pc' # "hextile"
      PROVE  Shown'
  BY <1>1, <1>2, <1>4
<1>5. CASE StartRaw
  <2>1. rect' \in Rects
    BY <1>5 DEF StartRaw, Begin
  <2>2. IsPixelMap(meant')
    BY <1>3, <1>5, <2>1 DEF StartRaw
  <2>3. QED
    BY <1>1, <1>2, <1>5, <2>2 DEF StartRaw
<1>6. CASE RawLines
  <2>1. PICK n, data : /\ n = Min2(LinesToRead(rect.w), rect.h - j)
                       /\ data = [k \in Nat |-> Datum(j * rect.w + k)]
    OBVIOUS
  <2>2. /\ rect \in Wide /\ j \in 0 .. rect.h - 1 /\ pc' # "hextile"
        /\ meant' = meant
        /\ frame' = CopyRectangle(frame, rect.x, rect.y + j, rect.w, n, data)
    BY <1>6, <2>1 DEF RawLines, Placed, Loops, Return
  <2>3. /\ rect.x \in Nat /\ rect.y \in Nat /\ rect.h \in Nat /\ rect.w \in Nat
        /\ rect.w > 0 /\ j \in Nat
    BY <2>2, WideFacts
  <2>4. LinesToRead(rect.w) \in Nat
    BY <2>3, DivNat, RectanglesAssumption
    DEF LinesToRead, BytesPerPixel, RectanglesAssumption
  <2>5. n \in Int /\ rect.y + j \in Int /\ rect.x \in Int
    BY <2>1, <2>2, <2>3, <2>4 DEF Min2
  <2>6. \A k \in Nat : data[k] \in PixelValues
    <3> SUFFICES ASSUME NEW k \in Nat PROVE data[k] \in PixelValues
      OBVIOUS
    <3>1. j * rect.w + k \in Int
      BY <2>3
    <3>2. QED
      BY <2>1, <3>1, Values
  <2>7. IsPixelMap(frame')
    BY <1>1, <2>2, <2>3, <2>5, <2>6, CopyMap
  <2>8. QED
    BY <1>1, <1>2, <2>2, <2>7
<1>7. CASE StartCopyRect
  <2>1. PICK r \in Rects, s \in Pixels :
            meant' = [p \in Pixels |->
                         IF In(p, r.x, r.y, r.w, r.h)
                         THEN Old(<<p[1] - r.x + s[1], p[2] - r.y + s[2]>>)
                         ELSE Old(p)]
    BY <1>7 DEF StartCopyRect
  <2>2. \A p \in Pixels :
           Old(<<p[1] - r.x + s[1], p[2] - r.y + s[2]>>) \in PixelValues
    <3> SUFFICES ASSUME NEW p \in Pixels
                 PROVE  Old(<<p[1] - r.x + s[1], p[2] - r.y + s[2]>>)
                           \in PixelValues
      OBVIOUS
    <3>1. <<p[1] - r.x + s[1], p[2] - r.y + s[2]>> \in Int \X Int
      BY PixelInts, RectFacts
    <3>2. QED
      BY <3>1, Values
  <2>3. IsPixelMap(meant')
    BY <2>1, <2>2, OldValue DEF IsPixelMap
  <2>4. QED
    BY <1>1, <1>2, <1>7, <2>3 DEF StartCopyRect
<1>8. CASE CopyPixel
  <2>1. PICK q : /\ q = <<i - rect.x + source[1], j - rect.y + source[2]>>
                 /\ frame' = [frame EXCEPT ![<<i, j>>] = frame[q]]
    BY <1>8 DEF CopyPixel
  <2>2. /\ rect \in Wide /\ CopyDrawn /\ meant' = meant /\ pc' # "hextile"
        /\ i \in rect.x .. rect.x + rect.w - 1
        /\ j \in rect.y .. rect.y + rect.h - 1
    BY <1>8 DEF CopyPixel, Placed, Loops, Drawing, Return
  <2>3. q \in Pixels
    <3>1. /\ rect.x \in Nat /\ rect.y \in Nat /\ rect.w \in Nat /\ rect.h \in Nat
          /\ source[1] \in Nat /\ source[2] \in Nat
          /\ source[1] + rect.w <= Width /\ source[2] + rect.h <= Height
      BY <2>2, WideFacts, PixelInts DEF CopyDrawn
    <3>2. Width \in Nat /\ Height \in Nat
      BY RectanglesAssumption DEF RectanglesAssumption
    <3>3. /\ i - rect.x + source[1] \in 0 .. Width - 1
          /\ j - rect.y + source[2] \in 0 .. Height - 1
      BY <2>2, <3>1, <3>2
    <3>4. QED
      BY <2>1, <3>3 DEF Pixels
  <2>4. IsPixelMap(frame')
    BY <1>1, <2>1, <2>3 DEF IsPixelMap
  <2>5. QED
    BY <1>1, <1>2, <2>2, <2>4
<1>9. CASE StartRRE \/ StartCoRRE
  <2>1. DrawBackground
    BY <1>9 DEF StartRRE, StartCoRRE
  <2>2. PICK c \in Colours :
            LET r == rect'
                f == FillRectangle(OldFrame, r.x, r.y, r.w, r.h, Colour(c))
            IN frame' = f /\ meant' = f
    BY <2>1 DEF DrawBackground
  <2>3. IsPixelMap(frame') /\ IsPixelMap(meant')
    BY <1>3, <2>2, Values, FillMap
  <2>4. pc' # "hextile"
    BY <1>9 DEF StartRRE, StartCoRRE, AwaitSubrects, Return
  <2>5. QED
    BY <1>2, <2>3, <2>4
<1>10. CASE Subrect
  <2>1. PICK c \in Colours, r \in Rects :
            /\ frame' = FillRectangle(frame, rect.x + r.x, rect.y + r.y,
                                      r.w, r.h, Colour(c))
            /\ meant' = [p \in Pixels |->
                   IF In(<<p[1] - rect.x, p[2] - rect.y>>,
                         r.x, r.y, r.w, r.h)
                   THEN Colour(c) ELSE meant[p]]
    BY <1>10 DEF Subrect
  <2>2. IsPixelMap(frame')
    BY <1>1, <2>1, Values, FillMap
  <2>3. IsPixelMap(meant')
    BY <1>1, <2>1, Values DEF IsPixelMap
  <2>4. pc' # "hextile"
    BY <1>10 DEF Subrect, Return
  <2>5. QED
    BY <1>2, <2>2, <2>3, <2>4
<1>11. CASE StartHextile
  <2>1. UNCHANGED <<frame, meant>> /\ job' = NoJob
    BY <1>11 DEF StartHextile
  <2>2. {job'.bg, job'.fg, job'.lastBg, job'.lastFg} = {Junk}
    BY <2>1 DEF NoJob
  <2>3. QED
    BY <1>1, <2>1, <2>2, Values DEF Shown, IsPixelMap
<1>12. CASE HextileRaw
  <2>1. PICK x, y, w, h, data :
            /\ x = rect.x + i /\ y = rect.y + j
            /\ w = TileWidth(HextileSize) /\ h = TileHeight(HextileSize)
            /\ data = [n \in Nat |-> TileDatum(n, w)]
    OBVIOUS
  <2>2. /\ frame' = CopyRectangle(frame, x, y, w, h, data)
        /\ meant' = [p \in Pixels |->
               IF In(p, x, y, w, h) THEN Picture(rect)[p] ELSE meant[p]]
    BY <1>12, <2>1 DEF HextileRaw
  <2>3. TilePlaced
    BY <1>12, WideFacts DEF HextileRaw, Placed, TilePlaced, Loops
  <2>4. /\ x \in Int /\ y \in Int /\ w \in Nat /\ w > 0 /\ h \in Int
        /\ rect.w \in Nat /\ i \in Nat /\ j \in Nat /\ rect \in Rects
    <3>1. HextileSize \in Nat /\ HextileSize > 0
      BY RectanglesAssumption DEF RectanglesAssumption
    <3>2. QED
      BY <2>1, <2>3, <3>1, TileFacts, WideFacts DEF TilePlaced
  <2>5. IsPixelMap(frame')
    BY <1>1, <2>1, <2>2, <2>4, TileValue, CopyMap
  <2>6. IsPixelMap(meant')
    BY <1>1, <1>3, <2>2, <2>4 DEF IsPixelMap
  <2>7. \/ pc' = "done"
        \/ pc' = pc /\ job' = job
    BY <1>12 DEF HextileRaw, NextTile, Return
  <2>8. QED
    BY <1>12, <2>5, <2>6, <2>7 DEF HextileRaw, Shown, IsPixelMap
<1>13. CASE HextileTile
  <2>1. pc = "hextile" /\ HextileDrawn
    BY <1>13 DEF HextileTile, Drawing
  <2>2. PICK b \in {Junk} \union {Colour(k) : k \in Colours},
             f \in {Junk} \union {Colour(k) : k \in Colours},
             c \in {Junk} \union {Colour(k) : k \in Colours},
             sub \in {NoRect} \union Wide :
             PaintTile(b, f, c, sub)
    BY <1>13, Zenon DEF HextileTile
  <2>3. QED
    BY <2>1, <2>2, PaintShown
<1>14. CASE StartUltra
  <2>1. /\ rect' \in Rects /\ meant' = Picture(rect')
        /\ frame' \in {frame, Picture(rect')} /\ pc' # "hextile"
    BY <1>14 DEF StartUltra, Begin
  <2>2. QED
    BY <1>1, <1>2, <1>3, <2>1
<1>15. CASE StartZlib
  BY <1>1, <1>2, <1>3, <1>15 DEF StartZlib, Begin
<1>16. CASE StartZRLE
  <2>1. rect' \in Rects /\ \E kinds : meant' = ZRLEPicture(rect', kinds)
    BY <1>16 DEF StartZRLE, Begin
  <2>2. IsPixelMap(meant')
    BY <2>1, ZRLEMap
  <2>3. QED
    BY <1>1, <1>2, <1>16, <2>2 DEF StartZRLE
<1>17. CASE InflatePortion \/ NoTiles
  <2>1. pc' \in {"rejected", "space", "inflate", "draw", "tiles", "done"}
    BY <1>17 DEF InflatePortion, NoTiles, Return
  <2>2. QED
    BY <1>4, <1>17, <2>1 DEF InflatePortion, NoTiles
<1>18. CASE DrawZlib
  <2>1. PICK data : data = [n \in Nat |-> IF (n + 1) * BytesPerPixel <= job.out
                                          THEN Datum(n) ELSE Junk]
    OBVIOUS
  <2>2. /\ rect \in Rects /\ pc' = "done" /\ meant' = meant
        /\ frame' = CopyRectangle(frame, rect.x, rect.y, rect.w, rect.h, data)
    BY <1>18, <2>1 DEF DrawZlib, Placed, Loops, Return
  <2>3. \A n \in Nat : data[n] \in PixelValues
    BY <2>1, Values
  <2>4. rect.x \in Int /\ rect.y \in Int /\ rect.w \in Nat /\ rect.h \in Int
    BY <2>2, RectFacts
  <2>5. IsPixelMap(frame')
    BY <1>1, <2>2, <2>3, <2>4, CopyMap
  <2>6. QED
    BY <1>1, <1>2, <2>2, <2>5
<1>19. CASE DrawTile
  <2>1. meant = ZRLEPicture(rect, job.tiles) /\ meant' = meant
    BY <1>19 DEF DrawTile, Drawing, TilesDrawn
  <2>2. IsFrame(frame') /\ \A p \in Pixels : frame'[p] \in {meant[p], Junk, frame[p]}
    BY <1>19, <2>1, TileFramed DEF DrawTile
  <2>3. IsPixelMap(frame')
    BY <1>1, <2>2, Values DEF IsPixelMap, IsFrame
  <2>4. pc' # "hextile"
    BY <1>19 DEF DrawTile, NextTile, Return
  <2>5. QED
    BY <1>1, <1>2, <2>1, <2>3, <2>4
<1>20. CASE TightFill
  <2>1. PICK c \in Colours :
            frame' = FillRectangle(OldFrame, rect'.x, rect'.y,
                                   rect'.w, rect'.h, Colour(c))
    BY <1>20 DEF TightFill
  <2>2. IsPixelMap(frame')
    BY <1>3, <2>1, Values, FillMap
  <2>3. QED
    BY <1>2, <1>20, <2>2 DEF TightFill, Return
<1>21. CASE TightJpeg
  BY <1>2, <1>3, <1>21 DEF TightJpeg, TightControl, Begin, Return
<1>22. CASE TightBasic
  <2>1. rect' \in Rects /\ frame' \in {frame, Picture(rect')}
        /\ meant' = Picture(rect') /\ pc' # "hextile"
    BY <1>22 DEF TightBasic, Begin, Return
  <2>2. QED
    BY <1>1, <1>2, <1>3, <2>1
<1>23. CASE TightPortion
  BY <1>4, <1>23 DEF TightPortion, Return
<1>24. CASE TightRows
  <2>1. pc' \in {"portion", "rows"} /\ meant' = meant
    BY <1>24, Zenon DEF TightRows, DrawRows
  <2>2. Drawing' /\ Framed'
    BY <1>24, TightDraws, FramedStep DEF Next
  <2>3. LinesDrawn(frame', meant', rect', j')
    BY <2>1, <2>2 DEF Drawing, RowsDrawn
  <2>4. \A p \in Pixels : frame'[p] \in {meant[p], Old(p)}
    BY <2>1, <2>3 DEF LinesDrawn
  <2>5. IsPixelMap(frame')
    BY <1>1, <2>2, <2>4, OldValue DEF IsPixelMap, Framed, IsFrame
  <2>6. QED
    BY <1>1, <1>2, <2>1, <2>5
<1>25. CASE NextRect \/ NewClient
  BY <1>2, <1>3, <1>25 DEF NextRect, NewClient, Rest
<1>26. CASE Cut
  BY <1>4, <1>26 DEF Cut
<1>27. CASE UNCHANGED vars \/ Spin
  BY <1>27 DEF Spin, vars, Shown
<1>28. QED
  BY <1>5, <1>6, <1>7, <1>8, <1>9, <1>10, <1>11, <1>12, <1>13, <1>14, <1>15,
     <1>16, <1>17, <1>18, <1>19, <1>20, <1>21, <1>22, <1>23, <1>24, <1>25,
     <1>26, <1>27 DEF Next

\* Types, and what they say of the code: loops stay at columns and rows of the
\* frame, the size of raw_buffer is never below -1, and the pixels, the
\* server's and the client's, are among those a rectangle can have.
THEOREM TypeCorrect == Spec => []TypeOK
<1> DEFINE Inv == /\ Placed /\ Within /\ Framed /\ Drawing
                  /\ Headed /\ Active /\ Counted /\ Shown
<1>1. Init => Inv
  BY PlacedStart, FramedStart, DrawingStart, HeadedStart, ShownStart
<1>2. Inv /\ [Next]_vars => Inv'
  BY PlacedStep, FramedStep, DrawingStep, HeadedStep, ActiveStep, CountedStep,
     ShownStep
<1>3. Inv => TypeOK
  BY DEF Framed, Headed, Active, Counted, Shown, TypeOK
<1>4. QED
  BY <1>1, <1>2, <1>3, PTL DEF Spec

(***************************************************************************)
(* Sums over sets.  What MapThenSumSet computes is a function that is      *)
(* defined by recursion; that there is one is shown by the least number of *)
(* elements for which there would be none.                                 *)
(***************************************************************************)
\* The recursion of a sum of f's values: g is the sums over the sets in D.
OneMore(f, g, s) == LET x == CHOOSE y \in s : TRUE IN f[x] + g[s \ {x}]
Sums(f, g, D) == g = [s \in D |-> IF s = {} THEN 0 ELSE OneMore(f, g, s)]

Small(S, n) == {s \in SUBSET S : Cardinality(s) <= n}

LEMMA Least ==
    ASSUME NEW T \in SUBSET Nat, T # {}
    PROVE  \E n \in T : \A m \in T : ~(m < n)
<1>1. PICK R : R = OpToRel(<, Nat)
  BY Zenon
<1>2. IsWellFoundedOn(R, Nat)
  BY <1>1, NatLessThanWellFounded, Zenon
<1>3. PICK n \in T : \A m \in T : ~(<<m, n>> \in R)
  BY <1>2, WFMin
<1>4. \A m \in T : ~(m < n)
  BY <1>1, <1>3, Zenon DEF OpToRel
<1>5. QED
  BY <1>4

LEMMA SmallSums ==
    ASSUME NEW f, NEW S, IsFiniteSet(S), NEW n \in Nat
    PROVE  \E g : Sums(f, g, Small(S, n))
<1> DEFINE Bad == {k \in Nat : ~\E g : Sums(f, g, Small(S, k))}
<1> SUFFICES ASSUME Bad # {} PROVE FALSE
  OBVIOUS
<1>1. PICK k \in Bad : \A m \in Bad : ~(m < k)
  <2>1. Bad \in SUBSET Nat
    OBVIOUS
  <2> HIDE DEF Bad
  <2>2. QED
    BY <2>1, Least
<1>2. k \in Nat /\ ~\E g : Sums(f, g, Small(S, k))
  BY <1>1
<1>3. \A s \in SUBSET S : Cardinality(s) \in Nat /\ IsFiniteSet(s)
  BY FS_Subset, FS_CardinalityType
<1>4. CASE k = 0
  <2>1. \A s \in Small(S, k) : s = {}
    BY <1>3, <1>4, FS_EmptySet DEF Small
  <2>2. PICK g : g = [s \in Small(S, k) |-> 0]
    OBVIOUS
  <2>3. Sums(f, g, Small(S, k))
    BY <2>1, <2>2 DEF Sums
  <2>4. QED
    BY <1>2, <2>3
<1>5. CASE k # 0
  <2>1. k - 1 \in Nat /\ k - 1 < k
    BY <1>2, <1>5
  <2>2. PICK g : Sums(f, g, Small(S, k - 1))
    BY <1>1, <2>1
  <2>3. PICK h : h = [s \in Small(S, k) |->
                        IF s = {} THEN 0 ELSE OneMore(f, g, s)]
    OBVIOUS
  <2>4. ASSUME NEW s \in Small(S, k - 1)
        PROVE  h[s] = g[s]
    <3>1. s \in Small(S, k)
      BY <1>2, <1>3, <2>1 DEF Small
    <3>2. QED
      BY <2>2, <2>3, <3>1 DEF Sums
  <2>5. ASSUME NEW s \in Small(S, k), s # {}
        PROVE  OneMore(f, h, s) = OneMore(f, g, s)
    <3>1. PICK x : x = CHOOSE y \in s : TRUE
      OBVIOUS
    <3>2. x \in s
      BY <2>5, <3>1
    <3>3. s \ {x} \in SUBSET S /\ Cardinality(s \ {x}) = Cardinality(s) - 1
      BY <1>3, <3>2, FS_RemoveElement DEF Small
    <3>4. s \ {x} \in Small(S, k - 1)
      BY <1>2, <1>3, <3>3 DEF Small
    <3>5. QED
      BY <2>4, <3>1, <3>4 DEF OneMore
  <2>6. Sums(f, h, Small(S, k))
    BY <2>3, <2>5 DEF Sums
  <2>7. QED
    BY <1>2, <2>6
<1>6. QED
  BY <1>4, <1>5

LEMMA AllSums ==
    ASSUME NEW f, NEW S, IsFiniteSet(S)
    PROVE  \E g : Sums(f, g, SUBSET S)
<1>1. Cardinality(S) \in Nat
  BY FS_CardinalityType
<1>2. \A s \in SUBSET S : Cardinality(s) <= Cardinality(S)
  BY FS_Subset
<1>3. Small(S, Cardinality(S)) = SUBSET S
  BY <1>2, Zenon DEF Small
<1>4. PICK g : Sums(f, g, Small(S, Cardinality(S)))
  BY <1>1, SmallSums
<1>5. Sums(f, g, SUBSET S)
  BY <1>3, <1>4, Zenon
<1>6. QED
  BY <1>5

\* Sums of sizes of parts of C that have no cell in common.
Covered(parts, s) == UNION {parts[t] : t \in s}
Parts(parts, S, C) ==
    /\ \A t \in S : parts[t] \subseteq C
    /\ \A t, u \in S : t # u => parts[t] \cap parts[u] = {}
Bounded(f, parts, c, S) ==
    \A t \in S : f[t] \in Nat /\ f[t] <= c * Cardinality(parts[t])

LEMMA SumBound ==
    ASSUME NEW f, NEW S, NEW C, IsFiniteSet(S), IsFiniteSet(C),
           NEW g, Sums(f, g, SUBSET S), NEW parts, Parts(parts, S, C),
           Bounded(f, parts, 3, S)
    PROVE  g[S] \in Nat /\ g[S] <= 3 * Cardinality(C)
<1> DEFINE Good(s) == g[s] \in Nat /\ g[s] <= 3 * Cardinality(Covered(parts, s))
           Bad == {s \in SUBSET S : ~Good(s)}
<1>1. \A s \in SUBSET S : /\ Covered(parts, s) \subseteq C
                          /\ IsFiniteSet(Covered(parts, s))
                          /\ Cardinality(Covered(parts, s)) \in Nat
  <2> SUFFICES ASSUME NEW s \in SUBSET S
               PROVE  /\ Covered(parts, s) \subseteq C
                      /\ IsFiniteSet(Covered(parts, s))
                      /\ Cardinality(Covered(parts, s)) \in Nat
    OBVIOUS
  <2>1. Covered(parts, s) \subseteq C
    BY DEF Covered, Parts
  <2>2. QED
    BY <2>1, FS_Subset, FS_CardinalityType
<1>2. ASSUME Bad # {}
      PROVE  FALSE
  <2>1. PICK s \in Bad : \A u \in Bad : ~(<<u, s>> \in StrictSubsetOrdering(S))
    <3>1. IsWellFoundedOn(StrictSubsetOrdering(S), FiniteSubsetsOf(S))
      BY FS_StrictSubsetOrderingWellFounded
    <3>2. Bad \subseteq FiniteSubsetsOf(S)
      BY FS_FiniteSubsetsOfFinite
    <3> HIDE DEF Bad
    <3>3. QED
      BY <1>2, <3>1, <3>2, WFMin
  <2>2. s \in SUBSET S /\ ~Good(s)
    BY <2>1
  <2>3. s # {}
    <3> SUFFICES ASSUME s = {} PROVE FALSE
      OBVIOUS
    <3>1. g[s] = 0
      BY <2>2 DEF Sums
    <3>2. QED
      BY <1>1, <2>2, <3>1
  <2>4. PICK x : x = CHOOSE y \in s : TRUE
    OBVIOUS
  <2>5. x \in s /\ x \in S
    BY <2>2, <2>3, <2>4
  <2>6. PICK u : u = s \ {x}
    OBVIOUS
  <2>7. u \in SUBSET S /\ Good(u)
    <3>1. u \in SUBSET S /\ u \subseteq s /\ u # s
      BY <2>2, <2>5, <2>6
    <3>2. <<u, s>> \in StrictSubsetOrdering(S)
      BY <2>2, <3>1 DEF StrictSubsetOrdering
    <3>3. QED
      BY <2>1, <3>1, <3>2
  <2>8. g[s] = f[x] + g[u]
    BY <2>2, <2>3, <2>4, <2>6 DEF Sums, OneMore
  <2>9. /\ IsFiniteSet(parts[x]) /\ Cardinality(parts[x]) \in Nat
        /\ f[x] \in Nat /\ f[x] <= 3 * Cardinality(parts[x])
    <3>1. parts[x] \subseteq C
      BY <2>5 DEF Parts
    <3>2. QED
      BY <2>5, <3>1, FS_Subset, FS_CardinalityType DEF Bounded
  <2>10. /\ Covered(parts, s) = Covered(parts, u) \cup parts[x]
         /\ Covered(parts, u) \cap parts[x] = {}
    BY <2>5, <2>6, <2>7 DEF Covered, Parts
  <2>11. Cardinality(Covered(parts, s))
           = Cardinality(Covered(parts, u)) + Cardinality(parts[x])
    <3>1. IsFiniteSet(Covered(parts, u)) /\ Cardinality(Covered(parts, u)) \in Nat
      BY <1>1, <2>7
    <3>2. Cardinality(Covered(parts, u) \cup parts[x])
            = Cardinality(Covered(parts, u)) + Cardinality(parts[x])
                - Cardinality(Covered(parts, u) \cap parts[x])
      BY <2>9, <3>1, FS_Union
    <3>3. Cardinality(Covered(parts, u) \cap parts[x]) = 0
      BY <2>10, FS_EmptySet
    <3>4. QED
      BY <2>9, <2>10, <3>1, <3>2, <3>3
  <2>12. QED
    BY <1>1, <2>2, <2>7, <2>8, <2>9, <2>11
<1>3. Good(S) /\ Covered(parts, S) \subseteq C
  BY <1>1, <1>2
<1>4. Cardinality(Covered(parts, S)) <= Cardinality(C) /\ Cardinality(C) \in Nat
  BY <1>3, FS_Subset, FS_CardinalityType
<1>5. QED
  BY <1>1, <1>3, <1>4

(***************************************************************************)
(* The data of ZRLE tiles are no longer than three bytes for each pixel,   *)
(* those of 16 bits, so that raw_buffer has room for them.                 *)
(***************************************************************************)
Lengths(r, kinds) == [t \in ZRLETiles(r) |-> Written(r, t, kinds[t])]
Area(r) == (0 .. r.w - 1) \X (0 .. r.h - 1)
Cells(r) == [t \in ZRLETiles(r) |->
                {c \in Area(r) : /\ c[1] - (c[1] % ZRLETileSize) = t[1]
                                 /\ c[2] - (c[2] % ZRLETileSize) = t[2]}]

LEMMA Interval ==
    ASSUME NEW a \in Int, NEW b \in Int, NEW n \in Nat, b = a + n - 1
    PROVE  IsFiniteSet(a .. b) /\ Cardinality(a .. b) = n
<1>1. IsFiniteSet(a .. b) /\ Cardinality(a .. b) = IF a > b THEN 0 ELSE b - a + 1
  BY FS_Interval
<1>2. n = IF a > b THEN 0 ELSE b - a + 1
  OBVIOUS
<1>3. QED
  BY <1>1, <1>2

LEMMA FromZero ==
    ASSUME NEW n \in Nat
    PROVE  IsFiniteSet(0 .. n - 1) /\ Cardinality(0 .. n - 1) = n
<1>1. 0 \in Int /\ n - 1 \in Int /\ n - 1 = 0 + n - 1
  OBVIOUS
<1>2. QED
  BY <1>1, Interval

LEMMA TilesFinite ==
    ASSUME NEW r \in Rects
    PROVE  /\ IsFiniteSet(ZRLETiles(r)) /\ IsFiniteSet(Area(r))
           /\ Cardinality(Area(r)) = r.w * r.h
<1>1. Width \in Nat /\ Height \in Nat /\ r.w \in Nat /\ r.h \in Nat
  BY RectFacts, RectanglesAssumption DEF RectanglesAssumption
<1>2. IsFiniteSet(0 .. Width - 1) /\ IsFiniteSet(0 .. Height - 1)
  BY <1>1, FromZero
<1>3. IsFiniteSet(Pixels)
  BY <1>2, FS_Product DEF Pixels
<1>4. IsFiniteSet(ZRLETiles(r))
  <2>1. ZRLETiles(r) \in SUBSET Pixels
    BY DEF ZRLETiles
  <2>2. QED
    BY <1>3, <2>1, FS_Subset
<1>5. /\ IsFiniteSet(0 .. r.w - 1) /\ Cardinality(0 .. r.w - 1) = r.w
      /\ IsFiniteSet(0 .. r.h - 1) /\ Cardinality(0 .. r.h - 1) = r.h
  BY <1>1, FromZero
<1>6. IsFiniteSet(Area(r)) /\ Cardinality(Area(r)) = r.w * r.h
  <2>1. PICK A, B : A = 0 .. r.w - 1 /\ B = 0 .. r.h - 1
    OBVIOUS
  <2>2. /\ IsFiniteSet(A) /\ Cardinality(A) = r.w
        /\ IsFiniteSet(B) /\ Cardinality(B) = r.h
    BY <1>5, <2>1
  <2>3. /\ IsFiniteSet(A \X B)
        /\ Cardinality(A \X B) = Cardinality(A) * Cardinality(B)
    BY <2>2, FS_Product
  <2>4. Area(r) = A \X B
    BY <2>1 DEF Area
  <2>5. QED
    BY <2>2, <2>3, <2>4
<1>7. QED
  BY <1>4, <1>6

LEMMA Multiples ==
    ASSUME NEW z \in Nat, z > 0, NEW x \in Nat, x % z = 0,
           NEW b \in Nat, b < z
    PROVE  (x + b) - ((x + b) % z) = x
<1>1. PICK a \in Nat : a = x \div z
  <2>1. x \div z \in Nat
    BY DivNat
  <2>2. QED
    BY <2>1
<1>2. x = a * z /\ a * z \in Nat
  BY <1>1
<1>3. (a * z + b) % z = b
  BY <1>1, Division
<1>4. QED
  BY <1>2, <1>3

LEMMA Enough ==
    ASSUME NEW w \in Nat, NEW h \in Nat, w > 0, h > 0
    PROVE  /\ w * h \in Nat
           /\ 1 + w * h * 2 \in Nat
           /\ 1 + w * h * 2 <= 3 * (w * h)
<1>1. PICK d \in Nat : h = d + 1
  <2>1. h - 1 \in Nat /\ h = (h - 1) + 1
    OBVIOUS
  <2>2. QED
    BY <2>1
<1>2. w * h = d * w + 1 * w /\ d * w \in Nat /\ 1 * w = w
  <2>1. (d + 1) * w = d * w + 1 * w
    BY Distribute
  <2>2. w * h = (d + 1) * w
    BY <1>1
  <2>3. QED
    BY <2>1, <2>2
<1>3. PICK n \in Nat : n = w * h /\ n >= 1
  BY <1>2
<1>4. 1 + n * 2 \in Nat /\ 1 + n * 2 <= 3 * n
  BY <1>3
<1>5. QED
  BY <1>3, <1>4

LEMMA TileArea ==
    ASSUME NEW r \in Rects, NEW t \in ZRLETiles(r)
    PROVE  /\ Written(r, t, "raw") \in Nat
           /\ Written(r, t, "raw") <= 3 * Cardinality(Cells(r)[t])
<1>1. PICK z \in Nat : z = ZRLETileSize /\ z > 0
  BY RectanglesAssumption DEF RectanglesAssumption
<1>2. /\ r.w \in Nat /\ r.h \in Nat /\ t[1] \in Nat /\ t[2] \in Nat
      /\ t[1] < r.w /\ t[2] < r.h /\ t[1] % z = 0 /\ t[2] % z = 0
  BY <1>1, RectFacts, PixelInts DEF ZRLETiles
<1>3. PICK w, h : w = Min2(z, r.w - t[1]) /\ h = Min2(z, r.h - t[2])
  OBVIOUS
<1>4. /\ w \in Nat /\ h \in Nat /\ w > 0 /\ h > 0 /\ w <= z /\ h <= z
      /\ t[1] + w <= r.w /\ t[2] + h <= r.h
  BY <1>1, <1>2, <1>3 DEF Min2
<1>5. Written(r, t, "raw") = 1 + w * h * 2
  BY <1>1, <1>3 DEF Written, TileBytes, BytesPerPixel
<1> DEFINE P == (t[1] .. t[1] + w - 1) \X (t[2] .. t[2] + h - 1)
<1>6. P \subseteq Cells(r)[t]
  <2> SUFFICES ASSUME NEW c \in P
               PROVE  /\ c \in Area(r)
                      /\ c[1] - (c[1] % ZRLETileSize) = t[1]
                      /\ c[2] - (c[2] % ZRLETileSize) = t[2]
    BY DEF Cells
  <2>1. c[1] \in t[1] .. t[1] + w - 1 /\ c[2] \in t[2] .. t[2] + h - 1
        /\ c = <<c[1], c[2]>>
    OBVIOUS
  <2>2. c \in Area(r)
    <3>1. c[1] \in 0 .. r.w - 1 /\ c[2] \in 0 .. r.h - 1
      BY <1>2, <1>4, <2>1
    <3>2. QED
      BY <2>1, <3>1 DEF Area
  <2>3. PICK a \in Nat, b \in Nat : /\ c[1] = t[1] + a /\ a < z
                                    /\ c[2] = t[2] + b /\ b < z
    <3>1. /\ c[1] - t[1] \in Nat /\ c[1] = t[1] + (c[1] - t[1])
          /\ c[1] - t[1] < z
          /\ c[2] - t[2] \in Nat /\ c[2] = t[2] + (c[2] - t[2])
          /\ c[2] - t[2] < z
      BY <1>1, <1>2, <1>4, <2>1
    <3>2. QED
      BY <3>1
  <2>4. /\ (t[1] + a) - ((t[1] + a) % z) = t[1]
        /\ (t[2] + b) - ((t[2] + b) % z) = t[2]
    BY <1>1, <1>2, <2>3, Multiples
  <2>5. QED
    BY <1>1, <2>2, <2>3, <2>4
<1>7. IsFiniteSet(P) /\ Cardinality(P) = w * h
  <2>1. PICK x \in Int, y \in Int : x = t[1] /\ y = t[2]
    BY <1>2
  <2>2. PICK u \in Int, v \in Int : u = x + w - 1 /\ v = y + h - 1
    BY <1>4
  <2>3. PICK A, B : A = x .. u /\ B = y .. v
    OBVIOUS
  <2>4. /\ IsFiniteSet(A) /\ Cardinality(A) = w
        /\ IsFiniteSet(B) /\ Cardinality(B) = h
    BY <1>4, <2>2, <2>3, Interval, Zenon
  <2>5. /\ IsFiniteSet(A \X B)
        /\ Cardinality(A \X B) = Cardinality(A) * Cardinality(B)
    BY <2>4, FS_Product
  <2>6. P = A \X B
    BY <2>1, <2>2, <2>3
  <2>7. QED
    BY <2>4, <2>5, <2>6
<1>8. /\ Cardinality(P) <= Cardinality(Cells(r)[t])
      /\ Cardinality(Cells(r)[t]) \in Nat
  <2>1. IsFiniteSet(Cells(r)[t])
    <3>1. Cells(r)[t] \in SUBSET Area(r)
      BY DEF Cells
    <3>2. QED
      BY <3>1, TilesFinite, FS_Subset
  <2>2. QED
    BY <1>6, <2>1, FS_Subset, FS_CardinalityType
<1>9. /\ w * h \in Nat /\ 1 + w * h * 2 \in Nat
      /\ 1 + w * h * 2 <= 3 * (w * h)
  BY <1>4, Enough
<1>10. QED
  BY <1>5, <1>7, <1>8, <1>9

LEMMA KindNat ==
    ASSUME NEW r \in Rects, NEW t \in ZRLETiles(r), NEW kind \in TileKinds
    PROVE  Written(r, t, kind) \in Nat
<1>1. ZRLETileSize \in Nat /\ ZRLETileSize > 0
  BY RectanglesAssumption DEF RectanglesAssumption
<1>2. /\ r.w \in Nat /\ r.h \in Nat /\ t[1] \in Nat /\ t[2] \in Nat
      /\ t[1] < r.w /\ t[2] < r.h
  BY RectFacts, PixelInts DEF ZRLETiles
<1>3. PICK w, h : /\ w = Min2(ZRLETileSize, r.w - t[1])
                  /\ h = Min2(ZRLETileSize, r.h - t[2])
  OBVIOUS
<1>4. w \in Nat /\ h \in Nat
  BY <1>1, <1>2, <1>3 DEF Min2
<1>5. (w + 7) \div 8 \in Nat
  BY <1>4
<1>6. w * h * 2 \in Nat /\ ((w + 7) \div 8) * h \in Nat
  BY <1>4, <1>5
<1>7. TileBytes(kind, w, h, 2) \in Nat
  BY <1>6 DEF TileKinds, TileBytes
<1>8. QED
  BY <1>3, <1>7 DEF Written, BytesPerPixel

\* A server's data for the tiles of a rectangle fit three bytes for each pixel.
LEMMA TotalBound ==
    ASSUME NEW r \in Rects, NEW kinds \in [ZRLETiles(r) -> TileKinds],
           \A t \in ZRLETiles(r) :
              Written(r, t, kinds[t]) <= Written(r, t, "raw"),
           NEW total,
           total = MapThenSumSet(LAMBDA t : Written(r, t, kinds[t]), ZRLETiles(r))
    PROVE  total \in Nat /\ total <= 3 * (r.w * r.h)
<1> DEFINE S == ZRLETiles(r)
           f == Lengths(r, kinds)
           One(g, s) == LET x == CHOOSE y \in s : TRUE
                        IN Written(r, x, kinds[x]) + g[s \ {x}]
           Same(g) == g = [s \in SUBSET S |-> IF s = {} THEN 0 ELSE One(g, s)]
<1>1. total = (CHOOSE g : Same(g))[S]
  BY Zenon DEF MapThenSumSet, MapThenFoldSet
<1>2. \A g : Same(g) <=> Sums(f, g, SUBSET S)
  <2>1. ASSUME NEW g, NEW s \in SUBSET S, s # {}
        PROVE  One(g, s) = OneMore(f, g, s)
    <3>1. PICK x : x = CHOOSE y \in s : TRUE
      OBVIOUS
    <3>2. x \in S
      BY <2>1, <3>1
    <3>3. f[x] = Written(r, x, kinds[x])
      BY <3>2 DEF Lengths
    <3>4. QED
      BY <3>1, <3>3 DEF OneMore
  <2> HIDE DEF One, f, S
  <2>2. QED
    BY <2>1 DEF Sums
<1>3. \E g : Same(g)
  <2> HIDE DEF Same
  <2>1. \E g : Sums(f, g, SUBSET S)
    BY TilesFinite, AllSums
  <2>2. QED
    BY <1>2, <2>1
<1>4. PICK g : Sums(f, g, SUBSET S) /\ total = g[S]
  <2>1. Same(CHOOSE g : Same(g))
    <3> HIDE DEF Same
    <3>1. QED
      BY <1>3
  <2>2. QED
    BY <1>1, <1>2, <2>1
<1>5. Parts(Cells(r), S, Area(r))
  BY DEF Parts, Cells, ZRLETiles, Pixels
<1>6. Bounded(f, Cells(r), 3, S)
  <2> SUFFICES ASSUME NEW t \in S
               PROVE  f[t] \in Nat /\ f[t] <= 3 * Cardinality(Cells(r)[t])
    BY DEF Bounded
  <2>1. f[t] = Written(r, t, kinds[t]) /\ kinds[t] \in TileKinds
    BY DEF Lengths
  <2>2. f[t] \in Nat /\ f[t] <= Written(r, t, "raw")
    BY <2>1, KindNat
  <2>3. PICK n \in Nat : n = Written(r, t, "raw")
    BY TileArea
  <2>4. PICK k \in Nat : k = Cardinality(Cells(r)[t])
    <3>1. Cells(r)[t] \in SUBSET Area(r)
      BY DEF Cells
    <3>2. QED
      BY <3>1, TilesFinite, FS_Subset, FS_CardinalityType
  <2>5. n <= 3 * k
    BY <2>3, <2>4, TileArea
  <2>6. QED
    BY <2>2, <2>3, <2>4, <2>5
<1>7. g[S] \in Nat /\ g[S] <= 3 * Cardinality(Area(r))
  BY <1>4, <1>5, <1>6, TilesFinite, SumBound
<1>8. QED
  BY <1>4, <1>7, TilesFinite

(***************************************************************************)
(* What a handler gives up on.                                             *)
(***************************************************************************)
\* A tight rectangle's rows fit the buffer, and with the last of its data all
\* of its bytes are there.
RowsAccepted ==
    /\ job.left \in Nat /\ job.avail \in Nat
    /\ job.rowSize <= job.room
    /\ pc = "portion" /\ ~(job.left > 0) => job.out = job.total

InflateAccepted ==
    /\ shared # "none"
    /\ job.total \in Nat
    /\ encoding = "zrle" /\ depth = 16 => job.total <= rawSize

Accepting ==
    /\ pc = "inflate" => InflateAccepted
    /\ pc \in {"portion", "rows"} => RowsAccepted
    /\ NeverRejected

LEMMA StartAccepts ==
    ASSUME Placed, Framed, Accepting, StartZlib \/ StartZRLE
    PROVE  Accepting'
<1>1. /\ rect' \in Rects /\ pc' \in {"inflate", "draw", "tiles"}
      /\ depth' = depth
      /\ shared' \in {"zlib", "zrle"} \union ({shared} \ {"none"})
  BY DEF StartZlib, StartZRLE, Begin
<1>2. PICK w \in Nat, h \in Nat : w = rect'.w /\ h = rect'.h
  BY <1>1, RectFacts
<1>3. PICK n \in Nat : n = w * h
  <2>1. w * h \in Nat
    OBVIOUS
  <2>2. QED
    BY <2>1, Zenon
<1>4. CASE StartZlib
  <2>1. PICK size : size = w * h * BytesPerPixel
    OBVIOUS
  <2>2. size \in Nat
    BY <1>3, <2>1 DEF BytesPerPixel
  <2>3. encoding' = "zlib" /\ job'.total = size
    BY <1>2, <1>4, <2>1 DEF StartZlib, Begin, NoJob
  <2>4. QED
    BY <1>1, <2>2, <2>3 DEF Accepting, InflateAccepted, NeverRejected
<1>5. CASE StartZRLE
  <2>1. \E kinds \in [ZRLETiles(rect') -> TileKinds], total \in {job'.total} :
           /\ \A t \in ZRLETiles(rect') :
                 Written(rect', t, kinds[t]) <= Written(rect', t, "raw")
           /\ total = MapThenSumSet(LAMBDA t : Written(rect', t, kinds[t]),
                                    ZRLETiles(rect'))
    BY <1>5 DEF StartZRLE, NoJob
  <2>2. PICK r, total : r = rect' /\ total = job'.total
    OBVIOUS
  <2>3. total \in Nat /\ total <= 3 * (r.w * r.h)
    BY <1>1, <2>1, <2>2, TotalBound
  <2>4. total <= 3 * n
    BY <1>2, <1>3, <2>2, <2>3
  <2>5. ASSUME depth' = 16
        PROVE  total <= rawSize'
    <3>1. CPixel = 2
      BY <1>1, <2>5, CPixelNat
    <3>2. PICK size : size = MinBufferSize(w, h)
      OBVIOUS
    <3>3. size = n * 2 * 2
      BY <1>3, <3>1, <3>2 DEF MinBufferSize
    <3>4. rawSize' = Max2(rawSize, size)
      BY <1>2, <1>5, <3>2 DEF StartZRLE
    <3>5. rawSize' \in Nat /\ size <= rawSize'
      <4>1. size \in Nat
        BY <3>3
      <4>2. rawSize \in Nat \union {-1}
        BY DEF Framed
      <4>3. QED
        BY <3>4, <4>1, <4>2, Larger
    <3>6. QED
      BY <2>3, <2>4, <3>3, <3>5
  <2>6. QED
    BY <1>1, <2>2, <2>3, <2>5 DEF Accepting, InflateAccepted, NeverRejected
<1>6. QED
  BY <1>4, <1>5

LEMMA InflateAccepts ==
    ASSUME Placed, Framed, Drawing, Accepting, InflatePortion
    PROVE  Accepting'
<1>1. /\ pc = "inflate" /\ UNCHANGED <<rect, encoding, rawSize, shared, depth>>
      /\ Inflated /\ InflateAccepted
  BY DEF InflatePortion, header, session, Drawing, Accepting
<1>2. CASE shared # encoding
  <2>1. pc' = "rejected" /\ encoding \in {"zlib", "zrle"}
    BY <1>1, <1>2 DEF InflatePortion, Inflated
  <2>2. QED
    BY <1>1, <1>2, <2>1 DEF Accepting, InflateAccepted, NeverRejected
<1>3. CASE shared = encoding
  <2>0. PICK toRead, room : toRead = Min2(job.left, BufferSize)
                            /\ room = rawSize - job.out
    OBVIOUS
  <2>1. PICK n \in {toRead - 1, toRead}, m \in 0 .. room :
           /\ Inflate(n, m, toRead, room, job.left > toRead)
           /\ IF n < toRead
              THEN pc' = "space" /\ job' = NoJob
              ELSE /\ pc' \in {"inflate", "draw", "tiles"}
                   /\ job' = [job EXCEPT !.left = @ - toRead,
                                         !.out = @ + m]
    BY <1>3, <2>0, Zenon DEF InflatePortion
  <2>2. CASE n < toRead
    <3>1. pc' = "space" /\ m = room /\ job.out + m < job.total
      BY <2>0, <2>1, <2>2 DEF Inflate
    <3>2. /\ job.out \in Nat /\ job.total \in Nat /\ rawSize \in Nat
          /\ job.out <= rawSize
      BY <1>1 DEF Inflated, InflateAccepted
    <3>3. rawSize < job.total
      BY <2>0, <3>1, <3>2
    <3>4. encoding = "zrle" /\ depth # 16
      BY <1>1, <3>2, <3>3 DEF Inflated, ZlibInflated, InflateAccepted
    <3>5. QED
      BY <1>1, <3>1, <3>4 DEF Accepting, NeverRejected, Framed
  <2>3. CASE ~(n < toRead)
    <3>1. /\ pc' \in {"inflate", "draw", "tiles"}
          /\ job' = [job EXCEPT !.left = @ - toRead, !.out = @ + m]
      BY <2>1, <2>3
    <3>2. job'.total = job.total
      BY <3>1
    <3>3. InflateAccepted'
      BY <1>1, <3>2 DEF InflateAccepted
    <3>4. QED
      BY <3>1, <3>3 DEF Accepting, NeverRejected
  <2>4. QED
    BY <2>2, <2>3
<1>4. QED
  BY <1>2, <1>3

LEMMA BasicAccepts ==
    ASSUME Placed, InflatersInStep, Accepting, TightBasic
    PROVE  Accepting'
<1>1. rect' \in Rects
  BY DEF TightBasic, Begin
<1>2. PICK ended \in SUBSET Streams, bits \in BitsPixel, id \in Streams,
           len \in 1 .. MaxCompressed :
         LET r == rect'
             rowSize == RowSize(r.w, bits)
             active  == Flushed(inflater, ended, TRUE)
             used    == [s \in Streams |-> deflater[s] /\ s \notin ended]
         IN IF r.h * rowSize < MinToCompress
            THEN /\ frame' = Picture(r)
                 /\ inflater' = active
                 /\ deflater' = used
                 /\ Return
            ELSE /\ inflater' = [active EXCEPT ![id] = TRUE]
                 /\ deflater' = [used EXCEPT ![id] = TRUE]
                 /\ IF rowSize > Room(bits) \/ active[id] # used[id]
                    THEN pc' = "rejected" /\ job' = NoJob
                    ELSE /\ pc' = "portion"
                         /\ job' = TightJob(r, bits, id, len)
                 /\ UNCHANGED frame
  BY Zenon DEF TightBasic
<1> DEFINE active  == Flushed(inflater, ended, TRUE)
           used    == [s \in Streams |-> deflater[s] /\ s \notin ended]
           rowSize == RowSize(rect'.w, bits)
<1>3. \/ pc' = "done"
      \/ /\ pc' = "rejected" /\ rect' \in Wide
         /\ rowSize > Room(bits) \/ active[id] # used[id]
      \/ /\ pc' = "portion" /\ rect' \in Wide
         /\ job' = TightJob(rect', bits, id, len)
  <2>1. PICK size : size = rect'.h * rowSize
    OBVIOUS
  <2>2. CASE size < MinToCompress
    BY <1>2, <2>1, <2>2, Zenon DEF Return
  <2>3. CASE ~(size < MinToCompress)
    <3>1. rect' \in Wide
      BY <1>1, <2>1, <2>3, LongIsWide
    <3>2. QED
      BY <1>2, <2>1, <2>3, <3>1, Zenon
  <2>4. QED
    BY <2>2, <2>3
<1>4. active[id] = used[id]
  BY DEF Flushed, InflatersInStep
<1>5. ASSUME rect' \in Wide
      PROVE  rowSize \in Nat /\ Room(bits) \in Nat /\ rowSize <= Room(bits)
  <2>1. PICK w \in 1 .. Width : w = rect'.w
    <3>1. rect'.w \in Nat /\ rect'.x \in Nat /\ rect'.w > 0
          /\ rect'.x + rect'.w <= Width
      BY <1>5, WideFacts
    <3>2. Width \in Nat
      BY RectanglesAssumption DEF RectanglesAssumption
    <3>3. rect'.w \in 1 .. Width
      BY <3>1, <3>2
    <3>4. QED
      BY <3>3
  <2>2. rowSize <= Room(bits)
    BY <1>2, <2>1, RowsAssumption
  <2>3. w \in Nat /\ w > 0
    OBVIOUS
  <2>4. QED
    BY <1>2, <2>1, <2>2, <2>3, RowSizeNat, RoomNat
<1>7. CASE pc' = "done"
  BY <1>7 DEF Accepting, NeverRejected
<1>8. CASE /\ pc' = "portion" /\ rect' \in Wide
           /\ job' = TightJob(rect', bits, id, len)
  <2>1. /\ job'.left = len /\ job'.avail = 0
        /\ job'.rowSize = rowSize /\ job'.room = Room(bits)
    BY <1>8 DEF TightJob, NoJob
  <2>2. len \in Nat /\ len > 0
    BY RectanglesAssumption DEF RectanglesAssumption
  <2>3. RowsAccepted'
    BY <1>5, <1>8, <2>1, <2>2 DEF RowsAccepted
  <2>4. QED
    BY <1>8, <2>3 DEF Accepting, NeverRejected
<1>6. rect' \in Wide => ~(rowSize > Room(bits))
  BY <1>5
<1>9. QED
  BY <1>3, <1>4, <1>6, <1>7, <1>8, Zenon

LEMMA AllRows ==
    ASSUME NEW h \in Nat, NEW j0 \in Nat, NEW c \in Nat, NEW extra \in Nat,
           j0 <= h, extra < c, h * c = j0 * c + extra
    PROVE  j0 = h
<1>1. PICK d \in Nat : h = j0 + d
  <2>1. h - j0 \in Nat /\ h = j0 + (h - j0)
    OBVIOUS
  <2>2. QED
    BY <2>1
<1>2. h * c = j0 * c + d * c /\ d * c \in Nat /\ j0 * c \in Nat
  BY <1>1, Distribute
<1>3. d * c = extra
  BY <1>2
<1>4. CASE d = 0
  BY <1>1, <1>4
<1>5. CASE d > 0
  <2>1. d * c >= c
    BY <1>5
  <2>2. QED
    BY <1>2, <1>3, <2>1
<1>6. QED
  BY <1>4, <1>5

LEMMA TightAccepts ==
    ASSUME Placed, Drawing, Accepting, TightPortion \/ TightRows
    PROVE  Accepting'
<1>1. /\ pc \in {"portion", "rows"} /\ rect \in Wide /\ rect' = rect
      /\ RowsPlaced /\ RowsDrawn /\ RowsAccepted
  BY DEF TightPortion, TightRows, Placed, Loops, Drawing, Accepting, header
<1>2. /\ DOMAIN job = DOMAIN NoJob /\ rect.h \in Nat
      /\ j \in 0 .. rect.h
      /\ job.rowSize \in Nat /\ job.rowSize > 0
      /\ job.out \in Nat /\ job.extra \in Nat /\ job.room \in Nat
      /\ job.total = rect.h * job.rowSize
      /\ job.out = j * job.rowSize + job.extra
      /\ job.extra < job.rowSize /\ job.rowSize <= job.room
      /\ job.left \in Nat /\ job.avail \in Nat
  BY <1>1, WideFacts DEF RowsPlaced, RowsDrawn, Buffered, RowsAccepted
<1>3. CASE TightPortion
  <2>1. pc = "portion"
    BY <1>3 DEF TightPortion
  <2>2. CASE job.left > 0
    <3>1. PICK n : /\ n = Min2(job.left, ZlibBufferSize)
                   /\ job' = [job EXCEPT !.left = @ - n, !.avail = n]
      BY <1>3, <2>2 DEF TightPortion
    <3>2. n \in Nat /\ job.left - n \in Nat
      BY <1>2, <3>1, RectanglesAssumption DEF Min2, RectanglesAssumption
    <3>3. /\ job'.left = job.left - n /\ job'.avail = n
          /\ job'.rowSize = job.rowSize /\ job'.room = job.room
      BY <1>2, <3>1 DEF NoJob
    <3>4. pc' = "rows"
      BY <1>3, <2>2 DEF TightPortion
    <3>5. RowsAccepted'
      BY <1>2, <3>2, <3>3, <3>4 DEF RowsAccepted
    <3>6. QED
      BY <3>4, <3>5 DEF Accepting, NeverRejected
  <2>3. CASE ~(job.left > 0)
    <3>1. job.out = job.total
      BY <1>1, <2>1, <2>3 DEF RowsAccepted
    <3>2. j = rect.h
      <4>1. PICK c \in Nat, extra \in Nat, h \in Nat, k \in Nat :
               c = job.rowSize /\ extra = job.extra /\ h = rect.h /\ k = j
        BY <1>2
      <4>2. h * c = k * c + extra /\ extra < c /\ k <= h
        BY <1>2, <3>1, <4>1
      <4>3. QED
        BY <4>1, <4>2, AllRows
    <3>3. pc' = "done"
      BY <1>3, <2>3, <3>2 DEF TightPortion, Return
    <3>4. QED
      BY <3>3 DEF Accepting, NeverRejected
  <2>4. QED
    BY <2>2, <2>3
<1>4. CASE TightRows
  <2>1. PICK n \in 0 .. job.avail, m \in 0 .. job.room - job.extra :
            /\ Inflate(n, m, job.avail, job.room - job.extra, job.left > 0)
            /\ \/ /\ n = 0 /\ m = 0
                  /\ pc' = "portion" /\ job' = [job EXCEPT !.avail = 0]
               \/ DrawRows(n, m)
    BY <1>4, Zenon DEF TightRows
  <2>2. n \in Nat /\ m \in Nat /\ n <= job.avail
        /\ m <= job.room - job.extra /\ job.room - job.extra > 0
    BY <1>2
  <2>3. CASE /\ n = 0 /\ m = 0
             /\ pc' = "portion" /\ job' = [job EXCEPT !.avail = 0]
    <3>1. /\ job'.left = job.left /\ job'.avail = 0 /\ job'.out = job.out
          /\ job'.total = job.total
          /\ job'.rowSize = job.rowSize /\ job'.room = job.room
      BY <1>2, <2>3 DEF NoJob
    <3>2. ASSUME ~(job.left > 0) PROVE job.out = job.total
      BY <1>2, <2>1, <2>2, <2>3, <3>2 DEF Inflate
    <3>3. RowsAccepted'
      BY <1>2, <3>1, <3>2 DEF RowsAccepted
    <3>4. QED
      BY <2>3, <3>3 DEF Accepting, NeverRejected
  <2>4. CASE DrawRows(n, m)
    <3>1. /\ pc' = IF job.extra + m = job.room THEN "rows" ELSE "portion"
          /\ \E extra, buffer :
                job' = [job EXCEPT !.out = @ + m, !.avail = @ - n,
                                   !.extra = extra, !.buffer = buffer]
      BY <2>4 DEF DrawRows
    <3>2. /\ job'.left = job.left /\ job'.avail = job.avail - n
          /\ job'.out = job.out + m /\ job'.total = job.total
          /\ job'.rowSize = job.rowSize /\ job'.room = job.room
      BY <1>2, <3>1 DEF NoJob
    <3>3. ASSUME ~(job.left > 0), job.extra + m # job.room
          PROVE  job.out + m = job.total
      <4>1. m < job.room - job.extra
        BY <1>2, <2>2, <3>3
      <4>2. ~(n < job.avail)
        BY <2>1, <2>2, <4>1 DEF Inflate
      <4>3. n = job.avail
        <5>1. n \in Nat /\ job.avail \in Nat /\ n <= job.avail
          BY <1>2, <2>2
        <5>2. QED
          BY <4>2, <5>1
      <4>4. QED
        BY <2>1, <3>3, <4>1, <4>3 DEF Inflate
    <3>4. job.avail - n \in Nat
      BY <1>2, <2>2
    <3>5. RowsAccepted'
      BY <1>2, <3>1, <3>2, <3>3, <3>4 DEF RowsAccepted
    <3>6. QED
      BY <3>1, <3>5 DEF Accepting, NeverRejected
  <2>5. QED
    BY <2>1, <2>3, <2>4
<1>5. QED
  BY <1>3, <1>4

LEMMA AcceptingStart == Init => Accepting
BY DEF Init, Accepting, NeverRejected

LEMMA AcceptingStep ==
    Placed /\ Framed /\ Drawing /\ InflatersInStep /\ Accepting /\ [Next]_vars
        => Accepting'
<1> SUFFICES ASSUME Placed, Framed, Drawing, InflatersInStep, Accepting,
                    [Next]_vars
             PROVE  Accepting'
  OBVIOUS
<1>1. ASSUME pc' \in {"idle", "done", "cut"} \union (Loops \ {"inflate", "portion", "rows"})
      PROVE  Accepting'
  BY <1>1 DEF Accepting, NeverRejected, Loops
<1>2. CASE StartRaw
  <2>1. /\ encoding' = "raw"
        /\ \/ pc' \in {"crashed", "spins"} /\ rect'.w = 0
           \/ pc' \in {"raw", "done"}
    BY <1>2 DEF StartRaw, Begin
  <2>2. CASE pc' \in {"crashed", "spins"} /\ rect'.w = 0
    BY <2>1, <2>2 DEF Accepting, NeverRejected
  <2>3. CASE pc' \in {"raw", "done"}
    BY <1>1, <2>3 DEF Loops
  <2>4. QED
    BY <2>1, <2>2, <2>3
<1>3. CASE RawLines \/ CopyPixel \/ Subrect
  BY <1>1, <1>3 DEF RawLines, CopyPixel, Subrect, Return, Loops
<1>4. CASE StartCopyRect \/ StartHextile
  <2>1. pc' \in {"copy", "hextile", "done"}
    BY <1>4 DEF StartCopyRect, StartHextile
  <2>2. QED
    BY <1>1, <2>1 DEF Loops
<1>5. CASE StartRRE \/ StartCoRRE
  <2>1. pc' \in {"subrects", "done", "cut"}
    BY <1>5 DEF StartRRE, StartCoRRE, AwaitSubrects, Return
  <2>2. QED
    BY <1>1, <2>1 DEF Loops
<1>6. CASE HextileRaw \/ HextileTile \/ DrawTile
  <2>1. pc \in {"hextile", "tiles"}
    BY <1>6 DEF HextileRaw, HextileTile, DrawTile
  <2>2. Return \/ \E size, next : NextTile(size, next)
    <3>1. CASE HextileRaw
      <4>1. NextTile(HextileSize, job)
        BY <3>1 DEF HextileRaw
      <4>2. QED
        BY <4>1, Zenon
    <3>2. CASE HextileTile
      <4>1. PICK b, f, c, sub : PaintTile(b, f, c, sub)
        BY <3>2 DEF HextileTile
      <4>2. \E next : NextTile(HextileSize, next)
        BY <4>1, Zenon DEF PaintTile
      <4>3. QED
        BY <4>2, Zenon
    <3>3. CASE DrawTile
      <4>1. Return \/ \E next : NextTile(ZRLETileSize, next)
        BY <3>3 DEF DrawTile
      <4>2. QED
        BY <4>1, Zenon
    <3>4. QED
      BY <1>6, <3>1, <3>2, <3>3
  <2>3. pc' \in {"done", "hextile", "tiles"}
    BY <2>1, <2>2 DEF NextTile, Return
  <2>4. QED
    BY <1>1, <2>3 DEF Loops
<1>7. CASE DrawZlib \/ NoTiles \/ TightFill \/ TightJpeg
  BY <1>1, <1>7 DEF DrawZlib, NoTiles, TightFill, TightJpeg, Return
<1>8. CASE StartZlib \/ StartZRLE
  BY <1>8, StartAccepts
<1>9. CASE InflatePortion
  BY <1>9, InflateAccepts
<1>10. CASE TightBasic
  BY <1>10, BasicAccepts
<1>11. CASE TightPortion \/ TightRows
  BY <1>11, TightAccepts
<1>12. CASE NextRect \/ NewClient
  BY <1>1, <1>12 DEF NextRect, NewClient, Rest
<1>13. CASE Cut
  BY <1>1, <1>13 DEF Cut
<1>14. CASE UNCHANGED vars \/ Spin
  <2>1. UNCHANGED vars
    BY <1>14 DEF Spin
  <2>2. QED
    BY <2>1 DEF vars, header, session, Accepting, InflateAccepted, RowsAccepted,
       NeverRejected
<1>15. CASE StartUltra
  <2>1. \/ pc' = "done"
        \/ pc' = "rejected" /\ encoding' = "ultra" /\ rect' \notin Wide
    BY <1>15 DEF StartUltra, Begin
  <2>2. CASE pc' = "done"
    BY <1>1, <2>2
  <2>3. CASE pc' = "rejected" /\ encoding' = "ultra" /\ rect' \notin Wide
    BY <2>3 DEF Accepting, NeverRejected
  <2>4. QED
    BY <2>1, <2>2, <2>3
<1>16. QED
  BY <1>2, <1>3, <1>4, <1>5, <1>6, <1>7, <1>8, <1>9, <1>10, <1>11, <1>12,
     <1>13, <1>14, <1>15 DEF Next

\* On rectangles of every size, empty ones among them, the decoders give up on
\* what a server may send for four reasons only: an inflater that was begun for
\* the other of zlib and ZRLE, an empty Ultra rectangle with data, a buffer too
\* small for ZRLE of 15 bits, a raw rectangle without columns.  In particular
\* the tight decoder never finds rows missing when its data end, its streams
\* and its buffer are those the server counts on, and raw_buffer has room for
\* every other ZRLE rectangle, whatever form its tiles have.
THEOREM RejectedForNamedReasons == Spec => []NeverRejected
<1> DEFINE Inv == /\ Placed /\ Within /\ Framed /\ Drawing
                  /\ InflatersInStep /\ Accepting
<1>1. Init => Inv
  BY PlacedStart, FramedStart, DrawingStart, InflatersStart, AcceptingStart
<1>2. Inv /\ [Next]_vars => Inv'
  BY PlacedStep, FramedStep, DrawingStep, InflatersStep, AcceptingStep
<1>3. Inv => NeverRejected
  BY DEF Accepting
<1>4. QED
  BY <1>1, <1>2, <1>3, PTL DEF Spec


(***************************************************************************)
(* Every handler ends.                                                     *)
(***************************************************************************)
\* What a handler has still before it, the most significant number first: lines,
\* rows of pixels or of tiles, or bytes of compressed data; then what is left
\* of the row, or the bytes still to be inflated; then whether it will inflate
\* again before it takes more data.
Ahead ==
    CASE pc = "raw" -> <<rect.h - j, 0, 0>>
      [] pc = "copy" ->
            <<IF Downwards(<<rect.x, rect.y>>, source)
              THEN rect.y + rect.h - j ELSE j - rect.y + 1,
              IF Rightwards(<<rect.x, rect.y>>, source)
              THEN rect.x + rect.w - i ELSE i - rect.x + 1, 0>>
      [] pc = "subrects" -> <<job.left, 0, 0>>
      [] pc \in {"hextile", "tiles"} -> <<rect.h - j, rect.w - i, 0>>
      [] pc = "inflate" -> <<rect.h + 1 + job.left, 0, 0>>
      [] pc = "draw" -> <<0, 0, 0>>
      [] pc = "portion" -> <<job.left, job.total - job.out, 0>>
      [] pc = "rows" -> <<job.left, job.total - job.out, 1>>

Turn == pc \in Loops /\ pc' \in Loops

\* There are subrectangles to come, and no more bytes are inflated than there
\* are.  In an empty rectangle no tile is come to.
Left ==
    /\ pc = "subrects" => /\ DOMAIN job = DOMAIN NoJob
                          /\ job.left \in Nat /\ job.left > 0
    /\ pc \in {"inflate", "tiles"} /\ rect \notin Wide => i = 0 /\ j = 0
    /\ pc \in {"portion", "rows"} => job.out <= job.total

LEMMA TileTurn ==
    ASSUME HextileRaw \/ HextileTile \/ DrawTile
    PROVE  pc' \in {"done", pc}
<1>1. Return \/ \E size, next : NextTile(size, next)
  <2>1. CASE HextileRaw
    <3>1. NextTile(HextileSize, job)
      BY <2>1 DEF HextileRaw
    <3>2. QED
      BY <3>1, Zenon
  <2>2. CASE HextileTile
    <3>1. PICK b, f, c, sub : PaintTile(b, f, c, sub)
      BY <2>2 DEF HextileTile
    <3>2. \E next : NextTile(HextileSize, next)
      BY <3>1, Zenon DEF PaintTile
    <3>3. QED
      BY <3>2, Zenon
  <2>3. CASE DrawTile
    <3>1. Return \/ \E next : NextTile(ZRLETileSize, next)
      BY <2>3 DEF DrawTile
    <3>2. QED
      BY <3>1, Zenon
  <2>4. QED
    BY <2>1, <2>2, <2>3
<1>2. QED
  BY <1>1 DEF NextTile, Return

LEMMA LeftStart == Init => Left
BY DEF Init, Left

LEMMA LeftStep == Placed /\ Left /\ [Next]_vars => Left'
<1> SUFFICES ASSUME Placed, Left, [Next]_vars
             PROVE  Left'
  OBVIOUS
<1>1. ASSUME pc' \notin {"subrects", "inflate", "tiles", "portion", "rows"}
      PROVE  Left'
  BY <1>1 DEF Left
<1>2. CASE StartRRE \/ StartCoRRE
  <2>1. PICK n \in 0 .. MaxSubrects : AwaitSubrects(n) \/ pc' = "cut"
    BY <1>2 DEF StartRRE, StartCoRRE
  <2>2. CASE n = 0 \/ pc' = "cut"
    BY <1>1, <2>1, <2>2 DEF AwaitSubrects, Return
  <2>3. CASE ~(n = 0 \/ pc' = "cut")
    <3>1. pc' = "subrects" /\ job' = [NoJob EXCEPT !.left = n]
      BY <2>1, <2>3 DEF AwaitSubrects
    <3>2. n \in Nat /\ n > 0
      BY <2>3, RectanglesAssumption DEF RectanglesAssumption
    <3>3. QED
      BY <3>1, <3>2 DEF Left, NoJob
  <2>4. QED
    BY <2>2, <2>3
<1>3. CASE Subrect
  <2>1. pc = "subrects" /\ DOMAIN job = DOMAIN NoJob
        /\ job.left \in Nat /\ job.left > 0
    BY <1>3 DEF Subrect, Left
  <2>2. CASE job.left = 1
    BY <1>1, <1>3, <2>2 DEF Subrect, Return
  <2>3. CASE job.left # 1
    <3>1. pc' = "subrects" /\ job' = [job EXCEPT !.left = @ - 1]
      BY <1>3, <2>1, <2>3 DEF Subrect
    <3>2. DOMAIN job' = DOMAIN NoJob /\ job'.left = job.left - 1
      BY <2>1, <3>1 DEF NoJob
    <3>3. QED
      BY <2>1, <2>3, <3>1, <3>2 DEF Left
  <2>4. QED
    BY <2>2, <2>3
<1>4. CASE HextileRaw \/ HextileTile \/ DrawTile
  <2>1. CASE HextileRaw \/ HextileTile
    <3>1. pc = "hextile"
      BY <2>1 DEF HextileRaw, HextileTile
    <3>2. QED
      BY <1>1, <2>1, <3>1, TileTurn
  <2>2. CASE DrawTile
    <3>1. pc = "tiles" /\ rect' \in Wide
      BY <2>2 DEF DrawTile, header
    <3>2. pc' \in {"done", "tiles"}
      BY <2>2, <3>1, TileTurn
    <3>3. QED
      BY <3>1, <3>2 DEF Left
  <2>3. QED
    BY <1>4, <2>1, <2>2
<1>5. CASE StartZlib \/ StartZRLE \/ InflatePortion
  <2>1. pc' \in {"inflate", "draw", "tiles", "rejected", "space"}
    BY <1>5 DEF StartZlib, StartZRLE, InflatePortion
  <2>2. CASE StartZlib \/ StartZRLE
    BY <2>1, <2>2 DEF StartZlib, StartZRLE, Begin, Left
  <2>3. CASE InflatePortion
    BY <2>1, <2>3 DEF InflatePortion, header, Left
  <2>4. QED
    BY <1>5, <2>2, <2>3
<1>6. CASE TightBasic
  <2>1. PICK bits \in BitsPixel, id \in Streams,
             len \in 1 .. MaxCompressed :
           \/ pc' \in {"done", "rejected"}
           \/ /\ job' = TightJob(rect', bits, id, len)
              /\ ~(rect'.h * RowSize(rect'.w, bits) < MinToCompress)
    BY <1>6 DEF TightBasic, Return
  <2>2. CASE /\ job' = TightJob(rect', bits, id, len)
             /\ ~(rect'.h * RowSize(rect'.w, bits) < MinToCompress)
    <3>1. rect' \in Wide
      <4>1. rect' \in Rects
        BY <1>6 DEF TightBasic, Begin
      <4>2. QED
        BY <2>2, <4>1, LongIsWide
    <3>2. rect'.h \in Nat /\ rect'.w \in Nat /\ rect'.w > 0
      BY <3>1, WideFacts
    <3>3. PICK c \in Nat : c = RowSize(rect'.w, bits)
      BY <3>2, RowSizeNat
    <3>4. PICK n \in Nat : n = rect'.h * c
      <4>1. PICK h \in Nat : h = rect'.h
        BY <3>2
      <4>2. h * c \in Nat
        OBVIOUS
      <4>3. QED
        BY <4>1, <4>2
    <3>5. job'.out = 0 /\ job'.total = n
      BY <2>2, <3>3, <3>4 DEF TightJob, NoJob
    <3>6. pc' \notin {"subrects", "inflate", "tiles"}
      BY <1>6 DEF TightBasic, Return
    <3>7. QED
      BY <3>5, <3>6 DEF Left
  <2>3. QED
    BY <1>1, <2>1, <2>2
<1>7. CASE TightPortion \/ TightRows
  <2>1. /\ pc \in {"portion", "rows"} /\ DOMAIN job = DOMAIN NoJob
        /\ job.out <= job.total
    BY <1>7 DEF TightPortion, TightRows, Placed, RowsPlaced, Left
  <2>2. CASE TightPortion
    <3>1. \/ pc' \in {"rejected", "done"}
          \/ /\ pc' = "rows"
             /\ \E n : job' = [job EXCEPT !.left = @ - n, !.avail = n]
      BY <2>2 DEF TightPortion, Return
    <3>2. CASE pc' \in {"rejected", "done"}
      BY <1>1, <3>2
    <3>3. CASE pc' = "rows"
      <4>1. job'.out = job.out /\ job'.total = job.total
        BY <2>1, <3>1, <3>3 DEF NoJob
      <4>2. QED
        BY <2>1, <3>3, <4>1 DEF Left
    <3>4. QED
      BY <3>1, <3>2, <3>3
  <2>3. CASE TightRows
    <3>1. PICK n, m :
             /\ Inflate(n, m, job.avail, job.room - job.extra, job.left > 0)
             /\ \/ /\ n = 0 /\ m = 0
                   /\ pc' = "portion" /\ job' = [job EXCEPT !.avail = 0]
                \/ DrawRows(n, m)
      BY <2>3, Zenon DEF TightRows
    <3>2. pc' \in {"portion", "rows"}
      BY <3>1 DEF DrawRows
    <3>3. job'.total = job.total /\ job'.out \in {job.out, job.out + m}
      BY <2>1, <3>1 DEF DrawRows, NoJob
    <3>4. job.out + m <= job.total
      BY <3>1 DEF Inflate
    <3>5. QED
      BY <2>1, <3>2, <3>3, <3>4 DEF Left
  <2>4. QED
    BY <1>7, <2>2, <2>3
<1>8. CASE UNCHANGED vars \/ Spin
  BY <1>8 DEF Left, Spin, vars
<1>9. CASE StartRaw \/ RawLines \/ StartCopyRect \/ CopyPixel \/ StartHextile
  BY <1>1, <1>9 DEF StartRaw, RawLines, StartCopyRect, CopyPixel, StartHextile,
     Return
<1>10. CASE StartUltra \/ DrawZlib \/ NoTiles \/ TightFill \/ TightJpeg
  BY <1>1, <1>10 DEF StartUltra, DrawZlib, NoTiles, TightFill, TightJpeg, Return
<1>11. CASE NextRect \/ NewClient \/ Cut
  BY <1>1, <1>11 DEF NextRect, NewClient, Rest, Cut
<1>12. QED
  BY <1>2, <1>3, <1>4, <1>5, <1>6, <1>7, <1>8, <1>9, <1>10, <1>11 DEF Next

LEMMA AheadTyped ==
    ASSUME Placed, Drawing, Accepting, Left, pc \in Loops
    PROVE  Ahead \in Triples
<1>1. rect.x \in Nat /\ rect.y \in Nat /\ rect.w \in Nat /\ rect.h \in Nat
  BY RectFacts DEF Placed
<1>2. ASSUME NEW a \in Nat, NEW b \in Nat, NEW c \in Nat
      PROVE  <<a, b, c>> \in Triples
  BY DEF Triples
<1>3. CASE pc = "raw"
  <2>1. rect.h - j \in Nat
    BY <1>1, <1>3 DEF Placed
  <2>2. QED
    BY <1>2, <1>3, <2>1 DEF Ahead
<1>4. CASE pc = "copy"
  <2>1. /\ i \in rect.x .. rect.x + rect.w - 1
        /\ j \in rect.y .. rect.y + rect.h - 1
    BY <1>4 DEF Placed
  <2>2. /\ rect.y + rect.h - j \in Nat /\ j - rect.y + 1 \in Nat
        /\ rect.x + rect.w - i \in Nat /\ i - rect.x + 1 \in Nat
    BY <1>1, <2>1
  <2>3. QED
    BY <1>2, <1>4, <2>2 DEF Ahead
<1>5. CASE pc = "subrects"
  BY <1>2, <1>5 DEF Left, Ahead
<1>6. CASE pc \in {"hextile", "tiles"}
  <2>1. CASE rect \in Wide
    <3>1. rect.h - j \in Nat /\ rect.w - i \in Nat
      BY <1>1, <1>6, <2>1 DEF Placed
    <3>2. QED
      BY <1>2, <1>6, <3>1 DEF Ahead
  <2>2. CASE rect \notin Wide
    <3>1. i = 0 /\ j = 0
      BY <1>6, <2>2 DEF Placed, Left
    <3>2. rect.h - j \in Nat /\ rect.w - i \in Nat
      BY <1>1, <3>1
    <3>3. QED
      BY <1>2, <1>6, <3>2 DEF Ahead
  <2>3. QED
    BY <2>1, <2>2
<1>7. CASE pc = "inflate"
  <2>1. rect.h + 1 + job.left \in Nat
    BY <1>1, <1>7 DEF Drawing, Inflated
  <2>2. QED
    BY <1>2, <1>7, <2>1 DEF Ahead
<1>8. CASE pc = "draw"
  BY <1>2, <1>8 DEF Ahead
<1>9. CASE pc \in {"portion", "rows"}
  <2>1. RowsPlaced /\ RowsAccepted /\ job.out <= job.total
    BY <1>9 DEF Placed, Accepting, Left
  <2>2. job.left \in Nat
    BY <2>1 DEF RowsAccepted
  <2>3. job.total - job.out \in Nat
    <3>1. PICK h \in Nat, c \in Nat : h = rect.h /\ c = job.rowSize
      BY <1>1, <2>1 DEF RowsPlaced
    <3>2. h * c \in Nat
      OBVIOUS
    <3>3. job.total \in Nat /\ job.out \in Nat
      BY <2>1, <3>1, <3>2 DEF RowsPlaced
    <3>4. QED
      BY <2>1, <3>3
  <2>4. QED
    BY <1>2, <1>9, <2>2, <2>3 DEF Ahead
<1>10. QED
  BY <1>3, <1>4, <1>5, <1>6, <1>7, <1>8, <1>9 DEF Loops


LEMMA Halving ==
    ASSUME NEW b \in Nat, NEW w \in Nat, w > 0, 2 * w <= b
    PROVE  b \div (w * 2) \in Nat /\ b \div (w * 2) > 0
<1>1. PICK d \in Nat : d = w * 2
  OBVIOUS
<1>2. PICK q \in Nat : q = b \div d
  BY <1>1
<1>3. PICK m \in Nat : m = b % d
  BY <1>1
<1>4. b = q * d + m /\ m < d
  BY <1>1, <1>2, <1>3
<1>5. q # 0
  BY <1>1, <1>4
<1>6. QED
  BY <1>1, <1>2, <1>5

LEMMA TileGoesOn ==
    ASSUME TilePlaced, UNCHANGED rect, NEW size \in Nat, size > 0,
           NEW next, NextTile(size, next), pc' \in Loops
    PROVE  Less(Ahead', Ahead)
<1>1. /\ pc' = pc /\ Ahead = <<rect.h - j, rect.w - i, 0>>
      /\ Ahead' = <<rect.h - j', rect.w - i', 0>>
  <2>1. pc' = pc
    BY DEF NextTile, Return, Loops
  <2>2. QED
    BY <2>1 DEF TilePlaced, Ahead
<1>2. \/ i' = i + size /\ i + size < rect.w /\ j' = j
      \/ j' = j + size /\ j + size < rect.h
  BY DEF NextTile, Return, Loops
<1>3. /\ rect.w \in Nat /\ rect.h \in Nat /\ i \in Nat /\ j \in Nat
      /\ i < rect.w /\ j < rect.h
  BY TileFacts
<1>4. \/ rect.h - j' = rect.h - j /\ rect.w - i' < rect.w - i
      \/ rect.h - j' < rect.h - j
  BY <1>2, <1>3
<1>5. QED
  BY <1>1, <1>4 DEF Less

LEMMA RowsGoOn ==
    ASSUME Placed, Drawing, Accepting, TightPortion \/ TightRows, Turn
    PROVE  Less(Ahead', Ahead)
<1>1. /\ pc \in {"portion", "rows"} /\ RowsPlaced /\ RowsAccepted /\ Buffered
      /\ DOMAIN job = DOMAIN NoJob
  BY DEF TightPortion, TightRows, Placed, Accepting, Drawing, RowsDrawn,
     RowsPlaced
<1>2. job.left \in Nat /\ job.out \in Nat /\ job.room \in Nat
      /\ job.extra \in Nat /\ job.extra < job.room
  BY <1>1 DEF RowsPlaced, RowsAccepted, Buffered
<1>3. job.total \in Nat
  <2>1. rect.h \in Nat
    BY RectFacts DEF Turn, Placed
  <2>2. PICK h \in Nat, c \in Nat : h = rect.h /\ c = job.rowSize
    BY <1>1, <2>1 DEF RowsPlaced
  <2>3. h * c \in Nat
    OBVIOUS
  <2>4. QED
    BY <1>1, <2>2, <2>3 DEF RowsPlaced
<1>4. CASE TightPortion
  <2>1. pc = "portion" /\ pc' = "rows" /\ job.left > 0
    BY <1>4 DEF TightPortion, Return, Turn, Loops
  <2>2. job'.left = job.left - Min2(job.left, ZlibBufferSize)
    BY <1>1, <1>4, <2>1 DEF TightPortion, NoJob
  <2>3. job'.left < job.left
    BY <1>2, <2>1, <2>2, RectanglesAssumption DEF Min2, RectanglesAssumption
  <2>4. QED
    BY <2>1, <2>3 DEF Ahead, Less
<1>5. CASE TightRows
  <2>1. PICK n, m \in Nat :
           \/ /\ n = 0 /\ m = 0
              /\ pc' = "portion" /\ job' = [job EXCEPT !.avail = 0]
           \/ DrawRows(n, m)
    <3>1. PICK n \in 0 .. job.avail, m \in 0 .. job.room - job.extra :
             \/ /\ n = 0 /\ m = 0
                /\ pc' = "portion" /\ job' = [job EXCEPT !.avail = 0]
             \/ DrawRows(n, m)
      BY <1>5, Zenon DEF TightRows
    <3>2. m \in Nat
      BY <1>2
    <3>3. QED
      BY <3>1, <3>2
  <2>2. pc = "rows" /\ job'.left = job.left /\ job'.total = job.total
    BY <1>1, <1>5, <2>1 DEF TightRows, DrawRows, NoJob
  <2>3. CASE pc' = "portion"
    <3>1. job'.out = job.out \/ job'.out = job.out + m
      BY <1>1, <2>1 DEF DrawRows, NoJob
    <3>2. job'.total - job'.out <= job.total - job.out
      BY <1>2, <1>3, <2>1, <2>2, <3>1
    <3>3. /\ Ahead = <<job.left, job.total - job.out, 1>>
          /\ Ahead' = <<job.left, job'.total - job'.out, 0>>
      BY <2>2, <2>3 DEF Ahead
    <3>4. job'.total - job'.out \in Int /\ job.total - job.out \in Int
      BY <1>2, <1>3, <2>1, <2>2, <3>1
    <3>5. QED
      BY <3>2, <3>3, <3>4 DEF Less
  <2>4. CASE pc' # "portion"
    <3>1. pc' = "rows" /\ job.extra + m = job.room /\ job'.out = job.out + m
      BY <1>1, <2>1, <2>4 DEF DrawRows, NoJob
    <3>2. m > 0
      BY <1>2, <2>1, <3>1
    <3>3. job'.total - job'.out < job.total - job.out
      BY <1>2, <1>3, <2>1, <2>2, <3>1, <3>2
    <3>4. QED
      BY <2>2, <3>1, <3>3 DEF Ahead, Less
  <2>5. QED
    BY <2>3, <2>4
<1>6. QED
  BY <1>4, <1>5

LEMMA CopyGoesOn ==
    ASSUME Placed, CopyPixel, Turn
    PROVE  Less(Ahead', Ahead)
<1> DEFINE d == <<rect.x, rect.y>>
           s == source
           nextI == IF Rightwards(d, s) THEN i + 1 ELSE i - 1
           nextJ == IF Downwards(d, s) THEN j + 1 ELSE j - 1
           inRow == nextI \in d[1] .. d[1] + rect.w - 1
<1>1. /\ pc = "copy" /\ pc' = "copy" /\ UNCHANGED <<rect, source>>
      /\ i' = IF inRow THEN nextI ELSE FirstColumn(d, s, rect.w)
      /\ j' = IF inRow THEN j ELSE nextJ
  BY DEF CopyPixel, Turn, Loops, Return, header
<1>2. /\ rect.x \in Nat /\ rect.y \in Nat /\ rect.w \in Nat /\ rect.h \in Nat
      /\ i \in rect.x .. rect.x + rect.w - 1
      /\ j \in rect.y .. rect.y + rect.h - 1
  BY <1>1, WideFacts DEF Placed, Loops
<1>3. PICK down, right : down = Downwards(d, s) /\ right = Rightwards(d, s)
  OBVIOUS
<1>4. /\ Ahead[1] = IF down THEN rect.y + rect.h - j ELSE j - rect.y + 1
      /\ Ahead[2] = IF right THEN rect.x + rect.w - i ELSE i - rect.x + 1
      /\ Ahead'[1] = IF down THEN rect.y + rect.h - j' ELSE j' - rect.y + 1
      /\ Ahead'[2] = IF right THEN rect.x + rect.w - i' ELSE i' - rect.x + 1
  BY <1>1, <1>3 DEF Ahead, Downwards, Rightwards
<1>5. CASE inRow
  <2>1. j' = j /\ i' = IF right THEN i + 1 ELSE i - 1
    BY <1>1, <1>3, <1>5
  <2>2. Ahead'[1] = Ahead[1] /\ Ahead'[2] < Ahead[2]
    BY <1>2, <1>4, <2>1
  <2>3. QED
    BY <2>2 DEF Less
<1>6. CASE ~inRow
  <2>1. j' = IF down THEN j + 1 ELSE j - 1
    BY <1>1, <1>3, <1>6
  <2>2. Ahead'[1] < Ahead[1]
    BY <1>2, <1>4, <2>1
  <2>3. QED
    BY <2>2 DEF Less
<1>7. QED
  BY <1>5, <1>6


LEMMA GoesOn ==
    ASSUME Placed, Framed, Drawing, Accepting, Left, Next, Turn
    PROVE  [Less(Ahead', Ahead)]_vars
<1>1. rect \in Rects
  BY DEF Turn, Placed
<1>2. rect.w \in Nat /\ rect.h \in Nat /\ rect.w <= Width
  BY <1>1, RectFacts, RectanglesAssumption DEF RectanglesAssumption
<1>3. CASE RawLines
  <2>1. PICK n : n = Min2(LinesToRead(rect.w), rect.h - j)
    OBVIOUS
  <2>2. pc = "raw" /\ pc' = "raw" /\ rect' = rect /\ j' = j + n
    BY <1>3, <2>1 DEF RawLines, Return, Turn, Loops, header
  <2>3. j \in Nat /\ j < rect.h /\ rect.w > 0
    BY <1>2, <2>2, WideFacts DEF Placed
  <2>4. LinesToRead(rect.w) \in Nat /\ LinesToRead(rect.w) > 0
    <3>1. PICK w \in Nat, b \in Nat : w = rect.w /\ b = BufferSize
      BY <1>2, RectanglesAssumption DEF RectanglesAssumption
    <3>2. w > 0 /\ 2 * w <= b
      BY <1>2, <2>3, <3>1, RectanglesAssumption DEF RectanglesAssumption
    <3>3. QED
      BY <3>1, <3>2, Halving DEF LinesToRead, BytesPerPixel
  <2>5. n \in Nat /\ n > 0
    BY <1>2, <2>1, <2>3, <2>4 DEF Min2
  <2>6. rect.h - j' < rect.h - j
    BY <1>2, <2>2, <2>3, <2>5
  <2>7. QED
    BY <2>2, <2>6 DEF Ahead, Less
<1>4. CASE CopyPixel
  BY <1>4, CopyGoesOn
<1>5. CASE Subrect
  <2>1. pc = "subrects" /\ pc' = "subrects"
        /\ job' = [job EXCEPT !.left = @ - 1]
    BY <1>5 DEF Subrect, Return, Turn, Loops
  <2>2. DOMAIN job = DOMAIN NoJob /\ job.left \in Nat
    BY <2>1 DEF Left
  <2>3. job'.left = job.left - 1
    BY <2>1, <2>2 DEF NoJob
  <2>4. job'.left < job.left
    BY <2>2, <2>3
  <2>5. QED
    BY <2>1, <2>4 DEF Ahead, Less
<1>6. CASE HextileRaw \/ HextileTile
  <2>1. TilePlaced /\ UNCHANGED rect
    BY <1>6, WideFacts
    DEF HextileRaw, HextileTile, Placed, TilePlaced, header
  <2>2. \E next : NextTile(HextileSize, next)
    <3>1. CASE HextileRaw
      <4>1. NextTile(HextileSize, job)
        BY <3>1 DEF HextileRaw
      <4>2. QED
        BY <4>1, Zenon
    <3>2. CASE HextileTile
      <4>1. PICK b, f, c, sub : PaintTile(b, f, c, sub)
        BY <3>2 DEF HextileTile
      <4>2. QED
        BY <4>1, Zenon DEF PaintTile
    <3>3. QED
      BY <1>6, <3>1, <3>2
  <2>3. HextileSize \in Nat /\ HextileSize > 0
    BY RectanglesAssumption DEF RectanglesAssumption
  <2>4. QED
    BY <2>1, <2>2, <2>3, TileGoesOn DEF Turn
<1>7. CASE DrawTile
  <2>1. TilePlaced /\ UNCHANGED rect
    BY <1>7, WideFacts DEF DrawTile, Placed, TilePlaced, header
  <2>2. ~Return
    BY DEF Return, Turn, Loops
  <2>3. \E next : NextTile(ZRLETileSize, next)
    <3>1. Return \/ \E next : NextTile(ZRLETileSize, next)
      BY <1>7 DEF DrawTile
    <3>2. QED
      BY <2>2, <3>1, Zenon
  <2>4. ZRLETileSize \in Nat /\ ZRLETileSize > 0
    BY RectanglesAssumption DEF RectanglesAssumption
  <2>5. QED
    BY <2>1, <2>3, <2>4, TileGoesOn DEF Turn
<1>8. CASE InflatePortion
  <2>1. pc = "inflate" /\ UNCHANGED <<rect, i, j>>
    BY <1>8 DEF InflatePortion, header
  <2>2. DOMAIN job = DOMAIN NoJob /\ job.left \in Nat /\ j \in Nat
    BY <1>2, <2>1 DEF Drawing, Inflated, Placed, Left
  <2>3. PICK toRead : toRead = Min2(job.left, BufferSize)
    OBVIOUS
  <2>4. /\ pc' = IF job.left > toRead THEN "inflate"
                 ELSE IF encoding = "zlib" THEN "draw" ELSE "tiles"
        /\ \E m : job' = [job EXCEPT !.left = @ - toRead, !.out = @ + m]
    BY <1>8, <2>3 DEF InflatePortion, Turn, Loops
  <2>5. toRead \in Nat /\ (job.left > toRead => toRead > 0)
    BY <1>2, <2>2, <2>3, RectanglesAssumption DEF Min2, RectanglesAssumption
  <2>6. CASE pc' = "inflate"
    <3>1. job.left > toRead /\ job'.left = job.left - toRead
      BY <2>2, <2>4, <2>6 DEF NoJob
    <3>2. rect.h + 1 + job'.left < rect.h + 1 + job.left
      BY <1>2, <2>2, <2>5, <3>1
    <3>3. QED
      BY <2>1, <2>6, <3>2 DEF Ahead, Less
  <2>7. CASE pc' \in {"draw", "tiles"}
    <3>1. Ahead[1] = rect.h + 1 + job.left
      BY <2>1 DEF Ahead
    <3>2. Ahead'[1] \in {0, rect.h - j}
      BY <2>1, <2>7 DEF Ahead
    <3>3. Ahead'[1] < Ahead[1]
      BY <1>2, <2>2, <3>1, <3>2
    <3>4. QED
      BY <3>3 DEF Less
  <2>8. QED
    BY <2>4, <2>6, <2>7
<1>9. CASE TightPortion \/ TightRows
  BY <1>9, RowsGoOn
<1>10. CASE Spin
  BY <1>10 DEF Spin
<1>11. ASSUME pc = "idle" \/ pc' \notin Loops
       PROVE  FALSE
  BY <1>11 DEF Turn, Loops
<1>12. CASE \/ StartRaw \/ StartCopyRect \/ StartRRE \/ StartCoRRE \/ StartHextile
            \/ StartUltra \/ StartZlib \/ StartZRLE
            \/ TightFill \/ TightJpeg \/ TightBasic
  BY <1>11, <1>12 DEF StartRaw, StartCopyRect, StartRRE, StartCoRRE,
     StartHextile, StartUltra, StartZlib, StartZRLE, TightFill, TightJpeg,
     TightControl, TightBasic, Begin
<1>13. CASE DrawZlib \/ NoTiles \/ NextRect \/ Cut \/ NewClient
  BY <1>11, <1>13 DEF DrawZlib, NoTiles, Return, NextRect, Cut, NewClient, Rest, Loops
<1>14. QED
  BY <1>3, <1>4, <1>5, <1>6, <1>7, <1>8, <1>9, <1>10, <1>12, <1>13 DEF Next

\* No handler turns in its loops for ever: each turn brings it nearer to the end
\* of its rectangle in a well-founded order, for every size of the frame, the
\* tiles and the buffers.  In particular at least one line of raw pixels fits
\* the buffer, the columns of a copy are passed in the direction that leads out
\* of the row, and the tight decoder inflates again without new data only as
\* long as it gets more bytes.  The loop over lines that does not end, of a
\* rectangle without columns, is the state "spins".
THEOREM HandlersEnd ==
    Spec => /\ [](pc \in Loops => Ahead \in Triples)
            /\ [][Turn => Less(Ahead', Ahead)]_vars
<1> DEFINE Inv == /\ Placed /\ Within /\ Framed /\ Drawing
                  /\ InflatersInStep /\ Accepting /\ Left
<1>1. Init => Inv
  BY PlacedStart, FramedStart, DrawingStart, InflatersStart, AcceptingStart,
     LeftStart
<1>2. Inv /\ [Next]_vars => Inv'
  BY PlacedStep, FramedStep, DrawingStep, InflatersStep, AcceptingStep, LeftStep
<1>3. Inv => (pc \in Loops => Ahead \in Triples)
  BY AheadTyped
<1>4. Inv /\ [Next]_vars => [Turn => Less(Ahead', Ahead)]_vars
  BY GoesOn
<1>5. QED
  BY <1>1, <1>2, <1>3, <1>4, PTL DEF Spec
==============================================================================
