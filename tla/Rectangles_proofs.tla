--------------------------- MODULE Rectangles_proofs ---------------------------
(***************************************************************************)
(* Proofs about the decoders, for every size of the frame, of the tiles    *)
(* and of the buffers: no handler writes outside its rectangle, and the    *)
(* inflaters of the tight encoding are in step with the server's.          *)
(***************************************************************************)
EXTENDS Rectangles, TLAPS

(***************************************************************************)
(* The inflaters.                                                          *)
(***************************************************************************)
LEMMA InflatersStart == Init => InflatersInStep
BY DEF Init, InflatersInStep

LEMMA InflatersStep == InflatersInStep /\ [Next]_vars => InflatersInStep'
<1> SUFFICES ASSUME InflatersInStep, [Next]_vars
             PROVE  InflatersInStep'
  OBVIOUS
<1> USE DEF InflatersInStep
<1>1. ASSUME UNCHANGED session
      PROVE  InflatersInStep'
  BY <1>1 DEF session
<1>2. ASSUME UNCHANGED <<inflater, deflater>>
      PROVE  InflatersInStep'
  BY <1>2
<1>3. CASE TightControl
  BY <1>3 DEF TightControl, Flushed
<1>4. CASE TightBasic
  <2>1. PICK ended \in SUBSET Streams, id \in Streams :
            LET active == Flushed(inflater, ended, TRUE)
                used   == [s \in Streams |-> deflater[s] /\ s \notin ended]
            IN \/ inflater' = active /\ deflater' = used
               \/ /\ inflater' = [active EXCEPT ![id] = TRUE]
                  /\ deflater' = [used EXCEPT ![id] = TRUE]
    BY <1>4 DEF TightBasic
  <2> DEFINE same == Flushed(inflater, ended, TRUE)
  <2>2. same = [s \in Streams |-> deflater[s] /\ s \notin ended]
    BY DEF Flushed
  <2>3. \/ inflater' = same /\ deflater' = same
        \/ /\ inflater' = [same EXCEPT ![id] = TRUE]
           /\ deflater' = [same EXCEPT ![id] = TRUE]
    BY <2>1, <2>2, Zenon
  <2> HIDE DEF same
  <2>4. QED
    BY <2>3
<1>5. CASE NewClient
  BY <1>5 DEF NewClient
<1>6. CASE StartRaw \/ RawLines \/ StartCopyRect \/ CopyPixel
  BY <1>1, <1>6 DEF StartRaw, RawLines, StartCopyRect, CopyPixel
<1>7. CASE StartRRE \/ StartCoRRE \/ Subrect
  BY <1>1, <1>7 DEF StartRRE, StartCoRRE, DrawBackground, Subrect
<1>8. CASE StartHextile \/ HextileRaw \/ HextileTile
  BY <1>1, <1>8 DEF StartHextile, HextileRaw, HextileTile
<1>9. CASE StartUltra \/ StartZlib \/ StartZRLE
  BY <1>2, <1>9 DEF StartUltra, StartZlib, StartZRLE
<1>10. CASE InflatePortion \/ DrawZlib \/ DrawTile \/ NoTiles
  BY <1>1, <1>10 DEF InflatePortion, DrawZlib, DrawTile, NoTiles
<1>11. CASE TightPortion \/ TightRows
  BY <1>1, <1>11 DEF TightPortion, TightRows
<1>12. CASE NextRect \/ Cut \/ Spin
  BY <1>1, <1>12 DEF NextRect, Cut, Spin, vars, session
<1>13. CASE UNCHANGED vars
  BY <1>13 DEF vars
<1>14. QED
  BY <1>3, <1>4, <1>5, <1>6, <1>7, <1>8, <1>9, <1>10, <1>11, <1>12, <1>13
  DEF Next, TightFill, TightJpeg

\* TightVNC's control bits: whatever rectangles come between, a stream is active
\* in HandleTight just when the server has used it since it last ended it, so
\* inflate is never given the middle of a stream it has not begun.
THEOREM InflatersCorrect == Spec => []InflatersInStep
BY InflatersStart, InflatersStep, PTL DEF Spec

(***************************************************************************)
(* Arithmetic of rows and lines.                                           *)
(***************************************************************************)
LEMMA DivNat ==
    ASSUME NEW a \in Nat, NEW b \in Nat, b > 0
    PROVE  a \div b \in Nat /\ (a \div b) * b <= a /\ (a \div b) * b \in Nat
OBVIOUS

LEMMA Distribute ==
    ASSUME NEW a \in Nat, NEW b \in Nat, NEW c \in Nat
    PROVE  (a + b) * c = a * c + b * c
OBVIOUS

LEMMA RowsFit ==
    ASSUME NEW n \in Nat, NEW h \in Nat, NEW c \in Nat, c > 0, n * c <= h * c
    PROVE  n <= h
<1> SUFFICES ASSUME n > h PROVE FALSE
  OBVIOUS
<1>1. PICK d \in Nat : n = h + d /\ d >= 1
  <2>1. n - h \in Nat /\ n = h + (n - h) /\ n - h >= 1
    OBVIOUS
  <2>2. QED
    BY <2>1
<1>2. n * c = h * c + d * c
  BY <1>1, Distribute
<1>3. d * c >= c /\ d * c \in Nat /\ h * c \in Nat
  BY <1>1
<1>4. QED
  BY <1>2, <1>3

LEMMA RectFacts ==
    ASSUME NEW r \in Rects
    PROVE  /\ r.x \in Nat /\ r.y \in Nat /\ r.w \in Nat /\ r.h \in Nat
           /\ r.x + r.w <= Width /\ r.y + r.h <= Height
           /\ (r.w > 0 /\ r.h > 0 <=> r \in Wide)
BY RectanglesAssumption DEF Wide, Rects, RectanglesAssumption

LEMMA WideFacts ==
    ASSUME NEW r \in Wide
    PROVE  /\ r.x \in Nat /\ r.y \in Nat /\ r.w \in Nat /\ r.h \in Nat
           /\ r.w > 0 /\ r.h > 0
           /\ r.x + r.w <= Width /\ r.y + r.h <= Height
           /\ r \in Rects
BY RectanglesAssumption DEF Wide, Rects, RectanglesAssumption

LEMMA PixelFacts ==
    ASSUME NEW p \in Pixels
    PROVE  p[1] \in 0 .. Width - 1 /\ p[2] \in 0 .. Height - 1
BY DEF Pixels

(***************************************************************************)
(* Where the loops are.  Of the tight encoding's bytes, those of the rows  *)
(* that were drawn and of the one begun are the ones inflated.             *)
(***************************************************************************)
RowsPlaced ==
    /\ DOMAIN job = DOMAIN NoJob
    /\ i = 0 /\ j \in 0 .. rect.h
    /\ job.rowSize \in Nat /\ job.rowSize > 0
    /\ job.out \in Nat /\ job.extra \in Nat /\ job.room \in Nat
    /\ job.extra <= job.room
    /\ job.total = rect.h * job.rowSize
    /\ job.out = j * job.rowSize + job.extra

Placed ==
    /\ pc = "idle" => frame = OldFrame
    /\ pc \in Loops => rect \in Rects
    /\ pc \in {"raw", "copy", "hextile", "portion", "rows"} => rect \in Wide
    /\ pc = "raw" => i = 0 /\ j \in 0 .. rect.h - 1
    /\ pc = "copy" => /\ i \in rect.x .. rect.x + rect.w - 1
                      /\ j \in rect.y .. rect.y + rect.h - 1
    /\ pc \in {"hextile", "inflate", "tiles"} /\ rect \in Wide =>
          i \in 0 .. rect.w - 1 /\ j \in 0 .. rect.h - 1
    /\ pc \in {"portion", "rows"} => RowsPlaced

\* A step that changes no pixel outside a part of the rectangle.
WritesOnly(x, y, w, h) ==
    \A p \in Pixels : ~In(p, x, y, w, h) => frame'[p] = frame[p]

LEMMA WriteWithin ==
    ASSUME Within, rect \in Rects, UNCHANGED rect,
           NEW x \in Int, NEW y \in Int, NEW w \in Int, NEW h \in Int,
           rect.x <= x, x + w <= rect.x + rect.w,
           rect.y <= y, y + h <= rect.y + rect.h,
           WritesOnly(x, y, w, h)
    PROVE  Within'
<1> SUFFICES ASSUME NEW p \in Pixels,
                    ~In(p, rect.x, rect.y, rect.w, rect.h)
             PROVE  frame'[p] = Old(p)
  BY DEF Within
<1>1. p[1] \in Int /\ p[2] \in Int
  BY PixelFacts, RectanglesAssumption DEF RectanglesAssumption
<1>2. rect.x \in Int /\ rect.y \in Int /\ rect.w \in Int /\ rect.h \in Int
  BY RectFacts
<1>3. ~In(p, x, y, w, h)
  BY <1>1, <1>2 DEF In
<1>4. QED
  BY <1>3 DEF Within, WritesOnly

\* The beginning of a rectangle.
LEMMA BeginWithin ==
    ASSUME Placed, pc = "idle",
           \A p \in Pixels : ~In(p, rect'.x, rect'.y, rect'.w, rect'.h) =>
                                frame'[p] = OldFrame[p]
    PROVE  Within'
BY DEF Within, OldFrame

LEMMA PlacedStart == Init => Placed /\ Within
<1> SUFFICES ASSUME Init PROVE Placed /\ Within
  OBVIOUS
<1>1. pc = "idle" /\ frame = OldFrame
  BY DEF Init
<1>2. QED
  BY <1>1 DEF Placed, Within, OldFrame, Loops

\* The handlers that end in one step, or fail in it.
LEMMA EndPlaced ==
    ASSUME pc' \notin Loops \union {"idle"}
    PROVE  Placed'
BY DEF Placed, Loops

LEMMA RawPlaced == Placed /\ Within /\ (StartRaw \/ RawLines) => Placed' /\ Within'
<1> SUFFICES ASSUME Placed, Within, StartRaw \/ RawLines
             PROVE  Placed' /\ Within'
  OBVIOUS
<1>1. CASE StartRaw
  <2>1. /\ pc = "idle" /\ rect' \in Rects /\ i' = 0 /\ j' = 0 /\ frame' = frame
        /\ \/ pc' \in {"crashed", "spins", "done"}
           \/ pc' = "raw" /\ rect'.w # 0 /\ rect'.h # 0
    BY <1>1 DEF StartRaw, Begin
  <2>2. frame' = OldFrame
    BY <2>1 DEF Placed
  <2>3. Within'
    BY <2>1, <2>2, BeginWithin
  <2>4. CASE pc' \in {"crashed", "spins", "done"}
    BY <2>3, <2>4, EndPlaced DEF Loops
  <2>5. CASE pc' = "raw" /\ rect'.w # 0 /\ rect'.h # 0
    <3>1. rect' \in Wide
      BY <2>1, <2>5, RectFacts
    <3>2. rect'.h \in Nat /\ rect'.h > 0
      BY <3>1, WideFacts
    <3>3. QED
      BY <2>1, <2>3, <2>5, <3>1, <3>2, WideFacts DEF Placed
  <2>6. QED
    BY <2>1, <2>4, <2>5
<1>2. CASE RawLines
  <2> DEFINE n == Min2(LinesToRead(rect.w), rect.h - j)
  <2>1. /\ pc = "raw" /\ rect \in Wide /\ rect \in Rects
        /\ j \in 0 .. rect.h - 1
        /\ rect' = rect /\ i' = i /\ i = 0
    BY <1>2 DEF RawLines, Placed, Loops, header
  <2>2. /\ rect.x \in Nat /\ rect.y \in Nat /\ rect.w \in Nat /\ rect.h \in Nat
        /\ rect.w > 0
    BY <2>1, WideFacts
  <2>3. LinesToRead(rect.w) \in Nat
    <3>1. rect.w * BytesPerPixel \in Nat /\ rect.w * BytesPerPixel > 0
      BY <2>2 DEF BytesPerPixel
    <3>2. QED
      BY <3>1, DivNat, RectanglesAssumption DEF LinesToRead, RectanglesAssumption
  <2>4. n \in Nat /\ j + n <= rect.h
    BY <2>1, <2>2, <2>3 DEF Min2
  <2>5. /\ frame' = CopyRectangle(frame, rect.x, rect.y + j, rect.w, n,
                                  [k \in Nat |-> Datum(j * rect.w + k)])
        /\ j' = j + n
        /\ IF j + n < rect.h THEN UNCHANGED <<pc, job>> ELSE Return
    BY <1>2 DEF RawLines
  <2> HIDE DEF n
  <2>6. WritesOnly(rect.x, rect.y + j, rect.w, n)
    BY <2>5 DEF CopyRectangle, WritesOnly
  <2>7. Within'
    <3>1. /\ rect.y + j \in Int /\ rect.y <= rect.y + j /\ rect.x <= rect.x
          /\ rect.y + j + n <= rect.y + rect.h
          /\ rect.x + rect.w <= rect.x + rect.w
      BY <2>1, <2>2, <2>4
    <3>2. QED
      BY SMTT(30), <2>1, <2>2, <2>4, <2>6, <3>1, WriteWithin
  <2>8. CASE j + n < rect.h
    <3>1. j' \in 0 .. rect'.h - 1
      BY <2>1, <2>2, <2>4, <2>5, <2>8
    <3>2. QED
      BY <2>1, <2>5, <2>7, <2>8, <3>1 DEF Placed
  <2>9. CASE ~(j + n < rect.h)
    BY <2>5, <2>7, <2>9, EndPlaced DEF Return, Loops
  <2>10. QED
    BY <2>8, <2>9
<1>3. QED
  BY <1>1, <1>2

LEMMA CopyPlaced ==
    Placed /\ Within /\ (StartCopyRect \/ CopyPixel) => Placed' /\ Within'
<1> SUFFICES ASSUME Placed, Within, StartCopyRect \/ CopyPixel
             PROVE  Placed' /\ Within'
  OBVIOUS
<1>1. ASSUME NEW r \in Wide, NEW s
      PROVE  /\ FirstColumn(<<r.x, r.y>>, s, r.w) \in r.x .. r.x + r.w - 1
             /\ FirstRow(<<r.x, r.y>>, s, r.h) \in r.y .. r.y + r.h - 1
  BY WideFacts DEF FirstColumn, FirstRow
<1>2. CASE StartCopyRect
  <2>1. PICK r \in Rects, s \in Pixels :
            /\ pc = "idle" /\ rect' = r /\ frame' = frame
            /\ \/ pc' = "done"
               \/ /\ pc' = "copy" /\ r \in Wide
                  /\ i' = FirstColumn(<<r.x, r.y>>, s, r.w)
                  /\ j' = FirstRow(<<r.x, r.y>>, s, r.h)
    BY <1>2 DEF StartCopyRect
  <2>2. frame' = OldFrame
    BY <2>1 DEF Placed
  <2>3. Within'
    BY <2>1, <2>2, BeginWithin
  <2>4. CASE pc' = "done"
    BY <2>3, <2>4, EndPlaced DEF Loops
  <2>5. CASE pc' = "copy"
    BY <1>1, <2>1, <2>3, <2>5 DEF Placed
  <2>6. QED
    BY <2>1, <2>4, <2>5
<1>3. CASE CopyPixel
  <2> DEFINE d == <<rect.x, rect.y>>
             nextI == IF Rightwards(d, source) THEN i + 1 ELSE i - 1
             nextJ == IF Downwards(d, source) THEN j + 1 ELSE j - 1
             inRow == nextI \in rect.x .. rect.x + rect.w - 1
             more  == nextJ \in rect.y .. rect.y + rect.h - 1
  <2>1. /\ pc = "copy" /\ rect \in Wide /\ rect \in Rects /\ rect' = rect
        /\ i \in rect.x .. rect.x + rect.w - 1
        /\ j \in rect.y .. rect.y + rect.h - 1
    BY <1>3 DEF CopyPixel, Placed, Loops, header
  <2>2. /\ \E v : frame' = [frame EXCEPT ![<<i, j>>] = v]
        /\ i' = IF inRow THEN nextI ELSE FirstColumn(d, source, rect.w)
        /\ j' = IF inRow THEN j ELSE nextJ
        /\ IF inRow \/ more THEN UNCHANGED <<pc, job>> ELSE Return
    BY <1>3 DEF CopyPixel
  <2>3. /\ rect.x \in Nat /\ rect.y \in Nat /\ rect.w \in Nat /\ rect.h \in Nat
        /\ rect.w > 0 /\ rect.h > 0
    BY <2>1, WideFacts
  <2>4. WritesOnly(i, j, 1, 1)
    <3> SUFFICES ASSUME NEW p \in Pixels, ~In(p, i, j, 1, 1)
                 PROVE  frame'[p] = frame[p]
      BY DEF WritesOnly
    <3>1. p # <<i, j>>
      BY <2>1, <2>3 DEF In
    <3>2. QED
      BY <2>2, <3>1
  <2>5. Within'
    <3>1. /\ rect.x <= i /\ i + 1 <= rect.x + rect.w
          /\ rect.y <= j /\ j + 1 <= rect.y + rect.h
          /\ i \in Int /\ j \in Int
      BY <2>1, <2>3
    <3>2. QED
      BY <2>1, <2>4, <3>1, WriteWithin
  <2>6. CASE inRow
    BY <2>1, <2>2, <2>5, <2>6 DEF Placed
  <2>7. CASE ~inRow /\ more
    BY <1>1, <2>1, <2>2, <2>5, <2>7 DEF Placed
  <2>8. CASE ~inRow /\ ~more
    <3>1. pc' = "done"
      BY <2>2, <2>8 DEF Return
    <3>2. QED
      BY <2>5, <3>1, EndPlaced DEF Loops
  <2>9. QED
    BY <2>6, <2>7, <2>8
<1>4. QED
  BY <1>2, <1>3

LEMMA SubrectsPlaced ==
    Placed /\ Within /\ (StartRRE \/ StartCoRRE \/ Subrect)
        => Placed' /\ Within'
<1> SUFFICES ASSUME Placed, Within, StartRRE \/ StartCoRRE \/ Subrect
             PROVE  Placed' /\ Within'
  OBVIOUS
<1>1. CASE StartRRE \/ StartCoRRE
  <2>1. DrawBackground
    BY <1>1 DEF StartRRE, StartCoRRE
  <2>2. pc = "idle" /\ rect' \in Rects
    BY <1>1 DEF StartRRE, StartCoRRE, Begin
  <2>3. PICK c : frame' = FillRectangle(OldFrame, rect'.x, rect'.y,
                                        rect'.w, rect'.h, Colour(c))
    BY <2>1 DEF DrawBackground
  <2>4. Within'
    BY <2>2, <2>3, BeginWithin DEF FillRectangle
  <2>5. pc' \in {"subrects", "done", "cut"}
    BY <1>1 DEF StartRRE, StartCoRRE, AwaitSubrects, Return
  <2>6. QED
    BY <2>2, <2>4, <2>5 DEF Placed, Loops
<1>2. CASE Subrect
  <2>1. pc = "subrects" /\ rect \in Rects /\ rect' = rect
    BY <1>2 DEF Subrect, Placed, Loops, header
  <2>2. PICK c \in Colours, r \in Rects :
            /\ r.x + r.w <= rect.w /\ r.y + r.h <= rect.h
            /\ frame' = FillRectangle(frame, rect.x + r.x, rect.y + r.y,
                                      r.w, r.h, Colour(c))
    BY <1>2 DEF Subrect
  <2>3. WritesOnly(rect.x + r.x, rect.y + r.y, r.w, r.h)
    BY <2>2 DEF FillRectangle, WritesOnly
  <2>4. /\ rect.x + r.x \in Int /\ rect.y + r.y \in Int
        /\ r.w \in Int /\ r.h \in Int
        /\ rect.x <= rect.x + r.x /\ rect.x + r.x + r.w <= rect.x + rect.w
        /\ rect.y <= rect.y + r.y /\ rect.y + r.y + r.h <= rect.y + rect.h
    BY <2>1, <2>2, RectFacts
  <2>5. Within'
    BY <2>1, <2>3, <2>4, WriteWithin
  <2>6. pc' \in {"subrects", "done"}
    BY <1>2, <2>1 DEF Subrect, Return
  <2>7. QED
    BY <2>1, <2>5, <2>6 DEF Placed, Loops
<1>3. QED
  BY <1>1, <1>2

(***************************************************************************)
(* Tiles.                                                                  *)
(***************************************************************************)
TilePlaced == /\ pc \in {"hextile", "tiles"} /\ rect \in Wide
              /\ i \in 0 .. rect.w - 1 /\ j \in 0 .. rect.h - 1

LEMMA NextTilePlaced ==
    ASSUME TilePlaced, UNCHANGED rect, NEW size \in Nat, size > 0, NEW next,
           NextTile(size, next)
    PROVE  Placed'
<1>1. rect.w \in Nat /\ rect.h \in Nat /\ rect.w > 0 /\ rect.h > 0
  BY WideFacts DEF TilePlaced
<1>2. CASE pc' = "done"
  BY <1>2, EndPlaced DEF Loops
<1>3. CASE pc' # "done"
  <2>1. pc' = pc /\ i' \in 0 .. rect.w - 1 /\ j' \in 0 .. rect.h - 1
    BY <1>1, <1>3 DEF NextTile, TilePlaced, Return
  <2>2. QED
    BY <2>1, WideFacts DEF TilePlaced, Placed
<1>4. QED
  BY <1>2, <1>3

LEMMA TileWithin ==
    ASSUME Within, TilePlaced, UNCHANGED rect, NEW size \in Nat, size > 0,
           WritesOnly(rect.x + i, rect.y + j, TileWidth(size), TileHeight(size))
    PROVE  Within'
<1>1. /\ rect \in Wide /\ rect \in Rects /\ rect.x \in Nat /\ rect.y \in Nat
      /\ rect.w \in Nat /\ rect.h \in Nat
  BY WideFacts DEF TilePlaced
<1>2. /\ TileWidth(size) \in Int /\ i + TileWidth(size) <= rect.w
      /\ TileHeight(size) \in Int /\ j + TileHeight(size) <= rect.h
      /\ i \in Nat /\ j \in Nat
  BY <1>1 DEF TileWidth, TileHeight, Min2, TilePlaced
<1>3. /\ rect.x + i \in Int /\ rect.y + j \in Int
      /\ rect.x <= rect.x + i /\ rect.y <= rect.y + j
      /\ rect.x + i + TileWidth(size) <= rect.x + rect.w
      /\ rect.y + j + TileHeight(size) <= rect.y + rect.h
  BY <1>1, <1>2
<1>4. QED
  BY <1>1, <1>2, <1>3, WriteWithin

LEMMA HextilePlaced ==
    Placed /\ Within /\ (StartHextile \/ HextileRaw \/ HextileTile)
        => Placed' /\ Within'
<1> SUFFICES ASSUME Placed, Within, StartHextile \/ HextileRaw \/ HextileTile
             PROVE  Placed' /\ Within'
  OBVIOUS
<1>1. HextileSize \in Nat /\ HextileSize > 0
  BY RectanglesAssumption DEF RectanglesAssumption
<1>2. CASE StartHextile
  <2>1. /\ pc = "idle"
        /\ pc' = "done" \/ (pc' = "hextile" /\ rect' \in Wide)
        /\ i' = 0 /\ j' = 0 /\ frame' = frame
    BY <1>2 DEF StartHextile, Begin
  <2>2. frame' = OldFrame
    BY <2>1 DEF Placed
  <2>3. Within'
    BY <2>1, <2>2, BeginWithin
  <2>4. CASE pc' = "done"
    BY <2>3, <2>4, EndPlaced DEF Loops
  <2>5. CASE pc' = "hextile" /\ rect' \in Wide
    <3>1. /\ rect'.w \in Nat /\ rect'.w > 0 /\ rect'.h \in Nat /\ rect'.h > 0
          /\ rect' \in Rects
      BY <2>5, WideFacts
    <3>2. QED
      BY <2>1, <2>3, <2>5, <3>1 DEF Placed
  <2>6. QED
    BY <2>1, <2>4, <2>5
<1>3. ASSUME HextileRaw \/ HextileTile
      PROVE  TilePlaced /\ rect' = rect
  BY <1>3 DEF HextileRaw, HextileTile, Placed, TilePlaced, Loops, header
<1>4. CASE HextileRaw
  <2>1. frame' = CopyRectangle(frame, rect.x + i, rect.y + j,
                     TileWidth(HextileSize), TileHeight(HextileSize),
                     [n \in Nat |-> TileDatum(n, TileWidth(HextileSize))])
    BY <1>4 DEF HextileRaw
  <2>2. WritesOnly(rect.x + i, rect.y + j,
                   TileWidth(HextileSize), TileHeight(HextileSize))
    BY <2>1 DEF CopyRectangle, WritesOnly
  <2>3. NextTile(HextileSize, job)
    BY <1>4 DEF HextileRaw
  <2>4. QED
    BY <1>1, <1>3, <1>4, <2>2, <2>3, NextTilePlaced, TileWithin
<1>5. CASE HextileTile
  <2> DEFINE x == rect.x + i
             y == rect.y + j
             w == TileWidth(HextileSize)
             h == TileHeight(HextileSize)
  <2>1. PICK sub \in {NoRect} \union
                   {r \in Wide : /\ r.w <= MaxSubrectSize
                                 /\ r.h <= MaxSubrectSize
                                 /\ r.x + r.w <= w /\ r.y + r.h <= h} :
            \E b, f, c : PaintTile(b, f, c, sub)
    BY <1>5 DEF HextileTile
  <2>2. /\ x \in Int /\ y \in Int /\ w \in Int /\ h \in Int /\ w >= 0 /\ h >= 0
    <3>1. /\ rect.x \in Nat /\ rect.y \in Nat /\ rect.w \in Nat
          /\ rect.h \in Nat
      BY <1>3, <1>5, WideFacts DEF TilePlaced
    <3>2. QED
      BY <1>1, <1>3, <1>5, <3>1 DEF TilePlaced, TileWidth, TileHeight, Min2
  <2>3. /\ sub.x \in Nat /\ sub.y \in Nat /\ sub.w \in Nat /\ sub.h \in Nat
        /\ sub.x + sub.w <= w /\ sub.y + sub.h <= h
    <3>1. CASE sub = NoRect
      BY <2>2, <3>1 DEF NoRect
    <3>2. CASE sub \in Wide
      BY <2>1, <3>2, WideFacts DEF NoRect
    <3>3. QED
      BY <3>1, <3>2
  <2>4. /\ \E bg, fg : frame' = FillRectangle(FillRectangle(frame, x, y, w, h, bg),
                             x + sub.x, y + sub.y, sub.w, sub.h, fg)
        /\ \E next : NextTile(HextileSize, next)
    BY <2>1, Zenon DEF PaintTile
  <2> HIDE DEF x, y, w, h
  <2>5. WritesOnly(x, y, w, h)
    <3> SUFFICES ASSUME NEW p \in Pixels, ~In(p, x, y, w, h)
                 PROVE  frame'[p] = frame[p]
      BY DEF WritesOnly
    <3>1. p[1] \in Int /\ p[2] \in Int
      BY PixelFacts, RectanglesAssumption DEF RectanglesAssumption
    <3>2. ~In(p, x + sub.x, y + sub.y, sub.w, sub.h)
      BY <2>2, <2>3, <3>1 DEF In
    <3>3. QED
      BY <2>4, <3>2 DEF FillRectangle
  <2>6. QED
    BY <1>1, <1>3, <1>5, <2>4, <2>5, NextTilePlaced, TileWithin DEF x, y, w, h
<1>6. QED
  BY <1>2, <1>4, <1>5

(***************************************************************************)
(* zlib, ZRLE and Ultra.                                                   *)
(***************************************************************************)
LEMMA InflatePlaced ==
    Placed /\ Within /\ (StartUltra \/ StartZlib \/ StartZRLE \/ InflatePortion
                         \/ DrawZlib \/ DrawTile \/ NoTiles)
        => Placed' /\ Within'
<1> SUFFICES ASSUME Placed, Within,
                    StartUltra \/ StartZlib \/ StartZRLE \/ InflatePortion
                        \/ DrawZlib \/ DrawTile \/ NoTiles
             PROVE  Placed' /\ Within'
  OBVIOUS
<1>1. CASE StartUltra
  <2>1. /\ pc = "idle" /\ pc' \in {"done", "rejected"} /\ frame = OldFrame
        /\ \/ frame' = frame
           \/ frame' = CopyRectangle(OldFrame, rect'.x, rect'.y,
                            rect'.w, rect'.h, [n \in Nat |-> Datum(n)])
    BY <1>1 DEF StartUltra, Begin, Picture, Placed
  <2>2. Within'
    BY <2>1, BeginWithin DEF CopyRectangle
  <2>3. QED
    BY <2>1, <2>2, EndPlaced DEF Loops
<1>2. CASE StartZlib \/ StartZRLE
  <2>1. /\ pc = "idle" /\ rect' \in Rects /\ frame' = frame
        /\ i' = 0 /\ j' = 0 /\ pc' \in {"inflate", "draw", "tiles"}
    BY <1>2 DEF StartZlib, StartZRLE, Begin
  <2>2. frame' = OldFrame
    BY <2>1 DEF Placed
  <2>3. Within'
    BY <2>1, <2>2, BeginWithin
  <2>4. rect' \in Wide => i' \in 0 .. rect'.w - 1 /\ j' \in 0 .. rect'.h - 1
    BY <2>1, WideFacts
  <2>5. QED
    BY <2>1, <2>3, <2>4 DEF Placed
<1>3. CASE InflatePortion
  <2>1. /\ pc = "inflate" /\ UNCHANGED <<rect, frame, i, j>>
        /\ pc' \in {"rejected", "space", "inflate", "draw", "tiles"}
    BY <1>3 DEF InflatePortion, header
  <2>2. /\ rect \in Rects
        /\ rect \in Wide => i \in 0 .. rect.w - 1 /\ j \in 0 .. rect.h - 1
    BY <2>1 DEF Placed, Loops
  <2>3. QED
    BY <2>1, <2>2 DEF Placed, Within, Loops
<1>4. CASE DrawZlib
  <2>1. /\ pc = "draw" /\ rect \in Rects /\ rect' = rect /\ pc' = "done"
    BY <1>4 DEF DrawZlib, Placed, Loops, header, Return
  <2>2. WritesOnly(rect.x, rect.y, rect.w, rect.h)
    BY <1>4 DEF DrawZlib, CopyRectangle, WritesOnly
  <2>3. /\ rect.x \in Int /\ rect.y \in Int /\ rect.w \in Int /\ rect.h \in Int
        /\ rect.x <= rect.x /\ rect.x + rect.w <= rect.x + rect.w
        /\ rect.y <= rect.y /\ rect.y + rect.h <= rect.y + rect.h
    BY <2>1, RectFacts
  <2>4. Within'
    BY <2>1, <2>2, <2>3, WriteWithin
  <2>5. QED
    BY <2>1, <2>4, EndPlaced DEF Loops
<1>5. CASE DrawTile
  <2>1. TilePlaced /\ rect' = rect
    BY <1>5 DEF DrawTile, Placed, TilePlaced, Loops, header
  <2>2. ZRLETileSize \in Nat /\ ZRLETileSize > 0
    BY RectanglesAssumption DEF RectanglesAssumption
  <2>3. \/ /\ WritesOnly(rect.x + i, rect.y + j,
                         TileWidth(ZRLETileSize), TileHeight(ZRLETileSize))
           /\ \E next : NextTile(ZRLETileSize, next)
        \/ Return /\ UNCHANGED frame
    BY <1>5 DEF DrawTile, WritesOnly
  <2>4. CASE Return /\ UNCHANGED frame
    BY <2>1, <2>4, EndPlaced DEF Return, Loops, Within
  <2>5. QED
    BY <2>1, <2>2, <2>3, <2>4, NextTilePlaced, TileWithin
<1>6. CASE NoTiles
  BY <1>6, EndPlaced DEF NoTiles, Return, Loops, Within, header
<1>7. QED
  BY <1>1, <1>2, <1>3, <1>4, <1>5, <1>6

(***************************************************************************)
(* Tight.  inflate gives no more bytes than the server put in, so the rows *)
(* that are full are rows of the rectangle.                                *)
(***************************************************************************)
LEMMA RowSizeNat ==
    ASSUME NEW w \in Nat, w > 0, NEW bits \in BitsPixel
    PROVE  RowSize(w, bits) \in Nat /\ RowSize(w, bits) > 0
BY DEF BitsPixel, RowSize

LEMMA RoomNat ==
    ASSUME NEW bits \in BitsPixel
    PROVE  Room(bits) \in Nat
<1> DEFINE n == (BufferSize * bits) \div (bits + 8 * BytesPerPixel)
<1>1. n \in Nat
  BY RectanglesAssumption, DivNat
  DEF BitsPixel, BytesPerPixel, RectanglesAssumption
<1>2. WordSize \in Nat /\ WordSize > 0
  BY RectanglesAssumption DEF RectanglesAssumption
<1> HIDE DEF n
<1>3. n % WordSize \in Nat /\ n % WordSize <= n
  BY <1>1, <1>2
<1>4. n - (n % WordSize) \in Nat
  BY <1>1, <1>3
<1>5. QED
  BY <1>4 DEF Room, n

\* An empty rectangle has no bytes, and those are not compressed.
LEMMA LongIsWide ==
    ASSUME NEW r \in Rects, NEW bits \in BitsPixel,
           ~(r.h * RowSize(r.w, bits) < MinToCompress)
    PROVE  r \in Wide
<1>1. r.w \in Nat /\ r.h \in Nat /\ MinToCompress \in Nat /\ 0 < MinToCompress
  BY RectFacts, RectanglesAssumption DEF RectanglesAssumption
<1>2. bits \in Nat /\ bits > 0
  BY DEF BitsPixel
<1>3. CASE r.w = 0
  <2>1. RowSize(r.w, bits) = 0
    BY <1>2, <1>3 DEF RowSize
  <2>2. r.h * RowSize(r.w, bits) = 0
    BY <1>1, <2>1
  <2>3. QED
    BY <1>1, <2>2
<1>4. CASE r.h = 0
  <2>1. RowSize(r.w, bits) \in Int
    BY <1>1, <1>2 DEF RowSize
  <2>2. r.h * RowSize(r.w, bits) = 0
    BY <1>4, <2>1
  <2>3. QED
    BY <1>1, <2>2
<1>5. QED
  BY <1>1, <1>3, <1>4, RectFacts

LEMMA TightStartPlaced ==
    Placed /\ Within /\ (TightFill \/ TightJpeg \/ TightBasic)
        => Placed' /\ Within'
<1> SUFFICES ASSUME Placed, Within, TightFill \/ TightJpeg \/ TightBasic
             PROVE  Placed' /\ Within'
  OBVIOUS
<1>1. CASE TightFill
  <2>1. pc = "idle" /\ pc' = "done"
    BY <1>1 DEF TightFill, TightControl, Begin, Return
  <2>2. PICK c : frame' = FillRectangle(OldFrame, rect'.x, rect'.y,
                                        rect'.w, rect'.h, Colour(c))
    BY <1>1 DEF TightFill
  <2>3. Within'
    BY <2>1, <2>2, BeginWithin DEF FillRectangle
  <2>4. QED
    BY <2>1, <2>3, EndPlaced DEF Loops
<1>2. CASE TightJpeg
  <2>1. /\ pc = "idle" /\ pc' = "done"
        /\ frame' = CopyRectangle(OldFrame, rect'.x, rect'.y, rect'.w, rect'.h,
                                  [n \in Nat |-> Datum(n)])
    BY <1>2 DEF TightJpeg, TightControl, Begin, Picture, Return
  <2>2. Within'
    BY <2>1, BeginWithin DEF CopyRectangle
  <2>3. QED
    BY <2>1, <2>2, EndPlaced DEF Loops
<1>3. CASE TightBasic
  <2>1. pc = "idle" /\ rect' \in Rects /\ i' = 0 /\ j' = 0
    BY <1>3 DEF TightBasic, Begin
  <2>2. frame = OldFrame
    BY <2>1 DEF Placed
  <2>3. PICK bits \in BitsPixel, id \in Streams, len \in 1 .. MaxCompressed :
            \/ pc' = "done" /\ frame' = Picture(rect')
            \/ pc' = "rejected" /\ UNCHANGED frame
            \/ /\ pc' = "portion" /\ UNCHANGED frame
               /\ job' = TightJob(rect', bits, id, len)
               /\ ~(rect'.h * RowSize(rect'.w, bits) < MinToCompress)
    BY ZenonT(60), <1>3 DEF TightBasic, Return
  <2>4. CASE pc' = "done" /\ frame' = Picture(rect')
    <3>1. frame' = CopyRectangle(OldFrame, rect'.x, rect'.y, rect'.w, rect'.h,
                                 [n \in Nat |-> Datum(n)])
      BY <2>4 DEF Picture
    <3>2. Within'
      BY <2>1, <3>1, BeginWithin DEF CopyRectangle
    <3>3. QED
      BY <2>4, <3>2, EndPlaced DEF Loops
  <2>5. CASE pc' = "rejected" /\ UNCHANGED frame
    BY <2>1, <2>2, <2>5, BeginWithin, EndPlaced DEF Loops
  <2>6. CASE pc' = "portion" /\ UNCHANGED frame
    <3> DEFINE rowSize == RowSize(rect'.w, bits)
    <3>1. /\ DOMAIN job' = DOMAIN NoJob
          /\ job'.total = rect'.h * rowSize /\ job'.rowSize = rowSize
          /\ job'.room = Room(bits) /\ job'.out = 0 /\ job'.extra = 0
      BY <2>3, <2>6 DEF TightJob, NoJob
    <3>2. rect' \in Wide /\ rect'.w \in Nat /\ rect'.w > 0 /\ rect'.h \in Nat
      BY <2>1, <2>3, <2>6, LongIsWide, WideFacts
    <3>3. rowSize \in Nat /\ rowSize > 0 /\ Room(bits) \in Nat
      BY <3>2, RowSizeNat, RoomNat
    <3> HIDE DEF rowSize
    <3>4. j' \in 0 .. rect'.h /\ 0 = j' * rowSize + 0
      BY <2>1, <3>2, <3>3
    <3>5. RowsPlaced'
      BY <2>1, <3>1, <3>3, <3>4 DEF RowsPlaced
    <3>6. Within'
      BY <2>1, <2>2, <2>6, BeginWithin
    <3>7. QED
      BY <2>1, <2>6, <3>2, <3>5, <3>6 DEF Placed
  <2>7. QED
    BY <2>3, <2>4, <2>5, <2>6
<1>4. QED
  BY <1>1, <1>2, <1>3

LEMMA TightDataPlaced ==
    Placed /\ Within /\ (TightPortion \/ TightRows) => Placed' /\ Within'
<1> SUFFICES ASSUME Placed, Within, TightPortion \/ TightRows
             PROVE  Placed' /\ Within'
  OBVIOUS
<1>1. CASE TightPortion
  <2>1. /\ pc = "portion" /\ UNCHANGED <<rect, frame, i, j>>
        /\ rect \in Wide /\ rect \in Rects /\ RowsPlaced
    BY <1>1 DEF TightPortion, header, Placed, Loops
  <2>2. Within'
    BY <2>1 DEF Within
  <2>3. \/ pc' = "rows" /\ \E l, a : job' = [job EXCEPT !.left = l, !.avail = a]
        \/ pc' \in {"rejected", "done"}
    BY <1>1 DEF TightPortion, Return
  <2>4. CASE pc' \in {"rejected", "done"}
    BY <2>2, <2>4, EndPlaced DEF Loops
  <2>5. CASE pc' = "rows" /\ \E l, a : job' = [job EXCEPT !.left = l, !.avail = a]
    <3>1. /\ DOMAIN job' = DOMAIN job
          /\ job'.rowSize = job.rowSize /\ job'.out = job.out
          /\ job'.extra = job.extra /\ job'.room = job.room
          /\ job'.total = job.total
      BY <2>5
    <3>2. RowsPlaced'
      BY <2>1, <3>1 DEF RowsPlaced
    <3>3. QED
      BY <2>1, <2>2, <2>5, <3>2 DEF Placed
  <2>6. QED
    BY <2>3, <2>4, <2>5
<1>2. CASE TightRows
  <2>1. /\ pc = "rows" /\ UNCHANGED <<rect, i>> /\ RowsPlaced
        /\ rect \in Wide /\ rect \in Rects
    BY <1>2 DEF TightRows, header, Placed, Loops
  <2>2. PICK n \in 0 .. job.avail, m \in 0 .. job.room - job.extra :
            /\ job.out + m <= job.total
            /\ \/ /\ pc' = "portion" /\ job' = [job EXCEPT !.avail = 0]
                  /\ UNCHANGED <<frame, j>>
               \/ DrawRows(n, m)
    BY <1>2, Zenon DEF TightRows, Inflate
  <2>3. /\ rect.x \in Nat /\ rect.y \in Nat /\ rect.w \in Nat /\ rect.h \in Nat
    BY <2>1, WideFacts
  <2>4. CASE /\ pc' = "portion" /\ job' = [job EXCEPT !.avail = 0]
             /\ UNCHANGED <<frame, j>>
    <3>1. /\ DOMAIN job' = DOMAIN job
          /\ job'.rowSize = job.rowSize /\ job'.out = job.out
          /\ job'.extra = job.extra /\ job'.room = job.room
          /\ job'.total = job.total
      BY <2>4
    <3>2. RowsPlaced'
      BY <2>1, <2>4, <3>1 DEF RowsPlaced
    <3>3. QED
      BY <2>1, <2>4, <3>2 DEF Placed, Within
  <2>5. CASE DrawRows(n, m)
    <3> DEFINE numRows == NumRows(m)
    <3>0. /\ pc' \in {"rows", "portion"}
          /\ \E buffer : job' = [job EXCEPT
                 !.out = @ + m, !.avail = @ - n,
                 !.extra = Extra(m), !.buffer = buffer]
          /\ WritesOnly(rect.x, rect.y + j, rect.w, NumRows(m))
          /\ j' = j + NumRows(m)
      BY <2>5 DEF DrawRows, CopyRectangle, WritesOnly
    <3>1. /\ DOMAIN job' = DOMAIN job
          /\ job'.rowSize = job.rowSize /\ job'.room = job.room
          /\ job'.total = job.total
      BY <3>0
    <3>2. /\ job'.out = job.out + m
          /\ job'.extra = Extra(m)
      BY <2>1, <3>0 DEF RowsPlaced, NoJob
    <3>3. /\ m \in Nat /\ job.extra + m <= job.room /\ job.extra + m \in Nat
          /\ j \in Nat
      BY <2>1, <2>3 DEF RowsPlaced
    <3>4. numRows \in Nat
      BY <2>1, <3>3, DivNat DEF RowsPlaced, NumRows
    <3>5. /\ job.extra \in Nat /\ job.room \in Nat /\ job.out \in Nat
          /\ job.rowSize \in Nat /\ job.rowSize > 0
          /\ job.out = j * job.rowSize + job.extra
          /\ job.out + m <= rect.h * job.rowSize
          /\ numRows = (job.extra + m) \div job.rowSize
          /\ Extra(m) = job.extra + m - numRows * job.rowSize
      BY <2>1, <2>2 DEF RowsPlaced, NumRows, Extra
    <3> HIDE DEF numRows
    <3>6. /\ j + numRows \in 0 .. rect.h
          /\ Extra(m) \in Nat /\ Extra(m) <= job.room
          /\ job.out + m = (j + numRows) * job.rowSize + Extra(m)
      <4> DEFINE c == job.rowSize
      <4>1. numRows * c <= job.extra + m /\ numRows * c \in Nat
        BY <3>3, <3>4, <3>5, DivNat
      <4>2. (j + numRows) * c = j * c + numRows * c /\ j * c \in Nat
        BY <3>3, <3>4, <3>5, Distribute
      <4>3. /\ Extra(m) \in Nat /\ Extra(m) <= job.room
            /\ job.out + m = (j + numRows) * c + Extra(m)
        BY <3>3, <3>5, <4>1, <4>2
      <4>4. (j + numRows) * c <= rect.h * c
        <5>1. (j + numRows) * c \in Nat /\ rect.h * c \in Nat
          BY <2>3, <3>3, <3>4, <3>5
        <5>2. QED
          BY <3>3, <3>5, <4>3, <5>1
      <4>5. j + numRows <= rect.h /\ j + numRows \in Nat
        <5> DEFINE t == j + numRows
                   h == rect.h
        <5>1. /\ t \in Nat /\ h \in Nat /\ c \in Nat /\ c > 0
              /\ t * c <= h * c
          BY <2>3, <3>3, <3>4, <3>5, <4>4
        <5> HIDE DEF t, h, c
        <5>2. t <= h
          BY <5>1, RowsFit
        <5>3. QED
          BY <5>1, <5>2 DEF t, h
      <4>6. QED
        BY <2>3, <4>3, <4>5
    <3>7. RowsPlaced'
      <4>1. job'.out = j' * job'.rowSize + job'.extra
        BY <3>0, <3>1, <3>2, <3>6 DEF numRows
      <4>2. job'.total = rect'.h * job'.rowSize
        BY <2>1, <3>1 DEF RowsPlaced
      <4>3. /\ i' = 0 /\ j' \in 0 .. rect'.h
            /\ DOMAIN job' = DOMAIN NoJob
        BY <2>1, <3>0, <3>1, <3>6 DEF RowsPlaced, numRows
      <4>4. /\ job'.rowSize \in Nat /\ job'.rowSize > 0
            /\ job'.out \in Nat /\ job'.extra \in Nat /\ job'.room \in Nat
            /\ job'.extra <= job'.room
        BY <3>1, <3>2, <3>3, <3>5, <3>6
      <4>5. QED
        BY <4>1, <4>2, <4>3, <4>4 DEF RowsPlaced
    <3>8. Within'
      <4>1. /\ rect.y + j \in Int /\ rect.y <= rect.y + j
            /\ rect.y + j + numRows <= rect.y + rect.h
            /\ rect.x <= rect.x /\ rect.x + rect.w <= rect.x + rect.w
        BY <2>3, <3>3, <3>4, <3>6
      <4>2. QED
        BY <2>1, <2>3, <3>0, <3>4, <4>1, WriteWithin DEF numRows
    <3>9. QED
      BY <2>1, <3>0, <3>7, <3>8 DEF Placed
  <2>6. QED
    BY <2>2, <2>4, <2>5
<1>3. QED
  BY <1>1, <1>2

LEMMA PlacedStep == Placed /\ Within /\ [Next]_vars => Placed' /\ Within'
<1> SUFFICES ASSUME Placed, Within, [Next]_vars
             PROVE  Placed' /\ Within'
  OBVIOUS
<1>1. CASE NextRect \/ NewClient
  <2>1. pc' = "idle" /\ frame' = OldFrame
    BY <1>1 DEF NextRect, NewClient, Rest
  <2>2. QED
    BY <2>1 DEF Placed, Within, OldFrame, Loops
<1>2. CASE Cut
  <2>1. pc' = "cut" /\ UNCHANGED <<rect, frame>>
    BY <1>2 DEF Cut, header
  <2>2. QED
    BY <2>1, EndPlaced DEF Within, Loops
<1>3. CASE UNCHANGED vars \/ Spin
  BY <1>3 DEF vars, header, Spin, Placed, RowsPlaced, Within
<1>4. QED
  BY <1>1, <1>2, <1>3, RawPlaced, CopyPlaced, SubrectsPlaced, HextilePlaced,
     InflatePlaced, TightStartPlaced, TightDataPlaced DEF Next

\* No decoder of rfbproto.c writes outside the rectangle whose header it was
\* given, at any moment, however its data are cut into portions, and when it
\* fails: pixels the server has not addressed are never touched.
THEOREM WithinRectangle == Spec => []Within
<1>1. Init => Placed /\ Within
  BY PlacedStart
<1>2. Placed /\ Within /\ [Next]_vars => (Placed /\ Within)'
  BY PlacedStep
<1>3. QED
  BY <1>1, <1>2, PTL DEF Spec
=============================================================================
