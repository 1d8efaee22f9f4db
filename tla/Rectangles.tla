------------------------------ MODULE Rectangles ------------------------------
(***************************************************************************)
(* The decoders of rectangles: the switch over encodings of               *)
(* HandleRFBServerMessage (src/src/libvncclient/rfbproto.c) and rre.c,     *)
(* corre.c, hextile.c, ultra.c, zlib.c, zrle.c and tight.c beside it.      *)
(*                                                                         *)
(* A rectangle is decoded into a frame whose pixels are known by what they *)
(* show: what was there before the rectangle, the n-th pixel of its data,  *)
(* or a colour.  Each rectangle starts from a frame of old pixels, so that *)
(* a session of any number of rectangles has finitely many states.  What   *)
(* lives longer than a rectangle is kept: the inflaters, raw_buffer.       *)
(*                                                                         *)
(* The server is the environment.  It follows the comments of              *)
(* rfb/rfbproto.h; where they leave open whether a foreground survives a   *)
(* hextile with coloured subrectangles, it states the colour again.        *)
(* Pixels have 16 bits, the format of all encodings but copyrect, hextile  *)
(* and raw.  zlib is modelled by the order and the number of the bytes it  *)
(* takes and gives, libjpeg and lzo by their results.                      *)
(***************************************************************************)
EXTENDS Integers, FiniteSets, FiniteSetsExt

CONSTANTS Width, Height,   \* of the frame
          HextileSize,     \* 16
          ZRLETileSize,    \* 64
          BufferSize,      \* RFB_BUFFER_SIZE
          ZlibBufferSize,  \* ZLIB_BUFFER_SIZE
          MinToCompress,   \* TIGHT_MIN_TO_COMPRESS
          WordSize,        \* alignment of the pixels in client->buffer, 4
          Streams,         \* of a tight session, 0 .. 3
          Depths,          \* of the formats a server may have, 15 and 16
          Colours,
          MaxSubrects,     \* bound: subrectangles of an RRE rectangle
          MaxSubrectSize,  \* bound: sides of a subrectangle of a hextile
          MaxCompressed    \* bound: bytes of the data of a tight rectangle

ASSUME RectanglesAssumption ==
    /\ Width \in Nat \ {0} /\ Height \in Nat \ {0}
    /\ HextileSize \in Nat \ {0} /\ ZRLETileSize \in Nat \ {0}
    /\ BufferSize \in Nat /\ BufferSize >= 2 * Width
    /\ WordSize \in Nat \ {0} /\ ZlibBufferSize \in Nat \ {0}
    /\ MinToCompress \in Nat \ {0}
    /\ Depths \subseteq {15, 16} /\ Depths # {}
    /\ MaxSubrects \in Nat /\ MaxSubrectSize \in Nat
    /\ MaxCompressed \in Nat

VARIABLES
    pc,        \* the loop the handler is in, or the way it ended
    encoding, rect, \* the rectangle's header
    frame,     \* frameBuffer: what each pixel shows
    i, j,      \* column and row a loop has come to
    source,    \* where a CopyRect copies from
    job,       \* the other variables of a handler
    rawSize,   \* raw_buffer_size, -1 before there is a buffer
    shared,    \* the encoding decompStream was begun with, "none" before
    inflater,  \* zlibStreamActive
    \* the server
    meant,     \* what the pixels are to show
    deflater,  \* whether it has used a stream of the tight encoding
    depth      \* of its own pixel format

vars == <<pc, encoding, rect, frame, i, j, source, job, rawSize, shared,
          inflater, meant, deflater, depth>>
header == <<encoding, rect>>
session == <<rawSize, shared, inflater, deflater, depth>>

Pixels    == (0 .. Width - 1) \X (0 .. Height - 1)
Old(p)    == <<"old", p[1], p[2]>>
Datum(n)  == <<"datum", n, 0>>
Colour(c) == <<"colour", c, 0>>
Junk      == <<"junk", 0, 0>>
Solid     == Datum(-1)  \* the colour of a tile that has only one

OldFrame == [p \in Pixels |-> Old(p)]

In(p, x, y, w, h) == /\ x <= p[1] /\ p[1] < x + w
                     /\ y <= p[2] /\ p[2] < y + h

Min2(a, b) == IF a < b THEN a ELSE b
Max2(a, b) == IF a < b THEN b ELSE a

BytesPerPixel == 2

\* Headers of rectangles in the frame, without the encoding, and those of
\* rectangles with pixels.
Rects == {r \in [x : 0 .. Width - 1, y : 0 .. Height - 1,
                 w : 0 .. Width, h : 0 .. Height] :
             r.x + r.w <= Width /\ r.y + r.h <= Height}
Wide  == {r \in Rects : r.w > 0 /\ r.h > 0}

Encodings == {"raw", "copyrect", "rre", "corre", "hextile", "zlib", "zrle",
              "tight", "ultra"}

NoRect == [x |-> 0, y |-> 0, w |-> 0, h |-> 0]
Loops  == {"raw", "copy", "subrects", "hextile", "inflate", "draw", "tiles",
           "portion", "rows"}

\* Handlers that gave up, or a step that has no end or ends the application.
Failed == {"cut", "rejected", "space", "spins", "crashed"}

NoJob ==
    [left |-> 0,      \* remaining, compressedLen or subrectangles to come
     out |-> 0,       \* bytes the inflater has given for this rectangle
     total |-> 0,     \* bytes the server has put in
     bg |-> Junk, fg |-> Junk, \* of hextile.c, Junk before they are read
     lastBg |-> Junk, lastFg |-> Junk, \* the server's, Junk for none
     tiles |-> << >>, \* kinds of the ZRLE tiles
     at |-> 0,        \* bytes of raw_buffer the tiles have used
     due |-> 0,       \* and bytes the server wrote for them
     stream |-> 0,    \* stream_id
     rowSize |-> 0,   \* bytes of a row
     room |-> 0,      \* bufferSize
     avail |-> 0,     \* avail_in
     extra |-> 0,     \* extraBytes
     buffer |-> << >>] \* client->buffer: bytes by their number, 0 for none

Init ==
    /\ pc = "idle"
    /\ encoding = "none" /\ rect = NoRect
    /\ frame = OldFrame
    /\ i = 0 /\ j = 0
    /\ source = <<0, 0>>
    /\ job = NoJob
    /\ rawSize = -1
    /\ shared = "none"
    /\ inflater = [s \in Streams |-> FALSE]
    /\ meant = OldFrame
    /\ deflater = [s \in Streams |-> FALSE]
    /\ depth \in Depths

-----------------------------------------------------------------------------
(* What the handlers draw with.                                            *)

FillRectangle(f, x, y, w, h, colour) ==
    [p \in Pixels |-> IF In(p, x, y, w, h) THEN colour ELSE f[p]]

\* data is what CopyRectangle reads from its buffer, pixel by pixel.
CopyRectangle(f, x, y, w, h, data) ==
    [p \in Pixels |-> IF In(p, x, y, w, h)
                      THEN data[(p[2] - y) * w + p[1] - x] ELSE f[p]]

\* The frame with the data of a rectangle in it, as the server means it.
Picture(r) ==
    CopyRectangle(OldFrame, r.x, r.y, r.w, r.h, [n \in Nat |-> Datum(n)])

Begin(e) ==
    /\ pc = "idle"
    /\ encoding' = e
    /\ rect' \in Rects
    /\ i' = 0 /\ j' = 0

Return ==
    /\ pc' = "done"
    /\ job' = NoJob

-----------------------------------------------------------------------------
(* Raw: as many lines at a time as fit the buffer.                         *)

LinesToRead(w) == BufferSize \div (w * BytesPerPixel)

\* Without columns a division by zero: a signal where the processor traps it,
\* zero on ARM.  Without lines the loop is not entered.
StartRaw ==
    /\ Begin("raw")
    /\ \/ rect'.w = 0 /\ pc' = "crashed"
       \/ pc' = IF rect'.h = 0 THEN "done"
                ELSE IF rect'.w = 0 THEN "spins" ELSE "raw"
    /\ meant' = Picture(rect')
    /\ UNCHANGED <<frame, source, job, session>>

RawLines ==
    /\ pc = "raw"
    /\ LET n == Min2(LinesToRead(rect.w), rect.h - j)
       IN /\ frame' = CopyRectangle(frame, rect.x, rect.y + j, rect.w, n,
                                    [k \in Nat |-> Datum(j * rect.w + k)])
          /\ j' = j + n
          /\ IF j + n < rect.h THEN UNCHANGED <<pc, job>> ELSE Return
    /\ UNCHANGED <<header, i, source, session, meant>>

-----------------------------------------------------------------------------
(* CopyRect: CopyRectangleFromRectangle copies pixel by pixel, in an order *)
(* that depends on where the source lies.  GotCopyRect is not set.         *)

\* Mutation: the order of the columns is taken from the rows.
RightwardsAlike(d, s) == d[2] < s[2]

Downwards(d, s)  == d[2] < s[2]
Rightwards(d, s) == d[1] < s[1]

\* Mutation: the column after the last.
LastColumnPassed(d, s, w) == IF Rightwards(d, s) THEN d[1] ELSE d[1] + w

FirstColumn(d, s, w) == IF Rightwards(d, s) THEN d[1] ELSE d[1] + w - 1
FirstRow(d, s, h)    == IF Downwards(d, s) THEN d[2] ELSE d[2] + h - 1

StartCopyRect ==
    /\ pc = "idle"
    /\ \E r \in Rects, s \in Pixels :
          LET d == <<r.x, r.y>>
          IN /\ s[1] + r.w <= Width /\ s[2] + r.h <= Height
             /\ encoding' = "copyrect"
             /\ rect' = r
             /\ source' = s
             /\ IF r \in Wide
                THEN /\ pc' = "copy"
                     /\ i' = FirstColumn(d, s, r.w)
                     /\ j' = FirstRow(d, s, r.h)
                ELSE pc' = "done" /\ i' = 0 /\ j' = 0
             /\ meant' = [p \in Pixels |->
                    IF In(p, r.x, r.y, r.w, r.h)
                    THEN Old(<<p[1] - r.x + s[1], p[2] - r.y + s[2]>>)
                    ELSE Old(p)]
    /\ UNCHANGED <<frame, job, session>>

CopyPixel ==
    /\ pc = "copy"
    /\ LET d == <<rect.x, rect.y>>
           s == source
           nextI == IF Rightwards(d, s) THEN i + 1 ELSE i - 1
           nextJ == IF Downwards(d, s) THEN j + 1 ELSE j - 1
           inRow == nextI \in d[1] .. d[1] + rect.w - 1
           more  == nextJ \in d[2] .. d[2] + rect.h - 1
       IN /\ frame' = [frame EXCEPT ![<<i, j>>] =
                           frame[<<i - d[1] + s[1], j - d[2] + s[2]>>]]
          /\ i' = IF inRow THEN nextI ELSE FirstColumn(d, s, rect.w)
          /\ j' = IF inRow THEN j ELSE nextJ
          /\ IF inRow \/ more THEN UNCHANGED <<pc, job>> ELSE Return
    /\ UNCHANGED <<header, source, session, meant>>

-----------------------------------------------------------------------------
(* RRE and CoRRE: a background and subrectangles on it, which may be empty. *)

DrawBackground ==
    /\ \E c \in Colours :
          LET r == rect'
              f == FillRectangle(OldFrame, r.x, r.y, r.w, r.h, Colour(c))
          IN frame' = f /\ meant' = f
    /\ UNCHANGED <<source, session>>

AwaitSubrects(n) ==
    IF n = 0 THEN Return
    ELSE pc' = "subrects" /\ job' = [NoJob EXCEPT !.left = n]

StartRRE ==
    /\ Begin("rre")
    /\ DrawBackground
    /\ \E n \in 0 .. MaxSubrects : AwaitSubrects(n)

\* All subrectangles are read into the buffer, or cut, before the first is
\* drawn.  Nothing but the server keeps them from being too many for it.
StartCoRRE ==
    /\ Begin("corre")
    /\ DrawBackground
    /\ \E n \in 0 .. MaxSubrects :
          /\ n * (4 + BytesPerPixel) <= BufferSize
          /\ \/ AwaitSubrects(n)
             \/ n > 0 /\ pc' = "cut" /\ job' = NoJob

Subrect ==
    /\ pc = "subrects"
    /\ \E c \in Colours, r \in Rects :
          /\ r.x + r.w <= rect.w /\ r.y + r.h <= rect.h
          /\ frame' = FillRectangle(frame, rect.x + r.x, rect.y + r.y,
                                    r.w, r.h, Colour(c))
          /\ meant' = [p \in Pixels |->
                 IF In(<<p[1] - rect.x, p[2] - rect.y>>,
                       r.x, r.y, r.w, r.h)
                 THEN Colour(c) ELSE meant[p]]
    /\ IF job.left = 1 THEN Return
       ELSE pc' = pc /\ job' = [job EXCEPT !.left = @ - 1]
    /\ UNCHANGED <<header, i, j, source, session>>

-----------------------------------------------------------------------------
(* Tiles, from the left to the right and from the top to the bottom.       *)

\* Mutation: the last tile of a row is not cut.
UncutTileWidth(size) == size

TileWidth(size)  == Min2(size, rect.w - i)
TileHeight(size) == Min2(size, rect.h - j)

\* next is the handler's state if there is another tile.
NextTile(size, next) ==
    IF i + size < rect.w
    THEN i' = i + size /\ j' = j /\ pc' = pc /\ job' = next
    ELSE IF j + size < rect.h
    THEN i' = 0 /\ j' = j + size /\ pc' = pc /\ job' = next
    ELSE i' = 0 /\ j' = 0 /\ Return

\* Pixel n of a tile of width w, as a pixel of the rectangle.
TileDatum(n, w) == Datum((j + n \div w) * rect.w + i + (n % w))

StartHextile ==
    /\ Begin("hextile")
    /\ pc' = IF rect' \in Wide THEN "hextile" ELSE "done"
    /\ job' = NoJob
    /\ UNCHANGED <<frame, source, session, meant>>

\* A colour of the subencoding's, or Junk where the bit is not set.
Specified(colour, before) == IF colour = Junk THEN before ELSE colour

HextileRaw ==
    /\ pc = "hextile"
    /\ LET x == rect.x + i
           y == rect.y + j
           w == TileWidth(HextileSize)
           h == TileHeight(HextileSize)
       IN /\ frame' = CopyRectangle(frame, x, y, w, h,
                                    [n \in Nat |-> TileDatum(n, w)])
          /\ meant' = [p \in Pixels |->
                 IF In(p, x, y, w, h) THEN Picture(rect)[p] ELSE meant[p]]
    /\ NextTile(HextileSize, job)
    /\ UNCHANGED <<header, source, session>>

\* A tile with its specified colours and one subrectangle, which has colour c,
\* Junk if it is not coloured.
PaintTile(b, f, c, sub) ==
    LET x == rect.x + i
        y == rect.y + j
        w == TileWidth(HextileSize)
        h == TileHeight(HextileSize)
        bg == Specified(b, job.bg)
        fg == Specified(c, Specified(f, job.fg))
        serverBg == Specified(b, job.lastBg)
        serverFg == Specified(c, Specified(f, job.lastFg))
    IN /\ serverBg # Junk
       /\ sub # NoRect => serverFg # Junk
       /\ c # Junk => sub # NoRect /\ f = Junk
       /\ frame' = FillRectangle(FillRectangle(frame, x, y, w, h, bg),
                       x + sub.x, y + sub.y, sub.w, sub.h, fg)
       /\ meant' = [p \in Pixels |->
              IF In(<<p[1] - x, p[2] - y>>, sub.x, sub.y, sub.w, sub.h)
              THEN serverFg
              ELSE IF In(p, x, y, w, h) THEN serverBg ELSE meant[p]]
       /\ NextTile(HextileSize,
              [job EXCEPT !.bg = bg, !.fg = fg, !.lastBg = serverBg,
                          !.lastFg = IF c # Junk THEN Junk ELSE serverFg])

HextileTile ==
    /\ pc = "hextile"
    /\ \E b, f, c \in {Junk} \union {Colour(k) : k \in Colours},
          sub \in {NoRect} \union
                 {r \in Wide : /\ r.w <= MaxSubrectSize
                               /\ r.h <= MaxSubrectSize
                               /\ r.x + r.w <= TileWidth(HextileSize)
                               /\ r.y + r.h <= TileHeight(HextileSize)} :
          PaintTile(b, f, c, sub)
    /\ UNCHANGED <<header, source, session>>

-----------------------------------------------------------------------------
(* zlib.  n bytes of the data, whose last is sent last, become m bytes:    *)
(* inflate stops when it has no byte left or no room, and what it took     *)
(* becomes output unless there is no room for it.  The data are flushed:   *)
(* with their last byte all of the output can be had.                      *)

Inflate(n, m, avail, room, more) ==
    /\ n \in 0 .. avail
    /\ m \in 0 .. room
    /\ job.out + m <= job.total
    /\ n < avail => m = room /\ job.out + m < job.total
    /\ ~more /\ n = avail /\ m < room => job.out + m = job.total

Align4(n) == n + ((4 - (n % 4)) % 4)

\* lzo gives the whole of the rectangle at once.  The data of no pixels may be
\* no bytes, or the end mark of lzo, which is refused.
StartUltra ==
    /\ Begin("ultra")
    /\ IF rect' \in Wide
       THEN LET size == rect'.w * rect'.h * BytesPerPixel
            IN /\ rawSize' = IF rawSize < size THEN Align4(size) ELSE rawSize
               /\ frame' = Picture(rect')
               /\ pc' = "done"
       ELSE pc' \in {"done", "rejected"} /\ UNCHANGED <<rawSize, frame>>
    /\ meant' = Picture(rect')
    /\ job' = NoJob
    /\ UNCHANGED <<source, shared, inflater, deflater, depth>>

\* Lengths of the data of zlib and zrle: a flush, if anything, for no pixels.
DataLengths(r) == {1, BufferSize + 1} \union (IF r \in Wide THEN {} ELSE {0})

StartZlib ==
    /\ Begin("zlib")
    /\ LET size == rect'.w * rect'.h * BytesPerPixel
       IN /\ rawSize' = Max2(rawSize, size)
          /\ \E len \in DataLengths(rect') :
                /\ job' = [NoJob EXCEPT !.left = len, !.total = size]
                /\ pc' = IF len > 0 THEN "inflate" ELSE "draw"
    /\ shared' = IF shared = "none" THEN "zlib" ELSE shared
    /\ meant' = Picture(rect')
    /\ UNCHANGED <<frame, source, inflater, deflater, depth>>

\* REALBPP / 8: 15 bits count as one byte.
CPixel == depth \div 8

\* Mutation: the data are taken to be no longer than the pixels.
UnpaddedSize(w, h) == w * h * CPixel

MinBufferSize(w, h) == w * h * CPixel * 2

TileKinds == {"raw", "solid", "palette", "rle", "paletteRle"}

\* The length of a tile whose pixels take c bytes.  Palettes have two colours,
\* and the runs of a tile are one.
TileBytes(kind, w, h, c) ==
    CASE kind = "raw"        -> 1 + w * h * c
      [] kind = "solid"      -> 1 + c
      [] kind = "palette"    -> 1 + 2 * c + ((w + 7) \div 8) * h
      [] kind = "rle"        -> 1 + c + 1
      [] kind = "paletteRle" -> 1 + 2 * c + 2

ZRLETiles(r) == {p \in Pixels : /\ p[1] < r.w /\ p[1] % ZRLETileSize = 0
                                /\ p[2] < r.h /\ p[2] % ZRLETileSize = 0}

\* What a server writes, and whether it would: no form longer than raw pixels.
Written(r, t, kind) == TileBytes(kind, Min2(ZRLETileSize, r.w - t[1]),
                                 Min2(ZRLETileSize, r.h - t[2]), BytesPerPixel)

ZRLEPicture(r, kinds) ==
    [p \in Pixels |->
        LET t == <<p[1] - r.x - ((p[1] - r.x) % ZRLETileSize),
                   p[2] - r.y - ((p[2] - r.y) % ZRLETileSize)>>
        IN IF In(p, r.x, r.y, r.w, r.h) /\ kinds[t] = "solid"
           THEN Solid ELSE Picture(r)[p]]

StartZRLE ==
    /\ Begin("zrle")
    /\ LET r == rect'
       IN /\ rawSize' = Max2(rawSize, MinBufferSize(r.w, r.h))
          /\ \E len \in DataLengths(r),
                kinds \in [ZRLETiles(r) -> TileKinds] :
             /\ \A t \in ZRLETiles(r) :
                   Written(r, t, kinds[t]) <= Written(r, t, "raw")
             /\ job' = [NoJob EXCEPT !.left = len, !.tiles = kinds,
                           !.total = MapThenSumSet(
                               LAMBDA t : Written(r, t, kinds[t]),
                               ZRLETiles(r))]
             /\ meant' = ZRLEPicture(r, kinds)
             /\ pc' = IF len > 0 THEN "inflate" ELSE "tiles"
    /\ shared' = IF shared = "none" THEN "zrle" ELSE shared
    /\ UNCHANGED <<frame, source, inflater, deflater, depth>>

\* zlib and zrle have one decompStream, a server a stream for each: data of the
\* other encoding are an error.
InflatePortion ==
    /\ pc = "inflate"
    /\ LET toRead == Min2(job.left, BufferSize)
           room   == rawSize - job.out
       IN IF shared # encoding
          THEN pc' = "rejected" /\ job' = NoJob
          ELSE \E n \in {toRead - 1, toRead}, m \in 0 .. room :
                 /\ Inflate(n, m, toRead, room, job.left > toRead)
                 /\ IF n < toRead
                    THEN pc' = "space" /\ job' = NoJob
                    ELSE /\ pc' = IF job.left > toRead THEN "inflate"
                                  ELSE IF encoding = "zlib" THEN "draw"
                                  ELSE "tiles"
                         /\ job' = [job EXCEPT !.left = @ - toRead,
                                               !.out = @ + m]
    /\ UNCHANGED <<header, frame, i, j, source, session, meant>>

DrawZlib ==
    /\ pc = "draw"
    /\ frame' = CopyRectangle(frame, rect.x, rect.y, rect.w, rect.h,
                    [n \in Nat |-> IF (n + 1) * BytesPerPixel <= job.out
                                   THEN Datum(n) ELSE Junk])
    /\ Return
    /\ UNCHANGED <<header, i, j, source, session, meant>>

\* Pixels of one byte are read two bytes at a time, and the next tile is looked
\* for before its place.  A tile that makes no sense ends the rectangle, which
\* is reported as handled.
DrawTile ==
    /\ pc = "tiles" /\ rect \in Wide
    /\ LET w == TileWidth(ZRLETileSize)
           h == TileHeight(ZRLETileSize)
           kind == job.tiles[<<i, j>>]
           right == /\ job.at = job.due
                    /\ CPixel = BytesPerPixel \/ kind = "solid"
           shown == ZRLEPicture(rect, job.tiles)
       IN \/ /\ frame' = [p \in Pixels |->
                    IF In(p, rect.x + i, rect.y + j, w, h)
                    THEN IF right THEN shown[p] ELSE Junk
                    ELSE frame[p]]
             /\ NextTile(ZRLETileSize,
                    [job EXCEPT !.at = @ + TileBytes(kind, w, h, CPixel),
                        !.due = @ + TileBytes(kind, w, h, BytesPerPixel)])
          \/ /\ ~right
             /\ Return
             /\ UNCHANGED <<frame, i, j>>
    /\ UNCHANGED <<header, source, session, meant>>

\* The loops over tiles of an empty rectangle.
NoTiles ==
    /\ pc = "tiles" /\ rect \notin Wide
    /\ Return
    /\ UNCHANGED <<header, frame, i, j, source, session, meant>>

-----------------------------------------------------------------------------
(* Tight: control bits that end streams, then a colour, a JPEG, or rows of *)
(* pixels or palette indices, compressed unless they are short.            *)

\* Mutation: streams are not ended before a rectangle without compressed data.
FlushedIfUsed(active, ended, basic) ==
    [s \in Streams |-> active[s] /\ ~(basic /\ s \in ended)]

\* basic tells rectangles with pixels or indices from colours and JPEGs.
Flushed(active, ended, basic) ==
    [s \in Streams |-> active[s] /\ s \notin ended]

BitsPixel == {1, 8, 16}  \* two colours, a palette, pixels

Room(bits) == LET n == (BufferSize * bits) \div (bits + 8 * BytesPerPixel)
              IN n - (n % WordSize)

\* The control byte of a rectangle without a stream of its own.
TightControl ==
    /\ Begin("tight")
    /\ \E ended \in SUBSET Streams :
          /\ inflater' = Flushed(inflater, ended, FALSE)
          /\ deflater' = [s \in Streams |-> deflater[s] /\ s \notin ended]
    /\ UNCHANGED <<source, rawSize, shared, depth>>

TightFill ==
    /\ TightControl
    /\ \E c \in Colours : frame' = FillRectangle(OldFrame, rect'.x, rect'.y,
                                               rect'.w, rect'.h, Colour(c))
    /\ meant' = frame'
    /\ Return

\* The pixels are drawn row by row from libjpeg's, whose images are not empty.
TightJpeg ==
    /\ TightControl
    /\ rect' \in Wide
    /\ frame' = Picture(rect')
    /\ meant' = frame'
    /\ Return

RowSize(w, bits) == (w * bits + 7) \div 8

\* A row of the widest frame, of 65535 pixels, fits client->buffer.
ASSUME RowsAssumption ==
    \A w \in 1 .. Width, bits \in BitsPixel : RowSize(w, bits) <= Room(bits)

TightJob(r, bits, id, len) ==
    [NoJob EXCEPT !.left = len, !.total = r.h * RowSize(r.w, bits),
                  !.stream = id, !.rowSize = RowSize(r.w, bits),
                  !.room = Room(bits),
                  !.buffer = [k \in 1 .. Room(bits) |-> 0]]

TightBasic ==
    /\ Begin("tight")
    /\ \E ended \in SUBSET Streams, bits \in BitsPixel, id \in Streams,
          len \in 1 .. MaxCompressed :
       LET r == rect'
           rowSize == RowSize(r.w, bits)
           active  == Flushed(inflater, ended, TRUE)
           used    == [s \in Streams |-> deflater[s] /\ s \notin ended]
       IN IF r.h * rowSize < MinToCompress
          THEN /\ frame' = Picture(r)
               /\ inflater' = active
               /\ deflater' = used
               /\ Return
          ELSE /\ inflater' = [active EXCEPT ![id] = TRUE]
               /\ deflater' = [used EXCEPT ![id] = TRUE]
               /\ IF rowSize > Room(bits) \/ active[id] # used[id]
                  THEN pc' = "rejected" /\ job' = NoJob
                  ELSE /\ pc' = "portion"
                       /\ job' = TightJob(r, bits, id, len)
               /\ UNCHANGED frame
    /\ meant' = Picture(rect')
    /\ UNCHANGED <<source, rawSize, shared, depth>>

\* j is rowsProcessed.
TightPortion ==
    /\ pc = "portion"
    /\ IF job.left > 0
       THEN /\ pc' = "rows"
            /\ LET n == Min2(job.left, ZlibBufferSize)
               IN job' = [job EXCEPT !.left = @ - n, !.avail = n]
       ELSE IF j # rect.h THEN pc' = "rejected" /\ job' = NoJob
       ELSE Return
    /\ UNCHANGED <<header, frame, i, j, source, session, meant>>

\* The row whose bytes lie at offset o of a buffer, or -1 if none's do.
RowAt(bytes, o) ==
    LET first == bytes[o + 1]
    IN IF /\ first > 0
          /\ (first - 1) % job.rowSize = 0
          /\ \A k \in 1 .. job.rowSize : bytes[o + k] = first + k - 1
       THEN (first - 1) \div job.rowSize ELSE -1

\* The bytes of an unfinished row are moved to the front.
Moved(bytes, used, extra) ==
    [k \in DOMAIN bytes |-> IF k <= extra THEN bytes[used + k] ELSE 0]

NumRows(m) == (job.extra + m) \div job.rowSize
Extra(m)   == job.extra + m - NumRows(m) * job.rowSize

\* m more bytes: the rows that are full are drawn.
DrawRows(n, m) ==
    LET filled == job.extra + m
        bytes == [k \in 1 .. job.room |->
                     IF k \in job.extra + 1 .. filled
                     THEN job.out + k - job.extra ELSE job.buffer[k]]
        pixel == [k \in Nat |->
                     LET row == RowAt(bytes, (k \div rect.w) * job.rowSize)
                     IN IF row < 0 THEN Junk
                        ELSE Datum(row * rect.w + (k % rect.w))]
    IN /\ pc' = IF filled = job.room THEN "rows" ELSE "portion"
       /\ job' = [job EXCEPT
              !.out = @ + m, !.avail = @ - n, !.extra = Extra(m),
              !.buffer = Moved(bytes, NumRows(m) * job.rowSize, Extra(m))]
       /\ frame' = CopyRectangle(frame, rect.x, rect.y + j,
                                 rect.w, NumRows(m), pixel)
       /\ j' = j + NumRows(m)

\* Without progress inflate returns Z_BUF_ERROR.
TightRows ==
    /\ pc = "rows"
    /\ \E n \in 0 .. job.avail, m \in 0 .. job.room - job.extra :
          /\ Inflate(n, m, job.avail, job.room - job.extra, job.left > 0)
          /\ IF n = 0 /\ m = 0
             THEN /\ pc' = "portion"
                  /\ job' = [job EXCEPT !.avail = 0]
                  /\ UNCHANGED <<frame, j>>
             ELSE DrawRows(n, m)
    /\ UNCHANGED <<header, i, source, session, meant>>

-----------------------------------------------------------------------------

Rest ==
    /\ pc' = "idle"
    /\ encoding' = "none" /\ rect' = NoRect
    /\ frame' = OldFrame
    /\ meant' = OldFrame
    /\ i' = 0 /\ j' = 0
    /\ source' = <<0, 0>>
    /\ job' = NoJob

\* The next rectangle of this update or of a later one.
NextRect ==
    /\ pc = "done"
    /\ Rest
    /\ UNCHANGED session

\* Another session begins, with an rfbClient of its own.
NewClient ==
    /\ pc \in Failed \ {"spins"}
    /\ Rest
    /\ rawSize' = -1
    /\ shared' = "none"
    /\ inflater' = [s \in Streams |-> FALSE]
    /\ deflater' = [s \in Streams |-> FALSE]
    /\ depth' \in Depths

\* A read fails, where the handler reads.
Cut ==
    /\ \/ pc \in {"idle", "raw", "hextile", "inflate", "portion"}
       \/ pc = "subrects" /\ encoding = "rre"
    /\ pc' = "cut"
    /\ job' = NoJob
    /\ UNCHANGED <<header, frame, i, j, source, session, meant>>

\* The loop over lines, without a line in it.
Spin == pc = "spins" /\ UNCHANGED vars

Next ==
    \/ StartRaw \/ RawLines
    \/ StartCopyRect \/ CopyPixel
    \/ StartRRE \/ StartCoRRE \/ Subrect
    \/ StartHextile \/ HextileRaw \/ HextileTile
    \/ StartUltra
    \/ StartZlib \/ StartZRLE \/ InflatePortion \/ DrawZlib \/ DrawTile
    \/ NoTiles
    \/ TightFill \/ TightJpeg \/ TightBasic \/ TightPortion \/ TightRows
    \/ NextRect \/ Cut \/ Spin \/ NewClient

Spec == Init /\ [][Next]_vars

-----------------------------------------------------------------------------
(* Properties.                                                             *)

PixelValues ==
    {"old", "datum", "colour", "junk"} \X (Int \union Colours) \X Int

TypeOK ==
    /\ pc \in {"idle", "done"} \union Loops \union Failed
    /\ encoding \in Encodings \union {"none"}
    /\ rect \in Rects \union {NoRect}
    /\ frame \in [Pixels -> PixelValues]
    /\ i \in 0 .. Width - 1 /\ j \in -1 .. Height
    /\ source \in Pixels
    /\ rawSize \in Nat \union {-1}
    /\ shared \in {"none", "zlib", "zrle"}
    /\ inflater \in [Streams -> BOOLEAN]
    /\ meant \in [Pixels -> PixelValues]
    /\ deflater \in [Streams -> BOOLEAN]
    /\ depth \in {15, 16}

\* When a handler has returned TRUE, every pixel of the frame shows what the
\* server means: the rectangle is complete, its pixels are in their places
\* whatever portions they came in, and the others are untouched.  ZRLE of a
\* server whose own format has 15 bits is the exception.
PictureAsSent ==
    pc = "done" /\ ~(encoding = "zrle" /\ depth = 15) => frame = meant

\* No handler writes outside its rectangle, at any moment and whether or not it
\* succeeds.
Within ==
    \A p \in Pixels :
        ~In(p, rect.x, rect.y, rect.w, rect.h) => frame[p] = Old(p)

\* A stream of the tight encoding is active in the client just when the server
\* has used it since it last ended it, also after rectangles that need no zlib.
InflatersInStep == inflater = deflater

\* A handler gives up on what a server may send for four reasons only: zlib
\* after zrle or the other way round, an empty Ultra rectangle with data, ZRLE of
\* a format of 15 bits, a raw rectangle without columns.
NeverRejected ==
    /\ pc = "rejected" =>
          \/ shared \notin {"none", encoding} /\ encoding \in {"zlib", "zrle"}
          \/ encoding = "ultra" /\ rect \notin Wide
    /\ pc = "space" => encoding = "zrle" /\ depth = 15
    /\ pc \in {"crashed", "spins"} => encoding = "raw" /\ rect.w = 0

\* zrle.c:178: "Result buffer allocated to be at least large enough.  We should
\* never run out of space!"
NeverOutOfSpace == pc # "space"
=============================================================================
