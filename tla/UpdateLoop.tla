------------------------------ MODULE UpdateLoop ------------------------------
(***************************************************************************)
(* The life of a session on the wire: the client asks for updates, the     *)
(* server answers each request with rectangles when it has any, and        *)
(* HandleRFBServerMessage (src/src/libvncclient/rfbproto.c) decodes them   *)
(* and asks again.  On the way the desktop may get a new size, which makes *)
(* newclient (src/src/vncclientthread.cpp) choose the pixel format anew.   *)
(*                                                                         *)
(* The screen is a set of tiles, a picture the number of the change that   *)
(* drew it.  The server, which is not part of the repository, follows the  *)
(* comments of rfb/rfbproto.h.  Encodings of pixels are one kind of        *)
(* rectangle, CopyRect is another, pseudo encodings without an effect on   *)
(* the frame are a third.  A failed read or write ends the session; those  *)
(* and unknown messages are left out.                                      *)
(***************************************************************************)
EXTENDS Integers, Sequences, FiniteSets, SequencesExt

CONSTANTS Tiles,
          Qualities,   \* settings the user may choose between
          MaxChanges,  \* bound: changes of the screen
          MaxResizes   \* bound: new sizes of the desktop

ASSUME UpdateAssumption ==
    /\ IsFiniteSet(Tiles) /\ Tiles # {}
    /\ Qualities \subseteq {"Low", "Medium", "High", "Unknown"}
    /\ Qualities # {}
    /\ MaxChanges \in Nat
    /\ MaxResizes \in Nat

VARIABLES
    \* the server
    size,       \* the desktop's size, by its number
    screen,     \* the picture of each tile
    changes,    \* changes of the screen so far
    modified,   \* tiles to be sent
    known,      \* tiles whose picture the client has been sent in this size
    requested,  \* an update has been asked for since the last one
    sizeTold,   \* the client has been told of the size
    sFormat,    \* bits per pixel it sends
    \* the connection
    toClient,
    toServer,
    \* rfbClient, and VncClientThread's m_quality
    pc,         \* "init", "message" or "rects"
    rects,      \* rectangles left of the update being handled
    width,      \* the frame's size, by its number
    frame,      \* the picture of each tile
    format,     \* bits per pixel of the frame
    quality,
    \* history
    requalified \* the quality was changed after the session began

server == <<size, screen, changes, modified, known, requested, sizeTold,
            sFormat>>
client == <<pc, rects, width, frame, format>>
vars   == <<server, toClient, toServer, client, quality, requalified>>

Picture == 0 .. (MaxChanges + MaxResizes)
Blank   == -1  \* a tile of a fresh frame buffer
Garbage == -2  \* a tile drawn from pixels of another format

\* Mutation: all qualities below "High" have a palette.
BitsPerPixelPalette(q) == IF q = "High" THEN 32 ELSE 8

\* newclient: "High" has 32 bits per pixel, all others 16.
BitsPerPixel(q) == IF q = "High" THEN 32 ELSE 16

DefaultFormat == 8  \* what a server sends before it is told

TypeOK ==
    /\ size \in 0 .. MaxResizes
    /\ screen \in [Tiles -> Picture]
    /\ changes \in Picture
    /\ modified \subseteq Tiles
    /\ known \subseteq Tiles
    /\ requested \in BOOLEAN
    /\ sizeTold \in BOOLEAN
    /\ sFormat \in {DefaultFormat, 16, 32}
    /\ pc \in {"init", "message", "rects"}
    /\ width \in 0 .. MaxResizes
    /\ frame \in [Tiles -> Picture \union {Blank, Garbage}]
    /\ format \in {16, 32}
    /\ quality \in Qualities
    /\ requalified \in BOOLEAN

\* The handshake is over, and the server's parameters have been read.
Init ==
    /\ size = 0
    /\ screen = [t \in Tiles |-> 0]
    /\ changes = 0
    /\ modified = {}
    /\ known = {}
    /\ requested = FALSE
    /\ sizeTold = TRUE
    /\ sFormat = DefaultFormat
    /\ toClient = << >>
    /\ toServer = << >>
    /\ pc = "init"
    /\ rects = << >>
    /\ width = 0
    /\ frame = [t \in Tiles |-> Blank]
    /\ quality \in Qualities
    /\ format = 32
    /\ requalified = FALSE

-----------------------------------------------------------------------------
(* The server.                                                             *)

Draw(t) ==
    /\ changes - size < MaxChanges
    /\ changes' = changes + 1
    /\ screen' = [screen EXCEPT ![t] = changes']
    /\ modified' = modified \union {t}
    /\ UNCHANGED <<size, known, requested, sizeTold, sFormat, toClient,
                   toServer, client, quality, requalified>>

Scroll(s, d) ==
    /\ screen[d] # screen[s]
    /\ changes - size < MaxChanges
    /\ changes' = changes + 1
    /\ screen' = [screen EXCEPT ![d] = screen[s]]
    /\ modified' = modified \union {d}
    /\ UNCHANGED <<size, known, requested, sizeTold, sFormat, toClient,
                   toServer, client, quality, requalified>>

\* A new size is a new picture; the server may wait to be asked for it.
Resize ==
    /\ size < MaxResizes
    /\ size' = size + 1
    /\ changes' = changes + 1
    /\ screen' = [t \in Tiles |-> changes']
    /\ modified' \in {{}, Tiles}
    /\ known' = {}
    /\ sizeTold' = FALSE
    /\ UNCHANGED <<requested, sFormat, toClient, toServer, client, quality,
                   requalified>>

Pixels(t) == [enc |-> "pixels", tile |-> t, picture |-> screen[t],
              size |-> size, bits |-> sFormat]
Copy(s, d)  == [enc |-> "copy", from |-> s, tile |-> d]
NewFBSize   == [enc |-> "newSize", size |-> size]
Pseudo      == [enc |-> "pseudo"]
LastRect    == [enc |-> "last"]

Update(rs)  == [type |-> "update", rects |-> rs]

\* LastRect is offered with the tight encoding, that is in 16 bits only.
Ends == {<< >>, <<Pseudo>>} \union IF sFormat = 16 THEN {<<LastRect>>} ELSE {}

\* An update has tiles that can be copied first, and pixels for the others; it
\* may come with pseudo rectangles and with an end mark.
SendUpdate ==
    /\ requested /\ sizeTold
    /\ \E sent \in (SUBSET modified) \ {{}}, copied \in SUBSET modified :
       \E from \in [copied -> known \ modified], ends \in Ends :
          /\ copied \subseteq sent
          /\ \A t \in copied : screen[from[t]] = screen[t]
          /\ toClient' = Append(toClient, Update(
                SetToSeq({Copy(from[t], t) : t \in copied})
                \o SetToSeq({Pixels(t) : t \in sent \ copied}) \o ends))
          /\ modified' = modified \ sent
          /\ known' = known \union sent
    /\ requested' = FALSE
    /\ UNCHANGED <<size, screen, changes, sizeTold, sFormat, toServer, client,
                   quality, requalified>>

\* The size is told in an update of its own, or in a message of its own, to a
\* client that has sent its encodings along with its format.
TellSize ==
    /\ ~sizeTold /\ sFormat # DefaultFormat
    /\ sizeTold' = TRUE
    /\ \/ /\ requested
          /\ requested' = FALSE
          /\ toClient' = Append(toClient, Update(<<NewFBSize>>))
       \/ /\ toClient' = Append(toClient, [type |-> "resize", size |-> size])
          /\ UNCHANGED requested
    /\ UNCHANGED <<size, screen, changes, modified, known, sFormat, toServer,
                   client, quality, requalified>>

ServerReceive(type) ==
    /\ toServer # << >>
    /\ Head(toServer).type = type
    /\ toServer' = Tail(toServer)
    /\ UNCHANGED <<size, screen, changes, known, sizeTold, toClient, client,
                   quality, requalified>>

\* A request is for the changes, or for the whole screen.
ServerRequest ==
    /\ ServerReceive("request")
    /\ requested' = TRUE
    /\ modified' = IF Head(toServer).incremental THEN modified ELSE Tiles
    /\ UNCHANGED sFormat

ServerSetFormat ==
    /\ ServerReceive("setPixelFormat")
    /\ sFormat' = Head(toServer).bits
    /\ UNCHANGED <<requested, modified>>

-----------------------------------------------------------------------------
(* The client.                                                             *)

Request(inc)      == [type |-> "request", incremental |-> inc]
SetPixelFormat(b) == [type |-> "setPixelFormat", bits |-> b]

\* newclient: a format by quality and an empty frame.  It calls
\* SetFormatAndEncodings, as `NewClientMessages` says.
NewClient ==
    /\ format' = BitsPerPixel(quality)
    /\ frame' = [t \in Tiles |-> Blank]

NewClientMessages == <<SetPixelFormat(BitsPerPixel(quality))>>

\* Mutation: the first request comes before the format.
StartEarly ==
    /\ pc = "init"
    /\ NewClient
    /\ toServer' = toServer \o <<Request(FALSE)>> \o NewClientMessages
    /\ pc' = "message"
    /\ UNCHANGED <<server, toClient, rects, width, quality, requalified>>

\* rfbInitConnection, from MallocFrameBuffer on; the format is sent twice.
Start ==
    /\ pc = "init"
    /\ NewClient
    /\ toServer' = toServer \o NewClientMessages
                     \o <<SetPixelFormat(format'), Request(FALSE)>>
    /\ pc' = "message"
    /\ UNCHANGED <<server, toClient, rects, width, quality, requalified>>

HandleUpdate ==
    /\ pc = "message" /\ toClient # << >>
    /\ Head(toClient).type = "update"
    /\ rects' = Head(toClient).rects
    /\ pc' = "rects"
    /\ toClient' = Tail(toClient)
    /\ UNCHANGED <<server, toServer, width, frame, format, quality,
                   requalified>>

NextRect(enc) ==
    /\ pc = "rects" /\ rects # << >>
    /\ Head(rects).enc = enc
    /\ rects' = Tail(rects)
    /\ UNCHANGED <<server, toClient, pc, quality, requalified>>

\* The decoders.  Pixels of another format are misread.
HandlePixels ==
    /\ NextRect("pixels")
    /\ LET r == Head(rects)
       IN frame' = [frame EXCEPT ![r.tile] =
                       IF r.bits = format THEN r.picture ELSE Garbage]
    /\ UNCHANGED <<toServer, width, format>>

HandleCopyRect ==
    /\ NextRect("copy")
    /\ frame' = [frame EXCEPT ![Head(rects).tile] = frame[Head(rects).from]]
    /\ UNCHANGED <<toServer, width, format>>

\* Mutation: after a change of size only changes are asked for.
ChangeSizeIncremental(s) ==
    /\ width' = s
    /\ NewClient
    /\ toServer' = toServer \o NewClientMessages \o <<Request(TRUE)>>

\* A new size, told in either way: a new frame, and a request for all of it.
ChangeSize(s) ==
    /\ width' = s
    /\ NewClient
    /\ toServer' = toServer \o NewClientMessages \o <<Request(FALSE)>>

HandleNewFBSize ==
    /\ NextRect("newSize")
    /\ ChangeSize(Head(rects).size)

HandlePseudo ==
    /\ NextRect("pseudo")
    /\ UNCHANGED <<toServer, width, frame, format>>

\* Mutation: the end mark ends the handler, not the loop.
HandleLastRectReturns ==
    /\ pc = "rects" /\ rects # << >>
    /\ Head(rects).enc = "last"
    /\ rects' = << >>
    /\ pc' = "message"
    /\ UNCHANGED <<server, toClient, quality, requalified>>
    /\ UNCHANGED <<toServer, width, frame, format>>

\* The rectangles end before their announced number is reached.
HandleLastRect ==
    /\ pc = "rects" /\ rects # << >>
    /\ Head(rects).enc = "last"
    /\ rects' = << >>
    /\ UNCHANGED <<server, toClient, pc, quality, requalified>>
    /\ UNCHANGED <<toServer, width, frame, format>>

\* SendIncrementalFramebufferUpdateRequest.
FinishUpdate ==
    /\ pc = "rects" /\ rects = << >>
    /\ toServer' = Append(toServer, Request(TRUE))
    /\ pc' = "message"
    /\ UNCHANGED <<server, toClient, rects, width, frame, format, quality,
                   requalified>>

\* rfbResizeFrameBuffer, rfbPalmVNCReSizeFrameBuffer.
HandleResize ==
    /\ pc = "message" /\ toClient # << >>
    /\ Head(toClient).type = "resize"
    /\ ChangeSize(Head(toClient).size)
    /\ toClient' = Tail(toClient)
    /\ UNCHANGED <<server, pc, rects, quality, requalified>>

\* InterfaceRFB::setVncquality in the GUI thread: the member is written without
\* the mutex.
SetQuality(q) ==
    /\ q # quality
    /\ quality' = q
    /\ requalified' = (requalified \/ pc # "init")
    /\ UNCHANGED <<server, toClient, toServer, client>>

Screen == \/ \E t \in Tiles : Draw(t)
          \/ \E s, d \in Tiles : Scroll(s, d)
          \/ Resize
Server == SendUpdate \/ TellSize \/ ServerRequest \/ ServerSetFormat
Client == Start \/ HandleUpdate \/ HandlePixels \/ HandleCopyRect
          \/ HandleNewFBSize \/ HandlePseudo \/ HandleLastRect
          \/ FinishUpdate \/ HandleResize

Next == Screen \/ Server \/ Client \/ \E q \in Qualities : SetQuality(q)

Spec == Init /\ [][Next]_vars

\* The worker runs, and the server sends what it has been asked for.
FairSpec == Spec /\ WF_vars(Client) /\ WF_vars(Server)

-----------------------------------------------------------------------------
(* Properties.                                                             *)

\* Messages and rectangles that are on their way to the decoders.
Quiet == toClient = << >> /\ toServer = << >> /\ pc = "message"

\* The cycle of requests and updates never dies: a request waits at the
\* server, or is on its way, or something is that makes the client send one.
RequestPending ==
    pc # "init" =>
        \/ requested
        \/ pc = "rects"
        \/ \E i \in 1 .. Len(toServer) : toServer[i].type = "request"
        \/ \E i \in 1 .. Len(toClient) : toClient[i].type = "update"

\* Rectangles meet the frame they were made for: a size announced before them is
\* the frame's by then, and their pixels are in the format of the frame unless
\* the quality is changed during the session.
PixelsFit ==
    pc = "rects" /\ rects # << >> /\ Head(rects).enc = "pixels" =>
        /\ Head(rects).size = width
        /\ ~requalified => Head(rects).bits = format

\* When nothing is on its way the frame shows the screen, but for what the
\* server has not been asked for yet.
PictureComplete ==
    ~requalified /\ Quiet /\ sizeTold =>
        width = size /\ \A t \in Tiles \ modified : frame[t] = screen[t]

\* The frame becomes what the screen is, and stays so, when the screen rests.
FrameConverges == <>[](requalified \/ (width = size /\ frame = screen))
=============================================================================
