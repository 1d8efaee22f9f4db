# A verification development for VNC Screen

VNC Screen is a VNC viewer for Sailfish OS: a QML user interface, a C++ layer
derived from KRDC, and LibVNCClient 0.9.9.  This directory holds TLA+ modules of
its parts, the configurations TLC checks them with, and proofs TLAPS checks.
Paths below are relative to the repository.

## The system

| Part | Source | State | Operations |
|------|--------|-------|------------|
| Session worker | `src/vncclientthread.cpp` (`VncClientThread::run`) | mutex, `m_stopped`, `m_passwordWaiting`, `m_passwordError`, `m_password`, `m_host`, `m_eventQueue`, `cl`, `frameBuffer`, `m_image` | connect attempts with retries, message loop, firing of events, cleanup; callbacks `newclient`, `updatefb`, `passwdHandler` |
| GUI interface | `src/interfacerfb.cpp` | `m_connectionStatus`, single-shot `timer`, `vncIndex`, `m_running`, resolution | `setVncpath`, `setVncpassword`, `setVncquality`, `vncDisconnect`, input, frame regulation |
| Main page, cover | `qml/pages/MainPage.qml`, `qml/harbour-vncscreen.qml`, `qml/cover/CoverPage.qml` | page stack, menu entries, `mouseActive`, sources of two `Image` items | pages pushed, accepted and dismissed; input; image updates |
| Image provider | `src/screenprovider.cpp` | `screenImage` | `setScreenImage`, `requestImage` |
| Socket reader | `src/libvncclient/sockets.c` | `buf`, `bufoutptr`, `buffered`, the socket | `ReadFromRFBServer`, `WriteToRFBServer`, `WaitForMessage`, connecting |
| Client life cycle | `src/libvncclient/vncviewer.c` | the `rfbClient` | `rfbGetClient`, `rfbInitClient`, `rfbClientCleanup` |
| Handshake | `src/libvncclient/rfbproto.c` | version, security type, server parameters | `InitialiseRFBConnection`, authentication, `SetFormatAndEncodings` |
| Server messages | `src/libvncclient/rfbproto.c` | frame size, supported messages | `HandleRFBServerMessage`, update requests, input messages |
| Decoders | `hextile.c`, `rre.c`, `corre.c`, `zrle.c`, `tight.c`, `ultra.c`, `zlib.c`, `cursor.c` | frame buffer, zlib streams, tight filter state | one per encoding |
| Connect page | `qml/pages/ConnectPage.qml` | list model and stored history | load, remove, clear, accept |
| Key translation | `src/sym2rfbkey.cpp` | none | `qt2rfbkey` |
| Settings, other pages, start | `src/interfacesettings.cpp`, other pages, `src/harbour-vncscreen.cpp` | QSettings | read, write |
| Vendored code | `libjpeg/`, `zlib/`, `common/`; `listen.c`, `h264.c`, TLS are not reachable in this build | | |

Two threads run this.  The GUI thread calls methods of `VncClientThread`, some
of which take its mutex; the worker emits signals that Qt queues for the GUI
thread.  The worker holds the mutex during the whole of a connection attempt,
including the busy wait for a password, and during the firing of events; it runs
without it while it waits for and handles a message.  Several members
(`m_stopped` in `run()` and `stop()`, `m_passwordWaiting`, `m_password`, `cl`
in `stop()`, the quality) are accessed without it.  The hard behaviours are
therefore: interleavings around the unlocked accesses, the life of the
`rfbClient` over attempts, runs and requests, the password exchange, the GUI
waiting for the mutex, signals shown later than what they announce, the frame
regulation with its timer, and the read-ahead buffer between the socket and the
messages.  `PROJECT.json` lists them one by one under "hazards".  Those without a
property say why: most often the code does go wrong there, and the properties
except the situation by a history variable instead of catching it.

## Modules

| Module | What it is |
|--------|------------|
| `ClientThread` | the worker and the GUI thread: requests, password exchange, session, stop, input events |
| `Session` | what `ClientThread` promises: a sequential machine of requests, prompts, outcomes and notices |
| `ClientThread_proofs` | proofs about `ClientThread`, and that it implements `Session` |
| `FramePipeline` | from a decoded rectangle to the item on the display |
| `FramePipeline_proofs` | proofs about it |
| `ServerStream` | socket, read-ahead buffer and message loop |
| `ByteStream` | what `ServerStream` promises: an exact read of the stream |
| `ServerStream_proofs` | proofs about `ServerStream`, and that it implements `ByteStream` |
| `Handshake`, `MCHandshake` | the opening of a connection against servers of every version; its instances |
| `Handshake_proofs` | proofs about it |
| `UpdateLoop` | a session on the wire: requests, updates, new sizes, pixel formats |
| `UpdateLoop_proofs` | proofs about it |
| `Rectangles`, `MCRectangles` | the decoders of rectangles, the zlib streams and buffers they share; the symmetry of colours |
| `Rectangles_proofs` | proofs about its streams and its bounds |
| `RectanglesPicture_proofs` | proofs about the picture, the types and the reasons to give up |
| `ConnectPage` | the connect dialog, the stored history, and what the main page does with the answers |
| `ConnectPage_proofs` | proofs about it |
| `Measures` | triples and tuples of numbers in lexicographic order, by which the proofs show that something ends |

How they fit together: `ClientThread` takes the outcome of a connection attempt
and of a message as a choice; `Handshake` and `UpdateLoop` are what those
outcomes come from, `ServerStream` is the reader below both, and `Rectangles` is
what `UpdateLoop` has as one step per rectangle.  `FramePipeline` begins where a
decoder has finished a rectangle, and `ConnectPage` ends where `ClientThread`
begins, with the address handed to the worker.

### ClientThread

Variables have the names of the members they stand for; `pc` is the place of
the worker in `run()` and its callbacks, `gui` the method the GUI thread is in.
A method is one action where it runs under the mutex from end to end
(`SetUrlPath`, `EnqueueEvent`, `StopLocked`), and is split at each access the
other thread can see otherwise: `passwdHandler` into `AskPassword`,
`RaiseWaiting` and `ReadPassword`, `setPassword` into `ClearWaiting` and
`StorePassword`, `stop` into `StopTest`, `StopListening` and `StopLocked`, the
end of `run()` into `Cleanup` and `MarkStopped`.  The mutex is taken and released at once by the
GUI's actions, hence `mutex` is only ever free or the worker's.  The server is
a choice of outcomes: `InitClient` (no password asked for), `Authenticate`,
`WaitForMessage`, `HandleMessage`.

Not modelled here: `setQuality` (it is in `UpdateLoop` and `ConnectPage`), the
port, the contents of events, the priority calls.  Nor is `image()`, which the GUI
thread calls in `timerTimeout` (`interfacerfb.cpp:112`, `vncclientthread.cpp:254`):
it takes the mutex and copies `m_image`, and is `FramePipeline`'s.  Of what this
module says it could only change how often the GUI thread waits for the mutex: a
timeout while the worker waits for a password freezes the interface like the
three calls in `LockingOps`, one more call with the freeze of `GuiFrozen` and no
other kind of it.  The user acts through the interface only: a disconnect needs
the status Connected, a page is answered when it is on top, input needs the main
page.

Three history variables mark situations the code does not handle, and properties
name them as exceptions instead of hiding them: `overlapped` (a request made
while the last run, or its signals, were not over), `cancelled` (a prompt
dismissed: nothing clears `m_passwordWaiting`, so the worker spins with the mutex
held until the next call that takes the mutex freezes the interface),
`overtaken` (an answer given between the prompt and the raising of
the flag in `passwdHandler`).

Properties: `WorkerClientAlive` (no use of a freed `rfbClient`), `NoClientLeak`,
`ViewInSync`, `ServesLastRequest`, `PromptForEveryWait`, `EventsInOrder`,
`OneWayToFreeze`, `StopNotRevoked`, `ImplementsSession`; liveness
`StopEndsSession`, `RequestResolves`, `EventsFlushed`.

Fairness: `LocalStep` weakly, as the thread is scheduled.  `GuiStep` strongly:
the GUI gets the mutex if it becomes free again and again, which it does since
`run()` spends up to 500 us of every round in `select()` without it.  Steps
that wait for the server (`NetworkStep`) and the user's answers have no
fairness in `FairSpec`; `AnsweringSpec` adds them, since `ReadFromRFBServer` and
`WriteToRFBServer` have no timeout and a silent server stops everything.

### FramePipeline

The worker decodes, publishes a `QImage` that shares the frame's memory, and
signals; the GUI thread regulates with the timer, hands the image over and sets
the source of the page's or the cover's item.  Pictures are abstracted to
`behind` (an item lacks something decoded) and `newUrl` (its source would
change).  `m_image` and `screenImage` say whether the frame they share exists.
Fairness: the threads, the end of connection attempts, the timer; strong
fairness for the timeout, since `onImageUpdate` may restart an overdue timer.

### ServerStream

A byte is represented by its position in the stream, wherever it is stored, so
that a lost, repeated or displaced byte is visible.  A message is a type byte,
whose value gives the number of bytes that follow, and those bytes; a handler
reads it in two calls.  `Fill`, `ReadDirect` return any number of bytes the
socket has; a broken connection may fail any read.  `EAGAIN` is the absence of
a step, since the code waits and tries again without end.  TLS, playback of
recorded sessions and null destinations are left out; so are handlers that give
up on a message's contents.  So is SetColourMapEntries: its body is not read
(`rfbproto.c:1716`, a TODO), so that its bytes would be taken for messages, but it
is sent to clients without true colour only, and the format the client asks for has
true colour.

### Handshake

`InitialiseRFBConnection` with the handlers of security types on one side, a
server written from the comments of `rfb/rfbproto.h` on the other, and a stream
in each direction.  `pc` is the kind of thing the client reads next; each action
is one read with what the code does until the next one.  The streams carry
kinds, the client does not look at them: `InStep` says that it never takes one
for another.  The server may refuse, at the version or after a response, and the
connection may break at any time.  `GetCredential` and `clientAuthSchemes` are
never set by `VncClientThread` and TLS is not built in, so MSLogon, ARD, TLS and
VeNCrypt end in failure where the code fails them.

Properties: `InStep`, `Agreement` (same version, same security type, right
password, both streams empty), `FailsForAReason` (the client gives up only for a
reason that is not its own), `HandshakeEnds`, which also rules out that both
sides wait for each other.  The client takes the first type of the list it
knows, also when it is one that this build cannot execute (VeNCrypt, `rfbproto.c:574`)
and another one of the list would have worked: `FailsForAReason` counts that as
a reason.  Fairness: the worker is scheduled and the server answers; a silent
server is not a failure the code notices.

### UpdateLoop

The screen is a set of tiles with numbered pictures; the server keeps what has
changed (`modified`) and what the client has been sent (`known`, the sources of
copies).  The client handles an update rectangle by rectangle, replaces the frame
and asks for the whole when the size changes, and asks for changes at the end
of every update.  A rectangle of pixels carries the format and the size it was
made for, which the bytes on the wire do not: that they are the frame's is
`PixelsFit`.  A size that changes is told to clients that have sent their
encodings only, LastRect is used where the tight encoding is offered.
Supported-message lists are taken to name the messages the client sends.  The
history variable `requalified` marks a quality set during the session: the next
new size then takes it, while pixels of the old format are on their way.

Properties: `RequestPending` (there is always a request, or something that leads
to one), `PixelsFit`, `PictureComplete` (when nothing is on its way the frame shows
all the server does not hold back), `FrameConverges`.  Fairness: the worker is
scheduled, the server reads and answers requests.

### Rectangles

One action begins a rectangle of each encoding, with every position and size it
can have in the frame, none included, and one action is a turn of each loop of its
handler: lines, pixels of a copy, subrectangles, tiles, portions of compressed data, rows.
A pixel is known by what it shows: what was there before (`Old`), the n-th pixel
of the rectangle's data (`Datum`), a colour, or `Junk`.  `frame` is what the
handler has drawn, `meant` what the server means.  Each rectangle starts from a
frame of old pixels; the state that outlives a rectangle is kept: `rawSize`
(`raw_buffer_size`, shared by three encodings), `shared` (the `decompStream` that
zlib and ZRLE share), `inflater` (`zlibStreamActive` of the tight streams).

zlib is modelled by the bytes it takes and gives (`Inflate`): any portions that
its interface allows.  In the tight decoder the bytes of `client->buffer` are
numbered, so that a row drawn from bytes that are not the row's is seen; the
unfinished row that is moved to the front (`Moved`) is the place where this
could go wrong.  Reads fail anywhere (`Cut`), and a new session begins with new
streams.  Within a tile or a filter the colours are data of the rectangle;
palettes, gradients and the bits of subencodings are not modelled.

What is assumed of the server, where the comments of `rfb/rfbproto.h` leave it
open: after a hextile with coloured subrectangles it states the foreground again;
it uses no ZRLE form that is longer than raw pixels; compressed data are flushed
at the end of a rectangle and are not malformed.  The tight control bytes 0x0A
and 0x0E ("no zlib") belong to an extension the client does not announce, and
data inflated with the stream of the other encoding are taken to be an error.

A rectangle without pixels is one that the protocol allows and no handler looks
for, but one: what becomes of it follows from the loops.  Raw divides by the
length of a row (`rfbproto.c:1868`) and otherwise reads no line.  CopyRect, RRE,
CoRRE and hextile draw nothing, tight has no rows and is short of
`TIGHT_MIN_TO_COMPRESS`.  zlib and ZRLE come without data or with a flush
(`DataLengths`), which inflate takes although it has no room: an empty stored
block, or the end of a block, needs none (`zlib/inflate.c`), and `raw_buffer` is
not NULL since its size begins at -1.  Ultra returns at once without data
(`ultra.c:46`), and gives up if there are any (`ultra.c:48`), which can be the end
mark of lzo only.  A JPEG has at least one pixel.

Nothing in `corre.c:51` compares the subrectangles of a CoRRE rectangle, which are
read all at once, with the size of `client->buffer`; that they fit is a guard of
`StartCoRRE`, an assumption about the server (51200 subrectangles of six bytes
fit, of a rectangle of at most 255 by 255 pixels).

Properties: `PictureAsSent` (a handler that returns has drawn exactly what was
meant), `Within` (no write outside the rectangle at any moment), `InflatersInStep`
(control bits end streams on both sides alike, also in rectangles that use none),
`NeverRejected` (four named reasons to give up, no other: zlib after ZRLE or the
other way round, an empty Ultra rectangle with data, ZRLE of a format of 15 bits, a
raw rectangle without columns), and in a run of its
own `NeverOutOfSpace`.  No run has a liveness property: a handler ends with its data, and
how these come is `ServerStream`'s.  That no loop goes on for ever when the data
do come is a theorem, `HandlersEnd`.

### ConnectPage

Each dialog has a model of its own, filled from the settings when it opens;
`RemoveItem` and `ClearAll` change the model, and only `Accept` with an address
writes it back.  The handler of the main page then runs statement by statement
(`SetVncpath` starts the worker, `SetVncquality` follows), interleaved with the
worker's sleep, attempt and session.  `SleepOver` is the assumption that the
sleep of two seconds with which `run()` begins outlasts the one statement that is
left; the mutant `AtOnce` shows that `QualityAsChosen` rests on it.  The history
variables `used`, `removed`, `chosen` and `began` say what the user has asked for;
`overlapped` marks a dialog accepted while the worker runs, whose quality the
running session may take.

## Runs

| Run | Bounds | What it shows |
|-----|--------|---------------|
| `client_thread` | 2 hosts, a right, a wrong and the empty password, 2 requests, 2 events | all safety properties of `ClientThread`, and the refinement of `Session` |
| `client_thread_live` | 1 host, right and empty password, 2 requests, 1 event | its liveness properties under `AnsweringSpec` |
| `client_thread_stop` | 1 request | counterexample to the comment of `stop()` |
| `frame_pipeline` | 3 queued signals | no lost frame, on page and cover; freshness of the shared image |
| `frame_pipeline_foreground` | 2 queued signals | counterexample: the page does not catch up |
| `server_stream` | buffer of 3 bytes, messages of 1, 3 and 6 bytes, 8 bytes | exact, framed, in-bounds reads |
| `server_stream_readahead` | buffer of 3, messages of 1 and 2 bytes | counterexample: a message stays in the read-ahead buffer |
| `handshake` | versions 3.3, 3.5, 3.7, 3.8, 3.16, 3.889, 4.1; every list of 1 to 3 of six security types; right, wrong and empty password | both sides in step, agreement, no needless failure, termination |
| `update_loop` | 2 tiles, 2 qualities, 2 changes, 1 resize | requests never cease, rectangles fit the frame, the frame converges |
| `rectangles` | a frame of 3 by 3, tiles of 2, buffer of 17 bytes, 2 tight streams, 1 subrectangle, 1 to 3 compressed bytes, both depths, 2 colours | every rectangle of every encoding is drawn as it was meant, within its bounds, streams in step, for four named reasons only rejected |
| `rectangles_space` | the same, servers of 15 bits | counterexample: ZRLE runs out of space |
| `connect_page` | 3 addresses, 4 accepted dialogs | the history is what was used; a session has the quality chosen for it |

Why the bounds are enough: two requests reach a second run with everything the
first left behind (flag, queue, freed client, pages); two hosts tell a stale
address from the new one; two events tell order and repetition; three password
failures fit in one request.  In `server_stream` a request can be smaller than,
equal to and larger than the buffer, after any amount was buffered, and the
stream is long enough for two of the larger messages' kinds in a row.
`handshake` has a version of each kind the code tells apart (before the list of
types, with it, with reasons, UltraVNC's and Apple's numbers, the next major
version), and lists in which the selected type is first, in the middle, last or
absent.  `update_loop` has a tile to copy from and one to copy to, changes
before, between and after the messages, and a new size with updates in the old
one on their way; a second resize repeats the state after the first.  In
`rectangles` a frame of three with tiles of two has whole tiles and tiles cut at
the right, below and at the corner; overlapping copies in all eight directions fit;
the buffer of 17 bytes takes less than the whole raw rectangle and, in the tight
decoder, neither a whole number of rows nor of portions; a portion of two
bytes makes data of three come in two, and rectangles follow each other without
end.  Two colours tell the background from the foreground; no handler tells one
colour from another, which makes the symmetry sound.  Three addresses are one
that moves, one it passes and one that stays, and the fourth dialog can repeat
any.

`CHECK_DEADLOCK` is off for `ClientThread` because the system really stops when
the user interface freezes (`OneWayToFreeze` says that this is the only way,
while a server answers), for `Handshake`, whose two sides stop at its end, for
`UpdateLoop`, whose changes are bounded, for `ConnectPage`, whose dialogs are, and
for `ServerStream` because a broken connection with nothing left is the end.

## What the runs found

* `stop()` touches `cl` after `run()` freed it (`vncclientthread.cpp:285`).
* Back in the foreground the page is not refreshed (`interfacerfb.cpp:208`).
* A message that arrived with the one before it waits in `client->buf` until
  the server sends more (`sockets.c:778`, `vncclientthread.cpp:373`).
* For a server whose own pixel format has 15 bits the buffer of a ZRLE rectangle
  is sized as if pixels had one byte, and inflating runs out of it
  (`zrle.c:90`).

Other behaviour a reader should know of, named in the models as exceptions: a
cancelled password page leaves the worker spinning (`cancelled`); VeNCrypt is
selected although it cannot be executed; a quality changed during a session
misreads pixels in flight at the next new size (`requalified`), and a dialog
accepted during a session changes that session's quality (`overlapped`);
zlib and ZRLE in one session share an inflater, and the second is rejected; a
raw rectangle of width zero divides by zero, or loops for ever where the
processor does not trap that; an Ultra rectangle without pixels but with data ends
the session; the high quality of the tight encoding sets
`qualityLevel` as a side effect (`rfbproto.c:2019`), which no model needs.

## Proofs

Eight modules hold the proofs.  In each, an inductive invariant is stated, one
lemma per action or phase shows that a step keeps it, and a temporal theorem
closes the argument.  All hold for every value of the constants, from the
assumptions that the modules declare: one each, and two in `Rectangles`.  Every
safety invariant the runs check is proved but one, `OneWayToFreeze`, of which a
half is.

`ClientThread_proofs` (`ConstantsAssumption`): type correctness,
`WorkerClientAlive`, `NoClientLeak`, `ViewInSync`, `ServesLastRequest`,
`PromptForEveryWait`, `EventsInOrder`, the action property `StopNotRevoked`, and
`ImplementsSession`.  The inductive invariant `Inv` adds to these what they rest
on: `LockInv` (the mutex is the worker's exactly at the places of `run()` between
lock and unlock), `RequestInv` (where the worker and the signals can be while the
GUI thread is in `setUrlPath` or before `start()`, and when `m_stopped` may be
set), `HostInv` (the address of the client in use is the last one set) and
`PromptInv` (a raised flag has a prompt on its way).  The refinement maps the
worker's place to the phase, the signals to the notices and the status to what is
shown.  `EventInv` is about the events fired followed by those queued: they
increase, and stay below the next one to be made; that they are one sequence
(`FireKeepsAll`) is why dequeuing and firing must be one step.  `NoOtherFreeze`
is the half of `OneWayToFreeze` that does not speak of ENABLED: one of the
threads has a step to take (`CanStep`, the guards written out) or the interface
is frozen in the one way.  `FrozenForGood` adds that this freeze is final: by
`LockInv` the mutex the GUI thread waits for is the worker's, and the worker
spins on a flag only the GUI thread clears.  `RunEnds` is what the liveness
properties rest on: no run makes more than three attempts, and every step of the
worker lowers `WorkerAhead` (the part of `run()`, the attempts left, the events
still to be sent), except the one that begins another round of the message loop,
which takes `m_stopped` unset; the GUI thread and the user, whatever they do,
start a worker that is off or leave the measure alone.

`ServerStream_proofs` (`SizesAssumption`): type correctness, `BufferInBounds`,
`NothingLost`, `FramingKept` and `ImplementsByteStream`.  Its invariant adds
`Reading` (what is copied is the run of positions after the last delivered
byte, and copied plus needed is what was asked for), `Framed` (the stream is a
sequence of whole messages) and `Framing` (the handler is at a type byte or
right behind one); `RunConcat` says that two adjacent runs are one.  `ReadEnds` is
about progress: each step of the reader lowers `ReadAhead` (the reads of the
message, the parts of `ReadFromRFBServer`, the bytes to come); as long as bytes
are needed, the server has written them or has hung up, and there is room for
them in the buffer.  `TypeByteWritten`, that a message is begun only where there
is one, is the invariant it needs in addition.

`FramePipeline_proofs`: type correctness, `NoLostFrame`, `ImageSharesFrame`.
They hold together with one more fact, `CurrentUrlPending`: an item that lacks
something although its source is the current one has a change of the source on
its way.  `RefreshEnds`: the steps of the two threads, other than new decoding,
lower `RefreshAhead` (what the worker has to publish, the signals queued, the
timer), and while a refresh is on its way one of them can go on.

`Handshake_proofs` (`HandshakeAssumption`): type correctness, `InStep`,
`Agreement`, `FailsForAReason`, for every list of types and every version of the
majors 3 and 4.  `HandshakeInv` enumerates the phases of the opening: for each
pair of places of the two sides, the at most two units that may be on their way
and what both sides know by then.  A failed client may leave the units of any
phase behind, which is why each phase allows it.  `FewSteps` is the part of
`HandshakeEnds` that needs no fairness: every step of either side lowers
`StepsAhead`, so the opening has at most twelve steps.  The run reaches all twelve.
`NeverBothWait` is the other part: in every phase that is not the end, one of
the sides has something to read or to say.

`UpdateLoop_proofs` (`UpdateAssumption`): type correctness, `RequestPending`,
`PixelsFit`, for every set of tiles and any number of changes and new sizes.
`RequestPending` is inductive.  `PixelsFit` is about rectangles that were sent long
before: `FormatInv` says that, until the quality is changed, all that is on its way
has the bits of the frame, and that a server with its own default format finds
the client's format first in its queue, before any request; `SizeInv` says of
every message in the stream that its pixels have the size the last announcement
before it gives (`SizeAt`), and that the size a server has told is the one after
the last message.

`PictureComplete` speaks of the moment when nothing is on its way, so its
invariant has to say what the frame becomes once all that is on its way has been
handled, whatever that is.  This is not computed, which would take an induction
over the stream, but guessed: `PictureInv` says that there is a sequence of
frames `h`, one behind the update being handled and one behind each message,
such that each message leaves its frame for the next (`Makes`, `Leaves`), and
the last shows the screen on every tile the client has been sent and whose
changes the server does not hold back.  A step of the client drops the first
frame, a step of the server appends one; that an update draws each tile once,
and none that another of its rectangles copies from, follows from what
`SendUpdate` puts together.  `KnownInv` is the other half: a tile the server takes
to be unknown to the client has been asked for, by a request for the whole screen
or by the announcement of a size that will lead to one.  The exception is
`requalified`, since then pixels are misread.

For `FrameConverges` two facts are proved.  `TrafficEnds`: while the screen and
the quality rest, every step of either side lowers `Traffic`, eight numbers in
lexicographic order.  Handling of an update causes a request, a new size causes
a request for the whole screen, and that marks all tiles again; so the causes
come first: the sizes still to be told, the last of the messages and of the
rectangles that tell one, the last full request in the queue, then the tiles
marked, and then only the lengths of the queues.  `RestIsComplete`: where neither
side has a step (`Stopped`, the guards written out), `RequestPending` puts a
request at the server, `FormatInv` makes it know the client's format, hence it
has told the size and sent all it had marked, and by `PictureComplete` the frame
is the screen.

`Rectangles_proofs` (`RectanglesAssumption`): `InflatersInStep` and `Within`, for
every size of the frame, the tiles and the buffers.  `Placed` says where the
loops of each handler can be, and `RowsPlaced` that the bytes inflated are those
of the rows drawn and of the unfinished one, so that no more rows are drawn than
the rectangle has; the latter needs arithmetic with products, done in lemmas.

`RectanglesPicture_proofs` proves the rest about the decoders, for the same
constants.

* `PictureAsSent`.  `Drawing` says of each loop what is drawn already and what
  the handler still has: all lines above `j`; all pixels a copy has passed, while
  those it has still to read are old (`CopyDrawn`, in each of the directions);
  all tiles before the current one, with the hextile colours equal to the
  server's where the server relies on them; the bytes given by `inflate`, which
  are all of them behind the last portion; and of the tight decoder that the
  bytes in `client->buffer` are those of the unfinished row in their order
  (`Buffered`), so that a row drawn from them has the numbers of its pixels.
* Type correctness: the invariants above and, since they speak of the loops
  only, `Headed`, `Active`, `Counted` and `Shown` for the other states.
* `NeverRejected` (theorem `RejectedForNamedReasons`), over rectangles of every
  size, empty ones included.  `Accepting` says what rules out every other reason
  than the four; `EmptyPicture` that a rectangle without pixels leaves nothing to
  draw.  In the
  tight decoder all bytes of the rectangle have been given once its data have
  ended (`RowsAccepted`), hence all rows are drawn.  For ZRLE it is that the sum of
  the lengths of all tiles, of any form a server would choose, is at most three
  bytes for each pixel (`TotalBound`), of the four that `raw_buffer` has: a tile
  takes no more than one byte and its pixels, and has at least one pixel.  The sum is `MapThenSumSet`,
  a fold over a set: `Sums` shows by the least of its counterexamples that
  it is additive, without an induction theorem.
* `HandlersEnd`.  Each turn of a handler's loop lowers `Ahead`, a triple of
  numbers in lexicographic order: the lines, rows of tiles or bytes of compressed
  data to come; the pixels left of the row or the bytes still to be inflated;
  and whether the tight decoder inflates once more before it reads on.

The assumption `RowsAssumption` is that a row of the frame fits the part of
`client->buffer` the tight decoder gives it.  In the program widths have 16 bits
and the buffer `RFB_BUFFER_SIZE` = 307200 bytes, of which pixels get 153600,
palette indices 102400 and bits 18068 (`tight.c:231`); rows of 65535 pixels take
131070, 65535 and 8192.

`ConnectPage_proofs` (`ConnectAssumption`): type correctness, `HistoryAsUsed`,
`QualityAsChosen`.  `HistoryInv` adds that the open dialog's model is the stored
history without what was removed, in order of use; `QualityInv` that the worker
sleeps between the two statements of the handler.

Only model-checked: the liveness properties, and the first conjunct of
`OneWayToFreeze`, that the guards of `CanStep` are those of `Next`.  The provers
have no rule for fairness or ENABLED.  What the theorems leave to TLC is the last
inference, from a measure that falls with every step and a step that is there to
be taken, to the end that fairness brings about:

| Checked by TLC | Proved of it |
|----------------|--------------|
| `OneWayToFreeze` | `NoOtherFreeze`, `FrozenForGood` |
| `StopEndsSession`, `RequestResolves`, `EventsFlushed` | `RunEnds`, `StopKept`, `NoOtherFreeze` |
| `FrameReachesVisible` | `RefreshEnds`, `NoFrameLost` |
| `HandshakeEnds` | `FewSteps`, `NeverBothWait`, `ReadInStep` |
| `FrameConverges` | `TrafficEnds`, `RestIsComplete` |

No sequence of such measures falls for ever: `NoDescent`, in
`UpdateLoop_proofs`, for tuples of every length and for the triples of the other
modules.

## Plan

Done: `ClientThread` with `Session`, `FramePipeline`, `ServerStream` with
`ByteStream`, `Handshake`, `UpdateLoop`, `Rectangles`, `ConnectPage`, and the proofs
above.  Next, in this order:

1. The password stored after the worker was let go (`vncclientthread.cpp:157`): a
   promise that an attempt is made with the last answer.
2. `WriteToRFBServer` and connecting, beside `ServerStream`.
3. The key handlers of the main page's text field, which send a press again on
   the release of Backspace.

## Not modelled

Most of the repository's lines are vendored: zlib, libjpeg, minilzo, turbojpeg,
DES, and the table of key symbols (`rfb/keysym.h`).  The code of this program
and of LibVNCClient's own files is about a tenth of them, and the models stand
for the part of it with behaviour: state, loops, order.

* Reverse connections, TLS, H.264, command line arguments and credentials cannot
  be reached in this build.
* UltraZip, ZYWRLE and cursor shapes are not offered to the server.
* Malformed data and libjpeg's errors: the server is taken to follow the protocol.
* `qt2rfbkey` is a stateless table; nothing in the repository says what it should
  hold, so a model could only repeat it.
* Cut text, chat, bell and xvp have no callback: they are read and dropped, which
  is framing (`ServerStream`).  Unknown messages end the session.
* Settings and static pages have no behaviour worth a model.
* Real time (the two-second sleep, the intervals of the timer) is abstracted to
  order.
* `WriteToRFBServer`: a failed or partial write is retried or ends the session;
  only the worker writes.
