--------------------------- MODULE FramePipeline ----------------------------
(***************************************************************************)
(* The way of a picture from the server to the display.  The worker thread *)
(* decodes rectangles into frameBuffer, wraps it in a QImage that shares   *)
(* its memory (updatefb, setImage) and signals imageUpdated; InterfaceRFB  *)
(* regulates the frame rate with a single-shot QTimer, whose timeout gives *)
(* the image to ScreenProvider and a new source URL to the page's Image    *)
(* item, or to the cover's while the application is in the background      *)
(* (MainPage.qml, harbour-vncscreen.qml).                                  *)
(*                                                                         *)
(* Pictures are not numbered: `behind` says whether an item shows less     *)
(* than the last rectangle decoded, `newUrl` whether vncIndex has moved    *)
(* since its source was set.  The QML pixmap cache and the timer are Qt's, *)
(* modelled from their use.                                                *)
(***************************************************************************)
EXTENDS Naturals, Sequences

CONSTANT MaxSignals  \* bound: signals queued for the GUI thread

ASSUME MaxSignalsAssumption == MaxSignals \in Nat \ {0}

Items == {"screen", "cover"}  \* imageScreen and the cover's placeHolder

VARIABLES
    worker,       \* what the worker thread is doing
    m_image,      \* "null", or whose memory it shares: "live" or "freed"
    signals,      \* queued signals of the worker, oldest first
    timer,        \* "off", "running" or "due"
    m_running,    \* the application is in the foreground
    status,       \* m_connectionStatus
    screenImage,  \* of ScreenProvider, like m_image
    newUrl,       \* item -> vncIndex is not the index in its source
    behind,       \* item -> it lacks a rectangle decoded since it loaded
    missed        \* history: the visible item was behind when it got visible,
                  \* with no refresh on its way, and has not loaded since

gui  == <<timer, m_running, status, screenImage, newUrl, missed>>
vars == <<worker, m_image, signals, gui, behind>>

TypeOK ==
    /\ worker \in {"off", "connecting", "idle", "decoded", "imaged"}
    /\ m_image \in {"null", "live", "freed"}
    /\ signals \in Seq({"connected", "disconnected", "imageUpdated"})
    /\ Len(signals) <= MaxSignals
    /\ timer \in {"off", "running", "due"}
    /\ m_running \in BOOLEAN
    /\ status \in {"Connected", "Disconnected"}
    /\ screenImage \in {"null", "live", "freed"}
    /\ newUrl \in [Items -> BOOLEAN]
    /\ behind \in [Items -> BOOLEAN]
    /\ missed \in BOOLEAN

\* m_running is not initialised by the constructor.
Init ==
    /\ worker = "off"
    /\ m_image = "null"
    /\ signals = << >>
    /\ timer = "off"
    /\ m_running \in BOOLEAN
    /\ status = "Disconnected"
    /\ screenImage = "null"
    /\ newUrl = [i \in Items |-> TRUE]
    /\ behind = [i \in Items |-> FALSE]
    /\ missed = FALSE

Visible == IF m_running THEN "screen" ELSE "cover"
Hidden  == IF m_running THEN "cover" ELSE "screen"

-----------------------------------------------------------------------------
(* The worker.                                                             *)

Emit(s) == Len(signals) < MaxSignals /\ signals' = Append(signals, s)

\* The connect phase begins: the mutex is held until it is over.
Connect ==
    /\ worker = "off" /\ worker' = "connecting"
    /\ UNCHANGED <<m_image, signals, gui, behind>>

\* newclient: the old frame is deleted and a cleared one made, in which nothing
\* has been decoded yet; the images go on sharing the memory of the old one.
Freed(image) == IF image = "live" THEN "freed" ELSE image

NewClient ==
    /\ m_image' = Freed(m_image)
    /\ screenImage' = Freed(screenImage)
    /\ behind' = [i \in Items |-> FALSE]
    /\ missed' = FALSE

\* A new connection: newclient, the mutex released, and connected() ...
Connected ==
    /\ worker = "connecting" /\ worker' = "idle"
    /\ NewClient
    /\ Emit("connected")
    /\ UNCHANGED <<timer, m_running, status, newUrl>>

\* ... or the attempt fails, before or after newclient; or a session ends.
Disconnected ==
    /\ worker \in {"connecting", "idle"} /\ worker' = "off"
    /\ \/ UNCHANGED <<m_image, screenImage, behind, missed>>
       \/ worker = "connecting" /\ NewClient
    /\ Emit("disconnected")
    /\ UNCHANGED <<timer, m_running, status, newUrl>>

\* The server resizes the desktop: newclient again.
Resize ==
    /\ worker = "idle"
    /\ NewClient
    /\ UNCHANGED <<worker, signals, timer, m_running, status, newUrl>>

\* A rectangle of a FramebufferUpdate is decoded into the frame.
Decode ==
    /\ worker = "idle" /\ worker' = "decoded"
    /\ behind' = [i \in Items |-> TRUE]
    /\ UNCHANGED <<m_image, signals, gui>>

\* Mutation: the image, which shares the frame's memory, is set only once.
SetImageOnce ==
    /\ worker = "decoded" /\ worker' = "imaged"
    /\ m_image' = IF m_image = "null" THEN "live" ELSE m_image
    /\ UNCHANGED <<signals, gui, behind>>

\* updatefb: setImage, under the mutex ...
SetImage ==
    /\ worker = "decoded" /\ worker' = "imaged"
    /\ m_image' = "live"
    /\ UNCHANGED <<signals, gui, behind>>

\* ... and emitUpdated.
EmitUpdated ==
    /\ worker = "imaged" /\ worker' = "idle"
    /\ Emit("imageUpdated")
    /\ UNCHANGED <<m_image, gui, behind>>

-----------------------------------------------------------------------------
(* The GUI thread.                                                         *)

\* Mutation: the status is the signal's name.
OnStatusVerbatim ==
    /\ signals # << >> /\ Head(signals) # "imageUpdated"
    /\ signals' = Tail(signals)
    /\ status' = Head(signals)
    /\ UNCHANGED <<worker, m_image, timer, m_running, screenImage, newUrl,
                   missed, behind>>

\* A queued status signal: onConnected and onDisconnected.
OnStatus ==
    /\ signals # << >> /\ Head(signals) # "imageUpdated"
    /\ signals' = Tail(signals)
    /\ status' = IF Head(signals) = "connected" THEN "Connected"
                                                ELSE "Disconnected"
    /\ UNCHANGED <<worker, m_image, timer, m_running, screenImage, newUrl,
                   missed, behind>>

\* Mutation: either the timer is started or the index incremented.
OnImageUpdateEither ==
    /\ signals # << >> /\ Head(signals) = "imageUpdated"
    /\ signals' = Tail(signals)
    /\ IF timer \in {"off", "due"}
         THEN timer' = "running" /\ UNCHANGED newUrl
         ELSE newUrl' = [i \in Items |-> TRUE] /\ UNCHANGED timer
    /\ UNCHANGED <<worker, m_image, m_running, status, screenImage, missed,
                   behind>>

\* onImageUpdate: the timer is started when it is not active or overdue.
OnImageUpdate ==
    /\ signals # << >> /\ Head(signals) = "imageUpdated"
    /\ signals' = Tail(signals)
    /\ timer' = IF timer \in {"off", "due"} THEN "running" ELSE timer
    /\ newUrl' = [i \in Items |-> TRUE]
    /\ UNCHANGED <<worker, m_image, m_running, status, screenImage, missed,
                   behind>>

TimerExpires ==
    /\ timer = "running" /\ timer' = "due"
    /\ UNCHANGED <<worker, m_image, signals, m_running, status, screenImage,
                   newUrl, missed, behind>>

\* Whether an item that loads the current source shows everything decoded: a
\* URL the other item shows comes from the pixmap cache, any other from
\* requestImage, which reads the frame itself if it still exists.
StaysBehind(item, other) ==
    IF ~newUrl[other] THEN behind[other]
                      ELSE behind[item] /\ m_image # "live"

\* timerTimeout: image(), under the mutex, setScreenImage, and the source of
\* the visible item, which loads nothing if its URL is the same as before.
TimerTimeout ==
    /\ timer = "due" /\ timer' = "off"
    /\ worker # "connecting"
    /\ screenImage' = m_image
    /\ IF newUrl[Visible]
         THEN /\ behind' = [behind EXCEPT ![Visible] = StaysBehind(Visible, Hidden)]
              /\ newUrl' = [newUrl EXCEPT ![Visible] = FALSE]
              /\ missed' = FALSE
         ELSE UNCHANGED <<behind, newUrl, missed>>
    /\ UNCHANGED <<worker, m_image, signals, m_running, status>>

\* A refresh of the visible item is on its way.
Refreshing ==
    \/ worker \in {"decoded", "imaged"}
    \/ \E i \in DOMAIN signals : signals[i] = "imageUpdated"
    \/ timer # "off"

\* setRunning: the application changes between foreground and background.
\* setInterval restarts an active timer; only going to the background, while
\* connected, starts an inactive one.
SetRunning ==
    /\ m_running' = ~m_running
    /\ timer' = IF \/ timer # "off"
                   \/ m_running /\ status = "Connected"
                THEN "running" ELSE "off"
    /\ missed' = (behind[Hidden] /\ ~Refreshing /\ timer' = "off")
    /\ UNCHANGED <<worker, m_image, signals, status, screenImage, newUrl,
                   behind>>

WorkerStep == Connected \/ Disconnected \/ SetImage \/ EmitUpdated
GuiStep    == OnStatus \/ OnImageUpdate \/ TimerExpires \/ TimerTimeout
Outside    == Connect \/ Resize \/ Decode \/ SetRunning

Next == WorkerStep \/ GuiStep \/ Outside

Spec == Init /\ [][Next]_vars

\* The threads are scheduled, connection attempts end, and an overdue timer
\* that is restarted before its event is dispatched is not so forever.
Fairness ==
    /\ WF_vars(SetImage \/ EmitUpdated)
    /\ WF_vars(worker = "connecting" /\ WorkerStep)
    /\ WF_vars(OnStatus \/ OnImageUpdate)
    /\ WF_vars(TimerExpires)
    /\ SF_vars(TimerTimeout)

FairSpec == Spec /\ Fairness

-----------------------------------------------------------------------------
(* Properties.                                                             *)

\* No frame is lost by the regulation: when the visible item lacks something
\* decoded, a refresh that will show it is on its way, however decoding,
\* signals, the timer and changes of the application's state interleave; save
\* for an item that was already behind when it got visible.
NoLostFrame == behind[Visible] => Refreshing \/ missed

\* From the moment a rectangle of a new frame is published, the image the GUI
\* thread gets shares that frame and not the deleted one: the use of freed
\* memory that newclient opens ends with the first rectangle.
ImageSharesFrame ==
    (\E i \in Items : behind[i]) /\ m_image # "live" => worker = "decoded"

\* A frame decoded in the foreground gets to the page, one decoded in the
\* background gets to the cover at its slower rate, unless the application
\* changes between the two.
FrameReachesVisible ==
    /\ (worker = "decoded" /\ m_running) ~> (~behind["screen"] \/ ~m_running)
    /\ (worker = "decoded" /\ ~m_running) ~> (~behind["cover"] \/ m_running)

\* MainPage.qml: the refresh of the screen is stopped when the application is
\* put in the background, hence not once it is back: the page catches up.
ScreenCatchesUp ==
    (m_running /\ behind["screen"]) ~> (~behind["screen"] \/ ~m_running)
=============================================================================
