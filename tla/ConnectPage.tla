------------------------------ MODULE ConnectPage ------------------------------
(***************************************************************************)
(* ConnectPage.qml, the history of addresses it keeps with                 *)
(* InterfaceSettings, and what MainPage.qml does with the answers: the     *)
(* address starts the worker, the quality is set after that.               *)
(*                                                                         *)
(* Each dialog is a new object, so its model is filled once, from the      *)
(* settings.  A missing history is an empty one: onOpened then stops at    *)
(* the length of an undefined value.  The worker is here only what makes   *)
(* newclient read the quality; ClientThread has the rest of it.            *)
(***************************************************************************)
EXTENDS Integers, Sequences, FiniteSets, SequencesExt

CONSTANTS Urls,
          NoUrl,      \* the empty text
          MaxAccepts  \* bound: dialogs accepted

ASSUME ConnectAssumption ==
    /\ IsFiniteSet(Urls)
    /\ NoUrl \notin Urls
    /\ MaxAccepts \in Nat

VARIABLES
    stored,        \* "urlHistory" of QSettings
    \* the dialog
    page,          \* "closed" or "open"
    historyModel,
    connectionUrl,
    screenQuality, \* the slider's value, 0 before it reports one
    \* MainPage's onAccepted, and the worker
    gui,           \* "idle", or the statement to come
    quality,       \* m_quality, as InterfaceRFB numbers it
    worker,        \* "off", "sleep", "attempt" or "session"
    \* history
    accepts,
    used,          \* the dialog each address was last accepted in, 0 for none
    removed,       \* addresses removed in the open dialog
    chosen,        \* quality of the last accepted dialog
    began,         \* quality newclient has read, -1 before
    overlapped     \* that dialog was accepted while the worker ran

dialog == <<historyModel, connectionUrl, screenQuality, removed>>
vars   == <<stored, page, dialog, gui, quality, worker, accepts, used, chosen,
            began, overlapped>>

Qualities == 1 .. 3

TypeOK ==
    /\ stored \in Seq(Urls)
    /\ page \in {"closed", "open"}
    /\ historyModel \in Seq(Urls)
    /\ connectionUrl \in Urls \union {NoUrl}
    /\ screenQuality \in {0} \union Qualities
    /\ gui \in {"idle", "setVncpath", "setVncquality"}
    /\ quality \in {0} \union Qualities
    /\ worker \in {"off", "sleep", "attempt", "session"}
    /\ accepts \in 0 .. MaxAccepts
    /\ used \in [Urls -> 0 .. MaxAccepts]
    /\ removed \subseteq Urls
    /\ chosen \in {0} \union Qualities
    /\ began \in {-1, 0} \union Qualities
    /\ overlapped \in BOOLEAN
    /\ page = "closed" => historyModel = << >>
    /\ gui # "idle" => page = "closed"

Init ==
    /\ stored = << >>
    /\ page = "closed"
    /\ historyModel = << >>
    /\ connectionUrl = NoUrl
    /\ screenQuality = 0
    /\ gui = "idle"
    /\ quality = 0
    /\ worker = "off"
    /\ accepts = 0
    /\ used = [u \in Urls |-> 0]
    /\ removed = {}
    /\ chosen = 0
    /\ began = -1
    /\ overlapped = FALSE

-----------------------------------------------------------------------------
(* The dialog.  The slider has the value 1; whether setting it is reported *)
(* as a change is left open.                                               *)

\* The menu shows Connect until a session begins.
Open ==
    /\ page = "closed" /\ gui = "idle" /\ worker # "session"
    /\ page' = "open"
    /\ historyModel' = stored
    /\ connectionUrl' = NoUrl
    /\ screenQuality' \in {0, 1}
    /\ removed' = {}
    /\ UNCHANGED <<stored, gui, quality, worker, accepts, used, chosen, began,
                   overlapped>>

NotDialog == UNCHANGED <<stored, page, gui, quality, worker, accepts, used,
                         chosen, began, overlapped>>

\* Typed, or taken from the history.
EnterUrl ==
    /\ page = "open"
    /\ connectionUrl' \in (Urls \union {NoUrl}) \ {connectionUrl}
    /\ UNCHANGED <<historyModel, screenQuality, removed>>
    /\ NotDialog

MoveSlider ==
    /\ page = "open"
    /\ screenQuality' \in Qualities \ {screenQuality}
    /\ UNCHANGED <<historyModel, connectionUrl, removed>>
    /\ NotDialog

\* removeListItem() runs when remorseAction is called, not when it is over.
RemoveItem ==
    /\ page = "open"
    /\ \E k \in DOMAIN historyModel :
          /\ historyModel' = RemoveAt(historyModel, k)
          /\ removed' = removed \union {historyModel[k]}
    /\ UNCHANGED <<connectionUrl, screenQuality>>
    /\ NotDialog

ClearAll ==
    /\ page = "open" /\ historyModel # << >>
    /\ historyModel' = << >>
    /\ removed' = removed \union {historyModel[k] : k \in DOMAIN historyModel}
    /\ UNCHANGED <<connectionUrl, screenQuality>>
    /\ NotDialog

Reject ==
    /\ page = "open"
    /\ page' = "closed"
    /\ historyModel' = << >>
    /\ connectionUrl' = NoUrl
    /\ screenQuality' = 0
    /\ removed' = {}
    /\ UNCHANGED <<stored, gui, quality, worker, accepts, used, chosen, began,
                   overlapped>>

\* Mutation: the address is put first and left where it was.
PutFirst(list, url) == <<url>> \o list

\* historyList.indexOf(url)
IndexOf(list, url) ==
    CHOOSE k \in DOMAIN list :
        list[k] = url /\ \A m \in 1 .. k - 1 : list[m] # url

\* An address that is in the list moves to its head.
MoveFirst(list, url) ==
    IF \E k \in DOMAIN list : list[k] = url
    THEN <<url>> \o RemoveAt(list, IndexOf(list, url))
    ELSE <<url>> \o list

\* Mutation: an empty address is saved like the others.
Whatever == TRUE

HasUrl == connectionUrl # NoUrl

\* The dialog's own onAccepted.  An empty address saves nothing, and what was
\* removed stays in the settings.
Accept ==
    /\ page = "open" /\ accepts < MaxAccepts
    /\ page' = "closed"
    /\ IF HasUrl
       THEN /\ stored' = MoveFirst(historyModel, connectionUrl)
            /\ used' = [u \in Urls |->
                   IF u = connectionUrl THEN accepts + 1
                   ELSE IF u \in removed THEN 0 ELSE used[u]]
       ELSE UNCHANGED <<stored, used>>
    /\ accepts' = accepts + 1
    /\ chosen' = screenQuality
    /\ historyModel' = << >> /\ connectionUrl' = NoUrl
    /\ screenQuality' = 0 /\ removed' = {}
    /\ overlapped' = (worker # "off")
    /\ began' = -1
    /\ gui' = "setVncpath"
    /\ UNCHANGED <<quality, worker>>

-----------------------------------------------------------------------------
(* MainPage's onAccepted, statement by statement, and the worker.          *)

\* start() does nothing while the worker runs.
SetVncpath ==
    /\ gui = "setVncpath"
    /\ gui' = "setVncquality"
    /\ worker' = IF worker = "off" THEN "sleep" ELSE worker
    /\ UNCHANGED <<stored, page, dialog, quality, accepts, used, chosen, began,
                   overlapped>>

SetVncquality ==
    /\ gui = "setVncquality"
    /\ gui' = "idle"
    /\ quality' = chosen
    /\ UNCHANGED <<stored, page, dialog, worker, accepts, used, chosen, began,
                   overlapped>>

\* Mutation: run() does not begin with a sleep.
AtOnce == TRUE

\* sleep(2) is taken to outlast the statement that is left of the handler.
SleepOver == gui = "idle"

WakeUp ==
    /\ worker = "sleep" /\ SleepOver
    /\ worker' = "attempt"
    /\ UNCHANGED <<stored, page, dialog, gui, quality, accepts, used, chosen,
                   began, overlapped>>

\* newclient, called when the server has told its size.
NewClient ==
    /\ worker = "attempt"
    /\ worker' = "session"
    /\ began' = quality
    /\ UNCHANGED <<stored, page, dialog, gui, quality, accepts, used, chosen,
                   overlapped>>

\* The attempt fails or the session ends.
WorkerEnds ==
    /\ worker \in {"attempt", "session"}
    /\ worker' = "off"
    /\ UNCHANGED <<stored, page, dialog, gui, quality, accepts, used, chosen,
                   began, overlapped>>

Next ==
    \/ Open \/ EnterUrl \/ MoveSlider \/ RemoveItem \/ ClearAll
    \/ Reject \/ Accept
    \/ SetVncpath \/ SetVncquality
    \/ WakeUp \/ NewClient \/ WorkerEnds

Spec == Init /\ [][Next]_vars

-----------------------------------------------------------------------------
(* Properties.                                                             *)

\* The stored history has the addresses the user has connected to, each once and
\* the last used first, without those removed in a dialog that was then accepted
\* with an address.
HistoryAsUsed ==
    /\ {stored[k] : k \in DOMAIN stored} = {u \in Urls : used[u] > 0}
    /\ \A k, m \in DOMAIN stored : k < m => used[stored[k]] > used[stored[m]]

\* A session begins with the quality of the dialog that asked for it, though the
\* quality is set after the worker is started.  A dialog accepted while an
\* earlier request is being tried is the exception.
QualityAsChosen == began # -1 /\ ~overlapped => began = chosen
=============================================================================
