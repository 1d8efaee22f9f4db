---------------------------- MODULE ClientThread ----------------------------
(***************************************************************************)
(* The session control of the viewer: the worker thread VncClientThread    *)
(* (src/src/vncclientthread.cpp) and the GUI thread that drives it through *)
(* InterfaceRFB and MainPage.qml.                                          *)
(*                                                                         *)
(* The two threads share the members of VncClientThread.  Some are written *)
(* under `mutex`, others (m_stopped in run() and stop(),                   *)
(* m_passwordWaiting, m_password, the rfbClient itself in stop()) are not: *)
(* a method is one action where it runs under the mutex from end to end    *)
(* and is split at every unlocked access otherwise.  Qt delivers the       *)
(* worker's signals to the GUI thread through its event queue.             *)
(***************************************************************************)
EXTENDS Naturals, Sequences

CONSTANTS Hosts,        \* addresses the user may enter
          NoHost,       \* m_host before the first request
          Passwords,    \* passwords the user may enter
          RightPassword,\* the one the server accepts
          NoPassword,   \* the empty QString
          MaxConnects,  \* bound: accepted ConnectPages
          MaxInputs     \* bound: pointer and key events the user makes

ASSUME ConstantsAssumption ==
    /\ NoHost \notin Hosts
    /\ RightPassword \in Passwords
    /\ NoPassword \notin Passwords
    /\ MaxConnects \in Nat
    /\ MaxInputs \in Nat

VARIABLES
    \* members of VncClientThread
    mutex,             \* "free" or its owner
    m_stopped,
    m_passwordError,
    m_passwordWaiting,
    m_password,
    m_host,
    m_eventQueue,      \* numbers of the queued input events
    cl,                \* the rfbClient: "none", "alive" or "freed"
    serverHost,        \* cl->serverHost
    \* locals of run(), and the password GetPassword returned
    pc,                \* where the worker is
    passwd_failures,
    answer,
    \* GUI thread
    signals,           \* queued signals of the worker, oldest first
    gui,               \* what the GUI thread is executing
    newHost,           \* argument of the setUrlPath being executed
    newPassword,       \* argument of the setPassword being executed
    status,            \* m_connectionStatus, and with it the menu entries
    pages,             \* pages pushed over MainPage, topmost last
    inputActive,       \* mouseActive, or the keyboard field has the focus
    \* history
    connects,          \* ConnectPages accepted so far
    inputs,            \* input events made so far
    fired,             \* events fired so far, in order
    overlapped,        \* a request was made before the last one was over
    cancelled,         \* a PasswordPage was dismissed
    overtaken          \* an answer came before passwdHandler set the flag

thread == <<m_stopped, m_passwordError, m_passwordWaiting, m_password, m_host>>
client == <<cl, serverHost>>
local  == <<pc, passwd_failures, answer>>
screen == <<gui, newHost, newPassword, status, pages, inputActive>>
ghost  == <<connects, overlapped, cancelled, overtaken>>
events == <<m_eventQueue, inputs, fired>>
vars   == <<mutex, thread, client, local, signals, screen, ghost, events>>

Prompt == "passwordRequest"
Signal == {Prompt, "connected", "disconnected"}

\* "off": the QThread is not running; "returned": run() is over, not yet it.
ConnectPcs == {"sleep", "head", "attempt", "wait", "init", "ask", "raised",
               "auth", "failed", "unlock", "reset"}
SessionPcs == {"poll", "message", "handle", "relock", "drain", "leave",
               "cleanup", "mark"}
WorkerPcs  == ConnectPcs \union SessionPcs \union {"off", "returned"}
GuiOps     == {"loop", "setUrlPath", "start", "clearWaiting", "storePassword",
               "stop", "stopListening", "stopLocked", "input"}

\* GUI operations whose next step takes the mutex.
LockingOps == {"setUrlPath", "stopLocked", "input"}

TypeOK ==
    /\ mutex \in {"free", "worker"}
    /\ m_stopped \in BOOLEAN
    /\ m_passwordError \in BOOLEAN
    /\ m_passwordWaiting \in BOOLEAN
    /\ m_password \in Passwords \union {NoPassword}
    /\ m_host \in Hosts \union {NoHost}
    /\ m_eventQueue \in Seq(Nat)
    /\ cl \in {"none", "alive", "freed"}
    /\ serverHost \in Hosts \union {NoHost}
    /\ pc \in WorkerPcs
    /\ passwd_failures \in Nat
    /\ answer \in Passwords \union {NoPassword}
    /\ signals \in Seq(Signal)
    /\ gui \in GuiOps
    /\ newHost \in Hosts \union {NoHost}
    /\ newPassword \in Passwords \union {NoPassword}
    /\ status \in {"Connected", "Disconnected"}
    /\ pages \in Seq({"connect", "password"})
    /\ inputActive \in BOOLEAN
    /\ connects \in Nat
    /\ inputs \in Nat
    /\ fired \in Seq(Nat)
    /\ overlapped \in BOOLEAN
    /\ cancelled \in BOOLEAN
    /\ overtaken \in BOOLEAN

Init ==
    /\ mutex = "free"
    /\ m_stopped = FALSE
    /\ m_passwordError = FALSE
    /\ m_passwordWaiting = FALSE
    /\ m_password = NoPassword
    /\ m_host = NoHost
    /\ m_eventQueue = << >>
    /\ cl = "none"
    /\ serverHost = NoHost
    /\ pc = "off"
    /\ passwd_failures = 0
    /\ answer = NoPassword
    /\ signals = << >>
    /\ gui = "loop"
    /\ newHost = NoHost
    /\ newPassword = NoPassword
    /\ status = "Disconnected"
    /\ pages = << >>
    /\ inputActive = FALSE
    /\ connects = 0
    /\ inputs = 0
    /\ fired = << >>
    /\ overlapped = FALSE
    /\ cancelled = FALSE
    /\ overtaken = FALSE

-----------------------------------------------------------------------------
(* The worker: VncClientThread::run() and the callbacks it runs.           *)

Goto(from, to) == pc = from /\ pc' = to
Lock(who)   == mutex = "free" /\ mutex' = who
Unlock      == mutex' = "free"
Emit(s)     == signals' = Append(signals, s)

\* sleep(2), then the QMutexLocker and the two initialisations.
WakeUp ==
    /\ Goto("sleep", "head")
    /\ Lock("worker")
    /\ m_password' = NoPassword
    /\ passwd_failures' = 0
    /\ UNCHANGED <<m_stopped, m_passwordError, m_passwordWaiting, m_host,
                   client, answer, signals, screen, ghost, events>>

\* while (!m_stopped): a stop before the first attempt skips all of them and
\* falls into the message loop.
TestStopped ==
    /\ pc = "head"
    /\ pc' = IF m_stopped THEN "unlock" ELSE "attempt"
    /\ UNCHANGED <<mutex, thread, client, passwd_failures, answer, signals,
                   screen, ghost, events>>

\* Mutation: the address of the first attempt is kept.
AttemptSameHost ==
    /\ Goto("attempt", "wait")
    /\ m_passwordError' = FALSE
    /\ cl' = "alive"
    /\ serverHost' = IF cl = "none" THEN m_host ELSE serverHost
    /\ UNCHANGED <<mutex, m_stopped, m_passwordWaiting, m_password, m_host,
                   passwd_failures, answer, signals, screen, ghost, events>>

\* A new rfbClient, its callbacks and parameters, ConnectToRFBServer, whose
\* result is only logged.
Attempt ==
    /\ Goto("attempt", "wait")
    /\ m_passwordError' = FALSE
    /\ cl' = "alive"
    /\ serverHost' = m_host
    /\ UNCHANGED <<mutex, m_stopped, m_passwordWaiting, m_password, m_host,
                   passwd_failures, answer, signals, screen, ghost, events>>

\* The busy wait for m_passwordWaiting, with the mutex held.
SpinOver ==
    /\ Goto("wait", "init")
    /\ ~m_passwordWaiting
    /\ UNCHANGED <<mutex, thread, client, passwd_failures, answer, signals,
                   screen, ghost, events>>

\* rfbInitClient without a password: the server is unreachable, refuses, asks
\* for none, or its parameters are bad.  A failure frees the rfbClient.
InitClient ==
    /\ pc = "init"
    /\ \/ pc' = "unlock" /\ UNCHANGED cl
       \/ pc' = "failed" /\ cl' = "freed"
    /\ UNCHANGED <<mutex, thread, serverHost, passwd_failures, answer,
                   signals, screen, ghost, events>>

\* passwdHandler up to the signal ...
AskPassword ==
    /\ Goto("init", "ask")
    /\ m_passwordError' = TRUE
    /\ Emit(Prompt)
    /\ UNCHANGED <<mutex, m_stopped, m_passwordWaiting, m_password, m_host,
                   client, passwd_failures, answer, screen, ghost, events>>

\* ... the flag, raised only after it ...
RaiseWaiting ==
    /\ Goto("ask", "raised")
    /\ m_passwordWaiting' = TRUE
    /\ UNCHANGED <<mutex, m_stopped, m_passwordError, m_password, m_host,
                   client, passwd_failures, answer, signals, screen, ghost,
                   events>>

\* ... the password, whichever is there by then ...
ReadPassword ==
    /\ Goto("raised", "auth")
    /\ answer' = m_password
    /\ UNCHANGED <<mutex, thread, client, passwd_failures, signals, screen,
                   ghost, events>>

\* ... and HandleVncAuth: an empty password is never sent, a wrong one is
\* refused, after the right one the rest may still fail.
Authenticate ==
    /\ pc = "auth"
    /\ \/ answer = RightPassword /\ pc' = "unlock" /\ UNCHANGED cl
       \/ pc' = "failed" /\ cl' = "freed"
    /\ UNCHANGED <<mutex, thread, serverHost, passwd_failures, answer,
                   signals, screen, ghost, events>>

\* Mutation: each failed attempt is announced, and the thread tries again.
RetryAnnounced ==
    /\ Goto("failed", "head")
    /\ m_passwordError
    /\ passwd_failures + 1 < 3
    /\ passwd_failures' = passwd_failures + 1
    /\ Emit("disconnected")
    /\ UNCHANGED <<mutex, thread, client, answer, screen, ghost, events>>

\* init failed: with a password asked for, up to three times.
Retry ==
    /\ Goto("failed", "head")
    /\ m_passwordError
    /\ passwd_failures + 1 < 3
    /\ passwd_failures' = passwd_failures + 1
    /\ UNCHANGED <<mutex, thread, client, answer, signals, screen, ghost,
                   events>>

GiveUp ==
    /\ Goto("failed", "returned")
    /\ ~m_passwordError \/ passwd_failures + 1 >= 3
    /\ passwd_failures' = IF m_passwordError THEN passwd_failures + 1
                                             ELSE passwd_failures
    /\ m_stopped' = TRUE
    /\ Emit("disconnected")
    /\ Unlock
    /\ UNCHANGED <<m_passwordError, m_passwordWaiting, m_password, m_host,
                   client, answer, screen, ghost, events>>

\* Mutation: connected() is emitted before m_stopped is reset.
UnlockAnnounced ==
    /\ Goto("unlock", "reset")
    /\ Unlock
    /\ Emit("connected")
    /\ UNCHANGED <<thread, client, passwd_failures, answer, screen, ghost,
                   events>>

UnlockConnected ==
    /\ Goto("unlock", "reset")
    /\ Unlock
    /\ UNCHANGED <<thread, client, passwd_failures, answer, signals, screen,
                   ghost, events>>

\* m_stopped=false, outside of the mutex, and emit connected().
ResetStopped ==
    /\ Goto("reset", "poll")
    /\ m_stopped' = FALSE
    /\ Emit("connected")
    /\ UNCHANGED <<mutex, m_passwordError, m_passwordWaiting, m_password,
                   m_host, client, passwd_failures, answer, screen, ghost,
                   events>>

PollStopped ==
    /\ pc = "poll"
    /\ pc' = IF m_stopped THEN "leave" ELSE "message"
    /\ UNCHANGED <<mutex, thread, client, passwd_failures, answer, signals,
                   screen, ghost, events>>

\* Mutation: a round without a message skips the event queue.
WaitWithoutEvents ==
    /\ pc = "message"
    /\ IF m_stopped THEN pc' = "leave"
                    ELSE pc' \in {"handle", "poll", "leave"}
    /\ UNCHANGED <<mutex, thread, client, passwd_failures, answer, signals,
                   screen, ghost, events>>

\* WaitForMessage: a message, none within its timeout, or an error.
WaitForMessage ==
    /\ pc = "message"
    /\ IF m_stopped THEN pc' = "leave"
                    ELSE pc' \in {"handle", "relock", "leave"}
    /\ UNCHANGED <<mutex, thread, client, passwd_failures, answer, signals,
                   screen, ghost, events>>

\* HandleRFBServerMessage, outside of the mutex; FALSE ends the session.
HandleMessage ==
    /\ pc = "handle"
    /\ pc' \in {"relock", "leave"}
    /\ UNCHANGED <<mutex, thread, client, passwd_failures, answer, signals,
                   screen, ghost, events>>

Relock ==
    /\ Goto("relock", "drain")
    /\ Lock("worker")
    /\ UNCHANGED <<thread, client, passwd_failures, answer, signals, screen,
                   ghost, events>>

\* Mutation: the event is fired but not dequeued.
FireWithoutDequeue ==
    /\ pc = "drain"
    /\ m_eventQueue # << >>
    /\ fired' = Append(fired, Head(m_eventQueue))
    /\ UNCHANGED <<mutex, thread, client, local, signals, screen, ghost,
                   inputs, m_eventQueue>>

\* dequeue, fire and delete one ClientEvent.
FireEvent ==
    /\ pc = "drain"
    /\ m_eventQueue # << >>
    /\ fired' = Append(fired, Head(m_eventQueue))
    /\ m_eventQueue' = Tail(m_eventQueue)
    /\ UNCHANGED <<mutex, thread, client, local, signals, screen, ghost, inputs>>

\* Mutation: the mutex stays locked.
DrainedLocked ==
    /\ Goto("drain", "poll")
    /\ m_eventQueue = << >>
    /\ UNCHANGED <<mutex, thread, client, passwd_failures, answer, signals,
                   screen, ghost, events>>

Drained ==
    /\ Goto("drain", "poll")
    /\ m_eventQueue = << >>
    /\ Unlock
    /\ UNCHANGED <<thread, client, passwd_failures, answer, signals, screen,
                   ghost, events>>

\* Mutation: the loop is left only when every event has been sent.
LeaveLoopFlushed ==
    /\ Goto("leave", "cleanup")
    /\ m_eventQueue = << >>
    /\ Lock("worker")
    /\ UNCHANGED <<thread, client, passwd_failures, answer, signals, screen,
                   ghost, events>>

LeaveLoop ==
    /\ Goto("leave", "cleanup")
    /\ Lock("worker")
    /\ UNCHANGED <<thread, client, passwd_failures, answer, signals, screen,
                   ghost, events>>

\* Mutation: rfbClientCleanup is left to somebody else.
CleanupForgotten ==
    /\ Goto("cleanup", "mark")
    /\ UNCHANGED <<mutex, thread, client, passwd_failures, answer, signals,
                   screen, ghost, events>>

\* rfbClientCleanup(cl): m_stopped is still unset.
Cleanup ==
    /\ Goto("cleanup", "mark")
    /\ cl' = "freed"
    /\ UNCHANGED <<mutex, thread, serverHost, passwd_failures, answer, signals,
                   screen, ghost, events>>

\* Mutation: the end of a session that was stopped is not announced.
MarkStoppedQuietly ==
    /\ Goto("mark", "returned")
    /\ m_stopped' = TRUE
    /\ IF m_stopped THEN UNCHANGED signals ELSE Emit("disconnected")
    /\ Unlock
    /\ UNCHANGED <<m_passwordError, m_passwordWaiting, m_password, m_host,
                   client, passwd_failures, answer, screen, ghost, events>>

MarkStopped ==
    /\ Goto("mark", "returned")
    /\ m_stopped' = TRUE
    /\ Emit("disconnected")
    /\ Unlock
    /\ UNCHANGED <<m_passwordError, m_passwordWaiting, m_password, m_host,
                   client, passwd_failures, answer, screen, ghost, events>>

\* QThread's own epilogue: only from here on does start() start it again.
Finish ==
    /\ Goto("returned", "off")
    /\ UNCHANGED <<mutex, thread, client, passwd_failures, answer, signals,
                   screen, ghost, events>>

LocalStep ==
    \/ WakeUp \/ TestStopped \/ SpinOver \/ RaiseWaiting \/ ReadPassword
    \/ Retry \/ GiveUp \/ UnlockConnected \/ ResetStopped \/ PollStopped
    \/ WaitForMessage \/ Relock \/ Drained \/ LeaveLoop \/ Cleanup
    \/ MarkStopped \/ Finish

\* The steps that read from or write to the server, which may keep them waiting
\* for ever: ReadFromRFBServer and WriteToRFBServer have no timeout.
NetworkStep ==
    Attempt \/ InitClient \/ AskPassword \/ Authenticate \/ HandleMessage
    \/ FireEvent

Worker == LocalStep \/ NetworkStep

-----------------------------------------------------------------------------
(* The GUI thread: queued signals, page events and the calls they make.    *)

TopIs(page) == pages # << >> /\ pages[Len(pages)] = page
OnMainPage  == pages = << >>
Pop(s)      == SubSeq(s, 1, Len(s) - 1)
Begin(op)   == gui = "loop" /\ gui' = op
End         == gui' = "loop"

worker == <<local, client>>

\* A queued signal reaches InterfaceRFB and MainPage: a PasswordPage is
\* pushed, or the menu entries and the dock buttons follow the status.
DeliverSignal ==
    /\ gui = "loop"
    /\ signals # << >>
    /\ signals' = Tail(signals)
    /\ IF Head(signals) = Prompt
         THEN pages' = Append(pages, "password") /\ UNCHANGED status
         ELSE /\ status' = IF Head(signals) = "connected"
                             THEN "Connected" ELSE "Disconnected"
              /\ UNCHANGED pages
    /\ UNCHANGED <<mutex, thread, worker, gui, newHost, newPassword,
                   inputActive, ghost, events>>

\* The Connect entry is shown while the status is Disconnected.
OpenConnectPage ==
    /\ gui = "loop" /\ OnMainPage
    /\ status = "Disconnected"
    /\ pages' = <<"connect">>
    /\ UNCHANGED <<mutex, thread, worker, signals, gui, newHost, newPassword,
                   status, inputActive, ghost, events>>

DismissConnectPage ==
    /\ gui = "loop" /\ TopIs("connect")
    /\ pages' = Pop(pages)
    /\ UNCHANGED <<mutex, thread, worker, signals, gui, newHost, newPassword,
                   status, inputActive, ghost, events>>

\* The dialog is accepted: setVncpath begins.
AcceptConnectPage(h) ==
    /\ Begin("setUrlPath") /\ TopIs("connect")
    /\ connects < MaxConnects
    /\ pages' = Pop(pages)
    /\ newHost' = h
    /\ connects' = connects + 1
    /\ overlapped' = (overlapped \/ pc # "off" \/ signals # << >>)
    /\ UNCHANGED <<mutex, thread, worker, signals, newPassword, status,
                   inputActive, cancelled, overtaken, events>>

\* Mutation: a new request leaves m_stopped as the last session left it.
SetUrlPathStopped ==
    /\ gui = "setUrlPath" /\ gui' = "start"
    /\ mutex = "free"
    /\ m_host' = newHost
    /\ UNCHANGED <<mutex, m_stopped, m_passwordError, m_passwordWaiting,
                   m_password, worker, signals, newHost, newPassword, status,
                   pages, inputActive, ghost, events>>

\* VncClientThread::setUrlPath, under the mutex.
SetUrlPath ==
    /\ gui = "setUrlPath" /\ gui' = "start"
    /\ mutex = "free"
    /\ m_stopped' = FALSE
    /\ m_host' = newHost
    /\ UNCHANGED <<mutex, m_passwordError, m_passwordWaiting, m_password,
                   worker, signals, newHost, newPassword, status, pages,
                   inputActive, ghost, events>>

\* QThread::start(): nothing happens while the thread is running.
Start ==
    /\ gui = "start" /\ End
    /\ pc' = IF pc = "off" THEN "sleep" ELSE pc
    /\ UNCHANGED <<mutex, thread, client, passwd_failures, answer, signals,
                   newHost, newPassword, status, pages, inputActive, ghost,
                   events>>

\* A PasswordPage dismissed: MainPage does not handle it.
DismissPasswordPage ==
    /\ gui = "loop" /\ TopIs("password")
    /\ pages' = Pop(pages)
    /\ cancelled' = TRUE
    /\ UNCHANGED <<mutex, thread, worker, signals, gui, newHost, newPassword,
                   status, inputActive, connects, overlapped, overtaken,
                   events>>

\* A PasswordPage accepted: setPassword begins, without the mutex ...
AcceptPasswordPage(p) ==
    /\ Begin("clearWaiting") /\ TopIs("password")
    /\ pages' = Pop(pages)
    /\ newPassword' = p
    /\ UNCHANGED <<mutex, thread, worker, signals, newHost, status,
                   inputActive, ghost, events>>

\* Mutation: setPassword stores the password only.
ClearNothing ==
    /\ gui = "clearWaiting" /\ gui' = "storePassword"
    /\ UNCHANGED <<mutex, thread, worker, signals, newHost, newPassword,
                   status, pages, inputActive, ghost, events>>

\* ... the flag first, which lets the worker go ...
ClearWaiting ==
    /\ gui = "clearWaiting" /\ gui' = "storePassword"
    /\ m_passwordWaiting' = FALSE
    /\ overtaken' = (overtaken \/ pc = "ask")
    /\ UNCHANGED <<mutex, m_stopped, m_passwordError, m_password, m_host,
                   worker, signals, newHost, newPassword, status, pages,
                   inputActive, connects, overlapped, cancelled, events>>

\* ... then the password.
StorePassword ==
    /\ gui = "storePassword" /\ End
    /\ m_password' = newPassword
    /\ UNCHANGED <<mutex, m_stopped, m_passwordError, m_passwordWaiting,
                   m_host, worker, signals, newHost, newPassword, status,
                   pages, inputActive, ghost, events>>

\* The Disconnect entry is shown while the status is Connected.
ClickDisconnect ==
    /\ Begin("stop") /\ OnMainPage
    /\ status = "Connected"
    /\ UNCHANGED <<mutex, thread, worker, signals, newHost, newPassword,
                   status, pages, inputActive, ghost, events>>

\* stop(): the early return ...
StopTest ==
    /\ gui = "stop"
    /\ gui' = IF m_stopped THEN "loop" ELSE "stopListening"
    /\ UNCHANGED <<mutex, thread, worker, signals, newHost, newPassword,
                   status, pages, inputActive, ghost, events>>

\* ... cl->listenSpecified = false, whatever cl points to ...
StopListening ==
    /\ gui = "stopListening" /\ gui' = "stopLocked"
    /\ UNCHANGED <<mutex, thread, worker, signals, newHost, newPassword,
                   status, pages, inputActive, ghost, events>>

\* Mutation: stop() returns with the mutex locked.
StopStaysLocked ==
    /\ gui = "stopLocked" /\ End
    /\ Lock("gui")
    /\ m_stopped' = TRUE
    /\ m_passwordWaiting' = FALSE
    /\ UNCHANGED <<m_passwordError, m_password, m_host, worker, signals,
                   newHost, newPassword, status, pages, inputActive, ghost,
                   events>>

\* ... and the part under the mutex.
StopLocked ==
    /\ gui = "stopLocked" /\ End
    /\ mutex = "free"
    /\ m_stopped' = TRUE
    /\ m_passwordWaiting' = FALSE
    /\ UNCHANGED <<mutex, m_passwordError, m_password, m_host, worker,
                   signals, newHost, newPassword, status, pages, inputActive,
                   ghost, events>>

\* The dock buttons are enabled while connected; what they switched on stays.
ToggleInput ==
    /\ gui = "loop" /\ OnMainPage
    /\ status = "Connected"
    /\ inputActive' = ~inputActive
    /\ UNCHANGED <<mutex, thread, worker, signals, gui, newHost, newPassword,
                   status, pages, ghost, events>>

\* The user touches the screen image or a key: mouseEvent or keyEvent begins.
MakeInput ==
    /\ Begin("input") /\ OnMainPage
    /\ inputActive
    /\ inputs < MaxInputs
    /\ inputs' = inputs + 1
    /\ UNCHANGED <<mutex, thread, worker, signals, newHost, newPassword,
                   status, pages, inputActive, ghost, m_eventQueue, fired>>

\* mouseEvent and keyEvent, under the mutex: dropped when stopped.
EnqueueEvent ==
    /\ gui = "input" /\ End
    /\ mutex = "free"
    /\ m_eventQueue' = IF m_stopped THEN m_eventQueue
                                    ELSE Append(m_eventQueue, inputs)
    /\ UNCHANGED <<mutex, thread, worker, signals, newHost, newPassword,
                   status, pages, inputActive, ghost, inputs, fired>>

\* What the GUI thread does by itself, and what takes a user.  One call of it
\* is left to module FramePipeline: timerTimeout's image(), which takes the
\* mutex too, as EnqueueEvent does, and changes nothing of this module.
GuiStep ==
    \/ DeliverSignal \/ SetUrlPath \/ Start \/ ClearWaiting \/ StorePassword
    \/ StopTest \/ StopListening \/ StopLocked \/ EnqueueEvent

AnswerPrompt == \E p \in Passwords \union {NoPassword} : AcceptPasswordPage(p)

User ==
    \/ OpenConnectPage \/ DismissConnectPage
    \/ \E h \in Hosts : AcceptConnectPage(h)
    \/ AnswerPrompt \/ DismissPasswordPage
    \/ ClickDisconnect \/ ToggleInput \/ MakeInput

Next == Worker \/ GuiStep \/ User

Spec == Init /\ [][Next]_vars

\* Both threads are scheduled.  The GUI thread gets the mutex in the end if the
\* worker keeps releasing it: hence strong fairness, which the code justifies
\* by its select() of up to 500 us outside of the mutex in each round.
Fairness == WF_vars(LocalStep) /\ SF_vars(GuiStep)

FairSpec == Spec /\ Fairness

\* The environment's part: the server completes what it begins, or closes the
\* connection, and the user answers every prompt he sees.
AnsweringSpec == FairSpec /\ WF_vars(NetworkStep) /\ WF_vars(AnswerPrompt)

-----------------------------------------------------------------------------
(* Safety.                                                                 *)

\* The places of run() that dereference cl.
UsesClient == {"wait", "init", "ask", "raised", "auth", "unlock", "reset",
               "poll", "message", "handle", "relock", "drain", "leave",
               "cleanup"}

\* The places of run() between taking the mutex and releasing it.
LockedPcs == {"head", "attempt", "wait", "init", "ask", "raised", "auth",
              "failed", "unlock", "drain", "cleanup", "mark"}

\* Whatever the GUI thread does in between, run() never touches an rfbClient
\* that does not exist, or that rfbInitClient or an earlier run freed, as long
\* as each request waits for the previous one to be over.
WorkerClientAlive == overlapped \/ (pc \in UsesClient => cl = "alive")

\* No rfbClient outlives the run that made it: however run() ends, and however
\* often it retries, exactly one of rfbInitClient and run() has freed it.
NoClientLeak == cl = "alive" => pc \in UsesClient

\* What the user will see once the queued signals are delivered is what the
\* worker is doing: the last of "connected" and "disconnected" in flight, or
\* else the status shown, is "connected" exactly while a session runs.
ViewInSync ==
    /\ \A i \in DOMAIN signals :
          (/\ signals[i] # Prompt
           /\ \A j \in DOMAIN signals : j > i => signals[j] = Prompt)
          => (signals[i] = "connected" <=> pc \in SessionPcs)
    /\ (\A i \in DOMAIN signals : signals[i] = Prompt)
       => (status = "Connected" <=> pc \in SessionPcs)

\* The session that runs is with the server asked for last.
ServesLastRequest ==
    overlapped \/ (pc \in SessionPcs => serverHost = m_host)

\* A worker that waits for a password has a prompt on its way to the user or
\* on the screen: it cannot wait for an answer nobody was asked for, except
\* after a cancelled prompt or an answer that passwdHandler then overwrote.
PromptPending ==
    \/ \E i \in DOMAIN signals : signals[i] = Prompt
    \/ \E i \in DOMAIN pages : pages[i] = "password"
    \/ gui = "clearWaiting"

PromptForEveryWait ==
    (pc = "wait" /\ m_passwordWaiting)
       => PromptPending \/ cancelled \/ overtaken

\* The server gets every event the code queued once, in the order the user
\* made them, across sessions too (the queue is never cleared).
Increasing(s) == \A i, j \in DOMAIN s : i < j => s[i] < s[j]
EventsInOrder == Increasing(fired \o m_eventQueue)

\* With a server that answers, the user interface freezes for good in one way
\* only: a call that takes the mutex made while the worker holds it, waiting
\* for a password that only the frozen thread could deliver.
GuiFrozen == gui \in LockingOps /\ pc = "wait" /\ m_passwordWaiting
CanStep == \/ /\ pc # "off"
              /\ pc \in {"sleep", "relock", "leave"} => mutex = "free"
              /\ pc = "wait" => ~m_passwordWaiting
           \/ gui \in LockingOps => mutex = "free"
OneWayToFreeze == (CanStep <=> ENABLED Next) /\ (CanStep \/ GuiFrozen)

\* A stop is revoked by a new request only: the unlocked m_stopped=false that
\* follows the connection never overwrites one.
StopNotRevoked ==
    [][m_stopped /\ ~m_stopped' => gui = "setUrlPath" \/ overlapped]_vars

\* The two threads together behave as the sequential promise of module
\* Session: requests, prompts, outcomes and ends in order, one notice each.
Phase == CASE pc \in ConnectPcs -> "connecting"
           [] pc \in SessionPcs -> "connected"
           [] OTHER             -> "idle"

View == INSTANCE Session
            WITH phase <- Phase, notices <- signals, shown <- status

ImplementsSession == View!Spec

\* A part of stop()'s comment: "should be safe without locking".
StopTouchesLiveClient == gui = "stopListening" => cl = "alive"

-----------------------------------------------------------------------------
(* Liveness.                                                               *)

\* Disconnect ends the session, however many messages still come: it takes a
\* server that completes the one being read, not a silent one.
StopEndsSession ==
    (m_stopped /\ pc \in SessionPcs) ~> (pc = "off" \/ overlapped)

\* If the user answers his prompts, every request comes to a session or to a
\* failure, unless a prompt was cancelled, an answer overtaken or the user
\* interface frozen.
RequestResolves ==
    (pc = "sleep") ~> \/ pc \in SessionPcs \union {"off"}
                      \/ cancelled \/ overtaken \/ GuiFrozen

\* While the session lasts no event stays in the queue.
EventsFlushed ==
    (m_eventQueue # << >>) ~> (m_eventQueue = << >> \/ pc \notin SessionPcs)
=============================================================================
