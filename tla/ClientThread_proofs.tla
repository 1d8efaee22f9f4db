------------------------- MODULE ClientThread_proofs -------------------------
(***************************************************************************)
(* Proofs about ClientThread, for every choice of hosts and passwords and  *)
(* any number of requests and events.                                      *)
(***************************************************************************)
EXTENDS ClientThread, Measures, SequenceTheorems, TLAPS

(***************************************************************************)
(* Every variable keeps its type.                                          *)
(***************************************************************************)
LEMMA PopType ==
    ASSUME NEW S, NEW s \in Seq(S), s # << >>
    PROVE  Pop(s) \in Seq(S)
  <1>1. Len(s) \in Nat /\ \A i \in 1 .. Len(s) - 1 : s[i] \in S
    BY LenProperties, ElementOfSeq
  <1> QED BY <1>1, SubSeqProperties DEF Pop

LEMMA TypeInit == Init => TypeOK
  <1> SUFFICES ASSUME Init PROVE TypeOK
    OBVIOUS
  <1>1. /\ m_stopped \in BOOLEAN /\ m_passwordError \in BOOLEAN
        /\ m_passwordWaiting \in BOOLEAN /\ inputActive \in BOOLEAN
        /\ overlapped \in BOOLEAN /\ cancelled \in BOOLEAN
        /\ overtaken \in BOOLEAN
    BY DEF Init
  <1> QED
    BY <1>1 DEF Init, TypeOK, WorkerPcs, ConnectPcs, SessionPcs, GuiOps

LEMMA WorkerType ==
    ASSUME TypeOK, Worker
    PROVE  TypeOK'
  <1> USE DEF Goto, Lock, Unlock, Emit, Prompt, Signal, WorkerPcs, ConnectPcs,
          SessionPcs, thread, client, local, screen, ghost, events
  <1>1. CASE WakeUp BY <1>1 DEF WakeUp, TypeOK
  <1>2. CASE TestStopped BY <1>2 DEF TestStopped, TypeOK
  <1>3. CASE Attempt
    <2>1. m_passwordError' \in BOOLEAN BY <1>3 DEF Attempt
    <2> QED BY <1>3, <2>1 DEF Attempt, TypeOK
  <1>4. CASE SpinOver BY <1>4 DEF SpinOver, TypeOK
  <1>5. CASE InitClient BY <1>5 DEF InitClient, TypeOK
  <1>6. CASE AskPassword BY <1>6 DEF AskPassword, TypeOK
  <1>7. CASE RaiseWaiting \/ ReadPassword
    <2>1. CASE RaiseWaiting BY <2>1 DEF RaiseWaiting, TypeOK
    <2>2. CASE ReadPassword BY <2>2 DEF ReadPassword, TypeOK
    <2> QED BY <1>7, <2>1, <2>2
  <1>8. CASE Authenticate BY <1>8 DEF Authenticate, TypeOK
  <1>9. CASE Retry BY <1>9 DEF Retry, TypeOK
  <1>10. CASE GiveUp BY <1>10 DEF GiveUp, TypeOK
  <1>11. CASE UnlockConnected BY <1>11 DEF UnlockConnected, TypeOK
  <1>12. CASE ResetStopped
    <2>1. m_stopped' \in BOOLEAN BY <1>12 DEF ResetStopped
    <2> QED BY <1>12, <2>1 DEF ResetStopped, TypeOK
  <1>13. CASE PollStopped BY <1>13 DEF PollStopped, TypeOK
  <1>14. CASE WaitForMessage BY <1>14 DEF WaitForMessage, TypeOK
  <1>15. CASE HandleMessage BY <1>15 DEF HandleMessage, TypeOK
  <1>16. CASE Relock BY <1>16 DEF Relock, TypeOK
  <1>17. CASE FireEvent BY <1>17 DEF FireEvent, TypeOK
  <1>18. CASE Drained BY <1>18 DEF Drained, TypeOK
  <1>19. CASE LeaveLoop BY <1>19 DEF LeaveLoop, TypeOK
  <1>20. CASE Cleanup BY <1>20 DEF Cleanup, TypeOK
  <1>21. CASE MarkStopped BY <1>21 DEF MarkStopped, TypeOK
  <1>22. CASE Finish BY <1>22 DEF Finish, TypeOK
  <1> QED
    BY <1>1, <1>2, <1>3, <1>4, <1>5, <1>6, <1>7, <1>8, <1>9, <1>10, <1>11,
       <1>12, <1>13, <1>14, <1>15, <1>16, <1>17, <1>18, <1>19, <1>20, <1>21,
       <1>22 DEF Worker, LocalStep, NetworkStep

LEMMA GuiType ==
    ASSUME TypeOK, GuiStep \/ User
    PROVE  TypeOK'
  <1> USE DEF Begin, End, TopIs, Prompt, Signal, GuiOps, WorkerPcs, ConnectPcs,
          thread, client, local, worker, ghost, events
  <1>1. CASE DeliverSignal
    <2>1. signals' \in Seq(Signal)
      BY <1>1, HeadTailProperties DEF DeliverSignal, TypeOK
    <2>2. pages' \in Seq({"connect", "password"})
      <3>1. pages' = pages \/ pages' = Append(pages, "password")
        BY <1>1 DEF DeliverSignal
      <3>2. pages \in Seq({"connect", "password"}) BY DEF TypeOK
      <3> QED BY <3>1, <3>2
    <2>3. status' \in {"Connected", "Disconnected"}
      BY <1>1 DEF DeliverSignal, TypeOK
    <2> QED BY <1>1, <2>1, <2>2, <2>3 DEF DeliverSignal, TypeOK
  <1>2. CASE SetUrlPath
    <2>1. m_stopped' \in BOOLEAN BY <1>2 DEF SetUrlPath
    <2> QED BY <1>2, <2>1 DEF SetUrlPath, TypeOK
  <1>3. CASE Start BY <1>3 DEF Start, TypeOK
  <1>4. CASE ClearWaiting
    <2>1. m_passwordWaiting' \in BOOLEAN BY <1>4 DEF ClearWaiting
    <2> QED BY <1>4, <2>1 DEF ClearWaiting, TypeOK
  <1>5. CASE StorePassword BY <1>5 DEF StorePassword, TypeOK
  <1>6. CASE StopTest BY <1>6 DEF StopTest, TypeOK
  <1>7. CASE StopListening BY <1>7 DEF StopListening, TypeOK
  <1>8. CASE StopLocked
    <2>1. m_passwordWaiting' \in BOOLEAN BY <1>8 DEF StopLocked
    <2> QED BY <1>8, <2>1 DEF StopLocked, TypeOK
  <1>9. CASE EnqueueEvent BY <1>9 DEF EnqueueEvent, TypeOK
  <1>10. CASE OpenConnectPage BY <1>10 DEF OpenConnectPage, TypeOK
  <1>11. CASE DismissConnectPage
    BY <1>11, PopType DEF DismissConnectPage, TypeOK
  <1>12. ASSUME NEW h \in Hosts, AcceptConnectPage(h) PROVE TypeOK'
    BY <1>12, PopType DEF AcceptConnectPage, TypeOK
  <1>13. ASSUME NEW p \in Passwords \union {NoPassword}, AcceptPasswordPage(p)
         PROVE  TypeOK'
    BY <1>13, PopType DEF AcceptPasswordPage, TypeOK
  <1>14. CASE DismissPasswordPage
    BY <1>14, PopType DEF DismissPasswordPage, TypeOK
  <1>15. CASE ClickDisconnect BY <1>15 DEF ClickDisconnect, TypeOK
  <1>16. CASE ToggleInput BY <1>16 DEF ToggleInput, TypeOK
  <1>17. CASE MakeInput BY <1>17 DEF MakeInput, TypeOK
  <1> QED
    BY <1>1, <1>2, <1>3, <1>4, <1>5, <1>6, <1>7, <1>8, <1>9, <1>10, <1>11,
       <1>12, <1>13, <1>14, <1>15, <1>16, <1>17
    DEF GuiStep, User, AnswerPrompt

LEMMA TypeStutter ==
    ASSUME TypeOK, UNCHANGED vars
    PROVE  TypeOK'
  BY DEF TypeOK, vars, thread, client, local, screen, ghost, events

\* The type invariant of the two threads' shared state.
THEOREM TypeCorrect == Spec => []TypeOK
  <1>1. TypeOK /\ [Next]_vars => TypeOK'
    BY WorkerType, GuiType, TypeStutter DEF Next
  <1> QED BY <1>1, TypeInit, PTL DEF Spec

(***************************************************************************)
(* The inductive invariant behind the safety theorems.                     *)
(***************************************************************************)
Requesting == gui \in {"setUrlPath", "start"}
Stopping   == gui \in {"stop", "stopListening", "stopLocked"}

\* The status shown is Disconnected, and nothing queued will change it.
Quiet ==
    /\ status = "Disconnected"
    /\ \A i \in DOMAIN signals : signals[i] = Prompt

\* The worker owns the mutex exactly at the places between its locks.
LockInv == mutex = "worker" <=> pc \in LockedPcs

\* A request made when the last one is over finds the thread at rest, starts
\* it with m_stopped unset, and nobody can stop it before it is connected,
\* since the Disconnect entry is hidden until then.
RequestInv ==
    overlapped \/
        /\ Requesting => pc = "off" /\ Quiet
        /\ gui = "start" => ~m_stopped
        /\ pc \in ConnectPcs =>
              ~m_stopped /\ Quiet /\ ~Stopping /\ ~Requesting

\* The client, once made, is the one of m_host.
HostInv ==
    overlapped \/ (pc \in UsesClient \union SessionPcs => serverHost = m_host)

\* The flag is set, or about to be, only with a prompt still to be answered.
PromptInv ==
    (m_passwordWaiting \/ pc = "ask") => PromptPending \/ cancelled \/ overtaken

Inv ==
    /\ TypeOK
    /\ LockInv
    /\ NoClientLeak
    /\ WorkerClientAlive
    /\ ViewInSync
    /\ RequestInv
    /\ HostInv
    /\ PromptInv

(***************************************************************************)
(* Initially, and when nothing happens.                                    *)
(***************************************************************************)
LEMMA InvInit == Init => Inv
  BY TypeInit DEF Init, Inv, LockInv, LockedPcs, NoClientLeak,
     WorkerClientAlive, UsesClient, ViewInSync, RequestInv, Requesting,
     ConnectPcs, HostInv, SessionPcs, PromptInv, Prompt

LEMMA InvStutter ==
    ASSUME Inv, UNCHANGED vars
    PROVE  Inv'
  <1> USE DEF vars, thread, client, local, screen, ghost, events
  <1>1. TypeOK' BY TypeStutter DEF Inv
  <1>2. (LockInv /\ NoClientLeak /\ WorkerClientAlive /\ HostInv)'
    BY DEF Inv, LockInv, NoClientLeak, WorkerClientAlive, HostInv
  <1>3. ViewInSync' BY DEF Inv, ViewInSync
  <1>4. RequestInv'
    BY DEF Inv, RequestInv, Requesting, Stopping, Quiet
  <1>5. PromptInv' BY DEF Inv, PromptInv, PromptPending
  <1> QED BY <1>1, <1>2, <1>3, <1>4, <1>5 DEF Inv

(***************************************************************************)
(* The mutex, the rfbClient and the requests, under the worker's steps.    *)
(***************************************************************************)
Core == /\ LockInv
        /\ NoClientLeak
        /\ WorkerClientAlive
        /\ HostInv
        /\ RequestInv

LEMMA QuietPrompt ==
    ASSUME signals \in Seq(Signal), Quiet, Emit(Prompt), UNCHANGED status
    PROVE  Quiet'
  BY DEF Quiet, Emit, Prompt, Signal

LEMMA WorkerCore ==
    ASSUME TypeOK, Core, Worker
    PROVE  Core'
  <1> USE DEF Goto, Lock, Unlock, thread, client, local, screen, ghost, events,
          Core, LockInv, NoClientLeak, WorkerClientAlive, HostInv, RequestInv,
          LockedPcs, UsesClient, ConnectPcs, SessionPcs, Requesting, Stopping
  <1>1. CASE WakeUp BY <1>1 DEF WakeUp, Quiet
  <1>2. CASE TestStopped BY <1>2 DEF TestStopped, Quiet
  <1>3. CASE Attempt BY <1>3 DEF Attempt, Quiet
  <1>4. CASE SpinOver BY <1>4 DEF SpinOver, Quiet
  <1>5. CASE InitClient BY <1>5 DEF InitClient, Quiet
  <1>6. CASE AskPassword
    <2>1. Quiet => Quiet' BY <1>6, QuietPrompt DEF AskPassword, TypeOK
    <2> QED BY <1>6, <2>1 DEF AskPassword
  <1>7. CASE RaiseWaiting \/ ReadPassword
    BY <1>7 DEF RaiseWaiting, ReadPassword, Quiet
  <1>8. CASE Authenticate BY <1>8 DEF Authenticate, Quiet
  <1>9. CASE Retry BY <1>9 DEF Retry, Quiet
  <1>10. CASE GiveUp BY <1>10 DEF GiveUp
  <1>11. CASE UnlockConnected BY <1>11 DEF UnlockConnected, Quiet
  <1>12. CASE ResetStopped BY <1>12 DEF ResetStopped
  <1>13. CASE PollStopped BY <1>13 DEF PollStopped, Quiet
  <1>14. CASE WaitForMessage BY <1>14 DEF WaitForMessage, Quiet
  <1>15. CASE HandleMessage BY <1>15 DEF HandleMessage, Quiet
  <1>16. CASE Relock BY <1>16 DEF Relock, Quiet
  <1>17. CASE FireEvent BY <1>17 DEF FireEvent, Quiet
  <1>18. CASE Drained BY <1>18 DEF Drained, Quiet
  <1>19. CASE LeaveLoop BY <1>19 DEF LeaveLoop, Quiet
  <1>20. CASE Cleanup BY <1>20 DEF Cleanup, Quiet
  <1>21. CASE MarkStopped BY <1>21 DEF MarkStopped
  <1>22. CASE Finish BY <1>22 DEF Finish, Quiet
  <1> QED
    BY <1>1, <1>2, <1>3, <1>4, <1>5, <1>6, <1>7, <1>8, <1>9, <1>10, <1>11,
       <1>12, <1>13, <1>14, <1>15, <1>16, <1>17, <1>18, <1>19, <1>20, <1>21,
       <1>22 DEF Worker, LocalStep, NetworkStep

(***************************************************************************)
(* The same, under the steps of the GUI thread and the user.               *)
(***************************************************************************)
LEMMA QuietTail ==
    ASSUME signals \in Seq(Signal), Quiet, DeliverSignal
    PROVE  Quiet'
  <1>1. Head(signals) = Prompt
    BY DEF DeliverSignal, Quiet
  <1>2. \A i \in 1 .. Len(signals') : signals'[i] = signals[i + 1]
    BY HeadTailProperties DEF DeliverSignal
  <1>3. signals' \in Seq(Signal) /\ Len(signals') = Len(signals) - 1
    BY HeadTailProperties DEF DeliverSignal
  <1> QED BY <1>1, <1>2, <1>3 DEF DeliverSignal, Quiet

LEMMA GuiCore ==
    ASSUME TypeOK, Core, ViewInSync, GuiStep \/ User
    PROVE  Core'
  <1> USE DEF Begin, End, thread, client, local, worker, ghost, events,
          Core, LockInv, NoClientLeak, WorkerClientAlive, HostInv, RequestInv,
          Requesting, Stopping
  <1>1. CASE DeliverSignal
    <2>1. Quiet => Quiet' BY <1>1, QuietTail DEF TypeOK
    <2> QED BY <1>1, <2>1 DEF DeliverSignal
  <1>2. CASE SetUrlPath
    BY <1>2 DEF SetUrlPath, Quiet, ConnectPcs, SessionPcs, UsesClient
  <1>3. CASE Start
    BY <1>3 DEF Start, Quiet, ConnectPcs, SessionPcs, UsesClient, LockedPcs
  <1>4. CASE ClearWaiting BY <1>4 DEF ClearWaiting, Quiet
  <1>5. CASE StorePassword BY <1>5 DEF StorePassword, Quiet
  <1>6. CASE StopTest BY <1>6 DEF StopTest, Quiet
  <1>7. CASE StopListening BY <1>7 DEF StopListening, Quiet
  <1>8. CASE StopLocked BY <1>8 DEF StopLocked, Quiet
  <1>9. CASE EnqueueEvent BY <1>9 DEF EnqueueEvent, Quiet
  <1>10. CASE OpenConnectPage BY <1>10 DEF OpenConnectPage, Quiet
  <1>11. CASE DismissConnectPage BY <1>11 DEF DismissConnectPage, Quiet
  <1>12. ASSUME NEW h \in Hosts, AcceptConnectPage(h) PROVE Core'
    <2>1. signals = << >> /\ pc = "off" => Quiet
      BY DEF ViewInSync, Quiet, SessionPcs, TypeOK
    <2>2. Quiet => Quiet' BY <1>12 DEF AcceptConnectPage, Quiet
    <2> QED BY <1>12, <2>1, <2>2 DEF AcceptConnectPage, ConnectPcs, TypeOK
  <1>13. ASSUME NEW p \in Passwords \union {NoPassword}, AcceptPasswordPage(p)
         PROVE  Core'
    BY <1>13 DEF AcceptPasswordPage, Quiet
  <1>14. CASE DismissPasswordPage BY <1>14 DEF DismissPasswordPage, Quiet
  <1>15. CASE ClickDisconnect BY <1>15 DEF ClickDisconnect, Quiet
  <1>16. CASE ToggleInput BY <1>16 DEF ToggleInput, Quiet
  <1>17. CASE MakeInput BY <1>17 DEF MakeInput, Quiet
  <1> QED
    BY <1>1, <1>2, <1>3, <1>4, <1>5, <1>6, <1>7, <1>8, <1>9, <1>10, <1>11,
       <1>12, <1>13, <1>14, <1>15, <1>16, <1>17
    DEF GuiStep, User, AnswerPrompt

(***************************************************************************)
(* The view: what the queued signals will make of the status.  InSync      *)
(* states ViewInSync of any queue, status and phase, so that the three     *)
(* ways a step changes them can be proved once.                            *)
(***************************************************************************)
InSync(queue, st, live) ==
    /\ \A i \in DOMAIN queue :
          (/\ queue[i] # Prompt
           /\ \A j \in DOMAIN queue : j > i => queue[j] = Prompt)
          => (queue[i] = "connected" <=> live)
    /\ (\A i \in DOMAIN queue : queue[i] = Prompt)
       => (st = "Connected" <=> live)

\* A prompt changes nothing.
LEMMA SyncPrompt ==
    ASSUME NEW q \in Seq(Signal), NEW st, NEW live \in BOOLEAN,
           InSync(q, st, live)
    PROVE  InSync(Append(q, Prompt), st, live)
  <1> DEFINE r == Append(q, Prompt)
  <1>1. /\ Len(q) \in Nat /\ DOMAIN q = 1 .. Len(q)
        /\ DOMAIN r = 1 .. Len(q) + 1
        /\ \A i \in 1 .. Len(q) : r[i] = q[i]
        /\ r[Len(q) + 1] = Prompt
    BY AppendProperties, LenProperties DEF Signal
  <1> HIDE DEF r
  <1>2. ASSUME NEW i \in DOMAIN r, r[i] # Prompt,
               \A j \in DOMAIN r : j > i => r[j] = Prompt
        PROVE  r[i] = "connected" <=> live
    <2>1. i \in DOMAIN q /\ r[i] = q[i] BY <1>1, <1>2
    <2>2. \A j \in DOMAIN q : j > i => q[j] = Prompt BY <1>1, <1>2
    <2> QED BY <1>2, <2>1, <2>2 DEF InSync
  <1>3. ASSUME \A i \in DOMAIN r : r[i] = Prompt
        PROVE  st = "Connected" <=> live
    <2>1. \A i \in DOMAIN q : q[i] = Prompt BY <1>1, <1>3
    <2> QED BY <2>1 DEF InSync
  <1>4. InSync(r, st, live) BY <1>2, <1>3 DEF InSync
  <1> QED BY <1>4 DEF r

\* A status signal decides.
LEMMA SyncStatus ==
    ASSUME NEW q \in Seq(Signal), NEW st,
           NEW s \in {"connected", "disconnected"}
    PROVE  InSync(Append(q, s), st, s = "connected")
  <1> DEFINE r == Append(q, s)
  <1>1. /\ Len(q) \in Nat
        /\ DOMAIN r = 1 .. Len(q) + 1
        /\ r[Len(q) + 1] = s
    BY AppendProperties, LenProperties DEF Signal
  <1> HIDE DEF r
  <1>2. ASSUME NEW i \in DOMAIN r, r[i] # Prompt,
               \A j \in DOMAIN r : j > i => r[j] = Prompt
        PROVE  i = Len(q) + 1
    BY <1>1, <1>2 DEF Prompt
  <1>3. ~ \A i \in DOMAIN r : r[i] = Prompt BY <1>1 DEF Prompt
  <1>4. InSync(r, st, s = "connected") BY <1>1, <1>2, <1>3 DEF InSync
  <1> QED BY <1>4 DEF r

\* Delivering the oldest signal moves it from the queue to the status.
LEMMA SyncTail ==
    ASSUME NEW q \in Seq(Signal), q # << >>, NEW st, NEW live \in BOOLEAN,
           InSync(q, st, live)
    PROVE  InSync(Tail(q),
                  IF Head(q) = Prompt THEN st
                  ELSE IF Head(q) = "connected" THEN "Connected"
                                                ELSE "Disconnected",
                  live)
  <1> DEFINE r  == Tail(q)
             nst == IF Head(q) = Prompt THEN st
                    ELSE IF Head(q) = "connected" THEN "Connected"
                                                  ELSE "Disconnected"
  <1>1. /\ Len(q) \in Nat /\ Len(q) > 0 /\ DOMAIN q = 1 .. Len(q)
        /\ DOMAIN r = 1 .. Len(q) - 1
        /\ \A i \in 1 .. Len(q) - 1 : r[i] = q[i + 1]
        /\ Head(q) = q[1]
    BY HeadTailProperties, LenProperties, EmptySeq
  <1>2. nst = "Connected" <=> \/ q[1] = Prompt /\ st = "Connected"
                              \/ q[1] = "connected"
    BY <1>1 DEF Prompt
  <1> HIDE DEF r, nst
  <1>3. ASSUME NEW i \in DOMAIN r, r[i] # Prompt,
               \A j \in DOMAIN r : j > i => r[j] = Prompt
        PROVE  r[i] = "connected" <=> live
    <2>1. i + 1 \in DOMAIN q /\ q[i + 1] = r[i] BY <1>1
    <2>2. ASSUME NEW j \in DOMAIN q, j > i + 1 PROVE q[j] = Prompt
      <3>1. j - 1 \in DOMAIN r /\ j - 1 > i /\ r[j - 1] = q[j]
        BY <1>1, <2>2
      <3> QED BY <1>3, <3>1
    <2> QED BY <1>3, <2>1, <2>2 DEF InSync
  <1>4. ASSUME \A i \in DOMAIN r : r[i] = Prompt
        PROVE  nst = "Connected" <=> live
    <2>1. ASSUME NEW j \in DOMAIN q, j > 1 PROVE q[j] = Prompt
      <3>1. j - 1 \in DOMAIN r /\ r[j - 1] = q[j] BY <1>1, <2>1
      <3> QED BY <1>4, <3>1
    <2>2. CASE q[1] = Prompt
      <3>1. \A j \in DOMAIN q : q[j] = Prompt BY <1>1, <2>1, <2>2
      <3> QED BY <1>2, <2>2, <3>1 DEF InSync, Prompt
    <2>3. CASE q[1] # Prompt
      <3>1. q[1] = "connected" <=> live BY <1>1, <2>1, <2>3 DEF InSync
      <3> QED BY <1>2, <2>3, <3>1
    <2> QED BY <2>2, <2>3
  <1>5. InSync(r, nst, live) BY <1>3, <1>4 DEF InSync
  <1> QED BY <1>5 DEF r, nst

\* ViewInSync, under every step.
LEMMA ViewSame ==
    ASSUME ViewInSync, UNCHANGED <<signals, status>>,
           pc \in SessionPcs <=> pc' \in SessionPcs
    PROVE  ViewInSync'
  BY DEF ViewInSync

LEMMA WorkerView ==
    ASSUME TypeOK, ViewInSync, Worker
    PROVE  ViewInSync'
  <1> USE DEF Goto, thread, client, local, screen, ghost, events, SessionPcs
  <1>1. CASE WakeUp BY <1>1, ViewSame DEF WakeUp
  <1>2. CASE TestStopped BY <1>2, ViewSame DEF TestStopped
  <1>3. CASE Attempt BY <1>3, ViewSame DEF Attempt
  <1>4. CASE SpinOver BY <1>4, ViewSame DEF SpinOver
  <1>5. CASE InitClient BY <1>5, ViewSame DEF InitClient
  <1>6. CASE AskPassword
    <2>1. InSync(signals, status, FALSE) BY <1>6 DEF AskPassword, ViewInSync, InSync
    <2>2. InSync(signals', status', FALSE)
      BY <1>6, <2>1, SyncPrompt DEF AskPassword, Emit, TypeOK
    <2> QED BY <1>6, <2>2 DEF AskPassword, ViewInSync, InSync
  <1>7. CASE RaiseWaiting \/ ReadPassword
    BY <1>7, ViewSame DEF RaiseWaiting, ReadPassword
  <1>8. CASE Authenticate BY <1>8, ViewSame DEF Authenticate
  <1>9. CASE Retry BY <1>9, ViewSame DEF Retry
  <1>10. CASE GiveUp
    <2>1. InSync(signals', status', FALSE)
      <3>1. InSync(Append(signals, "disconnected"), status, "disconnected" = "connected")
        BY SyncStatus DEF TypeOK
      <3> QED BY <1>10, <3>1 DEF GiveUp, Emit, InSync
    <2> QED BY <1>10, <2>1 DEF GiveUp, ViewInSync, InSync
  <1>11. CASE UnlockConnected BY <1>11, ViewSame DEF UnlockConnected
  <1>12. CASE ResetStopped
    <2>1. InSync(signals', status', TRUE)
      <3>1. InSync(Append(signals, "connected"), status, "connected" = "connected")
        BY SyncStatus DEF TypeOK
      <3> QED BY <1>12, <3>1 DEF ResetStopped, Emit, InSync
    <2> QED BY <1>12, <2>1 DEF ResetStopped, ViewInSync, InSync
  <1>13. CASE PollStopped BY <1>13, ViewSame DEF PollStopped
  <1>14. CASE WaitForMessage BY <1>14, ViewSame DEF WaitForMessage
  <1>15. CASE HandleMessage BY <1>15, ViewSame DEF HandleMessage
  <1>16. CASE Relock BY <1>16, ViewSame DEF Relock
  <1>17. CASE FireEvent BY <1>17, ViewSame DEF FireEvent
  <1>18. CASE Drained BY <1>18, ViewSame DEF Drained
  <1>19. CASE LeaveLoop BY <1>19, ViewSame DEF LeaveLoop
  <1>20. CASE Cleanup BY <1>20, ViewSame DEF Cleanup
  <1>21. CASE MarkStopped
    <2>1. InSync(signals', status', FALSE)
      <3>1. InSync(Append(signals, "disconnected"), status, "disconnected" = "connected")
        BY SyncStatus DEF TypeOK
      <3> QED BY <1>21, <3>1 DEF MarkStopped, Emit, InSync
    <2> QED BY <1>21, <2>1 DEF MarkStopped, ViewInSync, InSync
  <1>22. CASE Finish BY <1>22, ViewSame DEF Finish
  <1> QED
    BY <1>1, <1>2, <1>3, <1>4, <1>5, <1>6, <1>7, <1>8, <1>9, <1>10, <1>11,
       <1>12, <1>13, <1>14, <1>15, <1>16, <1>17, <1>18, <1>19, <1>20, <1>21,
       <1>22 DEF Worker, LocalStep, NetworkStep

LEMMA GuiView ==
    ASSUME TypeOK, ViewInSync, GuiStep \/ User
    PROVE  ViewInSync'
  <1> USE DEF local, client, worker
  <1>1. CASE DeliverSignal
    <2>1. pc' = pc BY <1>1 DEF DeliverSignal
    <2>2. /\ signals \in Seq(Signal) /\ signals # << >>
          /\ signals' = Tail(signals)
          /\ status' = IF Head(signals) = Prompt THEN status
                       ELSE IF Head(signals) = "connected" THEN "Connected"
                                                           ELSE "Disconnected"
      BY <1>1 DEF DeliverSignal, TypeOK
    <2>3. CASE pc \in SessionPcs
      <3>1. InSync(signals, status, TRUE) BY <2>3 DEF ViewInSync, InSync
      <3>2. InSync(signals', status', TRUE) BY <2>2, <3>1, SyncTail
      <3> QED BY <2>1, <2>3, <3>2 DEF ViewInSync, InSync
    <2>4. CASE pc \notin SessionPcs
      <3>1. InSync(signals, status, FALSE) BY <2>4 DEF ViewInSync, InSync
      <3>2. InSync(signals', status', FALSE) BY <2>2, <3>1, SyncTail
      <3> QED BY <2>1, <2>4, <3>2 DEF ViewInSync, InSync
    <2> QED BY <2>3, <2>4
  <1>2. CASE ~DeliverSignal
    <2>1. UNCHANGED <<signals, status>>
      BY <1>2 DEF GuiStep, User, AnswerPrompt, SetUrlPath, Start, ClearWaiting,
         StorePassword, StopTest, StopListening, StopLocked, EnqueueEvent,
         OpenConnectPage, DismissConnectPage, AcceptConnectPage,
         AcceptPasswordPage, DismissPasswordPage, ClickDisconnect,
         ToggleInput, MakeInput
    <2>2. CASE Start BY <2>1, <2>2, ViewSame DEF Start, SessionPcs
    <2>3. CASE ~Start
      <3>1. pc' = pc
        BY <1>2, <2>3 DEF GuiStep, User, AnswerPrompt, SetUrlPath,
           ClearWaiting, StorePassword, StopTest, StopListening, StopLocked,
           EnqueueEvent, OpenConnectPage, DismissConnectPage,
           AcceptConnectPage, AcceptPasswordPage, DismissPasswordPage,
           ClickDisconnect, ToggleInput, MakeInput
      <3> QED BY <2>1, <3>1, ViewSame
    <2> QED BY <2>2, <2>3
  <1> QED BY <1>1, <1>2

(***************************************************************************)
(* Prompts: a flag raised has a prompt to be answered.                     *)
(***************************************************************************)
LEMMA PendingAppend ==
    ASSUME TypeOK, PromptPending, UNCHANGED <<pages, gui>>,
           \/ UNCHANGED signals
           \/ \E s \in Signal : signals' = Append(signals, s)
    PROVE  PromptPending'
  <1>1. CASE UNCHANGED signals BY <1>1 DEF PromptPending
  <1>2. ASSUME NEW s \in Signal, signals' = Append(signals, s)
        PROVE  PromptPending'
    <2>1. /\ DOMAIN signals \subseteq DOMAIN signals'
          /\ \A i \in DOMAIN signals : signals'[i] = signals[i]
      BY <1>2, AppendProperties, LenProperties DEF TypeOK
    <2> QED BY <2>1 DEF PromptPending
  <1> QED BY <1>1, <1>2

LEMMA WorkerPrompt ==
    ASSUME TypeOK, PromptInv, Worker
    PROVE  PromptInv'
  <1>1. /\ UNCHANGED <<pages, gui, cancelled, overtaken>>
        /\ \/ UNCHANGED signals
           \/ \E s \in Signal : signals' = Append(signals, s)
    BY DEF Worker, LocalStep, NetworkStep, WakeUp, TestStopped, Attempt, SpinOver, InitClient,
       AskPassword, RaiseWaiting, ReadPassword, Authenticate, Retry, GiveUp,
       UnlockConnected, ResetStopped, PollStopped, WaitForMessage,
       HandleMessage, Relock, FireEvent, Drained, LeaveLoop, Cleanup,
       MarkStopped, Finish, screen, ghost, Emit, Signal
  <1>2. CASE AskPassword
    <2>1. signals' = Append(signals, Prompt) /\ Prompt \in Signal
      BY <1>2 DEF AskPassword, Emit, Signal
    <2>2. Len(signals) + 1 \in DOMAIN signals' /\ signals'[Len(signals) + 1] = Prompt
      BY <2>1, AppendProperties, LenProperties DEF TypeOK
    <2> QED BY <2>2 DEF PromptInv, PromptPending
  <1>3. CASE ~AskPassword
    <2>1. (m_passwordWaiting' \/ pc' = "ask") => (m_passwordWaiting \/ pc = "ask")
      BY <1>3 DEF Worker, LocalStep, NetworkStep, WakeUp, TestStopped, Attempt, SpinOver, InitClient,
         RaiseWaiting, ReadPassword, Authenticate, Retry, GiveUp,
         UnlockConnected, ResetStopped, PollStopped, WaitForMessage, HandleMessage, Relock,
         FireEvent, Drained, LeaveLoop, Cleanup, MarkStopped, Finish, Goto,
         thread, local
    <2> QED BY <1>1, <2>1, PendingAppend DEF PromptInv
  <1> QED BY <1>2, <1>3

\* A page popped is one that was on top.
LEMMA PopKeepsPrompt ==
    ASSUME TypeOK, TopIs("connect"), pages' = Pop(pages),
           \E i \in DOMAIN pages : pages[i] = "password"
    PROVE  \E i \in DOMAIN pages' : pages'[i] = "password"
  <1>1. /\ Len(pages) \in Nat /\ DOMAIN pages = 1 .. Len(pages)
        /\ pages' \in Seq({"connect", "password"})
        /\ \A i \in 1 .. Len(pages) - 1 : pages[i] \in {"connect", "password"}
    BY PopType, LenProperties, ElementOfSeq DEF TypeOK, TopIs
  <1>2. PICK i \in DOMAIN pages : pages[i] = "password" OBVIOUS
  <1>3. i \in 1 .. Len(pages) - 1 BY <1>1, <1>2 DEF TopIs
  <1>4. /\ Len(pages') = Len(pages) - 1
        /\ \A j \in 1 .. Len(pages) - 1 : pages'[j] = pages[j]
    BY <1>1, <1>3, SubSeqProperties DEF Pop
  <1> QED BY <1>1, <1>2, <1>3, <1>4, LenProperties

LEMMA GuiPrompt ==
    ASSUME TypeOK, PromptInv, GuiStep \/ User
    PROVE  PromptInv'
  <1> USE DEF Begin, End, thread, client, local, worker, ghost, events
  <1>1. CASE DeliverSignal
    <2>1. /\ signals \in Seq(Signal) /\ signals # << >>
          /\ pages \in Seq({"connect", "password"})
          /\ Len(signals) \in Nat /\ DOMAIN signals = 1 .. Len(signals)
          /\ UNCHANGED <<m_passwordWaiting, pc, gui, cancelled, overtaken>>
      BY <1>1, LenProperties DEF DeliverSignal, TypeOK
    <2>2. /\ DOMAIN signals' = 1 .. Len(signals) - 1
          /\ \A i \in 1 .. Len(signals) - 1 : signals'[i] = signals[i + 1]
          /\ Head(signals) = signals[1]
      BY <1>1, <2>1, HeadTailProperties, LenProperties DEF DeliverSignal
    <2>3. ASSUME NEW i \in DOMAIN signals, signals[i] = Prompt
          PROVE  PromptPending'
      <3>1. CASE i = 1
        <4>1. pages' = Append(pages, "password")
          BY <1>1, <2>2, <2>3, <3>1 DEF DeliverSignal
        <4>2. /\ Len(pages) + 1 \in DOMAIN pages'
              /\ pages'[Len(pages) + 1] = "password"
          BY <2>1, <4>1, AppendProperties, LenProperties
        <4> QED BY <4>2 DEF PromptPending
      <3>2. CASE i # 1
        <4>1. i - 1 \in DOMAIN signals' /\ signals'[i - 1] = Prompt
          BY <2>1, <2>2, <2>3, <3>2
        <4> QED BY <4>1 DEF PromptPending
      <3> QED BY <3>1, <3>2
    <2>4. ASSUME NEW i \in DOMAIN pages, pages[i] = "password"
          PROVE  PromptPending'
      <3>1. pages' = pages \/ pages' = Append(pages, "password")
        BY <1>1 DEF DeliverSignal
      <3>2. DOMAIN pages \subseteq DOMAIN pages' /\ pages'[i] = pages[i]
        BY <2>1, <3>1, AppendProperties, LenProperties
      <3> QED BY <2>4, <3>2 DEF PromptPending
    <2>5. gui # "clearWaiting" BY <1>1 DEF DeliverSignal
    <2> QED BY <2>1, <2>3, <2>4, <2>5 DEF PromptInv, PromptPending
  <1>2. CASE SetUrlPath BY <1>2 DEF SetUrlPath, PromptInv, PromptPending
  <1>3. CASE Start BY <1>3 DEF Start, PromptInv, PromptPending
  <1>4. CASE ClearWaiting BY <1>4 DEF ClearWaiting, PromptInv
  <1>5. CASE StorePassword
    BY <1>5 DEF StorePassword, PromptInv, PromptPending
  <1>6. CASE StopTest BY <1>6 DEF StopTest, PromptInv, PromptPending
  <1>7. CASE StopListening
    BY <1>7 DEF StopListening, PromptInv, PromptPending
  <1>8. CASE StopLocked BY <1>8 DEF StopLocked, PromptInv, PromptPending
  <1>9. CASE EnqueueEvent BY <1>9 DEF EnqueueEvent, PromptInv, PromptPending
  <1>10. CASE OpenConnectPage
    BY <1>10 DEF OpenConnectPage, OnMainPage, PromptInv, PromptPending
  <1>11. CASE DismissConnectPage
    BY <1>11, PopKeepsPrompt DEF DismissConnectPage, PromptInv, PromptPending
  <1>12. ASSUME NEW h \in Hosts, AcceptConnectPage(h) PROVE PromptInv'
    BY <1>12, PopKeepsPrompt DEF AcceptConnectPage, PromptInv, PromptPending
  <1>13. ASSUME NEW p \in Passwords \union {NoPassword}, AcceptPasswordPage(p)
         PROVE  PromptInv'
    BY <1>13 DEF AcceptPasswordPage, PromptInv, PromptPending
  <1>14. CASE DismissPasswordPage
    BY <1>14 DEF DismissPasswordPage, PromptInv
  <1>15. CASE ClickDisconnect
    BY <1>15 DEF ClickDisconnect, PromptInv, PromptPending
  <1>16. CASE ToggleInput BY <1>16 DEF ToggleInput, PromptInv, PromptPending
  <1>17. CASE MakeInput BY <1>17 DEF MakeInput, PromptInv, PromptPending
  <1> QED
    BY <1>1, <1>2, <1>3, <1>4, <1>5, <1>6, <1>7, <1>8, <1>9, <1>10, <1>11,
       <1>12, <1>13, <1>14, <1>15, <1>16, <1>17
    DEF GuiStep, User, AnswerPrompt

(***************************************************************************)
(* The theorems.                                                           *)
(***************************************************************************)
LEMMA InvNext ==
    ASSUME Inv, [Next]_vars
    PROVE  Inv'
  <1>1. CASE Worker
    BY <1>1, WorkerType, WorkerCore, WorkerView, WorkerPrompt DEF Inv, Core
  <1>2. CASE GuiStep \/ User
    BY <1>2, GuiType, GuiCore, GuiView, GuiPrompt DEF Inv, Core
  <1>3. CASE UNCHANGED vars BY <1>3, InvStutter
  <1> QED BY <1>1, <1>2, <1>3 DEF Next

LEMMA Invariance == Spec => []Inv
  BY InvInit, InvNext, PTL DEF Spec

\* run() uses no rfbClient that does not exist any more.
THEOREM ClientAlive == Spec => []WorkerClientAlive
  <1>1. Inv => WorkerClientAlive BY DEF Inv
  <1> QED BY <1>1, Invariance, PTL

\* Every run frees the rfbClient it made.
THEOREM ClientReleased == Spec => []NoClientLeak
  <1>1. Inv => NoClientLeak BY DEF Inv
  <1> QED BY <1>1, Invariance, PTL

\* The status shown becomes the worker's state once the signals are delivered.
THEOREM ViewCorrect == Spec => []ViewInSync
  <1>1. Inv => ViewInSync BY DEF Inv
  <1> QED BY <1>1, Invariance, PTL

\* A session is with the server asked for last.
THEOREM RequestServed == Spec => []ServesLastRequest
  <1>1. Inv => ServesLastRequest BY DEF Inv, HostInv, ServesLastRequest
  <1> QED BY <1>1, Invariance, PTL

\* A worker waits for a password only with a prompt to be answered.
THEOREM PromptedWait == Spec => []PromptForEveryWait
  <1>1. Inv => PromptForEveryWait
    BY DEF Inv, PromptInv, PromptForEveryWait
  <1> QED BY <1>1, Invariance, PTL

\* Only a new request takes a stop back.
THEOREM StopKept == Spec => StopNotRevoked
  <1>1. ASSUME Inv, [Next]_vars
        PROVE  [m_stopped /\ ~m_stopped' => gui = "setUrlPath" \/ overlapped]_vars
    <2>1. CASE UNCHANGED vars BY <2>1
    <2>2. CASE ResetStopped
      BY <1>1, <2>2 DEF ResetStopped, Goto, Inv, RequestInv, ConnectPcs
    <2>3. CASE SetUrlPath BY <2>3 DEF SetUrlPath
    <2>4. CASE Next /\ ~ResetStopped /\ ~SetUrlPath
      <3>1. m_stopped' = m_stopped \/ m_stopped' = TRUE
        BY <2>4 DEF Next, Worker, LocalStep, NetworkStep, GuiStep, User, AnswerPrompt, WakeUp,
           TestStopped, Attempt, SpinOver, InitClient, AskPassword,
           RaiseWaiting, ReadPassword, Authenticate, Retry, GiveUp, UnlockConnected,
           PollStopped, WaitForMessage, HandleMessage, Relock, FireEvent,
           Drained, LeaveLoop, Cleanup, MarkStopped, Finish, DeliverSignal,
           Start, ClearWaiting, StorePassword, StopTest, StopListening,
           StopLocked, EnqueueEvent, OpenConnectPage, DismissConnectPage,
           AcceptConnectPage, AcceptPasswordPage, DismissPasswordPage,
           ClickDisconnect, ToggleInput, MakeInput, thread
      <3> QED BY <3>1
    <2> QED BY <1>1, <2>1, <2>2, <2>3, <2>4
  <1> QED BY <1>1, Invariance, PTL DEF Spec, StopNotRevoked

\* The freeze of OneWayToFreeze is one for good: no step of either thread, of
\* the server or of the user follows.  The worker keeps the mutex and spins, and
\* the GUI thread, which alone could clear m_passwordWaiting, waits for it.
THEOREM FrozenForGood == Spec => [][~GuiFrozen]_vars
  <1>1. ASSUME Inv, [Next]_vars
        PROVE  [~GuiFrozen]_vars
    <2> SUFFICES ASSUME GuiFrozen, Next PROVE FALSE
      BY <1>1
    <2>1. /\ pc = "wait" /\ m_passwordWaiting /\ mutex # "free"
          /\ gui \in {"setUrlPath", "stopLocked", "input"}
      BY <1>1 DEF GuiFrozen, LockingOps, Inv, LockInv, LockedPcs
    <2>2. ~LocalStep
      BY <2>1 DEF LocalStep, Goto, WakeUp, TestStopped, SpinOver, RaiseWaiting,
         ReadPassword, Retry, GiveUp, UnlockConnected, ResetStopped, PollStopped,
         WaitForMessage, Relock, Drained, LeaveLoop, Cleanup, MarkStopped,
         Finish
    <2>3. ~NetworkStep
      BY <2>1 DEF NetworkStep, Goto, Attempt, InitClient, AskPassword,
         Authenticate, HandleMessage, FireEvent
    <2>4. ~GuiStep
      BY <2>1 DEF GuiStep, DeliverSignal, SetUrlPath, Start, ClearWaiting,
         StorePassword, StopTest, StopListening, StopLocked, EnqueueEvent
    <2>5. ~User
      BY <2>1 DEF User, AnswerPrompt, Begin, OpenConnectPage,
         DismissConnectPage, AcceptConnectPage, AcceptPasswordPage,
         DismissPasswordPage, ClickDisconnect, ToggleInput, MakeInput
    <2> QED BY <2>2, <2>3, <2>4, <2>5 DEF Next, Worker
  <1> QED BY <1>1, Invariance, PTL DEF Spec

\* The viewer stands still, with a server and a user that go on, in that way
\* only: otherwise the worker has a step or the GUI thread does.  The mutex is
\* never held by a thread that waits for it or is gone.
THEOREM NoOtherFreeze == Spec => [](CanStep \/ GuiFrozen)
  <1>1. Inv => CanStep \/ GuiFrozen
    BY DEF Inv, TypeOK, LockInv, LockedPcs, CanStep, GuiFrozen
  <1> QED BY <1>1, Invariance, PTL

(***************************************************************************)
(* The events: their numbers grow along the ones fired and the ones still  *)
(* queued, and the one being made comes after all of them.                 *)
(***************************************************************************)
Below(s, n)    == \A i \in DOMAIN s : s[i] < n
All            == fired \o m_eventQueue
EventInv       == /\ Increasing(All)
                  /\ Below(All, IF gui = "input" THEN inputs ELSE inputs + 1)

LEMMA AllType ==
    ASSUME TypeOK
    PROVE  All \in Seq(Nat)
  BY ConcatProperties DEF TypeOK, All

LEMMA AppendIncreasing ==
    ASSUME NEW s \in Seq(Nat), NEW n \in Nat, Increasing(s), Below(s, n)
    PROVE  Increasing(Append(s, n)) /\ Below(Append(s, n), n + 1)
  <1> DEFINE r == Append(s, n)
  <1>1. /\ Len(s) \in Nat /\ DOMAIN s = 1 .. Len(s)
        /\ DOMAIN r = 1 .. Len(s) + 1
        /\ \A i \in 1 .. Len(s) : r[i] = s[i] /\ s[i] \in Nat
        /\ r[Len(s) + 1] = n
    BY AppendProperties, LenProperties, ElementOfSeq
  <1> HIDE DEF r
  <1>2. ASSUME NEW i \in DOMAIN r, NEW j \in DOMAIN r, i < j
        PROVE  r[i] < r[j]
    <2>1. CASE j = Len(s) + 1 BY <1>1, <1>2, <2>1 DEF Below
    <2>2. CASE j # Len(s) + 1 BY SMTT(30), <1>1, <1>2, <2>2 DEF Increasing
    <2> QED BY <2>1, <2>2
  <1>3. ASSUME NEW i \in DOMAIN r PROVE r[i] < n + 1
    BY <1>1 DEF Below
  <1>4. Increasing(r) /\ Below(r, n + 1) BY <1>2, <1>3 DEF Increasing, Below
  <1> QED BY <1>4 DEF r

LEMMA Associative ==
    ASSUME NEW s \in Seq(Nat), NEW t \in Seq(Nat), NEW u \in Seq(Nat)
    PROVE  (s \o t) \o u = s \o (t \o u)
  BY ConcatAssociative, SMTT(90)

\* What is dequeued and fired stays at its place.
LEMMA FireKeepsAll ==
    ASSUME NEW s \in Seq(Nat), NEW q \in Seq(Nat), q # << >>
    PROVE  Append(s, Head(q)) \o Tail(q) = s \o q
  <1>1. /\ Len(q) \in Nat \ {0}
        /\ Head(q) \in Nat /\ Head(q) = q[1]
        /\ Tail(q) \in Seq(Nat) /\ Len(Tail(q)) = Len(q) - 1
        /\ \A i \in 1 .. Len(q) - 1 : Tail(q)[i] = q[i + 1]
    BY LenProperties, HeadTailProperties, EmptySeq
  <1> DEFINE h == <<Head(q)>>
  <1>2. h \in Seq(Nat) /\ Len(h) = 1 /\ h[1] = q[1]
    BY <1>1
  <1>3. Append(s, Head(q)) = s \o h
    BY <1>1, AppendIsConcat
  <1> HIDE DEF h
  <1>4. h \o Tail(q) = q
    <2> DEFINE t == Tail(q)
               r == h \o t
    <2>0. t \in Seq(Nat) /\ Len(h) + Len(t) = Len(q)
      BY <1>1, <1>2
    <2> HIDE DEF t
    <2>1. /\ r \in Seq(Nat) /\ Len(r) = Len(q)
          /\ \A i \in 1 .. Len(q) :
                r[i] = IF i <= 1 THEN h[i] ELSE t[i - 1]
      <3>1. /\ r \in Seq(Nat) /\ Len(r) = Len(h) + Len(t)
            /\ \A i \in 1 .. Len(h) + Len(t) :
                  r[i] = IF i <= Len(h) THEN h[i] ELSE t[i - Len(h)]
        BY <1>2, <2>0, ConcatProperties, Zenon
      <3> HIDE DEF r
      <3> QED BY <1>2, <2>0, <3>1
    <2> HIDE DEF r
    <2>2. ASSUME NEW i \in 1 .. Len(q) PROVE r[i] = q[i]
      <3>1. CASE i = 1 BY <1>1, <1>2, <2>1, <3>1
      <3>2. CASE i # 1
        <4>1. i - 1 \in 1 .. Len(q) - 1 /\ (i - 1) + 1 = i BY <1>1, <3>2
        <4>2. t[i - 1] = q[i] BY <1>1, <4>1 DEF t
        <4> QED BY <1>1, <2>1, <3>2, <4>2
      <3> QED BY <3>1, <3>2
    <2>3. r = q BY <2>1, <2>2, SeqEqual
    <2> QED BY <2>3 DEF r, t
  <1>5. (s \o h) \o Tail(q) = s \o (h \o Tail(q))
    BY <1>1, <1>2, Associative
  <1> QED BY <1>3, <1>4, <1>5

LEMMA EventsStep ==
    ASSUME TypeOK, EventInv, [Next]_vars
    PROVE  EventInv'
  <1>1. /\ fired \in Seq(Nat) /\ m_eventQueue \in Seq(Nat) /\ inputs \in Nat
        /\ All \in Seq(Nat)
    BY AllType DEF TypeOK
  <1>2. CASE FireEvent
    <2>1. All' = All BY <1>1, <1>2, FireKeepsAll DEF FireEvent, All
    <2>2. UNCHANGED <<gui, inputs>> BY <1>2 DEF FireEvent, screen
    <2> QED BY <2>1, <2>2 DEF EventInv
  <1>3. CASE MakeInput
    <2>1. All' = All /\ gui # "input" /\ gui' = "input" /\ inputs' = inputs + 1
      BY <1>3 DEF MakeInput, Begin, All
    <2> QED BY <2>1 DEF EventInv
  <1>4. CASE EnqueueEvent
    <2>1. /\ fired' = fired /\ inputs' = inputs
          /\ gui = "input" /\ gui' = "loop"
          /\ m_eventQueue' = m_eventQueue
             \/ m_eventQueue' = Append(m_eventQueue, inputs)
      BY <1>4 DEF EnqueueEvent, End
    <2>2. CASE m_eventQueue' = m_eventQueue
      <3>1. All' = All BY <2>1, <2>2 DEF All
      <3>2. \A i \in DOMAIN All : All[i] \in Nat BY <1>1, ElementOfSeq
      <3> QED BY <1>1, <2>1, <3>1, <3>2 DEF EventInv, Below
    <2>3. CASE m_eventQueue' = Append(m_eventQueue, inputs)
      <3>1. fired \o Append(m_eventQueue, inputs)
               = Append(fired \o m_eventQueue, inputs)
        BY <1>1, AppendIsConcat, ConcatAssociative DEF All
      <3>2. All' = Append(All, inputs) BY <2>1, <2>3, <3>1 DEF All
      <3>3. Increasing(Append(All, inputs))
               /\ Below(Append(All, inputs), inputs + 1)
        BY <1>1, <2>1, AppendIncreasing DEF EventInv
      <3> QED BY <2>1, <3>2, <3>3 DEF EventInv
    <2> QED BY <2>1, <2>2, <2>3
  <1>5. CASE ~FireEvent /\ ~MakeInput /\ ~EnqueueEvent
    <2>1. /\ UNCHANGED <<fired, m_eventQueue, inputs>>
          /\ gui' = "input" <=> gui = "input"
      <3>1. CASE Worker
        BY <1>5, <3>1 DEF Worker, LocalStep, NetworkStep, WakeUp, TestStopped,
           Attempt, SpinOver, InitClient, AskPassword, RaiseWaiting,
           ReadPassword, Authenticate, Retry, GiveUp, UnlockConnected, ResetStopped,
           PollStopped, WaitForMessage, HandleMessage, Relock, Drained,
           LeaveLoop, Cleanup, MarkStopped, Finish, screen, events
      <3>2. CASE GuiStep \/ User
        BY <1>5, <3>2 DEF GuiStep, User, AnswerPrompt, DeliverSignal,
           SetUrlPath, Start, ClearWaiting, StorePassword, StopTest,
           StopListening, StopLocked, OpenConnectPage, DismissConnectPage,
           AcceptConnectPage, AcceptPasswordPage, DismissPasswordPage,
           ClickDisconnect, ToggleInput, Begin, End, events
      <3>3. CASE UNCHANGED vars BY <3>3 DEF vars, screen, events
      <3> QED BY <3>1, <3>2, <3>3 DEF Next
    <2>2. All' = All BY <2>1 DEF All
    <2> QED BY <2>1, <2>2 DEF EventInv
  <1> QED BY <1>2, <1>3, <1>4, <1>5

\* The queue is filled by mouseEvent and keyEvent and emptied by run(), in two
\* threads: no event overtakes another, none is fired twice.
THEOREM EventsOrdered == Spec => []EventsInOrder
  <1>1. Init => EventInv
    <2> SUFFICES ASSUME Init PROVE EventInv OBVIOUS
    <2>1. All = << >> BY DEF Init, All
    <2> QED BY <2>1 DEF EventInv, Increasing, Below
  <1>2. TypeOK /\ EventInv /\ [Next]_vars => EventInv' BY EventsStep
  <1>3. EventInv => EventsInOrder BY DEF EventInv, EventsInOrder, All
  <1> QED BY <1>1, <1>2, <1>3, TypeCorrect, PTL DEF Spec

(***************************************************************************)
(* The threads implement module Session.                                   *)
(***************************************************************************)
LEMMA ViewStutter ==
    ASSUME UNCHANGED <<signals, status>>, Phase' = Phase
    PROVE  UNCHANGED View!vars
  BY DEF View!vars

LEMMA WorkerImplements ==
    ASSUME TypeOK, Worker
    PROVE  [View!Next]_(View!vars)
  <1> USE DEF Goto, thread, client, local, screen, ghost, events, ConnectPcs,
          SessionPcs, Phase
  <1>1. CASE AskPassword
    BY <1>1 DEF AskPassword, Emit, Prompt, View!Next, View!Ask, View!Announce
  <1>2. CASE GiveUp
    BY <1>2 DEF GiveUp, Emit, View!Next, View!Fail, View!Change, View!Announce
  <1>3. CASE ResetStopped
    BY <1>3 DEF ResetStopped, Emit, View!Next, View!Establish, View!Change,
       View!Announce
  <1>4. CASE MarkStopped
    BY <1>4 DEF MarkStopped, Emit, View!Next, View!Finish, View!Change,
       View!Announce
  <1>5. CASE WakeUp BY <1>5, ViewStutter DEF WakeUp
  <1>6. CASE TestStopped BY <1>6, ViewStutter DEF TestStopped
  <1>7. CASE Attempt BY <1>7, ViewStutter DEF Attempt
  <1>8. CASE SpinOver BY <1>8, ViewStutter DEF SpinOver
  <1>9. CASE InitClient BY <1>9, ViewStutter DEF InitClient
  <1>10. CASE RaiseWaiting \/ ReadPassword
    BY <1>10, ViewStutter DEF RaiseWaiting, ReadPassword
  <1>11. CASE Authenticate BY <1>11, ViewStutter DEF Authenticate
  <1>12. CASE Retry BY <1>12, ViewStutter DEF Retry
  <1>13. CASE UnlockConnected BY <1>13, ViewStutter DEF UnlockConnected
  <1>14. CASE PollStopped BY <1>14, ViewStutter DEF PollStopped
  <1>15. CASE WaitForMessage BY <1>15, ViewStutter DEF WaitForMessage
  <1>16. CASE HandleMessage BY <1>16, ViewStutter DEF HandleMessage
  <1>17. CASE Relock BY <1>17, ViewStutter DEF Relock
  <1>18. CASE FireEvent BY <1>18, ViewStutter DEF FireEvent
  <1>19. CASE Drained BY <1>19, ViewStutter DEF Drained
  <1>20. CASE LeaveLoop BY <1>20, ViewStutter DEF LeaveLoop
  <1>21. CASE Cleanup BY <1>21, ViewStutter DEF Cleanup
  <1>22. CASE Finish BY <1>22, ViewStutter DEF Finish
  <1> QED
    BY <1>1, <1>2, <1>3, <1>4, <1>5, <1>6, <1>7, <1>8, <1>9, <1>10, <1>11,
       <1>12, <1>13, <1>14, <1>15, <1>16, <1>17, <1>18, <1>19, <1>20, <1>21,
       <1>22 DEF Worker, LocalStep, NetworkStep

LEMMA GuiImplements ==
    ASSUME TypeOK, GuiStep \/ User
    PROVE  [View!Next]_(View!vars)
  <1>1. CASE DeliverSignal
    <2>1. signals # << >> /\ signals' = Tail(signals) /\ pc' = pc
      BY <1>1 DEF DeliverSignal, worker, local
    <2>2. Head(signals) \in Signal
      BY <2>1, HeadTailProperties DEF TypeOK
    <2>3. status' = CASE Head(signals) = "connected"    -> "Connected"
                      [] Head(signals) = "disconnected" -> "Disconnected"
                      [] OTHER                          -> status
      BY <1>1, <2>2 DEF DeliverSignal, Signal, Prompt
    <2>4. Phase' = Phase BY <2>1 DEF Phase
    <2> QED BY <2>1, <2>3, <2>4 DEF View!Next, View!Show
  <1>2. CASE Start
    <2>1. UNCHANGED <<signals, status>> BY <1>2 DEF Start
    <2>2. CASE pc = "off"
      BY <1>2, <2>1, <2>2 DEF Start, Phase, ConnectPcs, SessionPcs,
         View!Next, View!Request, View!Change
    <2>3. CASE pc # "off"
      <3>1. Phase' = Phase BY <1>2, <2>3 DEF Start, Phase
      <3> QED BY <2>1, <3>1, ViewStutter
    <2> QED BY <2>2, <2>3
  <1>3. CASE ~DeliverSignal /\ ~Start
    <2>1. UNCHANGED <<signals, status, pc>>
      BY <1>3 DEF GuiStep, User, AnswerPrompt, SetUrlPath, ClearWaiting,
         StorePassword, StopTest, StopListening, StopLocked, EnqueueEvent,
         OpenConnectPage, DismissConnectPage, AcceptConnectPage,
         AcceptPasswordPage, DismissPasswordPage, ClickDisconnect,
         ToggleInput, MakeInput, worker, local
    <2>2. Phase' = Phase BY <2>1 DEF Phase
    <2> QED BY <2>1, <2>2, ViewStutter
  <1> QED BY <1>1, <1>2, <1>3

\* Requests, prompts and notices come in the order module Session promises.
THEOREM Refinement == Spec => ImplementsSession
  <1>1. Init => View!Init
    BY DEF Init, View!Init, Phase, ConnectPcs, SessionPcs
  <1>2. TypeOK /\ [Next]_vars => [View!Next]_(View!vars)
    <2>1. ASSUME TypeOK, UNCHANGED vars PROVE [View!Next]_(View!vars)
      <3>1. UNCHANGED <<signals, status, pc>>
        BY <2>1 DEF vars, local, screen
      <3>2. Phase' = Phase BY <3>1 DEF Phase
      <3> QED BY <3>1, <3>2, ViewStutter
    <2> QED BY <2>1, WorkerImplements, GuiImplements DEF Next
  <1> QED
    BY <1>1, <1>2, TypeCorrect, PTL DEF Spec, ImplementsSession, View!Spec

(***************************************************************************)
(* Every run ends, or begins another round of its message loop.            *)
(***************************************************************************)
\* What run() has still before it, the most significant number first: the part
\* it is in; the attempts it may still make, or the places of the part; then
\* the places of the attempt, or the events it is sending.
WorkerAhead ==
    CASE pc = "sleep"   -> <<3, 0, 0>>
      [] pc = "head"    -> <<2, 3 - passwd_failures, 7>>
      [] pc = "attempt" -> <<2, 3 - passwd_failures, 6>>
      [] pc = "wait"    -> <<2, 3 - passwd_failures, 5>>
      [] pc = "init"    -> <<2, 3 - passwd_failures, 4>>
      [] pc = "ask"     -> <<2, 3 - passwd_failures, 3>>
      [] pc = "raised"  -> <<2, 3 - passwd_failures, 2>>
      [] pc = "auth"    -> <<2, 3 - passwd_failures, 1>>
      [] pc = "failed"  -> <<2, 3 - passwd_failures, 0>>
      [] pc = "unlock"  -> <<1, 1, 0>>
      [] pc = "reset"   -> <<1, 0, 0>>
      [] pc = "message" -> <<0, 9, 0>>
      [] pc = "handle"  -> <<0, 8, 0>>
      [] pc = "relock"  -> <<0, 7, 0>>
      [] pc = "drain"   -> <<0, 6, Len(m_eventQueue)>>
      [] pc = "poll"    -> <<0, 5, 0>>
      [] pc = "leave"   -> <<0, 4, 0>>
      [] pc = "cleanup" -> <<0, 3, 0>>
      [] pc = "mark"    -> <<0, 2, 0>>
      [] pc = "returned" -> <<0, 1, 0>>
      [] pc = "off"     -> <<0, 0, 0>>

\* Another round of the message loop: not after a stop.
NewRound == PollStopped /\ ~m_stopped

\* No more than three attempts in a run.
ThreeAttempts == pc \in ConnectPcs \ {"sleep"} => passwd_failures < 3

LEMMA AheadType ==
    ASSUME TypeOK, ThreeAttempts
    PROVE  WorkerAhead \in Triples
  <1>1. passwd_failures \in Nat /\ Len(m_eventQueue) \in Nat
    BY LenProperties DEF TypeOK
  <1>2. pc \in ConnectPcs \ {"sleep", "unlock", "reset"}
           => 3 - passwd_failures \in Nat
    BY <1>1 DEF ThreeAttempts, ConnectPcs
  <1>3. CASE pc \in ConnectPcs
    BY <1>2, <1>3 DEF WorkerAhead, Triples, ConnectPcs
  <1>4. CASE pc \in SessionPcs \union {"off", "returned"}
    BY <1>1, <1>4 DEF WorkerAhead, Triples, SessionPcs
  <1> QED BY <1>3, <1>4 DEF TypeOK, WorkerPcs

LEMMA WorkerLowers ==
    ASSUME TypeOK, Worker, ~NewRound
    PROVE  Less(WorkerAhead', WorkerAhead)
  <1> USE DEF WorkerAhead, Less, Goto
  <1>1. passwd_failures \in Nat /\ m_eventQueue \in Seq(Nat) BY DEF TypeOK
  <1>2. CASE WakeUp BY <1>2 DEF WakeUp
  <1>3. CASE TestStopped BY <1>1, <1>3 DEF TestStopped
  <1>4. CASE Attempt BY <1>1, <1>4 DEF Attempt
  <1>5. CASE SpinOver BY <1>1, <1>5 DEF SpinOver
  <1>6. CASE InitClient
    <2>1. pc = "init" /\ passwd_failures' = passwd_failures
      BY <1>6 DEF InitClient
    <2>2. CASE pc' = "unlock" BY <2>1, <2>2
    <2>3. CASE pc' = "failed" BY <1>1, <2>1, <2>3
    <2> QED BY <1>6, <2>2, <2>3 DEF InitClient
  <1>7. CASE AskPassword BY <1>1, <1>7 DEF AskPassword
  <1>8. CASE RaiseWaiting \/ ReadPassword
    BY <1>1, <1>8 DEF RaiseWaiting, ReadPassword
  <1>9. CASE Authenticate
    <2>1. pc = "auth" /\ passwd_failures' = passwd_failures
      BY <1>9 DEF Authenticate
    <2>2. CASE pc' = "unlock" BY <2>1, <2>2
    <2>3. CASE pc' = "failed" BY <1>1, <2>1, <2>3
    <2> QED BY <1>9, <2>2, <2>3 DEF Authenticate
  <1>10. CASE Retry BY <1>1, <1>10 DEF Retry
  <1>11. CASE GiveUp BY <1>1, <1>11 DEF GiveUp
  <1>12. CASE UnlockConnected BY <1>12 DEF UnlockConnected
  <1>13. CASE ResetStopped BY <1>13 DEF ResetStopped
  <1>14. CASE PollStopped BY <1>14 DEF PollStopped, NewRound
  <1>15. CASE WaitForMessage
    <2>1. pc = "message" /\ pc' \in {"handle", "relock", "leave"}
      BY <1>15 DEF WaitForMessage
    <2>2. CASE pc' = "handle" BY <2>1, <2>2
    <2>3. CASE pc' = "relock" BY <2>1, <2>3
    <2>4. CASE pc' = "leave" BY <2>1, <2>4
    <2> QED BY <2>1, <2>2, <2>3, <2>4
  <1>16. CASE HandleMessage
    <2>1. pc = "handle" /\ pc' \in {"relock", "leave"}
      BY <1>16 DEF HandleMessage
    <2>2. CASE pc' = "relock" BY <2>1, <2>2
    <2>3. CASE pc' = "leave" BY <2>1, <2>3
    <2> QED BY <2>1, <2>2, <2>3
  <1>17. CASE Relock BY <1>17 DEF Relock
  <1>18. CASE FireEvent
    <2>1. pc = "drain" /\ pc' = "drain"
      BY <1>18 DEF FireEvent, local
    <2>2. Len(m_eventQueue') < Len(m_eventQueue)
      BY <1>1, <1>18, HeadTailProperties, LenProperties DEF FireEvent
    <2> QED BY <2>1, <2>2
  <1>19. CASE Drained BY <1>19 DEF Drained
  <1>20. CASE LeaveLoop BY <1>20 DEF LeaveLoop
  <1>21. CASE Cleanup BY <1>21 DEF Cleanup
  <1>22. CASE MarkStopped BY <1>22 DEF MarkStopped
  <1>23. CASE Finish BY <1>23 DEF Finish
  <1> QED
    BY <1>2, <1>3, <1>4, <1>5, <1>6, <1>7, <1>8, <1>9, <1>10, <1>11, <1>12,
       <1>13, <1>14, <1>15, <1>16, <1>17, <1>18, <1>19, <1>20, <1>21, <1>22,
       <1>23 DEF Worker, LocalStep, NetworkStep

\* The GUI thread and the user move the worker only where it is at rest, and
\* add no event to the ones it is sending: the mutex is the worker's then.
LEMMA GuiKeeps ==
    ASSUME Inv, GuiStep \/ User
    PROVE  \/ pc = "off" /\ pc' = "sleep"
           \/ WorkerAhead' = WorkerAhead
  <1>1. CASE Start
    <2>1. /\ UNCHANGED <<passwd_failures, m_eventQueue>>
          /\ pc' = IF pc = "off" THEN "sleep" ELSE pc
      BY <1>1 DEF Start, events
    <2>2. CASE pc = "off" BY <2>1, <2>2
    <2>3. CASE pc # "off" BY <2>1, <2>3 DEF WorkerAhead
    <2> QED BY <2>2, <2>3
  <1>2. CASE EnqueueEvent
    <2>1. pc' = pc /\ passwd_failures' = passwd_failures /\ pc # "drain"
      BY <1>2 DEF EnqueueEvent, worker, local, Inv, LockInv, LockedPcs
    <2> QED BY <2>1 DEF WorkerAhead
  <1>3. CASE ~Start /\ ~EnqueueEvent
    <2>1. UNCHANGED <<pc, passwd_failures, m_eventQueue>>
      BY <1>3 DEF GuiStep, User, AnswerPrompt, DeliverSignal, SetUrlPath,
         ClearWaiting, StorePassword, StopTest, StopListening, StopLocked,
         OpenConnectPage, DismissConnectPage, AcceptConnectPage,
         AcceptPasswordPage, DismissPasswordPage, ClickDisconnect,
         ToggleInput, MakeInput, worker, local, events
    <2> QED BY <2>1 DEF WorkerAhead
  <1> QED BY <1>1, <1>2, <1>3

LEMMA AttemptsStep ==
    ASSUME TypeOK, ThreeAttempts, [Next]_vars
    PROVE  ThreeAttempts'
  <1> USE DEF ThreeAttempts, ConnectPcs, Goto
  <1>1. CASE WakeUp BY <1>1 DEF WakeUp
  <1>2. CASE Retry BY <1>2 DEF Retry
  <1>3. CASE GiveUp BY <1>3 DEF GiveUp
  <1>4. CASE Worker /\ ~WakeUp /\ ~Retry /\ ~GiveUp
    <2>1. /\ passwd_failures' = passwd_failures
          /\ pc \notin ConnectPcs \ {"sleep"} => pc' \notin ConnectPcs
      BY <1>4 DEF Worker, LocalStep, NetworkStep, TestStopped, Attempt,
         SpinOver, InitClient, AskPassword, RaiseWaiting, ReadPassword, Authenticate,
         UnlockConnected, ResetStopped, PollStopped, WaitForMessage,
         HandleMessage, Relock, FireEvent, Drained, LeaveLoop, Cleanup,
         MarkStopped, Finish, local
    <2> QED BY <2>1
  <1>5. CASE GuiStep \/ User
    <2>1. /\ passwd_failures' = passwd_failures
          /\ pc' = pc \/ pc' = "sleep"
      BY <1>5 DEF GuiStep, User, AnswerPrompt, DeliverSignal, SetUrlPath,
         Start, ClearWaiting, StorePassword, StopTest, StopListening,
         StopLocked, EnqueueEvent, OpenConnectPage, DismissConnectPage,
         AcceptConnectPage, AcceptPasswordPage, DismissPasswordPage,
         ClickDisconnect, ToggleInput, MakeInput, worker, local
    <2> QED BY <2>1
  <1>6. CASE UNCHANGED vars BY <1>6 DEF vars, local
  <1> QED BY <1>1, <1>2, <1>3, <1>4, <1>5, <1>6 DEF Next

\* A run makes three attempts at most, and each of its steps brings it nearer
\* to its end, except the one that begins another round of the message loop,
\* which takes m_stopped unset; nothing the GUI thread or the user does takes it
\* back, neither new requests nor the events that come while it sends some.  So
\* it resolves a request, sends the events it found queued and ends after a
\* stop in a bounded number of steps of its own.
THEOREM RunEnds ==
    Spec => /\ [](ThreeAttempts /\ WorkerAhead \in Triples)
            /\ [][Worker /\ ~NewRound => Less(WorkerAhead', WorkerAhead)]_vars
            /\ [][GuiStep \/ User => \/ pc = "off" /\ pc' = "sleep"
                                     \/ WorkerAhead' = WorkerAhead]_vars
  <1>1. Init => ThreeAttempts
    BY DEF Init, ThreeAttempts, ConnectPcs
  <1>2. Inv /\ ThreeAttempts /\ [Next]_vars => ThreeAttempts'
    BY AttemptsStep DEF Inv
  <1>3. Spec => []ThreeAttempts
    BY <1>1, <1>2, Invariance, PTL DEF Spec
  <1>4. Inv /\ ThreeAttempts => WorkerAhead \in Triples
    BY AheadType DEF Inv
  <1>5. Inv /\ [Next]_vars
           => [Worker /\ ~NewRound => Less(WorkerAhead', WorkerAhead)]_vars
    BY WorkerLowers DEF Inv
  <1>6. Inv /\ [Next]_vars
           => [GuiStep \/ User => \/ pc = "off" /\ pc' = "sleep"
                                  \/ WorkerAhead' = WorkerAhead]_vars
    BY GuiKeeps
  <1> QED BY <1>3, <1>4, <1>5, <1>6, Invariance, PTL DEF Spec
=============================================================================
