-------------------------- MODULE FramePipeline_proofs --------------------------
(***************************************************************************)
(* Proofs about the frame pipeline, for every bound on the queue: no frame *)
(* is lost by the regulation of the frame rate, and the memory that        *)
(* newclient frees is not read once a rectangle of the new frame is shown. *)
(***************************************************************************)
EXTENDS FramePipeline, Measures, SequenceTheorems, TLAPS

Signals == {"connected", "disconnected", "imageUpdated"}

Holds(q, s) == \E i \in DOMAIN q : q[i] = s

LEMMA HoldsAppend ==
    ASSUME NEW S, NEW q \in Seq(S), NEW e \in S, NEW s
    PROVE  /\ Append(q, e) \in Seq(S) /\ Len(Append(q, e)) = Len(q) + 1
           /\ Holds(Append(q, e), s) <=> Holds(q, s) \/ e = s
<1>1. /\ Append(q, e) \in Seq(S) /\ Len(Append(q, e)) = Len(q) + 1
      /\ Append(q, e)[Len(q) + 1] = e
      /\ \A k \in 1 .. Len(q) : Append(q, e)[k] = q[k]
  BY AppendProperties
<1>2. /\ Len(q) \in Nat /\ DOMAIN q = 1 .. Len(q)
      /\ DOMAIN Append(q, e) = 1 .. Len(q) + 1
  BY <1>1, LenProperties
<1>3. Len(q) + 1 \in DOMAIN Append(q, e) /\ DOMAIN q \subseteq DOMAIN Append(q, e)
  BY <1>2
<1>4. \A k \in DOMAIN Append(q, e) : k = Len(q) + 1 \/ k \in DOMAIN q
  BY <1>2
<1>5. QED
  BY <1>1, <1>2, <1>3, <1>4 DEF Holds

LEMMA HoldsTail ==
    ASSUME NEW S, NEW q \in Seq(S), q # << >>, NEW s
    PROVE  /\ Tail(q) \in Seq(S) /\ Len(Tail(q)) = Len(q) - 1
           /\ Len(q) \in Nat
           /\ Head(q) \in S
           /\ Holds(q, s) <=> Holds(Tail(q), s) \/ Head(q) = s
<1>1. /\ Tail(q) \in Seq(S) /\ Len(Tail(q)) = Len(q) - 1 /\ Head(q) \in S
      /\ \A k \in 1 .. Len(Tail(q)) : Tail(q)[k] = q[k + 1]
      /\ Head(q) = q[1]
  BY HeadTailProperties
<1>2. /\ Len(q) \in Nat /\ DOMAIN q = 1 .. Len(q)
      /\ DOMAIN Tail(q) = 1 .. Len(q) - 1
  BY <1>1, LenProperties
<1>3. 1 \in DOMAIN q
  BY <1>1, <1>2, EmptySeq
<1>4. ASSUME NEW k \in DOMAIN q
      PROVE  k = 1 \/ (k - 1 \in DOMAIN Tail(q) /\ q[k] = Tail(q)[k - 1])
  <2>1. k # 1 => k - 1 \in 1 .. Len(q) - 1 /\ k - 1 + 1 = k
    BY <1>2
  <2>2. QED
    BY <1>1, <1>2, <2>1
<1>5. ASSUME NEW k \in DOMAIN Tail(q)
      PROVE  k + 1 \in DOMAIN q /\ q[k + 1] = Tail(q)[k]
  BY <1>1, <1>2
<1>6. Holds(q, s) => Holds(Tail(q), s) \/ Head(q) = s
  BY <1>1, <1>4 DEF Holds
<1>7. Holds(Tail(q), s) \/ Head(q) = s => Holds(q, s)
  BY <1>1, <1>3, <1>5 DEF Holds
<1>8. QED
  BY <1>1, <1>2, <1>6, <1>7

(***************************************************************************)
(* The induction.  An item with the current URL lacks something only while *)
(* the signal that changes the URL is still to come: so the item that is   *)
(* given the URL of the other shows what the other shows.                  *)
(***************************************************************************)
Pending == worker \in {"decoded", "imaged"} \/ Holds(signals, "imageUpdated")

CurrentUrlPending == \A i \in Items : behind[i] /\ ~newUrl[i] => Pending

Inv == TypeOK /\ ImageSharesFrame /\ CurrentUrlPending /\ NoLostFrame

LEMMA RefreshingPending == Refreshing <=> Pending \/ timer # "off"
BY DEF Refreshing, Pending, Holds

LEMMA InitInv == Init => Inv
<1> SUFFICES ASSUME Init PROVE Inv
  OBVIOUS
<1>1. TypeOK
  <2>1. << >> \in Seq(Signals) /\ Len(<< >>) = 0 /\ 0 <= MaxSignals
    BY MaxSignalsAssumption, EmptySeq DEF MaxSignalsAssumption
  <2>2. missed \in BOOLEAN /\ newUrl \in [Items -> BOOLEAN]
        /\ behind \in [Items -> BOOLEAN]
    BY Zenon DEF Init
  <2>3. QED
    BY <2>1, <2>2 DEF Init, TypeOK, Signals
<1>2. \A i \in Items : ~behind[i]
  BY DEF Init
<1>3. ~behind[Visible]
  BY <1>2 DEF Visible, Items
<1>4. QED
  BY <1>1, <1>2, <1>3
  DEF Inv, ImageSharesFrame, CurrentUrlPending, NoLostFrame

LEMMA NextType == TypeOK /\ [Next]_vars => TypeOK'
<1> SUFFICES ASSUME TypeOK, [Next]_vars PROVE TypeOK'
  OBVIOUS
<1> USE DEF TypeOK, gui
<1>1. ASSUME NEW s \in Signals, Emit(s)
      PROVE  signals' \in Seq(Signals) /\ Len(signals') <= MaxSignals
  <2>1. signals' = Append(signals, s) /\ Len(signals) < MaxSignals
    BY <1>1 DEF Emit
  <2>2. signals' \in Seq(Signals) /\ Len(signals') = Len(signals) + 1
    BY <2>1, HoldsAppend DEF Signals
  <2>3. Len(signals) \in Nat
    BY LenProperties
  <2>4. QED
    BY <2>1, <2>2, <2>3, MaxSignalsAssumption DEF MaxSignalsAssumption
<1>2. ASSUME signals # << >>, signals' = Tail(signals)
      PROVE  signals' \in Seq(Signals) /\ Len(signals') <= MaxSignals
  <2>1. /\ Tail(signals) \in Seq(Signals) /\ Len(Tail(signals)) = Len(signals) - 1
        /\ Len(signals) \in Nat
    BY <1>2, HoldsTail DEF Signals
  <2>2. QED
    BY <1>2, <2>1, MaxSignalsAssumption DEF MaxSignalsAssumption
<1>3. [i \in Items |-> TRUE] \in [Items -> BOOLEAN]
  OBVIOUS
<1>4. [i \in Items |-> FALSE] \in [Items -> BOOLEAN]
  OBVIOUS
<1>5. ASSUME NewClient
      PROVE  /\ m_image' \in {"null", "live", "freed"}
             /\ screenImage' \in {"null", "live", "freed"}
             /\ behind' \in [Items -> BOOLEAN] /\ missed' \in BOOLEAN
  BY <1>4, <1>5, Zenon DEF NewClient, Freed
<1>6. CASE Connect
  BY <1>6 DEF Connect
<1>7. CASE Connected
  BY <1>1, <1>5, <1>7 DEF Connected, Signals
<1>8. CASE Disconnected
  <2>1. signals' \in Seq(Signals) /\ Len(signals') <= MaxSignals
    BY <1>1, <1>8 DEF Disconnected, Signals
  <2>2. /\ m_image' \in {"null", "live", "freed"}
        /\ screenImage' \in {"null", "live", "freed"}
        /\ behind' \in [Items -> BOOLEAN] /\ missed' \in BOOLEAN
    BY <1>5, <1>8, Zenon DEF Disconnected
  <2>3. QED
    BY <1>8, <2>1, <2>2 DEF Disconnected, Signals
<1>9. CASE Resize
  BY <1>5, <1>9 DEF Resize
<1>10. CASE Decode
  BY <1>3, <1>10 DEF Decode
<1>11. CASE SetImage
  BY <1>11 DEF SetImage
<1>12. CASE EmitUpdated
  BY <1>1, <1>12 DEF EmitUpdated, Signals
<1>13. CASE OnStatus
  BY <1>2, <1>13 DEF OnStatus, Signals
<1>14. CASE OnImageUpdate
  BY <1>2, <1>3, <1>14 DEF OnImageUpdate, Signals
<1>15. CASE TimerExpires
  BY <1>15 DEF TimerExpires
<1>16. CASE TimerTimeout
  <2>1. StaysBehind(Visible, Hidden) \in BOOLEAN
    BY DEF StaysBehind, Visible, Hidden, Items
  <2>2. [behind EXCEPT ![Visible] = StaysBehind(Visible, Hidden)]
            \in [Items -> BOOLEAN]
    BY <2>1
  <2>3. [newUrl EXCEPT ![Visible] = FALSE] \in [Items -> BOOLEAN]
    OBVIOUS
  <2>4. behind' \in [Items -> BOOLEAN] /\ newUrl' \in [Items -> BOOLEAN]
    BY <1>16, <2>2, <2>3 DEF TimerTimeout
  <2>5. missed' \in BOOLEAN
    BY <1>16, Zenon DEF TimerTimeout
  <2>6. QED
    BY <1>16, <2>4, <2>5 DEF TimerTimeout
<1>17. CASE SetRunning
  <2>1. m_running' \in BOOLEAN /\ missed' \in BOOLEAN
    BY <1>17, Zenon DEF SetRunning
  <2>2. timer' \in {"off", "running", "due"}
    BY <1>17 DEF SetRunning
  <2>3. QED
    BY <1>17, <2>1, <2>2 DEF SetRunning
<1>18. CASE UNCHANGED vars
  BY <1>18 DEF vars
<1>19. QED
  BY <1>6, <1>7, <1>8, <1>9, <1>10, <1>11, <1>12, <1>13, <1>14, <1>15, <1>16,
     <1>17, <1>18 DEF Next, WorkerStep, GuiStep, Outside

(***************************************************************************)
(* A signal of the worker does not undo that a refresh is pending, nor     *)
(* does a status signal that leaves the queue.                             *)
(***************************************************************************)
LEMMA EmitKeeps ==
    ASSUME TypeOK, NEW s \in Signals, Emit(s)
    PROVE  /\ Holds(signals, "imageUpdated") => Holds(signals, "imageUpdated")'
           /\ s = "imageUpdated" => Holds(signals, "imageUpdated")'
<1>1. signals' = Append(signals, s) /\ signals \in Seq(Signals)
  BY DEF Emit, TypeOK, Signals
<1>2. Holds(Append(signals, s), "imageUpdated") <=>
          Holds(signals, "imageUpdated") \/ s = "imageUpdated"
  BY <1>1, HoldsAppend
<1>3. QED
  BY <1>1, <1>2 DEF Holds

LEMMA OnStatusKeeps ==
    ASSUME TypeOK, OnStatus
    PROVE  Holds(signals, "imageUpdated") => Holds(signals, "imageUpdated")'
<1>1. /\ signals' = Tail(signals) /\ signals \in Seq(Signals)
      /\ signals # << >> /\ Head(signals) # "imageUpdated"
  BY DEF OnStatus, TypeOK, Signals
<1>2. Holds(signals, "imageUpdated") <=>
          Holds(Tail(signals), "imageUpdated") \/ Head(signals) = "imageUpdated"
  BY <1>1, HoldsTail
<1>3. QED
  BY <1>1, <1>2 DEF Holds

\* newclient leaves nothing to be shown.
LEMMA NewClientClears ==
    ASSUME NewClient
    PROVE  ImageSharesFrame' /\ CurrentUrlPending' /\ NoLostFrame'
<1>1. \A i \in Items : ~behind'[i]
  BY DEF NewClient
<1>2. Visible' \in Items
  BY DEF Visible, Items
<1>3. QED
  BY <1>1, <1>2 DEF ImageSharesFrame, CurrentUrlPending, NoLostFrame

\* A step after which a refresh is pending, or was before and still is.
LEMMA PendingSuffices ==
    ASSUME Pending'
    PROVE  CurrentUrlPending' /\ NoLostFrame'
<1>1. Refreshing'
  BY DEF Refreshing, Pending, Holds
<1>2. QED
  BY <1>1 DEF CurrentUrlPending, NoLostFrame

\* A step of the worker or of the timer that touches neither the items nor what
\* is visible, and after which a refresh is on its way if it was before.
LEMMA OthersKeep ==
    ASSUME Inv, UNCHANGED <<m_running, newUrl, missed, behind>>,
           Pending => Pending', Refreshing => Refreshing'
    PROVE  CurrentUrlPending' /\ NoLostFrame'
<1>1. CurrentUrlPending'
  BY DEF Inv, CurrentUrlPending
<1>2. NoLostFrame'
  BY DEF Inv, NoLostFrame, Visible
<1>3. QED
  BY <1>1, <1>2

LEMMA NextInv == Inv /\ [Next]_vars => Inv'
<1> SUFFICES ASSUME Inv, [Next]_vars PROVE Inv'
  OBVIOUS
<1>1. TypeOK /\ TypeOK'
  BY NextType DEF Inv
<1> USE DEF gui
<1>2. CASE Connect
  <2>1. /\ worker = "off" /\ worker' = "connecting"
        /\ UNCHANGED <<m_image, signals, timer, m_running, newUrl, missed, behind>>
    BY <1>2 DEF Connect
  <2>2. Pending => Pending'
    BY <2>1 DEF Pending, Holds
  <2>3. Refreshing => Refreshing'
    BY <2>1 DEF Refreshing
  <2>4. ImageSharesFrame'
    BY <2>1 DEF Inv, ImageSharesFrame
  <2>5. QED
    BY <1>1, <2>1, <2>2, <2>3, <2>4, OthersKeep DEF Inv
<1>3. CASE Connected
  BY <1>1, <1>3, NewClientClears DEF Connected, Inv
<1>4. CASE Disconnected
  <2>1. CASE NewClient
    BY <1>1, <2>1, NewClientClears DEF Inv
  <2>2. CASE UNCHANGED <<m_image, screenImage, behind, missed>>
    <3>1. /\ worker \in {"connecting", "idle"} /\ worker' = "off"
          /\ UNCHANGED <<timer, m_running, newUrl>> /\ Emit("disconnected")
      BY <1>4 DEF Disconnected
    <3>2. Holds(signals, "imageUpdated") => Holds(signals, "imageUpdated")'
      BY <1>1, <3>1, EmitKeeps DEF Signals
    <3>3. Pending => Pending'
      BY <3>1, <3>2 DEF Pending
    <3>4. Refreshing => Refreshing'
      BY <3>1, <3>2 DEF Refreshing, Holds
    <3>5. ImageSharesFrame'
      BY <2>2, <3>1 DEF Inv, ImageSharesFrame
    <3>6. QED
      BY <1>1, <2>2, <3>1, <3>3, <3>4, <3>5, OthersKeep DEF Inv
  <2>3. QED
    BY <1>4, <2>1, <2>2 DEF Disconnected
<1>5. CASE Resize
  BY <1>1, <1>5, NewClientClears DEF Resize, Inv
<1>6. CASE Decode
  <2>1. worker' = "decoded"
    BY <1>6 DEF Decode
  <2>2. Pending' /\ ImageSharesFrame'
    BY <2>1 DEF Pending, ImageSharesFrame
  <2>3. QED
    BY <1>1, <2>2, PendingSuffices DEF Inv
<1>7. CASE SetImage
  <2>1. worker' = "imaged" /\ m_image' = "live"
    BY <1>7 DEF SetImage
  <2>2. Pending' /\ ImageSharesFrame'
    BY <2>1 DEF Pending, ImageSharesFrame
  <2>3. QED
    BY <1>1, <2>2, PendingSuffices DEF Inv
<1>8. CASE EmitUpdated
  <2>1. /\ worker = "imaged" /\ worker' = "idle" /\ Emit("imageUpdated")
        /\ UNCHANGED <<m_image, behind>>
    BY <1>8 DEF EmitUpdated
  <2>2. Holds(signals, "imageUpdated")'
    BY <1>1, <2>1, EmitKeeps DEF Signals
  <2>3. Pending'
    BY <2>2 DEF Pending
  <2>4. ImageSharesFrame'
    BY <2>1 DEF Inv, ImageSharesFrame
  <2>5. QED
    BY <1>1, <2>3, <2>4, PendingSuffices DEF Inv
<1>9. CASE OnStatus
  <2>1. UNCHANGED <<worker, m_image, timer, m_running, newUrl, missed, behind>>
    BY <1>9 DEF OnStatus
  <2>2. Holds(signals, "imageUpdated") => Holds(signals, "imageUpdated")'
    BY <1>1, <1>9, OnStatusKeeps
  <2>3. Pending => Pending'
    BY <2>1, <2>2 DEF Pending
  <2>4. Refreshing => Refreshing'
    BY <2>1, <2>2 DEF Refreshing, Holds
  <2>5. ImageSharesFrame'
    BY <2>1 DEF Inv, ImageSharesFrame
  <2>6. QED
    BY <1>1, <2>1, <2>3, <2>4, <2>5, OthersKeep DEF Inv
<1>10. CASE OnImageUpdate
  <2>1. /\ UNCHANGED <<worker, m_image, m_running, missed, behind>>
        /\ newUrl' = [i \in Items |-> TRUE]
        /\ timer' # "off"
    BY <1>1, <1>10 DEF OnImageUpdate, TypeOK
  <2>2. CurrentUrlPending'
    BY <2>1 DEF CurrentUrlPending
  <2>3. NoLostFrame'
    BY <2>1 DEF NoLostFrame, Refreshing
  <2>4. ImageSharesFrame'
    BY <2>1 DEF Inv, ImageSharesFrame
  <2>5. QED
    BY <1>1, <2>2, <2>3, <2>4 DEF Inv
<1>11. CASE TimerExpires
  <2>1. /\ UNCHANGED <<worker, m_image, signals, m_running, newUrl, missed, behind>>
        /\ timer' = "due"
    BY <1>11 DEF TimerExpires
  <2>2. (Pending => Pending') /\ Refreshing'
    BY <2>1 DEF Pending, Holds, Refreshing
  <2>3. ImageSharesFrame'
    BY <2>1 DEF Inv, ImageSharesFrame
  <2>4. QED
    BY <1>1, <2>1, <2>2, <2>3, OthersKeep DEF Inv
<1>12. CASE TimerTimeout
  <2>1. UNCHANGED <<worker, m_image, signals, m_running>>
    BY <1>12 DEF TimerTimeout
  <2>2. Pending => Pending'
    BY <2>1 DEF Pending, Holds
  <2>3. /\ Visible \in Items /\ Hidden \in Items /\ Visible' = Visible
        /\ \A i \in Items : i = Visible \/ i = Hidden
    BY <2>1 DEF Visible, Hidden, Items
  <2>4. CASE newUrl[Visible]
    <3>1. /\ behind' = [behind EXCEPT ![Visible] = StaysBehind(Visible, Hidden)]
          /\ newUrl' = [newUrl EXCEPT ![Visible] = FALSE]
      BY <1>12, <2>4 DEF TimerTimeout
    <3>2. /\ behind'[Visible] => StaysBehind(Visible, Hidden)
          /\ behind'[Hidden] = behind[Hidden] /\ newUrl'[Hidden] = newUrl[Hidden]
      BY <1>1, <2>3, <3>1 DEF TypeOK, Visible, Hidden
    <3>3. StaysBehind(Visible, Hidden) =>
              Pending /\ \E i \in Items : behind[i]
      <4>1. CASE newUrl[Hidden]
        BY <2>3, <4>1 DEF StaysBehind, Inv, ImageSharesFrame, Pending
      <4>2. CASE ~newUrl[Hidden]
        BY <2>3, <4>2 DEF StaysBehind, Inv, CurrentUrlPending
      <4>3. QED
        BY <4>1, <4>2
    <3>4. CurrentUrlPending'
      BY <2>2, <2>3, <3>2, <3>3 DEF Inv, CurrentUrlPending
    <3>5. NoLostFrame'
      BY <2>2, <2>3, <3>2, <3>3 DEF NoLostFrame, Refreshing, Pending, Holds
    <3>6. ImageSharesFrame'
      BY <2>1, <2>3, <3>2, <3>3 DEF Inv, ImageSharesFrame
    <3>7. QED
      BY <1>1, <3>4, <3>5, <3>6 DEF Inv
  <2>5. CASE ~newUrl[Visible]
    <3>1. UNCHANGED <<behind, newUrl, missed>>
      BY <1>12, <2>5 DEF TimerTimeout
    <3>2. behind[Visible] => Pending
      BY <2>3, <2>5 DEF Inv, CurrentUrlPending
    <3>3. CurrentUrlPending' /\ ImageSharesFrame'
      BY <2>1, <2>2, <3>1 DEF Inv, CurrentUrlPending, ImageSharesFrame
    <3>4. NoLostFrame'
      BY <2>2, <2>3, <3>1, <3>2 DEF NoLostFrame, Refreshing, Pending, Holds
    <3>5. QED
      BY <1>1, <3>3, <3>4 DEF Inv
  <2>6. QED
    BY <2>4, <2>5
<1>13. CASE SetRunning
  <2>1. /\ UNCHANGED <<worker, m_image, signals, newUrl, behind>>
        /\ m_running' = ~m_running
        /\ timer # "off" => timer' # "off"
        /\ missed' = (behind[Hidden] /\ ~Refreshing /\ timer' = "off")
    BY <1>13 DEF SetRunning
  <2>2. Visible' = Hidden
    BY <1>1, <2>1 DEF Visible, Hidden, TypeOK
  <2>3. (Pending => Pending') /\ (Refreshing => Refreshing')
    BY <2>1 DEF Pending, Holds, Refreshing
  <2>4. CurrentUrlPending' /\ ImageSharesFrame'
    BY <2>1, <2>3 DEF Inv, CurrentUrlPending, ImageSharesFrame
  <2>5. timer' # "off" => Refreshing'
    BY DEF Refreshing
  <2>6. NoLostFrame'
    BY <2>1, <2>2, <2>3, <2>5 DEF NoLostFrame
  <2>7. QED
    BY <1>1, <2>4, <2>6 DEF Inv
<1>14. CASE UNCHANGED vars
  BY <1>1, <1>14, OthersKeep DEF vars, Inv, Pending, Holds, Refreshing,
     ImageSharesFrame
<1>15. QED
  BY <1>2, <1>3, <1>4, <1>5, <1>6, <1>7, <1>8, <1>9, <1>10, <1>11, <1>12,
     <1>13, <1>14 DEF Next, WorkerStep, GuiStep, Outside

LEMMA InvHolds == Spec => []Inv
BY InitInv, NextInv, PTL DEF Spec

\* The states of the pipeline are those its variables are declared to have: the
\* queue between the threads, the timer, what the items show.
THEOREM TypeCorrect == Spec => []TypeOK
<1>1. Inv => TypeOK
  BY DEF Inv
<1>2. QED
  BY <1>1, InvHolds, PTL

\* onImageUpdate and timerTimeout lose no frame: while the visible item lacks
\* something decoded its refresh is on its way, unless it was already behind,
\* and nothing to come, when setRunning made it the visible one.
THEOREM NoFrameLost == Spec => []NoLostFrame
<1>1. Inv => NoLostFrame
  BY DEF Inv
<1>2. QED
  BY <1>1, InvHolds, PTL

\* After newclient has deleted a frame, the image of the worker shares the new
\* one from the moment updatefb publishes its first rectangle.
THEOREM ImageShared == Spec => []ImageSharesFrame
<1>1. Inv => ImageSharesFrame
  BY DEF Inv
<1>2. QED
  BY <1>1, InvHolds, PTL

(***************************************************************************)
(* Every refresh ends.                                                     *)
(***************************************************************************)
\* What the threads have still before them, if nothing is decoded meanwhile and
\* the application stays where it is.
WorkerLeft == CASE worker = "decoded" -> 3
                [] worker \in {"imaged", "connecting"} -> 2
                [] worker = "idle" -> 1
                [] worker = "off" -> 0
TimerLeft == CASE timer = "running" -> 2
               [] timer = "due" -> 1
               [] timer = "off" -> 0
RefreshAhead == <<WorkerLeft, Len(signals), TimerLeft>>

\* One of the threads has a step of a refresh to take.
RefreshGoesOn ==
    \/ signals # << >> \/ timer = "running" \/ worker = "decoded"
    \/ worker \in {"imaged", "connecting"} /\ Len(signals) < MaxSignals
    \/ timer = "due" /\ worker # "connecting"

LEMMA RefreshLowers ==
    ASSUME TypeOK, WorkerStep \/ GuiStep
    PROVE  Less(RefreshAhead', RefreshAhead)
<1>1. /\ Len(signals) \in Nat
      /\ signals # << >> => Len(Tail(signals)) < Len(signals)
  <2>1. signals \in Seq(Signals)
    BY DEF TypeOK, Signals
  <2>2. QED
    BY <2>1, HoldsTail, LenProperties
<1>2. CASE WorkerStep
  <2>1. \/ worker = "connecting" /\ worker' = "idle"
        \/ worker = "connecting" /\ worker' = "off"
        \/ worker = "idle" /\ worker' = "off"
        \/ worker = "decoded" /\ worker' = "imaged"
        \/ worker = "imaged" /\ worker' = "idle"
    BY <1>2 DEF WorkerStep, Connected, Disconnected, SetImage, EmitUpdated
  <2>2. WorkerLeft' < WorkerLeft
    BY <2>1 DEF WorkerLeft
  <2>3. QED
    BY <2>2 DEF RefreshAhead, Less
<1>3. CASE OnStatus \/ OnImageUpdate
  <2>1. UNCHANGED worker /\ Len(signals') < Len(signals)
    BY <1>1, <1>3 DEF OnStatus, OnImageUpdate
  <2>2. WorkerLeft' = WorkerLeft
    BY <2>1 DEF WorkerLeft
  <2>3. QED
    BY <2>1, <2>2 DEF RefreshAhead, Less
<1>4. CASE TimerExpires \/ TimerTimeout
  <2>1. /\ UNCHANGED <<worker, signals>>
        /\ \/ timer = "running" /\ timer' = "due"
           \/ timer = "due" /\ timer' = "off"
    BY <1>4 DEF TimerExpires, TimerTimeout
  <2>2. WorkerLeft' = WorkerLeft
    BY <2>1 DEF WorkerLeft
  <2>3. TimerLeft' < TimerLeft
    BY <2>1 DEF TimerLeft
  <2>4. QED
    BY <2>1, <2>2, <2>3 DEF RefreshAhead, Less
<1>5. QED
  BY <1>2, <1>3, <1>4 DEF GuiStep

\* A frame decoded is a bounded number of steps of the two threads away from the
\* end of its refresh, whatever has been queued before it; and while the refresh
\* is on its way one of them can go on: neither a full queue nor the mutex that
\* the connect phase holds stops both.  By NoFrameLost nothing decoded is missing
\* from the visible item at the end.
THEOREM RefreshEnds ==
    Spec => /\ [](RefreshAhead \in Triples)
            /\ [](Refreshing => RefreshGoesOn)
            /\ [][WorkerStep \/ GuiStep
                     => Less(RefreshAhead', RefreshAhead)]_vars
<1>1. Inv => RefreshAhead \in Triples
  <2>1. TypeOK => Len(signals) \in Nat
    BY LenProperties DEF TypeOK
  <2>2. QED
    BY <2>1 DEF Inv, TypeOK, RefreshAhead, WorkerLeft, TimerLeft, Triples
<1>2. Inv => (Refreshing => RefreshGoesOn)
  <2> SUFFICES ASSUME Inv, Refreshing PROVE RefreshGoesOn
    OBVIOUS
  <2>1. signals = << >> => Len(signals) < MaxSignals
    BY MaxSignalsAssumption, EmptySeq DEF MaxSignalsAssumption
  <2>2. signals = << >> => ~ \E i \in DOMAIN signals : signals[i] = "imageUpdated"
    BY EmptySeq
  <2>3. QED
    BY <2>1, <2>2 DEF Inv, TypeOK, Refreshing, RefreshGoesOn
<1>3. Inv /\ [Next]_vars
         => [WorkerStep \/ GuiStep => Less(RefreshAhead', RefreshAhead)]_vars
  BY RefreshLowers DEF Inv
<1>4. QED
  BY <1>1, <1>2, <1>3, InvHolds, PTL DEF Spec
=============================================================================
