-------------------------- MODULE ConnectPage_proofs --------------------------
(***************************************************************************)
(* What holds of ConnectPage for every set of addresses and any number of  *)
(* accepted dialogs.                                                       *)
(***************************************************************************)
EXTENDS ConnectPage, SequenceTheorems, TLAPS

(***************************************************************************)
(* The quality.  Between the two statements of onAccepted the worker that  *)
(* was started there still sleeps, so nobody reads the old value.          *)
(***************************************************************************)
QualityInv ==
    /\ gui \in {"idle", "setVncpath", "setVncquality"}
    /\ gui = "idle" => quality = chosen
    /\ gui # "idle" /\ ~overlapped =>
           worker \in {"off", "sleep"} /\ began = -1
    /\ QualityAsChosen

LEMMA QualityStart == Init => QualityInv
BY DEF Init, QualityInv, QualityAsChosen

LEMMA QualityStep == QualityInv /\ [Next]_vars => QualityInv'
<1> SUFFICES ASSUME QualityInv, [Next]_vars
             PROVE  QualityInv'
  OBVIOUS
<1> USE DEF QualityInv, QualityAsChosen
<1>1. CASE Open \/ EnterUrl \/ MoveSlider \/ RemoveItem \/ ClearAll \/ Reject
  BY <1>1 DEF Open, EnterUrl, MoveSlider, RemoveItem, ClearAll, Reject, NotDialog
<1>2. CASE Accept
  BY <1>2 DEF Accept
<1>3. CASE SetVncpath
  BY <1>3 DEF SetVncpath
<1>4. CASE SetVncquality
  BY <1>4 DEF SetVncquality
<1>5. CASE WakeUp
  BY <1>5 DEF WakeUp, SleepOver
<1>6. CASE NewClient
  BY <1>6 DEF NewClient
<1>7. CASE WorkerEnds
  BY <1>7 DEF WorkerEnds
<1>8. CASE UNCHANGED vars
  BY <1>8 DEF vars, dialog
<1>9. QED
  BY <1>1, <1>2, <1>3, <1>4, <1>5, <1>6, <1>7, <1>8 DEF Next

\* A session begins with the quality of the dialog that asked for it: newclient
\* reads m_quality after setVncquality has written it.
THEOREM QualityCorrect == Spec => []QualityAsChosen
<1>1. QualityInv => QualityAsChosen
  BY DEF QualityInv
<1>2. QED
  BY QualityStart, QualityStep, <1>1, PTL DEF Spec

(***************************************************************************)
(* The history.  A list is in order when the addresses were used the later *)
(* the further they are in front, which makes them different; f is when.   *)
(***************************************************************************)
Elements(list) == {list[k] : k \in DOMAIN list}

InOrder(f, list) ==
    \A k, m \in DOMAIN list : k < m => f[list[k]] > f[list[m]]

LEMMA RemoveAtProperties ==
    ASSUME NEW S, NEW s \in Seq(S), NEW k \in 1 .. Len(s)
    PROVE  /\ RemoveAt(s, k) \in Seq(S)
           /\ Len(RemoveAt(s, k)) = Len(s) - 1
           /\ \A n \in 1 .. Len(s) - 1 :
                 RemoveAt(s, k)[n] = s[IF n < k THEN n ELSE n + 1]
<1> DEFINE a == SubSeq(s, 1, k - 1)
           b == SubSeq(s, k + 1, Len(s))
<1>1. Len(s) \in Nat /\ \A n \in 1 .. Len(s) : s[n] \in S
  BY LenProperties, ElementOfSeq
<1>2. a \in Seq(S) /\ Len(a) = k - 1 /\ \A n \in 1 .. k - 1 : a[n] = s[n]
  <2>1. \A n \in 1 .. k - 1 : s[n] \in S
    BY <1>1
  <2>2. /\ a \in Seq(S)
        /\ Len(a) = IF 1 <= k - 1 THEN k - 1 - 1 + 1 ELSE 0
        /\ \A n \in 1 .. k - 1 - 1 + 1 : a[n] = s[1 + n - 1]
    BY <1>1, <2>1, SubSeqProperties
  <2>3. \A n \in 1 .. k - 1 : a[n] = s[n]
    <3> TAKE n \in 1 .. k - 1
    <3>1. n \in 1 .. k - 1 - 1 + 1 /\ 1 + n - 1 = n
      BY <1>1
    <3>2. QED
      BY <2>2, <3>1
  <2>4. QED
    BY <1>1, <2>2, <2>3
<1>3. /\ b \in Seq(S) /\ Len(b) = Len(s) - k
      /\ \A n \in 1 .. Len(s) - k : b[n] = s[n + k]
  <2>1. \A n \in k + 1 .. Len(s) : s[n] \in S
    BY <1>1
  <2>2. /\ b \in Seq(S)
        /\ Len(b) = IF k + 1 <= Len(s) THEN Len(s) - (k + 1) + 1 ELSE 0
        /\ \A n \in 1 .. Len(s) - (k + 1) + 1 : b[n] = s[k + 1 + n - 1]
    BY <1>1, <2>1, SubSeqProperties
  <2>3. \A n \in 1 .. Len(s) - k : b[n] = s[n + k]
    <3> TAKE n \in 1 .. Len(s) - k
    <3>1. n \in 1 .. Len(s) - (k + 1) + 1 /\ k + 1 + n - 1 = n + k
      BY <1>1
    <3>2. QED
      BY <2>2, <3>1
  <2>4. QED
    BY <1>1, <2>2, <2>3
<1>4. RemoveAt(s, k) = a \o b
  BY DEF RemoveAt
<1> HIDE DEF a, b
<1>5. /\ a \o b \in Seq(S) /\ Len(a \o b) = Len(s) - 1
      /\ \A n \in 1 .. Len(s) - 1 :
            (a \o b)[n] = IF n <= k - 1 THEN a[n] ELSE b[n - (k - 1)]
  <2>1. /\ a \o b \in Seq(S) /\ Len(a \o b) = Len(a) + Len(b)
        /\ \A n \in 1 .. Len(a) + Len(b) :
              (a \o b)[n] = IF n <= Len(a) THEN a[n] ELSE b[n - Len(a)]
    BY <1>2, <1>3, ConcatProperties
  <2>2. Len(a) + Len(b) = Len(s) - 1
    BY <1>1, <1>2, <1>3
  <2>3. QED
    BY <1>2, <2>1, <2>2
<1>6. ASSUME NEW n \in 1 .. Len(s) - 1
      PROVE  (a \o b)[n] = s[IF n < k THEN n ELSE n + 1]
  <2>1. CASE n < k
    <3>1. n <= k - 1 /\ n \in 1 .. k - 1
      BY <1>1, <2>1
    <3>2. QED
      BY <1>2, <1>5, <2>1, <3>1
  <2>2. CASE ~(n < k)
    <3>1. /\ ~(n <= k - 1) /\ n - (k - 1) \in 1 .. Len(s) - k
          /\ n - (k - 1) + k = n + 1
      BY <1>1, <2>2
    <3>2. QED
      BY <1>3, <1>5, <2>2, <3>1
  <2>3. QED
    BY <2>1, <2>2
<1>7. QED
  BY <1>4, <1>5, <1>6

\* What removeListItem leaves: the other addresses, in the same order.
LEMMA RemoveAtInOrder ==
    ASSUME NEW S, NEW f \in [S -> Nat], NEW s \in Seq(S), InOrder(f, s),
           NEW k \in 1 .. Len(s)
    PROVE  /\ InOrder(f, RemoveAt(s, k))
           /\ \A e : e \in Elements(RemoveAt(s, k)) <=>
                       e \in Elements(s) /\ e # s[k]
<1> DEFINE r == RemoveAt(s, k)
           from(n) == IF n < k THEN n ELSE n + 1
<1>1. /\ Len(s) \in Nat /\ DOMAIN s = 1 .. Len(s)
      /\ \A n \in 1 .. Len(s) : s[n] \in S
  BY LenProperties, ElementOfSeq
<1>2. /\ r \in Seq(S) /\ Len(r) = Len(s) - 1
      /\ \A n \in 1 .. Len(s) - 1 : r[n] = s[from(n)]
  BY RemoveAtProperties
<1>3. DOMAIN r = 1 .. Len(s) - 1
  BY <1>2, LenProperties
<1> HIDE DEF r
<1>4. ASSUME NEW n \in 1 .. Len(s) - 1
      PROVE  from(n) \in 1 .. Len(s) /\ from(n) # k
  BY <1>1
<1>5. ASSUME NEW m \in 1 .. Len(s), NEW n \in 1 .. Len(s), m # n
      PROVE  s[m] # s[n]
  <2>1. f[s[m]] \in Nat /\ f[s[n]] \in Nat
    BY <1>1
  <2>2. m < n \/ n < m
    BY <1>1, <1>5
  <2>3. f[s[m]] > f[s[n]] \/ f[s[n]] > f[s[m]]
    BY <1>1, <2>2 DEF InOrder
  <2>4. QED
    BY <2>1, <2>3
<1>6. InOrder(f, r)
  <2> SUFFICES ASSUME NEW m \in 1 .. Len(s) - 1, NEW n \in 1 .. Len(s) - 1,
                      m < n
               PROVE  f[r[m]] > f[r[n]]
    BY <1>3 DEF InOrder
  <2>1. from(m) < from(n)
    BY <1>1
  <2>2. f[s[from(m)]] > f[s[from(n)]]
    BY <1>1, <1>4, <2>1 DEF InOrder
  <2>3. QED
    BY <1>2, <2>2
<1>7. \A e : e \in Elements(r) <=> e \in Elements(s) /\ e # s[k]
  <2>1. ASSUME NEW n \in 1 .. Len(s) - 1
        PROVE  r[n] \in Elements(s) /\ r[n] # s[k]
    <3> HIDE DEF from
    <3>1. r[n] = s[from(n)] /\ from(n) \in 1 .. Len(s) /\ from(n) # k
      BY <1>2, <1>4
    <3>2. QED
      BY <1>1, <1>5, <3>1 DEF Elements
  <2>2. ASSUME NEW n \in 1 .. Len(s), n # k
        PROVE  \E m \in 1 .. Len(s) - 1 : r[m] = s[n]
    <3>1. CASE n < k
      <4>1. n \in 1 .. Len(s) - 1 /\ from(n) = n
        BY <1>1, <3>1
      <4>2. QED
        BY <1>2, <4>1
    <3>2. CASE ~(n < k)
      <4>1. n - 1 \in 1 .. Len(s) - 1 /\ from(n - 1) = n
        BY <1>1, <2>2, <3>2
      <4>2. QED
        BY <1>2, <4>1
    <3>3. QED
      BY <3>1, <3>2
  <2>3. \A e : e \in Elements(s) /\ e # s[k] => e \in Elements(r)
    BY <1>1, <1>3, <2>2 DEF Elements
  <2>4. \A e : e \in Elements(r) => e \in Elements(s) /\ e # s[k]
    BY <1>3, <2>1 DEF Elements
  <2>5. QED
    BY <2>3, <2>4
<1>8. QED
  BY <1>6, <1>7 DEF r

LEMMA PutInFront ==
    ASSUME NEW S, NEW g \in [S -> Nat], NEW s \in Seq(S), InOrder(g, s),
           NEW url \in S, \A e \in Elements(s) : g[e] < g[url]
    PROVE  /\ <<url>> \o s \in Seq(S)
           /\ InOrder(g, <<url>> \o s)
           /\ \A e : e \in Elements(<<url>> \o s) <=>
                       e \in Elements(s) \/ e = url
<1> DEFINE r == <<url>> \o s
<1>1. /\ Len(s) \in Nat /\ DOMAIN s = 1 .. Len(s)
      /\ \A n \in 1 .. Len(s) : s[n] \in S
  BY LenProperties, ElementOfSeq
<1>2. <<url>> \in Seq(S) /\ Len(<<url>>) = 1 /\ <<url>>[1] = url
  OBVIOUS
<1>3. /\ r \in Seq(S) /\ Len(r) = Len(s) + 1
      /\ \A n \in 1 .. Len(s) + 1 : r[n] = IF n <= 1 THEN url ELSE s[n - 1]
  <2>1. /\ r \in Seq(S) /\ Len(r) = Len(<<url>>) + Len(s)
        /\ \A n \in 1 .. Len(<<url>>) + Len(s) :
              r[n] = IF n <= Len(<<url>>) THEN <<url>>[n]
                                          ELSE s[n - Len(<<url>>)]
    BY <1>2, ConcatProperties
  <2>2. Len(<<url>>) + Len(s) = Len(s) + 1
    BY <1>1, <1>2
  <2>3. ASSUME NEW n \in 1 .. Len(s) + 1
        PROVE  r[n] = IF n <= 1 THEN url ELSE s[n - 1]
    <3>1. CASE n <= 1
      <4>1. n = 1
        BY <1>1, <3>1
      <4>2. QED
        BY <1>2, <2>1, <2>2, <4>1
    <3>2. CASE ~(n <= 1)
      BY <1>2, <2>1, <2>2, <3>2
    <3>3. QED
      BY <3>1, <3>2
  <2>4. QED
    BY <2>1, <2>2, <2>3
<1>4. DOMAIN r = 1 .. Len(s) + 1
  BY <1>3, LenProperties
<1> HIDE DEF r
<1>5. r[1] = url /\ \A n \in 1 .. Len(s) : n + 1 \in DOMAIN r /\ r[n + 1] = s[n]
  <2>1. r[1] = url
    BY <1>1, <1>3
  <2>2. ASSUME NEW n \in 1 .. Len(s)
        PROVE  n + 1 \in DOMAIN r /\ r[n + 1] = s[n]
    <3>1. n + 1 \in 1 .. Len(s) + 1 /\ ~(n + 1 <= 1) /\ n + 1 - 1 = n
      BY <1>1
    <3>2. QED
      BY SMTT(30), <1>3, <1>4, <3>1
  <2>3. QED
    BY <2>1, <2>2
<1>6. ASSUME NEW m \in DOMAIN r
      PROVE  m = 1 \/ \E n \in 1 .. Len(s) : m = n + 1
  <2>1. m # 1 => m - 1 \in 1 .. Len(s) /\ m = m - 1 + 1
    BY <1>1, <1>4
  <2>2. QED
    BY <2>1
<1>7. InOrder(g, r)
  <2> SUFFICES ASSUME NEW k \in DOMAIN r, NEW m \in DOMAIN r, k < m
               PROVE  g[r[k]] > g[r[m]]
    BY DEF InOrder
  <2>1. PICK n \in 1 .. Len(s) : m = n + 1
    BY <1>1, <1>4, <1>6
  <2>2. CASE k = 1
    <3>1. r[m] \in Elements(s)
      BY <1>1, <1>5, <2>1 DEF Elements
    <3>2. g[r[m]] < g[url] /\ g[url] \in Nat /\ g[r[m]] \in Nat
      BY <1>1, <1>5, <2>1, <3>1
    <3>3. r[k] = url
      BY <1>5, <2>2
    <3>4. QED
      BY <3>2, <3>3
  <2>3. CASE k # 1
    <3>1. PICK l \in 1 .. Len(s) : k = l + 1
      BY <1>6, <2>3
    <3>2. l < n
      BY <1>1, <2>1, <3>1
    <3>3. g[s[l]] > g[s[n]]
      BY <1>1, <3>2 DEF InOrder
    <3>4. QED
      BY <1>5, <2>1, <3>1, <3>3
  <2>4. QED
    BY <2>2, <2>3
<1>8. \A e : e \in Elements(r) <=> e \in Elements(s) \/ e = url
  <2>1. \A e : e \in Elements(r) => e \in Elements(s) \/ e = url
    <3> SUFFICES ASSUME NEW m \in DOMAIN r
                 PROVE  r[m] \in Elements(s) \/ r[m] = url
      BY DEF Elements
    <3>1. CASE m = 1
      BY <1>5, <3>1
    <3>2. CASE \E n \in 1 .. Len(s) : m = n + 1
      BY <1>1, <1>5, <3>2 DEF Elements
    <3>3. QED
      BY <1>6, <3>1, <3>2
  <2>2. 1 \in DOMAIN r
    BY <1>1, <1>4
  <2>3. \A e : e \in Elements(s) => e \in Elements(r)
    BY <1>1, <1>5 DEF Elements
  <2>4. url \in Elements(r)
    BY <1>5, <2>2 DEF Elements
  <2>5. QED
    BY <2>1, <2>3, <2>4
<1>9. QED
  BY <1>3, <1>7, <1>8 DEF r

\* list has the elements of s, and url.
AddsTo(s, url, list) ==
    \A e : e \in Elements(list) <=> e \in Elements(s) \/ e = url

\* onAccepted's list: the address in front, the others as they were.
LEMMA MoveFirstInOrder ==
    ASSUME NEW S, NEW f \in [S -> Nat], NEW s \in Seq(S), InOrder(f, s),
           NEW g \in [S -> Nat], NEW url \in S,
           \A e \in Elements(s) : e # url => g[e] = f[e] /\ g[e] < g[url]
    PROVE  /\ MoveFirst(s, url) \in Seq(S)
           /\ InOrder(g, MoveFirst(s, url))
           /\ AddsTo(s, url, MoveFirst(s, url))
<1>1. /\ Len(s) \in Nat /\ DOMAIN s = 1 .. Len(s)
      /\ \A n \in 1 .. Len(s) : s[n] \in S
  BY LenProperties, ElementOfSeq
<1>2. ASSUME NEW r \in Seq(S), InOrder(f, r),
             \A e \in Elements(r) : e \in Elements(s) /\ e # url
      PROVE  /\ <<url>> \o r \in Seq(S)
             /\ InOrder(g, <<url>> \o r)
             /\ \A e : e \in Elements(<<url>> \o r) <=>
                         e \in Elements(r) \/ e = url
  <2>1. \A k \in DOMAIN r : r[k] \in Elements(r)
    BY DEF Elements
  <2>2. InOrder(g, r)
    <3>1. \A k \in DOMAIN r : g[r[k]] = f[r[k]]
      BY <1>2, <2>1
    <3>2. QED
      BY <1>2, <3>1 DEF InOrder
  <2>3. \A e \in Elements(r) : g[e] < g[url]
    BY <1>2
  <2>4. r \in Seq(S) /\ g \in [S -> Nat] /\ url \in S
    BY <1>2
  <2>5. <<url>> \o r \in Seq(S)
    BY <2>2, <2>3, <2>4, PutInFront
  <2>6. InOrder(g, <<url>> \o r)
    BY <2>2, <2>3, <2>4, PutInFront
  <2>7. \A e : e \in Elements(<<url>> \o r) <=> e \in Elements(r) \/ e = url
    BY <2>2, <2>3, <2>4, PutInFront
  <2>8. QED
    BY <2>5, <2>6, <2>7
<1>3. CASE ~ \E k \in DOMAIN s : s[k] = url
  <2>1. MoveFirst(s, url) = <<url>> \o s
    BY <1>3 DEF MoveFirst
  <2>2. url \notin Elements(s)
    BY <1>3 DEF Elements
  <2>3. QED
    BY <1>2, <2>1, <2>2 DEF AddsTo
<1>4. CASE \E k \in DOMAIN s : s[k] = url
  <2> DEFINE k == IndexOf(s, url)
  <2>1. PICK n \in DOMAIN s : s[n] = url
    BY <1>4
  <2>2. \A m \in 1 .. n - 1 : s[m] # url
    <3> SUFFICES ASSUME NEW m \in 1 .. n - 1, s[m] = url
                 PROVE  FALSE
      OBVIOUS
    <3>1. m \in DOMAIN s /\ m < n
      BY <1>1, <2>1
    <3>2. f[url] > f[url] /\ f[url] \in Nat
      BY <2>1, <3>1 DEF InOrder
    <3>3. QED
      BY <3>2
  <2>3. k \in DOMAIN s /\ s[k] = url
    BY <2>1, <2>2, Zenon DEF IndexOf
  <2> HIDE DEF k
  <2> k \in 1 .. Len(s)
    BY <1>1, <2>3
  <2>4. /\ RemoveAt(s, k) \in Seq(S)
        /\ InOrder(f, RemoveAt(s, k))
        /\ \A e : e \in Elements(RemoveAt(s, k)) <=>
                    e \in Elements(s) /\ e # s[k]
    <3>1. RemoveAt(s, k) \in Seq(S)
      BY RemoveAtProperties
    <3>2. InOrder(f, RemoveAt(s, k))
      BY RemoveAtInOrder
    <3>3. \A e : e \in Elements(RemoveAt(s, k)) <=>
                    e \in Elements(s) /\ e # s[k]
      BY RemoveAtInOrder
    <3>4. QED
      BY <3>1, <3>2, <3>3
  <2>5. MoveFirst(s, url) = <<url>> \o RemoveAt(s, k)
    BY <1>4 DEF MoveFirst, k
  <2>6. url \in Elements(s)
    BY <2>3 DEF Elements
  <2>7. QED
    BY <1>2, <2>3, <2>4, <2>5, <2>6 DEF AddsTo
<1>5. QED
  BY <1>3, <1>4

(***************************************************************************)
(* While the dialog is open its list is the history less what was removed. *)
(***************************************************************************)
HistoryInv ==
    /\ TypeOK
    /\ \A u \in Urls : used[u] <= accepts
    /\ HistoryAsUsed
    /\ page = "open" =>
          /\ InOrder(used, historyModel)
          /\ \A u \in Urls : u \in Elements(historyModel) <=>
                               used[u] > 0 /\ u \notin removed

LEMMA HistoryStart == Init => HistoryInv
<1> SUFFICES ASSUME Init
             PROVE  HistoryInv
  OBVIOUS
<1>1. << >> \in Seq(Urls) /\ DOMAIN << >> = {} /\ 0 \in 0 .. MaxAccepts
  BY ConnectAssumption DEF ConnectAssumption
<1>2. used \in [Urls -> 0 .. MaxAccepts]
  BY <1>1 DEF Init
<1>3. TypeOK
  BY <1>1, <1>2 DEF Init, TypeOK, Qualities
<1>4. HistoryAsUsed
  BY <1>1 DEF Init, HistoryAsUsed
<1>5. QED
  BY <1>3, <1>4 DEF Init, HistoryInv

\* The history of used addresses, as InOrder and Elements say it.
LEMMA StoredHistory ==
    ASSUME TypeOK
    PROVE  HistoryAsUsed <=>
              /\ InOrder(used, stored)
              /\ \A u \in Urls : u \in Elements(stored) <=> used[u] > 0
<1>1. stored \in Seq(Urls)
  BY DEF TypeOK
<1>2. \A e : e \in Elements(stored) => e \in Urls
  BY <1>1, LenProperties, ElementOfSeq DEF Elements
<1>3. (Elements(stored) = {u \in Urls : used[u] > 0}) <=>
          \A u \in Urls : u \in Elements(stored) <=> used[u] > 0
  BY <1>2
<1>4. QED
  BY <1>3 DEF HistoryAsUsed, InOrder, Elements

LEMMA AcceptKeepsHistory == HistoryInv /\ Accept => HistoryInv'
<1> SUFFICES ASSUME HistoryInv, Accept
             PROVE  HistoryInv'
  OBVIOUS
<1> DEFINE url == connectionUrl
<1>1. /\ TypeOK /\ page = "open" /\ accepts < MaxAccepts
      /\ accepts \in Nat /\ MaxAccepts \in Nat
      /\ historyModel \in Seq(Urls) /\ used \in [Urls -> Nat]
      /\ used \in [Urls -> 0 .. MaxAccepts]
  BY ConnectAssumption DEF HistoryInv, TypeOK, Accept, ConnectAssumption
<1>2. /\ \A u \in Urls : used[u] <= accepts
      /\ InOrder(used, historyModel)
      /\ \A u \in Urls : u \in Elements(historyModel) <=>
                             used[u] > 0 /\ u \notin removed
  BY <1>1 DEF HistoryInv
<1>3. /\ page' = "closed" /\ historyModel' = << >> /\ connectionUrl' = NoUrl
      /\ screenQuality' = 0 /\ removed' = {} /\ gui' = "setVncpath"
      /\ chosen' = screenQuality /\ began' = -1 /\ accepts' = accepts + 1
      /\ overlapped' = (worker # "off")
      /\ UNCHANGED <<quality, worker>>
  BY DEF Accept
<1>4. CASE ~HasUrl
  <2>1. UNCHANGED <<stored, used>>
    BY <1>4 DEF Accept
  <2>2. << >> \in Seq(Urls) /\ accepts + 1 \in 0 .. MaxAccepts
    BY <1>1
  <2>3. overlapped' \in BOOLEAN
    BY <1>3, Zenon
  <2>4. TypeOK'
    BY <1>1, <1>3, <2>1, <2>2, <2>3 DEF TypeOK, Qualities
  <2>5. HistoryAsUsed'
    BY <2>1 DEF HistoryInv, HistoryAsUsed
  <2>6. \A u \in Urls : used'[u] <= accepts'
    BY <1>1, <1>2, <1>3, <2>1
  <2>7. QED
    BY <1>3, <2>4, <2>5, <2>6 DEF HistoryInv
<1>5. CASE HasUrl
  <2>1. url \in Urls
    BY <1>1, <1>5 DEF HasUrl, TypeOK
  <2>2. /\ stored' = MoveFirst(historyModel, url)
        /\ used' = [u \in Urls |-> IF u = url THEN accepts + 1
                                   ELSE IF u \in removed THEN 0 ELSE used[u]]
    BY <1>5 DEF Accept
  <2>3. /\ used' \in [Urls -> Nat] /\ used' \in [Urls -> 0 .. MaxAccepts]
        /\ used'[url] = accepts + 1
        /\ \A u \in Urls : used'[u] <= accepts + 1
    BY <1>1, <1>2, <2>1, <2>2
  <2>4. ASSUME NEW e \in Elements(historyModel), e # url
        PROVE  used'[e] = used[e] /\ used'[e] < used'[url]
    <3>1. e \in Urls
      BY <1>1, LenProperties, ElementOfSeq DEF Elements
    <3>2. e \notin removed
      BY <1>2, <3>1
    <3>3. used'[e] = used[e]
      BY <2>2, <2>4, <3>1, <3>2
    <3>4. used[e] <= accepts /\ used[e] \in Nat
      BY <1>1, <1>2, <3>1
    <3>5. QED
      BY <1>1, <2>3, <3>3, <3>4
  <2> DEFINE g == used'
             list == MoveFirst(historyModel, url)
  <2>5. /\ g \in [Urls -> Nat]
        /\ \A e \in Elements(historyModel) :
              e # url => g[e] = used[e] /\ g[e] < g[url]
    BY <2>3, <2>4
  <2> HIDE DEF g
  <2>6. list \in Seq(Urls) /\ InOrder(g, list)
    BY <1>1, <1>2, <2>1, <2>5, MoveFirstInOrder
  <2>7. AddsTo(historyModel, url, list)
    BY <1>1, <1>2, <2>1, <2>5, MoveFirstInOrder
  <2>8. stored' \in Seq(Urls)
    BY <2>2, <2>6
  <2>9. InOrder(used', stored')
    BY <2>2, <2>6 DEF g
  <2>10. \A e : e \in Elements(stored') <=>
                   e \in Elements(historyModel) \/ e = url
    BY <2>2, <2>7 DEF AddsTo
  <2>11. \A u \in Urls : u \in Elements(stored') <=> used'[u] > 0
    <3> SUFFICES ASSUME NEW u \in Urls
                 PROVE  u \in Elements(stored') <=> used'[u] > 0
      OBVIOUS
    <3>1. CASE u = url
      BY <1>1, <2>3, <2>10, <3>1
    <3>2. CASE u # url /\ u \in removed
      <4>1. used'[u] = 0
        BY <2>2, <3>2
      <4>2. QED
        BY <1>2, <2>10, <3>2, <4>1
    <3>3. CASE u # url /\ u \notin removed
      <4>1. used'[u] = used[u]
        BY <2>2, <3>3
      <4>2. QED
        BY <1>2, <2>10, <3>3, <4>1
    <3>4. QED
      BY <3>1, <3>2, <3>3
  <2>12. << >> \in Seq(Urls) /\ accepts + 1 \in 0 .. MaxAccepts
    BY <1>1
  <2>13. overlapped' \in BOOLEAN
    BY <1>3, Zenon
  <2>14. TypeOK'
    BY <1>1, <1>3, <2>3, <2>8, <2>12, <2>13 DEF TypeOK, Qualities
  <2>15. HistoryAsUsed'
    <3>1. \A e : e \in Elements(stored') => e \in Urls
      BY <2>8, LenProperties, ElementOfSeq DEF Elements
    <3>2. Elements(stored') = {u \in Urls : used'[u] > 0}
      BY <2>11, <3>1
    <3>3. QED
      BY <2>9, <3>2 DEF HistoryAsUsed, InOrder, Elements
  <2>16. QED
    BY <1>3, <2>3, <2>14, <2>15 DEF HistoryInv
<1>6. QED
  BY <1>4, <1>5

LEMMA HistoryStep == HistoryInv /\ [Next]_vars => HistoryInv'
<1> SUFFICES ASSUME HistoryInv, [Next]_vars
             PROVE  HistoryInv'
  OBVIOUS
<1>1. TypeOK /\ historyModel \in Seq(Urls) /\ used \in [Urls -> Nat]
  BY ConnectAssumption DEF HistoryInv, TypeOK, ConnectAssumption
<1>2. << >> \in Seq(Urls)
  OBVIOUS
<1>3. CASE Open
  <2>1. TypeOK'
    BY <1>1, <1>2, <1>3 DEF Open, TypeOK, Qualities
  <2>2. HistoryAsUsed'
    BY <1>3 DEF Open, HistoryInv, HistoryAsUsed
  <2>3. /\ InOrder(used, stored)
        /\ \A u \in Urls : u \in Elements(stored) <=> used[u] > 0
    BY <1>1, StoredHistory DEF HistoryInv
  <2>4. historyModel' = stored /\ removed' = {} /\ UNCHANGED <<used, accepts>>
    BY <1>3 DEF Open
  <2>5. QED
    BY <2>1, <2>2, <2>3, <2>4 DEF HistoryInv
<1>4. CASE EnterUrl \/ MoveSlider
  <2>1. TypeOK'
    BY <1>1, <1>4 DEF EnterUrl, MoveSlider, NotDialog, TypeOK, Qualities
  <2>2. HistoryAsUsed'
    BY <1>4 DEF EnterUrl, MoveSlider, NotDialog, HistoryInv, HistoryAsUsed
  <2>3. UNCHANGED <<page, historyModel, removed, used, accepts>>
    BY <1>4 DEF EnterUrl, MoveSlider, NotDialog
  <2>4. QED
    BY <2>1, <2>2, <2>3 DEF HistoryInv
<1>5. CASE RemoveItem
  <2>1. PICK k \in DOMAIN historyModel :
            /\ historyModel' = RemoveAt(historyModel, k)
            /\ removed' = removed \union {historyModel[k]}
    BY <1>5 DEF RemoveItem
  <2>2. k \in 1 .. Len(historyModel) /\ historyModel[k] \in Urls
    BY <1>1, LenProperties, ElementOfSeq
  <2>3. /\ page = "open" /\ UNCHANGED <<connectionUrl, screenQuality>>
        /\ NotDialog
    BY <1>5 DEF RemoveItem
  <2>4. historyModel' \in Seq(Urls)
    BY <1>1, <2>1, <2>2, RemoveAtProperties
  <2>5. TypeOK'
    BY <1>1, <2>1, <2>2, <2>3, <2>4 DEF NotDialog, TypeOK, Qualities
  <2>6. HistoryAsUsed'
    BY <2>3 DEF NotDialog, HistoryInv, HistoryAsUsed
  <2>7. /\ InOrder(used, historyModel)
        /\ \A u \in Urls : u \in Elements(historyModel) <=>
                               used[u] > 0 /\ u \notin removed
    BY <2>3 DEF HistoryInv
  <2>8. InOrder(used, historyModel')
    BY <1>1, <2>1, <2>2, <2>7, RemoveAtInOrder
  <2>9. \A e : e \in Elements(historyModel') <=>
                   e \in Elements(historyModel) /\ e # historyModel[k]
    BY <1>1, <2>1, <2>2, <2>7, RemoveAtInOrder
  <2>10. \A u \in Urls : u \in Elements(historyModel') <=>
                             used[u] > 0 /\ u \notin removed'
    BY <2>1, <2>7, <2>9
  <2>11. UNCHANGED <<page, used, accepts>>
    BY <2>3 DEF NotDialog
  <2>12. QED
    BY <2>5, <2>6, <2>8, <2>10, <2>11 DEF HistoryInv
<1>6. CASE ClearAll
  <2>1. \A k \in DOMAIN historyModel : historyModel[k] \in Urls
    BY <1>1, LenProperties, ElementOfSeq
  <2>2. /\ page = "open" /\ UNCHANGED <<connectionUrl, screenQuality>>
        /\ NotDialog /\ historyModel' = << >>
        /\ removed' = removed \union Elements(historyModel)
    BY <1>6 DEF ClearAll, Elements
  <2>3. Elements(historyModel) \subseteq Urls
    BY <2>1 DEF Elements
  <2>4. TypeOK'
    BY <1>1, <1>2, <2>2, <2>3 DEF NotDialog, TypeOK, Qualities
  <2>5. HistoryAsUsed'
    BY <2>2 DEF NotDialog, HistoryInv, HistoryAsUsed
  <2>6. \A u \in Urls : u \in Elements(historyModel) <=>
                            used[u] > 0 /\ u \notin removed
    BY <2>2 DEF HistoryInv
  <2>7. DOMAIN << >> = {}
    OBVIOUS
  <2>8. InOrder(used, << >>) /\ \A e : e \notin Elements(<< >>)
    BY <2>7 DEF InOrder, Elements
  <2>9. \A u \in Urls : ~(used[u] > 0 /\ u \notin removed')
    BY <2>2, <2>6
  <2>10. UNCHANGED <<page, used, accepts>>
    BY <2>2 DEF NotDialog
  <2>11. QED
    BY <2>2, <2>4, <2>5, <2>8, <2>9, <2>10 DEF HistoryInv
<1>7. CASE Reject
  <2>1. TypeOK'
    BY <1>1, <1>2, <1>7 DEF Reject, TypeOK, Qualities
  <2>2. HistoryAsUsed'
    BY <1>7 DEF Reject, HistoryInv, HistoryAsUsed
  <2>3. QED
    BY <1>7, <2>1, <2>2 DEF Reject, HistoryInv
<1>8. CASE Accept
  BY <1>8, AcceptKeepsHistory
<1>9. CASE SetVncpath \/ SetVncquality \/ WakeUp \/ NewClient \/ WorkerEnds
  <2>1. TypeOK'
    BY <1>1, <1>9 DEF SetVncpath, SetVncquality, WakeUp, NewClient, WorkerEnds,
                      dialog, TypeOK, Qualities
  <2>2. UNCHANGED <<stored, page, dialog, used, accepts>>
    BY <1>9 DEF SetVncpath, SetVncquality, WakeUp, NewClient, WorkerEnds
  <2>3. HistoryAsUsed'
    BY <2>2 DEF HistoryInv, HistoryAsUsed
  <2>4. QED
    BY <2>1, <2>2, <2>3 DEF dialog, HistoryInv
<1>10. CASE UNCHANGED vars
  <2>1. TypeOK'
    BY <1>1, <1>10 DEF vars, dialog, TypeOK
  <2>2. QED
    BY <1>10, <2>1 DEF vars, dialog, HistoryInv, HistoryAsUsed
<1>11. QED
  BY <1>3, <1>4, <1>5, <1>6, <1>7, <1>8, <1>9, <1>10 DEF Next

\* The variables of ConnectPage keep their types.
THEOREM TypeCorrect == Spec => []TypeOK
<1>1. HistoryInv => TypeOK
  BY DEF HistoryInv
<1>2. QED
  BY HistoryStart, HistoryStep, <1>1, PTL DEF Spec

\* The stored history is the addresses in use, each once, last used first: what
\* onAccepted writes, over any number of dialogs and of removals in them.
THEOREM HistoryCorrect == Spec => []HistoryAsUsed
<1>1. HistoryInv => HistoryAsUsed
  BY DEF HistoryInv
<1>2. QED
  BY HistoryStart, HistoryStep, <1>1, PTL DEF Spec
=============================================================================
