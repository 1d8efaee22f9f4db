---------------------------- MODULE Handshake_proofs ----------------------------
(***************************************************************************)
(* Proofs about the handshake, for every set of versions, of offers and of *)
(* passwords: the two sides read in step, a connected client and its       *)
(* server agree, the client gives up for a reason only, and the opening is *)
(* short.                                                                  *)
(***************************************************************************)
EXTENDS Handshake, SequenceTheorems, TLAPS

(***************************************************************************)
(* Where a connection may be.  In each phase at most two units are on      *)
(* their way, all of them in one direction; a client that has failed may   *)
(* leave them there for ever.                                              *)
(***************************************************************************)
At(s, cs, c, t) == /\ sPc = s /\ pc \in cs \union {"failed"}
                   /\ toClient = c /\ toServer = t

Speaking == sVersion = version /\ version = ReplyTo(announced)

\* Both execute the type t, which was offered.
Executing(t) == authScheme = t /\ sType = t /\ t \in Range(offer)

Started == At("start", {"wait", "version"}, << >>, << >>)

Greeted == At("version", {"wait", "version"},
              <<Unit("version", announced)>>, << >>)

Replied ==
    /\ At("version", {IF SendsList(version) THEN "types" ELSE "scheme"},
          << >>, <<Unit("version", version)>>)
    /\ version = ReplyTo(announced)

Offered == /\ At("choice", {"types"}, <<Unit("types", offer)>>, << >>)
           /\ SendsList(version)

Chosen ==
    /\ At("choice", {Awaited(authScheme)}, << >>, <<Unit("choice", authScheme)>>)
    /\ SendsList(version)
    /\ authScheme \in Range(offer) \intersect Selectable
    /\ authScheme = "None" => SendsReasons(version)

ChosenNone ==
    /\ At("choice", {"serverInit"}, << >>,
          <<Unit("choice", "None"), Text("clientInit")>>)
    /\ SendsList(version) /\ ~SendsReasons(version)
    /\ authScheme = "None" /\ "None" \in Range(offer)

ImposedAuth ==
    /\ At("response", {"scheme"},
          <<Unit("scheme", "VncAuth"), Text("challenge")>>, << >>)
    /\ ~SendsList(version) /\ sType = "VncAuth" /\ "VncAuth" \in Range(offer)

Challenged == /\ At("response", {"challenge"}, <<Text("challenge")>>, << >>)
              /\ Executing("VncAuth")

Responded == /\ At("response", {"result"}, << >>, <<Unit("response", answer)>>)
             /\ Executing("VncAuth")

ImposedKeys ==
    /\ At("response", {"scheme"},
          <<Unit("scheme", "MSLogon"), Text("keys")>>, << >>)
    /\ ~SendsList(version)

Keys == /\ At("response", {"keys"}, <<Text("keys")>>, << >>)
        /\ ~SendsList(version) /\ authScheme = "MSLogon"

ImposedNone ==
    /\ At("clientInit", {"scheme"}, <<Unit("scheme", "None")>>, << >>)
    /\ ~SendsList(version) /\ sType = "None" /\ "None" \in Range(offer)

\* Executed, and if with a password the right one.
Executed == /\ Executing(sType) /\ sType \in {"None", "VncAuth"}
            /\ sType = "VncAuth" => answer = RightPassword

Accepted == /\ At("clientInit", {"result"}, <<Unit("result", "OK")>>, << >>)
            /\ Executed

Entering == /\ At("clientInit", {"serverInit"}, << >>, <<Text("clientInit")>>)
            /\ Executed

Welcomed == /\ At("serving", {"serverInit"}, <<Text("serverInit")>>, << >>)
            /\ Executed

Open == /\ sPc = "serving" /\ pc = "connected"
        /\ toClient = << >> /\ toServer = << >>
        /\ Executed

Given == pc = "failed" /\ toClient = << >> /\ toServer = << >>
            /\ sPc \in {"choice", "response", "tls", "closed"}

RefusedTypes ==
    /\ At("closed", {"types"}, <<Unit("types", << >>), Text("reason")>>, << >>)
    /\ SendsList(version)
RefusedScheme ==
    /\ At("closed", {"scheme"}, <<Unit("scheme", "Failed"), Text("reason")>>,
          << >>)
    /\ ~SendsList(version)
RefusedResult ==
    At("closed", {"result"},
       IF SendsReasons(version) THEN <<Unit("result", "Failed"), Text("reason")>>
                                ELSE <<Unit("result", "Failed")>>, << >>)
RefusedTooMany == At("closed", {"result"}, <<Unit("result", "TooMany")>>, << >>)
Reason         == At("closed", {"reason"}, <<Text("reason")>>, << >>)

BeforeVersion == Started \/ Greeted \/ Replied
WithType      == Offered \/ Chosen \/ ChosenNone \/ ImposedAuth \/ Challenged
                 \/ Responded \/ ImposedKeys \/ Keys \/ ImposedNone
WithResult    == Accepted \/ Entering \/ Welcomed \/ Open \/ Given
Refused       == RefusedTypes \/ RefusedScheme \/ RefusedResult
                 \/ RefusedTooMany \/ Reason

Phase == \/ BeforeVersion
         \/ Speaking /\ (WithType \/ WithResult \/ Refused)

Known ==
    /\ announced \in Versions /\ offer \in Offers
    /\ sVersion \in Spoken \union {NoVersion}
    /\ sType \in SecurityType \union {NoType}
    /\ refused \in BOOLEAN /\ link \in {"up", "broken"}
    /\ version \in Spoken \union {NoVersion}
    /\ authScheme \in SecurityType \union {"Failed", NoType}
    /\ answer \in Passwords
    /\ sPc = "closed" => refused

HandshakeInv == Known /\ Phase /\ FailsForAReason

(***************************************************************************)
(* Streams of at most two units.                                           *)
(***************************************************************************)
LEMMA Pair ==
    ASSUME NEW a, NEW b
    PROVE  <<a>> \o <<b>> = <<a, b>>
<1> DEFINE c == <<a>> \o <<b>>
<1>1. /\ <<a>> \in Seq({a, b}) /\ Len(<<a>>) = 1
      /\ <<b>> \in Seq({a, b}) /\ Len(<<b>>) = 1
      /\ <<a, b>> \in Seq({a, b}) /\ Len(<<a, b>>) = 2
  OBVIOUS
<1>2. c \in Seq({a, b}) /\ Len(c) = 2 /\ c[1] = a /\ c[2] = b
  BY <1>1, ConcatProperties
<1> HIDE DEF c
<1>3. \A i \in 1 .. Len(c) : c[i] = <<a, b>>[i]
  BY <1>2
<1>4. c = <<a, b>>
  BY <1>1, <1>2, <1>3, SeqEqual
<1>5. QED
  BY <1>4 DEF c

LEMMA Streams ==
    ASSUME NEW a, NEW b
    PROVE  /\ Head(<<a>>) = a /\ Tail(<<a>>) = << >> /\ <<a>> # << >>
           /\ Head(<<a, b>>) = a /\ Tail(<<a, b>>) = <<b>> /\ <<a, b>> # << >>
           /\ Append(<< >>, a) = <<a>>
           /\ << >> \o <<a>> = <<a>> /\ <<a>> \o <<b>> = <<a, b>>
           /\ << >> \o <<a, b>> = <<a, b>>
           /\ <<a>> \o << >> = <<a>> /\ << >> \o << >> = << >>
<1>1. Head(<<a>>) = a /\ Head(<<a, b>>) = a
  OBVIOUS
<1>2. Tail(<<a>>) = << >>
  OBVIOUS
<1>3. Tail(<<a, b>>) = <<b>>
  OBVIOUS
<1>4. <<a>> # << >> /\ <<a, b>> # << >>
  OBVIOUS
<1>5. Append(<< >>, a) = <<a>>
  OBVIOUS
<1>6. << >> \o <<a>> = <<a>> /\ << >> \o <<a, b>> = <<a, b>>
  OBVIOUS
<1>7. <<a>> \o << >> = <<a>> /\ << >> \o << >> = << >>
  BY <<a>> \in Seq({a}), ConcatEmptySeq
<1>8. QED
  BY <1>1, <1>2, <1>3, <1>4, <1>5, <1>6, <1>7, Pair, Zenon

LEMMA Units ==
    ASSUME NEW k, NEW v
    PROVE  Unit(k, v).kind = k /\ Unit(k, v).val = v /\ Text(k).kind = k
BY DEF Unit, Text

LEMMA ReplySpoken ==
    ASSUME NEW v \in Versions
    PROVE  /\ ReplyTo(v) \in Spoken
           /\ ReplyTo(v)[1] < v[1] \/ ReplyTo(v)[2] <= v[2]
<1>1. v \in {3, 4} \X Nat
  BY HandshakeAssumption DEF HandshakeAssumption
<1>2. PICK major \in {3, 4}, minor \in Nat : v = <<major, minor>>
  BY <1>1
<1>3. CASE major = 3 /\ minor \in {14, 16}
  BY <1>2, <1>3 DEF ReplyTo, Spoken
<1>4. CASE ~(major = 3 /\ minor \in {14, 16}) /\ (major > 3 \/ minor > 8)
  BY <1>2, <1>4 DEF ReplyTo, Spoken
<1>5. CASE ~(major = 3 /\ minor \in {14, 16}) /\ ~(major > 3 \/ minor > 8)
  <2>1. ReplyTo(v) = <<3, minor>> /\ minor \in 0 .. 8
    BY <1>2, <1>5 DEF ReplyTo
  <2>2. QED
    BY <1>2, <2>1 DEF Spoken
<1>6. QED
  BY <1>3, <1>4, <1>5

LEMMA Start == Init => HandshakeInv
<1> SUFFICES ASSUME Init PROVE HandshakeInv
  OBVIOUS
<1>1. Phase
  BY DEF Init, Phase, BeforeVersion, Started, At
<1>2. FailsForAReason
  BY DEF Init, FailsForAReason
<1>3. refused \in BOOLEAN
  BY Zenon DEF Init
<1>4. answer \in Passwords
  BY HandshakeAssumption DEF Init, HandshakeAssumption
<1>5. QED
  BY <1>1, <1>2, <1>3, <1>4 DEF Init, HandshakeInv, Known

(***************************************************************************)
(* Which phase a step begins in.                                           *)
(***************************************************************************)
LEMMA ServerPhase ==
    ASSUME Phase
    PROVE  /\ sPc = "start" => Started
           /\ sPc = "version" /\ toServer # << >> => Replied
           /\ sPc = "choice" /\ toServer # << >> =>
                 Speaking /\ (Chosen \/ ChosenNone)
           /\ sPc = "response" /\ toServer # << >> => Speaking /\ Responded
           /\ sPc = "clientInit" /\ toServer # << >> => Speaking /\ Entering
<1>1. /\ Started => sPc = "start"
      /\ Greeted => sPc = "version" /\ toServer = << >>
      /\ Replied => sPc = "version"
  BY DEF Started, Greeted, Replied, At
<1>2. /\ Offered => sPc = "choice" /\ toServer = << >>
      /\ Chosen \/ ChosenNone => sPc = "choice"
      /\ ImposedAuth \/ Challenged \/ ImposedKeys \/ Keys =>
            sPc = "response" /\ toServer = << >>
      /\ Responded => sPc = "response"
      /\ ImposedNone => sPc = "clientInit" /\ toServer = << >>
  BY DEF Offered, Chosen, ChosenNone, ImposedAuth, Challenged, ImposedKeys,
         Keys, Responded, ImposedNone, At
<1>3. /\ Accepted => sPc = "clientInit" /\ toServer = << >>
      /\ Entering => sPc = "clientInit"
      /\ Welcomed \/ Open => sPc = "serving"
      /\ Given => /\ sPc \in {"choice", "response", "tls", "closed"}
                  /\ toServer = << >>
  BY DEF Accepted, Entering, Welcomed, Open, Given, At
<1>4. Refused => sPc = "closed"
  BY DEF Refused, RefusedTypes, RefusedScheme, RefusedResult, RefusedTooMany,
         Reason, At
<1>5. QED
  BY <1>1, <1>2, <1>3, <1>4 DEF Phase, BeforeVersion, WithType, WithResult

LEMMA ClientPhase ==
    ASSUME Phase
    PROVE  /\ pc = "wait" => Started \/ Greeted
           /\ pc = "version" /\ toClient # << >> => Greeted
           /\ pc = "types" /\ toClient # << >> =>
                 Speaking /\ (Offered \/ RefusedTypes)
           /\ pc = "scheme" /\ toClient # << >> =>
                 Speaking /\ (ImposedAuth \/ ImposedKeys \/ ImposedNone
                                 \/ RefusedScheme)
           /\ pc = "challenge" /\ toClient # << >> => Speaking /\ Challenged
           /\ pc = "keys" /\ toClient # << >> => Speaking /\ Keys
           /\ pc = "result" /\ toClient # << >> =>
                 Speaking /\ (Accepted \/ RefusedResult \/ RefusedTooMany)
           /\ pc = "reason" /\ toClient # << >> => Speaking /\ Reason
           /\ pc = "serverInit" /\ toClient # << >> => Speaking /\ Welcomed
<1>1. /\ Started => pc \in {"wait", "version", "failed"} /\ toClient = << >>
      /\ Greeted => pc \in {"wait", "version", "failed"}
      /\ Replied => pc \in {"types", "scheme", "failed"} /\ toClient = << >>
  BY DEF Started, Greeted, Replied, At
<1>2. /\ Offered => pc \in {"types", "failed"}
      /\ Chosen \/ ChosenNone \/ Responded => pc # "wait" /\ toClient = << >>
      /\ ImposedAuth \/ ImposedKeys \/ ImposedNone => pc \in {"scheme", "failed"}
      /\ Challenged => pc \in {"challenge", "failed"}
      /\ Keys => pc \in {"keys", "failed"}
  BY DEF Offered, Chosen, ChosenNone, ImposedAuth, Challenged, ImposedKeys,
         Keys, Responded, ImposedNone, At, Awaited
<1>3. /\ Accepted => pc \in {"result", "failed"}
      /\ Entering \/ Open \/ Given => pc # "wait" /\ toClient = << >>
      /\ Welcomed => pc \in {"serverInit", "failed"}
  BY DEF Accepted, Entering, Welcomed, Open, Given, At
<1>4. /\ RefusedTypes => pc \in {"types", "failed"}
      /\ RefusedScheme => pc \in {"scheme", "failed"}
      /\ RefusedResult \/ RefusedTooMany => pc \in {"result", "failed"}
      /\ Reason => pc \in {"reason", "failed"}
  BY DEF RefusedTypes, RefusedScheme, RefusedResult, RefusedTooMany, Reason, At
<1>5. QED
  BY <1>1, <1>2, <1>3, <1>4
  DEF Phase, BeforeVersion, WithType, WithResult, Refused

(***************************************************************************)
(* The server's steps.                                                     *)
(***************************************************************************)
LEMMA ReasonKept ==
    ASSUME FailsForAReason, UNCHANGED <<offer, client>>,
           link = "broken" => link' = "broken", refused => refused'
    PROVE  FailsForAReason'
BY DEF FailsForAReason, CanExecute, IsSelected, client

\* What is known of the version the server is told.
LEMMA VersionKnown ==
    ASSUME Known, version = ReplyTo(announced)
    PROVE  version \in Spoken /\ (SendsReasons(version) => SendsList(version))
<1>1. version \in Spoken
  BY ReplySpoken DEF Known
<1>2. version[2] \in Nat
  BY <1>1 DEF Spoken
<1>3. QED
  BY <1>1, <1>2 DEF SendsReasons, SendsList

LEMMA GreetStep == HandshakeInv /\ Greet => HandshakeInv'
<1> SUFFICES ASSUME HandshakeInv, Greet PROVE HandshakeInv'
  OBVIOUS
<1>1. Started
  BY ServerPhase DEF HandshakeInv, Greet
<1>2. /\ toClient' = <<Unit("version", announced)>> /\ sPc' = "version"
      /\ UNCHANGED <<announced, offer, sVersion, sType, refused, link, toServer,
                     client>>
  BY <1>1, Streams DEF Greet, Started, At
<1>3. Greeted'
  BY <1>1, <1>2 DEF Started, Greeted, At, client
<1>4. Known'
  BY <1>2 DEF HandshakeInv, Known, client
<1>5. FailsForAReason'
  BY <1>2, ReasonKept DEF HandshakeInv
<1>6. QED
  BY <1>3, <1>4, <1>5 DEF HandshakeInv, Phase, BeforeVersion

LEMMA ServerVersionStep == HandshakeInv /\ ServerVersion => HandshakeInv'
<1> SUFFICES ASSUME HandshakeInv, ServerVersion PROVE HandshakeInv'
  OBVIOUS
<1>1. Replied /\ Known
  BY ServerPhase DEF HandshakeInv, ServerVersion, ServerReceive
<1>2. /\ toClient = << >> /\ toServer = <<Unit("version", version)>>
      /\ pc \in {IF SendsList(version) THEN "types" ELSE "scheme", "failed"}
      /\ version = ReplyTo(announced)
  BY <1>1 DEF Replied, At
<1>3. Head(toServer).val = version /\ Tail(toServer) = << >>
  BY <1>2, Streams, Units
<1>4. /\ toServer' = << >> /\ sVersion' = version
      /\ UNCHANGED <<announced, offer, link, client>>
  BY <1>3 DEF ServerVersion, ServerReceive
<1>5. /\ version \in Spoken /\ (SendsReasons(version) => SendsList(version))
      /\ Speaking'
  BY <1>1, <1>2, <1>4, VersionKnown DEF Speaking, client
<1>6. \A units : Refuse(units) => /\ toClient' = << >> \o units
                                  /\ sPc' = "closed" /\ refused' = TRUE
  BY <1>2 DEF Refuse
<1>7. /\ WithType' \/ Refused'
      /\ sType' \in SecurityType \union {NoType} /\ refused' \in BOOLEAN
      /\ refused => refused'
      /\ sPc' = "closed" => refused'
  <2>1. CASE SendsList(version)
    <3>1. \/ /\ toClient' = Append(toClient, Unit("types", offer))
             /\ sPc' = "choice" /\ UNCHANGED <<sType, refused>>
          \/ /\ Refuse(<<Unit("types", << >>), Text("reason")>>)
             /\ UNCHANGED sType
      BY <1>3, <2>1 DEF ServerVersion
    <3>2. CASE sPc' = "choice" /\ UNCHANGED <<sType, refused>>
      <4>1. toClient' = <<Unit("types", offer)>>
        BY <1>2, <3>1, <3>2, Streams DEF Refuse
      <4>2. Offered'
        BY <1>2, <1>4, <2>1, <3>2, <4>1 DEF Offered, At, client
      <4>3. QED
        BY <1>1, <3>2, <4>2 DEF WithType, Known
    <3>3. CASE Refuse(<<Unit("types", << >>), Text("reason")>>) /\ UNCHANGED sType
      <4>1. toClient' = <<Unit("types", << >>), Text("reason")>>
        BY <1>6, <3>3, Streams
      <4>2. RefusedTypes'
        BY <1>2, <1>4, <1>6, <2>1, <3>3, <4>1 DEF RefusedTypes, At, client
      <4>3. QED
        BY <1>1, <1>6, <3>3, <4>2 DEF Refused, Known
    <3>4. QED
      BY <3>1, <3>2, <3>3
  <2>2. CASE ~SendsList(version)
    <3>1. \/ \E t \in Range(offer) \intersect {"None", "VncAuth", "MSLogon"} :
                Begin(t, version, <<Unit("scheme", t)>>) /\ UNCHANGED refused
          \/ /\ Refuse(<<Unit("scheme", "Failed"), Text("reason")>>)
             /\ UNCHANGED sType
      BY <1>3, <2>2 DEF ServerVersion
    <3>2. CASE \E t \in Range(offer) \intersect {"None", "VncAuth", "MSLogon"} :
                 Begin(t, version, <<Unit("scheme", t)>>) /\ UNCHANGED refused
      <4>1. PICK t \in Range(offer) \intersect {"None", "VncAuth", "MSLogon"} :
                Begin(t, version, <<Unit("scheme", t)>>) /\ UNCHANGED refused
        BY <3>2
      <4>2. CASE t = "None"
        <5>1. toClient' = <<Unit("scheme", "None")>> /\ sPc' = "clientInit"
          BY <1>2, <1>5, <2>2, <4>1, <4>2, Streams DEF Begin
        <5>2. ImposedNone'
          BY <1>2, <1>4, <2>2, <4>1, <4>2, <5>1 DEF ImposedNone, At, client, Begin
        <5>3. QED
          BY <1>1, <4>1, <5>1, <5>2 DEF WithType, Known, Begin, SecurityType
      <4>3. CASE t = "VncAuth"
        <5>1. /\ toClient' = <<Unit("scheme", "VncAuth"), Text("challenge")>>
              /\ sPc' = "response"
          BY <1>2, <4>1, <4>3, Streams DEF Begin
        <5>2. ImposedAuth'
          BY <1>2, <1>4, <2>2, <4>1, <4>3, <5>1 DEF ImposedAuth, At, client, Begin
        <5>3. QED
          BY <1>1, <4>1, <5>1, <5>2 DEF WithType, Known, Begin, SecurityType
      <4>4. CASE t = "MSLogon"
        <5>1. /\ toClient' = <<Unit("scheme", "MSLogon"), Text("keys")>>
              /\ sPc' = "response"
          BY <1>2, <4>1, <4>4, Streams DEF Begin
        <5>2. ImposedKeys'
          BY <1>2, <1>4, <2>2, <5>1 DEF ImposedKeys, At, client
        <5>3. QED
          BY <1>1, <4>1, <5>1, <5>2 DEF WithType, Known, Begin, SecurityType
      <4>5. QED
        BY <4>1, <4>2, <4>3, <4>4
    <3>3. CASE /\ Refuse(<<Unit("scheme", "Failed"), Text("reason")>>)
               /\ UNCHANGED sType
      <4>1. toClient' = <<Unit("scheme", "Failed"), Text("reason")>>
        BY <1>6, <3>3, Streams
      <4>2. RefusedScheme'
        BY <1>2, <1>4, <1>6, <2>2, <3>3, <4>1 DEF RefusedScheme, At, client
      <4>3. QED
        BY <1>1, <1>6, <3>3, <4>2 DEF Refused, Known
    <3>4. QED
      BY <3>1, <3>2, <3>3
  <2>3. QED
    BY <2>1, <2>2
<1>8. Known'
  BY <1>1, <1>4, <1>5, <1>7 DEF Known, client
<1>9. FailsForAReason'
  BY <1>4, <1>7, ReasonKept DEF HandshakeInv
<1>10. QED
  BY <1>5, <1>7, <1>8, <1>9 DEF HandshakeInv, Phase

LEMMA ServerChoiceStep == HandshakeInv /\ ServerChoice => HandshakeInv'
<1> SUFFICES ASSUME HandshakeInv, ServerChoice PROVE HandshakeInv'
  OBVIOUS
<1>1. Speaking /\ (Chosen \/ ChosenNone) /\ Known
  BY ServerPhase DEF HandshakeInv, ServerChoice, ServerReceive
<1>2. /\ toServer' = Tail(toServer)
      /\ Begin(Head(toServer).val, version, << >>)
      /\ UNCHANGED <<announced, offer, sVersion, refused, link, client>>
  BY <1>1 DEF ServerChoice, ServerReceive, Speaking
<1>3. Speaking'
  BY <1>1, <1>2 DEF Speaking, client
<1>4. (WithType' \/ WithResult') /\ sType' \in SecurityType /\ sPc' # "closed"
  <2>1. CASE Chosen
    <3>1. /\ toClient = << >> /\ toServer = <<Unit("choice", authScheme)>>
          /\ authScheme \in Range(offer) /\ authScheme \in Selectable
          /\ authScheme = "None" => SendsReasons(version)
          /\ pc \in {Awaited(authScheme), "failed"}
      BY <2>1 DEF Chosen, At
    <3>2. /\ toServer' = << >> /\ Begin(authScheme, version, << >>)
          /\ sType' = authScheme /\ Executing(authScheme)'
      BY <1>2, <3>1, Streams, Units DEF Begin, Executing, client
    <3>3. CASE authScheme = "None"
      <4>1. toClient' = <<Unit("result", "OK")>> /\ sPc' = "clientInit"
        BY <3>1, <3>2, <3>3, Streams DEF Begin
      <4>2. Accepted'
        BY <1>2, <3>1, <3>2, <3>3, <4>1
        DEF Accepted, Executed, Executing, At, Awaited, client
      <4>3. QED
        BY <3>2, <3>3, <4>1, <4>2 DEF WithResult, SecurityType
    <3>4. CASE authScheme = "VncAuth"
      <4>1. toClient' = <<Text("challenge")>> /\ sPc' = "response"
        BY <3>1, <3>2, <3>4, Streams DEF Begin
      <4>2. Challenged'
        BY <1>2, <3>1, <3>2, <3>4, <4>1
        DEF Challenged, Executing, At, Awaited, client
      <4>3. QED
        BY <3>2, <3>4, <4>1, <4>2 DEF WithType, SecurityType
    <3>5. CASE authScheme \in {"TLS", "VeNCrypt"}
      <4>1. toClient' = << >> /\ sPc' = "tls"
        BY <3>1, <3>2, <3>5, Streams DEF Begin
      <4>2. Given'
        BY <1>2, <3>1, <3>2, <3>5, <4>1 DEF Given, Awaited, client
      <4>3. QED
        BY <3>2, <3>5, <4>1, <4>2 DEF WithResult, SecurityType
    <3>6. QED
      BY <3>1, <3>3, <3>4, <3>5 DEF Selectable
  <2>2. CASE ChosenNone
    <3>1. /\ toClient = << >> /\ authScheme = "None" /\ "None" \in Range(offer)
          /\ toServer = <<Unit("choice", "None"), Text("clientInit")>>
          /\ ~SendsReasons(version) /\ pc \in {"serverInit", "failed"}
      BY <2>2 DEF ChosenNone, At
    <3>2. /\ toServer' = <<Text("clientInit")>> /\ Begin("None", version, << >>)
          /\ sType' = "None"
      BY <1>2, <3>1, Streams, Units DEF Begin
    <3>3. toClient' = << >> /\ sPc' = "clientInit"
      BY <3>1, <3>2, Streams DEF Begin
    <3>4. Entering'
      BY <1>2, <3>1, <3>2, <3>3 DEF Entering, Executed, Executing, At, client
    <3>5. QED
      BY <3>2, <3>3, <3>4 DEF WithResult, SecurityType
  <2>3. QED
    BY <1>1, <2>1, <2>2
<1>5. Known'
  BY <1>1, <1>2, <1>4 DEF Known, client
<1>6. FailsForAReason'
  BY <1>2, ReasonKept DEF HandshakeInv
<1>7. QED
  BY <1>3, <1>4, <1>5, <1>6 DEF HandshakeInv, Phase

LEMMA ServerResponseStep == HandshakeInv /\ ServerResponse => HandshakeInv'
<1> SUFFICES ASSUME HandshakeInv, ServerResponse PROVE HandshakeInv'
  OBVIOUS
<1>1. Speaking /\ Responded /\ Known
  BY ServerPhase DEF HandshakeInv, ServerResponse, ServerReceive
<1>2. /\ toClient = << >> /\ toServer = <<Unit("response", answer)>>
      /\ pc \in {"result", "failed"} /\ Executing("VncAuth")
  BY <1>1 DEF Responded, At
<1>3. Head(toServer).val = answer /\ Tail(toServer) = << >>
  BY <1>2, Streams, Units
<1>4. /\ toServer' = << >>
      /\ UNCHANGED <<announced, offer, sVersion, sType, link, client>>
  BY <1>3 DEF ServerResponse, ServerReceive
<1>5. Speaking'
  BY <1>1, <1>4 DEF Speaking, client
<1>6. \A units : Refuse(units) => /\ toClient' = << >> \o units
                                  /\ sPc' = "closed" /\ refused' = TRUE
  BY <1>2 DEF Refuse
<1>7. /\ WithResult' \/ Refused'
      /\ refused' \in BOOLEAN /\ (refused => refused')
      /\ sPc' = "closed" => refused'
  <2>1. \/ /\ answer = RightPassword
           /\ toClient' = Append(toClient, Unit("result", "OK"))
           /\ sPc' = "clientInit" /\ UNCHANGED refused
        \/ Refuse(<<Unit("result", "Failed")>> \o ReasonIf(SendsReasons(version)))
        \/ Refuse(<<Unit("result", "TooMany")>>)
    BY <1>1, <1>3 DEF ServerResponse, Speaking
  <2>2. CASE /\ answer = RightPassword
             /\ toClient' = Append(toClient, Unit("result", "OK"))
             /\ sPc' = "clientInit" /\ UNCHANGED refused
    <3>1. toClient' = <<Unit("result", "OK")>>
      BY <1>2, <2>2, Streams
    <3>2. Accepted'
      BY <1>2, <1>4, <2>2, <3>1 DEF Accepted, Executed, Executing, At, client
    <3>3. QED
      BY <1>1, <2>2, <3>2 DEF WithResult, Known
  <2>3. CASE Refuse(<<Unit("result", "Failed")>> \o ReasonIf(SendsReasons(version)))
    <3>1. toClient' = IF SendsReasons(version)
                      THEN <<Unit("result", "Failed"), Text("reason")>>
                      ELSE <<Unit("result", "Failed")>>
      <4>1. toClient' = << >> \o (<<Unit("result", "Failed")>>
                                   \o ReasonIf(SendsReasons(version)))
        BY <1>6, <2>3
      <4>2. CASE SendsReasons(version)
        <5>1. ReasonIf(SendsReasons(version)) = <<Text("reason")>>
          BY <4>2 DEF ReasonIf
        <5>2. toClient' = << >> \o <<Unit("result", "Failed"), Text("reason")>>
          BY <4>1, <5>1, Pair
        <5>3. QED
          BY ZenonT(60), <4>2, <5>2, Streams
      <4>3. CASE ~SendsReasons(version)
        <5>1. ReasonIf(SendsReasons(version)) = << >>
          BY <4>3 DEF ReasonIf
        <5>2. toClient' = << >> \o (<<Unit("result", "Failed")>> \o << >>)
          BY <4>1, <5>1
        <5>3. toClient' = <<Unit("result", "Failed")>>
          BY <5>2, Streams, Zenon
        <5>4. QED
          BY <4>3, <5>3, Zenon
      <4>4. QED
        BY <4>2, <4>3
    <3>2. SendsReasons(version)' = SendsReasons(version)
      BY <1>4 DEF client, SendsReasons
    <3>3. RefusedResult'
      BY <1>2, <1>4, <1>6, <2>3, <3>1, <3>2 DEF RefusedResult, At, client
    <3>4. QED
      BY <1>6, <2>3, <3>3 DEF Refused
  <2>4. CASE Refuse(<<Unit("result", "TooMany")>>)
    <3>1. toClient' = <<Unit("result", "TooMany")>>
      BY <1>6, <2>4, Streams
    <3>2. RefusedTooMany'
      BY <1>2, <1>4, <1>6, <2>4, <3>1 DEF RefusedTooMany, At, client
    <3>3. QED
      BY <1>6, <2>4, <3>2 DEF Refused
  <2>5. QED
    BY <2>1, <2>2, <2>3, <2>4
<1>8. Known'
  BY <1>1, <1>4, <1>7 DEF Known, client
<1>9. FailsForAReason'
  BY <1>4, <1>7, ReasonKept DEF HandshakeInv
<1>10. QED
  BY <1>5, <1>7, <1>8, <1>9 DEF HandshakeInv, Phase

LEMMA ServerClientInitStep == HandshakeInv /\ ServerClientInit => HandshakeInv'
<1> SUFFICES ASSUME HandshakeInv, ServerClientInit PROVE HandshakeInv'
  OBVIOUS
<1>1. Speaking /\ Entering /\ Known
  BY ServerPhase DEF HandshakeInv, ServerClientInit, ServerReceive
<1>2. /\ toServer' = << >> /\ toClient' = <<Text("serverInit")>>
      /\ sPc' = "serving"
      /\ UNCHANGED <<announced, offer, sVersion, sType, refused, link, client>>
  BY <1>1, Streams DEF ServerClientInit, ServerReceive, Entering, At
<1>3. Welcomed'
  BY <1>1, <1>2 DEF Welcomed, Entering, Executed, Executing, At, client
<1>4. Speaking'
  BY <1>1, <1>2 DEF Speaking, client
<1>5. Known'
  BY <1>1, <1>2 DEF Known, client
<1>6. FailsForAReason'
  BY <1>2, ReasonKept DEF HandshakeInv
<1>7. QED
  BY <1>3, <1>4, <1>5, <1>6 DEF HandshakeInv, Phase, WithResult

\* The phases do not depend on the connection.
LEMMA BreakStep == HandshakeInv /\ Break => HandshakeInv'
<1> SUFFICES ASSUME HandshakeInv, Break PROVE HandshakeInv'
  OBVIOUS
<1>1. UNCHANGED <<server, client, toClient, toServer>> /\ link' = "broken"
  BY DEF Break
<1>2. BeforeVersion = BeforeVersion' /\ Speaking = Speaking'
  BY <1>1 DEF server, client, BeforeVersion, Started, Greeted, Replied, At,
              Speaking
<1>3. WithType = WithType'
  BY <1>1 DEF server, client, WithType, Offered, Chosen, ChosenNone,
     ImposedAuth, Challenged, Responded, ImposedKeys, Keys, ImposedNone, At,
     Executing
<1>4. WithResult = WithResult'
  BY <1>1 DEF server, client, WithResult, Accepted, Entering, Welcomed, Open,
     Given, At, Executed, Executing
<1>5. Refused = Refused'
  BY <1>1 DEF server, client, Refused, RefusedTypes, RefusedScheme,
     RefusedResult, RefusedTooMany, Reason, At
<1>6. Known'
  BY <1>1 DEF HandshakeInv, Known, server, client
<1>7. FailsForAReason'
  BY <1>1, ReasonKept DEF HandshakeInv, server
<1>8. QED
  BY <1>2, <1>3, <1>4, <1>5, <1>6, <1>7 DEF HandshakeInv, Phase

(***************************************************************************)
(* The client's steps.                                                     *)
(***************************************************************************)
\* What no read but that of the version changes.
LEMMA SpeakingKept ==
    ASSUME Speaking, UNCHANGED <<server, version>>
    PROVE  Speaking'
BY DEF Speaking, server

LEMMA KnownKept ==
    ASSUME Known, UNCHANGED <<server, link, version>>,
           authScheme' \in SecurityType \union {"Failed", NoType},
           answer' \in Passwords
    PROVE  Known'
BY DEF Known, server

LEMMA StartHandshakeStep == HandshakeInv /\ StartHandshake => HandshakeInv'
<1> SUFFICES ASSUME HandshakeInv, StartHandshake PROVE HandshakeInv'
  OBVIOUS
<1>1. Started \/ Greeted
  BY ClientPhase DEF HandshakeInv, StartHandshake
<1>2. /\ pc' = "version"
      /\ UNCHANGED <<server, link, toClient, toServer, version, authScheme,
                     answer>>
  BY DEF StartHandshake
<1>3. Started' \/ Greeted'
  BY <1>1, <1>2 DEF Started, Greeted, At, server
<1>4. Known'
  BY <1>2, KnownKept DEF HandshakeInv, Known
<1>5. FailsForAReason'
  BY <1>2 DEF FailsForAReason
<1>6. QED
  BY <1>3, <1>4, <1>5 DEF HandshakeInv, Phase, BeforeVersion

LEMMA ReadVersionStep == HandshakeInv /\ ReadVersion => HandshakeInv'
<1> SUFFICES ASSUME HandshakeInv, ReadVersion PROVE HandshakeInv'
  OBVIOUS
<1>1. Greeted /\ Known
  BY ClientPhase DEF HandshakeInv, ReadVersion, Receive
<1>2. Received = announced /\ toClient' = << >>
  BY <1>1, Streams, Units DEF ReadVersion, Receive, Received, Greeted, At
<1>3. /\ version' = ReplyTo(announced)
      /\ toServer' = <<Unit("version", version')>>
      /\ pc' = IF SendsList(version') THEN "types" ELSE "scheme"
      /\ UNCHANGED <<server, link, authScheme, answer>>
  BY <1>1, <1>2, Streams DEF ReadVersion, Greeted, At
<1>4. Replied'
  BY <1>1, <1>2, <1>3 DEF Replied, Greeted, At, server, SendsList
<1>5. version' \in Spoken
  BY <1>1, <1>3, ReplySpoken DEF Known
<1>6. Known'
  BY <1>1, <1>3, <1>5 DEF Known, server
<1>7. FailsForAReason'
  BY <1>3 DEF FailsForAReason
<1>8. QED
  BY <1>4, <1>6, <1>7 DEF HandshakeInv, Phase, BeforeVersion

LEMMA OneSelected ==
    ASSUME NEW list \in Seq(SecurityType), NEW i, NEW j,
           IsSelected(list, i), IsSelected(list, j)
    PROVE  i = j
<1>1. i \in 1 .. Len(list) /\ j \in 1 .. Len(list)
  BY DEF IsSelected
<1>2. i \in Nat /\ j \in Nat
  BY <1>1
<1>3. ~(i < j) /\ ~(j < i)
  BY <1>1, <1>2 DEF IsSelected
<1>4. QED
  BY <1>2, <1>3

\* What is sent with a type, and where the client waits after it.
LEMMA ExecuteSends ==
    ASSUME NEW t, NEW units, Execute(t, units), toServer = << >>
    PROVE  /\ authScheme' = t
           /\ t = "None" /\ ~SendsReasons(version) =>
                 /\ toServer' = << >> \o units \o <<Text("clientInit")>>
                 /\ pc' = "serverInit"
           /\ ~(t = "None" /\ ~SendsReasons(version)) =>
                 toServer' = << >> \o units /\ pc' = Awaited(t)
BY DEF Execute, SendClientInit

LEMMA ReadTypesStep == HandshakeInv /\ ReadTypes => HandshakeInv'
<1> SUFFICES ASSUME HandshakeInv, ReadTypes PROVE HandshakeInv'
  OBVIOUS
<1>1. Speaking /\ (Offered \/ RefusedTypes) /\ Known
  BY ClientPhase DEF HandshakeInv, ReadTypes, Receive
<1>2. /\ UNCHANGED <<server, link, version, answer>>
      /\ toClient' = Tail(toClient)
  BY DEF ReadTypes, Receive
<1>3. SendsList(version) /\ SendsList(version)' /\ toServer = << >>
  BY <1>1, <1>2 DEF Offered, RefusedTypes, At, SendsList
<1>4. (WithType' \/ WithResult' \/ Refused') /\ FailsForAReason'
      /\ authScheme' \in SecurityType \union {"Failed", NoType}
  <2>1. CASE Offered
    <3>1. /\ Received = offer /\ toClient' = << >> /\ sPc' = "choice"
      BY <1>2, <2>1, Streams, Units DEF Offered, At, Received, server
    <3>2. offer \in Seq(SecurityType) /\ offer # << >> /\ offer' = offer
      BY <1>1, <1>2, HandshakeAssumption DEF Known, HandshakeAssumption, server
    <3>3. \/ \E i \in DOMAIN offer :
                /\ IsSelected(offer, i)
                /\ Execute(offer[i], <<Unit("choice", offer[i])>>)
          \/ /\ \A i \in DOMAIN offer : offer[i] \notin Selectable
             /\ pc' = "failed" /\ UNCHANGED <<toServer, authScheme>>
      BY <3>1, <3>2, Zenon DEF ReadTypes
    <3>4. CASE \E i \in DOMAIN offer :
                  /\ IsSelected(offer, i)
                  /\ Execute(offer[i], <<Unit("choice", offer[i])>>)
      <4>1. PICK i \in DOMAIN offer :
                  /\ IsSelected(offer, i)
                  /\ Execute(offer[i], <<Unit("choice", offer[i])>>)
        BY <3>4
      <4> DEFINE t == offer[i]
      <4>2. t \in Selectable /\ t \in Range(offer) /\ t \in SecurityType
        BY <3>2, <4>1 DEF IsSelected, Range, Selectable, SecurityType
      <4>3. /\ authScheme' = t
            /\ t = "None" /\ ~SendsReasons(version) =>
                  /\ toServer' = <<Unit("choice", t), Text("clientInit")>>
                  /\ pc' = "serverInit"
            /\ ~(t = "None" /\ ~SendsReasons(version)) =>
                  toServer' = <<Unit("choice", t)>> /\ pc' = Awaited(t)
        <5>1. Execute(t, <<Unit("choice", t)>>) /\ toServer = << >>
          BY <1>3, <4>1
        <5>2. << >> \o <<Unit("choice", t)>> = <<Unit("choice", t)>>
          BY Streams, Zenon
        <5>3. <<Unit("choice", t)>> \o <<Text("clientInit")>>
                 = <<Unit("choice", t), Text("clientInit")>>
          BY Pair, Zenon
        <5> HIDE DEF t
        <5>4. QED
          BY <5>1, <5>2, <5>3, ExecuteSends
      <4> HIDE DEF t
      <4>4. SendsReasons(version)' = SendsReasons(version)
        BY <1>2 DEF SendsReasons
      <4>5. CASE t = "None" /\ ~SendsReasons(version)
        <5>1. ChosenNone'
          BY <1>2, <1>3, <3>1, <3>2, <4>2, <4>3, <4>4, <4>5 DEF ChosenNone, At
        <5>2. QED
          BY <4>2, <4>3, <4>5, <5>1 DEF WithType, FailsForAReason
      <4>6. CASE ~(t = "None" /\ ~SendsReasons(version))
        <5>1. Chosen'
          BY <1>2, <1>3, <3>1, <3>2, <4>2, <4>3, <4>4, <4>6 DEF Chosen, At
        <5>2. pc' = "failed" => t \in {"TLS", "VeNCrypt"}
          BY <4>2, <4>3, <4>6 DEF Awaited, Selectable
        <5>3. t \in {"TLS", "VeNCrypt"} => ~CanExecute
          BY <3>2, <4>1, OneSelected DEF CanExecute, t
        <5>4. CanExecute' = CanExecute
          BY <3>2 DEF CanExecute, IsSelected
        <5>5. FailsForAReason'
          BY <1>3, <5>2, <5>3, <5>4 DEF FailsForAReason
        <5>6. QED
          BY <4>2, <4>3, <5>1, <5>5 DEF WithType
      <4>7. QED
        BY <4>5, <4>6
    <3>5. CASE /\ \A i \in DOMAIN offer : offer[i] \notin Selectable
               /\ pc' = "failed" /\ UNCHANGED <<toServer, authScheme>>
      <4>1. Given'
        BY <1>3, <3>1, <3>5 DEF Given
      <4>2. ~CanExecute'
        BY <3>2, <3>5 DEF CanExecute, IsSelected
      <4>3. FailsForAReason'
        BY <1>3, <4>2 DEF FailsForAReason
      <4>4. QED
        BY <1>1, <3>5, <4>1, <4>3 DEF WithResult, Known
    <3>6. QED
      BY <3>3, <3>4, <3>5
  <2>2. CASE RefusedTypes
    <3>1. /\ Received = << >> /\ toClient' = <<Text("reason")>>
          /\ sPc' = "closed"
      BY <1>2, <2>2, Streams, Units DEF RefusedTypes, At, Received, server
    <3>2. pc' = "reason" /\ UNCHANGED <<toServer, authScheme>>
      BY <3>1 DEF ReadTypes
    <3>3. Reason' /\ FailsForAReason'
      BY <1>3, <3>1, <3>2 DEF Reason, At, FailsForAReason
    <3>4. QED
      BY <1>1, <3>2, <3>3 DEF Refused, Known
  <2>3. QED
    BY <1>1, <2>1, <2>2
<1>5. Known'
  BY <1>1, <1>2, <1>4, KnownKept DEF Known
<1>6. Speaking'
  BY <1>1, <1>2, SpeakingKept
<1>7. QED
  BY <1>4, <1>5, <1>6 DEF HandshakeInv, Phase

LEMMA ReadSchemeStep == HandshakeInv /\ ReadScheme => HandshakeInv'
<1> SUFFICES ASSUME HandshakeInv, ReadScheme PROVE HandshakeInv'
  OBVIOUS
<1>1. /\ Speaking /\ Known
      /\ ImposedAuth \/ ImposedKeys \/ ImposedNone \/ RefusedScheme
  BY ClientPhase DEF HandshakeInv, ReadScheme, Receive
<1>2. /\ UNCHANGED <<server, link, version, answer>>
      /\ toClient' = Tail(toClient) /\ Execute(Received, << >>)
  BY DEF ReadScheme, Receive
<1>3. ~SendsList(version) /\ ~SendsList(version)' /\ toServer = << >>
  BY <1>1, <1>2
  DEF ImposedAuth, ImposedKeys, ImposedNone, RefusedScheme, At, SendsList
<1>4. ~SendsReasons(version)
  <2>1. \/ version = NoVersion
        \/ version \in Spoken /\ version[2] \in Nat
    BY <1>1 DEF Known, Spoken
  <2>2. version[2] \in Nat
    BY <2>1 DEF NoVersion
  <2>3. QED
    BY <1>3, <2>2 DEF SendsList, SendsReasons
<1>5. << >> \o << >> = << >> /\ << >> \o <<Text("clientInit")>> = <<Text("clientInit")>>
  BY Streams, Zenon
<1>6. (WithType' \/ WithResult' \/ Refused') /\ pc' # "failed"
      /\ authScheme' \in SecurityType \union {"Failed", NoType}
  <2>1. CASE ImposedAuth
    <3>1. Execute("VncAuth", << >>) /\ toClient' = <<Text("challenge")>>
      BY <1>2, <2>1, Streams, Units DEF ImposedAuth, At, Received
    <3>2. authScheme' = "VncAuth" /\ toServer' = << >> /\ pc' = "challenge"
      BY <1>3, <1>5, <3>1, ExecuteSends DEF Awaited
    <3>3. Challenged'
      BY <1>2, <2>1, <3>1, <3>2
      DEF Challenged, Executing, ImposedAuth, At, server
    <3>4. QED
      BY <3>2, <3>3 DEF WithType, SecurityType
  <2>2. CASE ImposedKeys
    <3>1. Execute("MSLogon", << >>) /\ toClient' = <<Text("keys")>>
      BY <1>2, <2>2, Streams, Units DEF ImposedKeys, At, Received
    <3>2. authScheme' = "MSLogon" /\ toServer' = << >> /\ pc' = "keys"
      BY <1>3, <1>5, <3>1, ExecuteSends DEF Awaited
    <3>3. Keys'
      BY <1>2, <1>3, <2>2, <3>1, <3>2 DEF Keys, ImposedKeys, At, server
    <3>4. QED
      BY <3>2, <3>3 DEF WithType, SecurityType
  <2>3. CASE ImposedNone
    <3>1. Execute("None", << >>) /\ toClient' = << >>
      BY <1>2, <2>3, Streams, Units DEF ImposedNone, At, Received
    <3>2. /\ authScheme' = "None" /\ toServer' = <<Text("clientInit")>>
          /\ pc' = "serverInit"
      BY <1>3, <1>4, <1>5, <3>1, ExecuteSends
    <3>3. Entering'
      BY <1>2, <2>3, <3>1, <3>2
      DEF Entering, Executed, Executing, ImposedNone, At, server
    <3>4. QED
      BY <3>2, <3>3 DEF WithResult, SecurityType
  <2>4. CASE RefusedScheme
    <3>1. Execute("Failed", << >>) /\ toClient' = <<Text("reason")>>
      BY <1>2, <2>4, Streams, Units DEF RefusedScheme, At, Received
    <3>2. authScheme' = "Failed" /\ toServer' = << >> /\ pc' = "reason"
      BY <1>3, <1>5, <3>1, ExecuteSends DEF Awaited
    <3>3. Reason'
      BY <1>2, <2>4, <3>1, <3>2 DEF Reason, RefusedScheme, At, server
    <3>4. QED
      BY <3>2, <3>3 DEF Refused
  <2>5. QED
    BY <1>1, <2>1, <2>2, <2>3, <2>4
<1>7. Known'
  BY <1>1, <1>2, <1>6, KnownKept DEF Known
<1>8. Speaking'
  BY <1>1, <1>2, SpeakingKept
<1>9. QED
  BY <1>6, <1>7, <1>8 DEF HandshakeInv, Phase, FailsForAReason

LEMMA ReadChallengeStep == HandshakeInv /\ ReadChallenge => HandshakeInv'
<1> SUFFICES ASSUME HandshakeInv, ReadChallenge PROVE HandshakeInv'
  OBVIOUS
<1>1. Speaking /\ Challenged /\ Known
  BY ClientPhase DEF HandshakeInv, ReadChallenge, Receive
<1>2. /\ UNCHANGED <<server, link, version, authScheme>>
      /\ toClient' = << >> /\ answer' \in Passwords
  BY <1>1, Streams DEF ReadChallenge, Receive, Challenged, At
<1>3. toServer = << >> /\ sPc' = "response" /\ Executing("VncAuth")'
  BY <1>1, <1>2 DEF Challenged, At, Executing, server
<1>4. (WithType' \/ WithResult') /\ FailsForAReason'
  <2>1. CASE answer' = NoPassword
    <3>1. pc' = "failed" /\ toServer' = << >>
      BY <1>3, <2>1 DEF ReadChallenge
    <3>2. Given'
      BY <1>2, <1>3, <3>1 DEF Given
    <3>3. answer' # RightPassword
      BY <2>1, HandshakeAssumption DEF HandshakeAssumption
    <3>4. QED
      BY <1>3, <3>2, <3>3 DEF WithResult, FailsForAReason, Executing
  <2>2. CASE answer' # NoPassword
    <3>1. pc' = "result" /\ toServer' = <<Unit("response", answer')>>
      BY <1>3, <2>2, Streams DEF ReadChallenge
    <3>2. Responded'
      BY <1>2, <1>3, <3>1 DEF Responded, At
    <3>3. QED
      BY <3>1, <3>2 DEF WithType, FailsForAReason
  <2>3. QED
    BY <2>1, <2>2
<1>5. Known'
  BY <1>1, <1>2, KnownKept DEF Known
<1>6. Speaking'
  BY <1>1, <1>2, SpeakingKept
<1>7. QED
  BY <1>4, <1>5, <1>6 DEF HandshakeInv, Phase

LEMMA ReadKeysStep == HandshakeInv /\ ReadKeys => HandshakeInv'
<1> SUFFICES ASSUME HandshakeInv, ReadKeys PROVE HandshakeInv'
  OBVIOUS
<1>1. Speaking /\ Keys /\ Known
  BY ClientPhase DEF HandshakeInv, ReadKeys, Receive
<1>2. /\ UNCHANGED <<server, link, toServer, version, authScheme, answer>>
      /\ toClient' = << >> /\ pc' = "failed"
  BY <1>1, Streams DEF ReadKeys, Receive, Keys, At
<1>3. Given'
  BY <1>1, <1>2 DEF Given, Keys, At, server
<1>4. FailsForAReason'
  BY <1>1, <1>2 DEF Keys, FailsForAReason, SendsList
<1>5. Known'
  BY <1>1, <1>2, KnownKept DEF Known
<1>6. Speaking'
  BY <1>1, <1>2, SpeakingKept
<1>7. QED
  BY <1>3, <1>4, <1>5, <1>6 DEF HandshakeInv, Phase, WithResult

LEMMA ReadResultStep == HandshakeInv /\ ReadResult => HandshakeInv'
<1> SUFFICES ASSUME HandshakeInv, ReadResult PROVE HandshakeInv'
  OBVIOUS
<1>1. Speaking /\ (Accepted \/ RefusedResult \/ RefusedTooMany) /\ Known
  BY ClientPhase DEF HandshakeInv, ReadResult, Receive
<1>2. /\ UNCHANGED <<server, link, version, authScheme, answer>>
      /\ toClient' = Tail(toClient)
  BY DEF ReadResult, Receive
<1>3. toServer = << >>
  BY <1>1 DEF Accepted, RefusedResult, RefusedTooMany, At
<1>4. (WithResult' \/ Refused') /\ FailsForAReason'
  <2>1. CASE Accepted
    <3>1. Received = "OK" /\ toClient' = << >>
      BY <1>2, <2>1, Streams, Units DEF Accepted, At, Received
    <3>2. SendClientInit(<< >>)
      BY <3>1 DEF ReadResult
    <3>3. << >> \o << >> \o <<Text("clientInit")>> = <<Text("clientInit")>>
      BY Streams, Zenon
    <3>4. toServer' = <<Text("clientInit")>> /\ pc' = "serverInit"
      BY <1>3, <3>2, <3>3 DEF SendClientInit
    <3>5. Entering'
      BY <1>2, <2>1, <3>1, <3>4
      DEF Entering, Accepted, Executed, Executing, At, server
    <3>6. QED
      BY <3>4, <3>5 DEF WithResult, FailsForAReason
  <2>2. CASE RefusedResult
    <3>1. /\ Received = "Failed" /\ sPc' = "closed" /\ refused'
          /\ toClient' = IF SendsReasons(version) THEN <<Text("reason")>>
                                                  ELSE << >>
      BY <1>1, <1>2, <2>2, Streams, Units
      DEF RefusedResult, At, Received, Known, server
    <3>2. /\ pc' = IF SendsReasons(version) THEN "reason" ELSE "failed"
          /\ UNCHANGED toServer
      BY <3>1 DEF ReadResult
    <3>3. CASE SendsReasons(version)
      <4>1. Reason'
        BY <1>3, <3>1, <3>2, <3>3 DEF Reason, At
      <4>2. QED
        BY <3>1, <4>1 DEF Refused, FailsForAReason
    <3>4. CASE ~SendsReasons(version)
      <4>1. Given'
        BY <1>3, <3>1, <3>2, <3>4 DEF Given
      <4>2. QED
        BY <3>1, <4>1 DEF WithResult, FailsForAReason
    <3>5. QED
      BY <3>3, <3>4
  <2>3. CASE RefusedTooMany
    <3>1. /\ Received = "TooMany" /\ sPc' = "closed" /\ refused'
          /\ toClient' = << >>
      BY <1>1, <1>2, <2>3, Streams, Units
      DEF RefusedTooMany, At, Received, Known, server
    <3>2. pc' = "failed" /\ UNCHANGED toServer
      BY <3>1 DEF ReadResult
    <3>3. Given'
      BY <1>3, <3>1, <3>2 DEF Given
    <3>4. QED
      BY <3>1, <3>3 DEF WithResult, FailsForAReason
  <2>4. QED
    BY <1>1, <2>1, <2>2, <2>3
<1>5. Known'
  BY <1>1, <1>2, KnownKept DEF Known
<1>6. Speaking'
  BY <1>1, <1>2, SpeakingKept
<1>7. QED
  BY <1>4, <1>5, <1>6 DEF HandshakeInv, Phase

LEMMA ReadReasonStep == HandshakeInv /\ ReadReason => HandshakeInv'
<1> SUFFICES ASSUME HandshakeInv, ReadReason PROVE HandshakeInv'
  OBVIOUS
<1>1. Speaking /\ Reason /\ Known
  BY ClientPhase DEF HandshakeInv, ReadReason, Receive
<1>2. /\ UNCHANGED <<server, link, toServer, version, authScheme, answer>>
      /\ toClient' = << >> /\ pc' = "failed"
  BY <1>1, Streams DEF ReadReason, Receive, Reason, At
<1>3. Given' /\ FailsForAReason'
  BY <1>1, <1>2 DEF Given, Reason, At, server, Known, FailsForAReason
<1>4. Known'
  BY <1>1, <1>2, KnownKept DEF Known
<1>5. Speaking'
  BY <1>1, <1>2, SpeakingKept
<1>6. QED
  BY <1>3, <1>4, <1>5 DEF HandshakeInv, Phase, WithResult

LEMMA ReadServerInitStep == HandshakeInv /\ ReadServerInit => HandshakeInv'
<1> SUFFICES ASSUME HandshakeInv, ReadServerInit PROVE HandshakeInv'
  OBVIOUS
<1>1. Speaking /\ Welcomed /\ Known
  BY ClientPhase DEF HandshakeInv, ReadServerInit, Receive
<1>2. /\ UNCHANGED <<server, link, toServer, version, authScheme, answer>>
      /\ toClient' = << >> /\ pc' = "connected"
  BY <1>1, Streams DEF ReadServerInit, Receive, Welcomed, At
<1>3. Open'
  BY <1>1, <1>2 DEF Open, Welcomed, At, server, Executed, Executing
<1>4. FailsForAReason'
  BY <1>2 DEF FailsForAReason
<1>5. Known'
  BY <1>1, <1>2, KnownKept DEF Known
<1>6. Speaking'
  BY <1>1, <1>2, SpeakingKept
<1>7. QED
  BY <1>3, <1>4, <1>5, <1>6 DEF HandshakeInv, Phase, WithResult

\* Every phase allows for a client that has failed.
LEMMA ReadFailsStep == HandshakeInv /\ ReadFails => HandshakeInv'
<1> SUFFICES ASSUME HandshakeInv, ReadFails PROVE HandshakeInv'
  OBVIOUS
<1>1. /\ UNCHANGED <<server, link, toClient, toServer, version, authScheme,
                     answer>>
      /\ pc \in ServerUnits /\ pc' = "failed"
      /\ link = "broken" \/ sPc = "closed"
  BY DEF ReadFails
<1>2. BeforeVersion => BeforeVersion'
  BY <1>1 DEF server, BeforeVersion, Started, Greeted, Replied, At, SendsList
<1>3. WithType => WithType'
  BY <1>1 DEF server, WithType, Offered, Chosen, ChosenNone, ImposedAuth,
     Challenged, Responded, ImposedKeys, Keys, ImposedNone, At, Executing,
     SendsList, SendsReasons
<1>4. WithResult => WithResult'
  BY <1>1 DEF server, WithResult, Accepted, Entering, Welcomed, Open, Given,
     At, Executed, Executing, ServerUnits
<1>5. Refused => Refused'
  BY <1>1 DEF server, Refused, RefusedTypes, RefusedScheme, RefusedResult,
     RefusedTooMany, Reason, At, SendsList, SendsReasons
<1>6. Speaking => Speaking'
  BY <1>1, SpeakingKept
<1>7. Known'
  BY <1>1, KnownKept DEF HandshakeInv, Known
<1>8. FailsForAReason'
  BY <1>1 DEF HandshakeInv, Known, FailsForAReason, server
<1>9. QED
  BY <1>2, <1>3, <1>4, <1>5, <1>6, <1>7, <1>8 DEF HandshakeInv, Phase

LEMMA StutterStep == HandshakeInv /\ UNCHANGED vars => HandshakeInv'
<1> SUFFICES ASSUME HandshakeInv, UNCHANGED vars PROVE HandshakeInv'
  OBVIOUS
<1>1. UNCHANGED <<server, client, link, toClient, toServer>>
  BY DEF vars
<1>2. BeforeVersion = BeforeVersion' /\ Speaking = Speaking'
  BY <1>1 DEF server, client, BeforeVersion, Started, Greeted, Replied, At,
              Speaking
<1>3. WithType = WithType'
  BY <1>1 DEF server, client, WithType, Offered, Chosen, ChosenNone,
     ImposedAuth, Challenged, Responded, ImposedKeys, Keys, ImposedNone, At,
     Executing
<1>4. WithResult = WithResult'
  BY <1>1 DEF server, client, WithResult, Accepted, Entering, Welcomed, Open,
     Given, At, Executed, Executing
<1>5. Refused = Refused'
  BY <1>1 DEF server, client, Refused, RefusedTypes, RefusedScheme,
     RefusedResult, RefusedTooMany, Reason, At
<1>6. Known' /\ FailsForAReason'
  BY <1>1, ReasonKept DEF HandshakeInv, Known, server, client
<1>7. QED
  BY <1>2, <1>3, <1>4, <1>5, <1>6 DEF HandshakeInv, Phase

(***************************************************************************)
(* The theorems.                                                           *)
(***************************************************************************)
\* Every connection is in one of the phases above: that is what
\* InitialiseRFBConnection and a server of its version keep together.
THEOREM HandshakeInductive == Spec => []HandshakeInv
<1>1. Init => HandshakeInv
  BY Start
<1>2. HandshakeInv /\ [Next]_vars => HandshakeInv'
  <2>1. HandshakeInv /\ Server => HandshakeInv'
    BY GreetStep, ServerVersionStep, ServerChoiceStep, ServerResponseStep,
       ServerClientInitStep DEF Server
  <2>2. HandshakeInv /\ Client => HandshakeInv'
    BY StartHandshakeStep, ReadVersionStep, ReadTypesStep, ReadSchemeStep,
       ReadChallengeStep, ReadKeysStep, ReadResultStep, ReadReasonStep,
       ReadServerInitStep, ReadFailsStep DEF Client
  <2>3. QED
    BY <2>1, <2>2, BreakStep, StutterStep DEF Next
<1>3. QED
  BY <1>1, <1>2, PTL DEF Spec

\* Every unit of the stream is of one of these kinds.
Carries(stream, kinds) ==
    \A i \in 1 .. Len(stream) : stream[i].kind \in kinds

LEMMA CarriesUnits ==
    ASSUME NEW kinds, NEW a \in kinds, NEW b \in kinds, NEW v, NEW w
    PROVE  /\ Carries(<< >>, kinds)
           /\ Carries(<<Unit(a, v)>>, kinds) /\ Carries(<<Text(a)>>, kinds)
           /\ Carries(<<Unit(a, v), Unit(b, w)>>, kinds)
           /\ Carries(<<Unit(a, v), Text(b)>>, kinds)
<1> DEFINE ua == Unit(a, v)
           ub == Unit(b, w)
           tb == Text(b)
<1>1. ua.kind \in kinds /\ ub.kind \in kinds /\ tb.kind \in kinds
  BY Units
<1>2. Text(a).kind \in kinds
  BY Units
<1>3. Carries(<< >>, kinds)
  BY DEF Carries
<1>4. \A x : x.kind \in kinds => Carries(<<x>>, kinds)
  BY DEF Carries
<1>5. \A x, y : x.kind \in kinds /\ y.kind \in kinds => Carries(<<x, y>>, kinds)
  BY DEF Carries
<1> HIDE DEF ua, ub, tb
<1>6. Carries(<<ua>>, kinds) /\ Carries(<<ua, ub>>, kinds)
         /\ Carries(<<ua, tb>>, kinds)
  BY <1>1, <1>4, <1>5, Zenon
<1>7. QED
  BY <1>2, <1>3, <1>4, <1>6, Zenon DEF ua, ub, tb

\* What a phase says of both streams and of both readers.
Typed == /\ sPc \in ClientUnits \union {"start", "tls", "serving", "closed"}
         /\ pc \in ServerUnits \union {"wait", "connected", "failed"}
         /\ Carries(toClient, ServerUnits) /\ Carries(toServer, ClientUnits)

LEMMA PhaseTyped == Known /\ Phase => Typed
<1> SUFFICES ASSUME Known, Phase PROVE Typed
  OBVIOUS
<1>1. /\ \A k \in ServerUnits : \A v : Carries(<<Unit(k, v)>>, ServerUnits)
      /\ \A k \in ServerUnits : Carries(<<Text(k)>>, ServerUnits)
      /\ \A k, j \in ServerUnits : \A v :
            Carries(<<Unit(k, v), Text(j)>>, ServerUnits)
      /\ Carries(<< >>, ServerUnits)
  <2>1. "version" \in ServerUnits
    BY DEF ServerUnits
  <2>2. QED
    BY <2>1, CarriesUnits, Zenon
<1>2. /\ \A k \in ClientUnits : \A v : Carries(<<Unit(k, v)>>, ClientUnits)
      /\ \A k \in ClientUnits : Carries(<<Text(k)>>, ClientUnits)
      /\ \A k, j \in ClientUnits : \A v :
            Carries(<<Unit(k, v), Text(j)>>, ClientUnits)
      /\ Carries(<< >>, ClientUnits)
  <2>1. "version" \in ClientUnits
    BY DEF ClientUnits
  <2>2. QED
    BY <2>1, CarriesUnits, Zenon
<1>3. BeforeVersion => Typed
  BY <1>1, <1>2 DEF Typed, BeforeVersion, Started, Greeted, Replied, At,
     ServerUnits, ClientUnits
<1>4. WithType => Typed
  <2>1. Chosen => Awaited(authScheme) \in ServerUnits \union {"failed"}
    BY DEF Chosen, Awaited, ServerUnits
  <2>2. Offered \/ Chosen \/ ChosenNone => Typed
    BY <1>1, <1>2, <2>1 DEF Typed, Offered, Chosen, ChosenNone, At,
       ServerUnits, ClientUnits
  <2>3. ImposedAuth \/ Challenged \/ Responded => Typed
    BY <1>1, <1>2 DEF Typed, ImposedAuth, Challenged, Responded, At,
       ServerUnits, ClientUnits
  <2>4. ImposedKeys \/ Keys \/ ImposedNone => Typed
    BY <1>1, <1>2 DEF Typed, ImposedKeys, Keys, ImposedNone, At,
       ServerUnits, ClientUnits
  <2>5. QED
    BY <2>2, <2>3, <2>4 DEF WithType
<1>5. WithResult => Typed
  BY <1>1, <1>2 DEF Typed, WithResult, Accepted, Entering, Welcomed, Open,
     Given, At, ServerUnits, ClientUnits
<1>6. Refused => Typed
  BY <1>1, <1>2 DEF Typed, Refused, RefusedTypes, RefusedScheme,
     RefusedResult, RefusedTooMany, Reason, At, ServerUnits, ClientUnits
<1>7. QED
  BY <1>3, <1>4, <1>5, <1>6 DEF Phase

\* Type correctness of the handshake.
THEOREM TypeCorrect == Spec => []TypeOK
<1>1. HandshakeInv => TypeOK
  <2> SUFFICES ASSUME HandshakeInv PROVE TypeOK
    OBVIOUS
  <2>1. Known /\ Typed
    BY PhaseTyped DEF HandshakeInv
  <2>2. refused \in BOOLEAN
    BY <2>1, Zenon DEF Known
  <2>3. QED
    BY <2>1, <2>2 DEF TypeOK, Known, Typed, Carries
<1>2. QED
  BY <1>1, HandshakeInductive, PTL

\* ReadFromRFBServer delivers bytes only: that the client takes none for what
\* it is not, and the server neither, holds for every version announced and
\* every security type offered.
THEOREM ReadInStep == Spec => []InStep
<1>1. HandshakeInv => InStep
  <2> SUFFICES ASSUME HandshakeInv PROVE InStep
    OBVIOUS
  <2>1. Phase
    BY DEF HandshakeInv
  <2>2. ASSUME pc \in ServerUnits, toClient # << >>
        PROVE  Head(toClient).kind = pc
    <3>1. /\ pc = "version" => Greeted
          /\ pc = "types" => Offered \/ RefusedTypes
          /\ pc = "scheme" => \/ ImposedAuth \/ ImposedKeys \/ ImposedNone
                              \/ RefusedScheme
          /\ pc = "challenge" => Challenged
          /\ pc = "keys" => Keys
          /\ pc = "result" => Accepted \/ RefusedResult \/ RefusedTooMany
          /\ pc = "reason" => Reason
          /\ pc = "serverInit" => Welcomed
      BY <2>1, <2>2, ClientPhase
    <3>2. CASE pc \in {"version", "types", "scheme"}
      BY <3>1, <3>2, Streams, Units
      DEF Greeted, Offered, RefusedTypes, ImposedAuth, ImposedKeys,
          ImposedNone, RefusedScheme, At
    <3>3. CASE pc \in {"challenge", "keys", "reason", "serverInit"}
      <4>1. toClient = <<Text(pc)>>
        BY <3>1, <3>3 DEF Challenged, Keys, Reason, Welcomed, At
      <4>2. QED
        BY <4>1, Streams, Units
    <3>4. CASE pc = "result"
      <4>1. CASE RefusedResult
        <5>1. \/ toClient = <<Unit("result", "Failed"), Text("reason")>>
              \/ toClient = <<Unit("result", "Failed")>>
          BY <4>1 DEF RefusedResult, At
        <5>2. QED
          BY <3>4, <5>1, Streams, Units
      <4>2. CASE Accepted \/ RefusedTooMany
        BY <3>4, <4>2, Streams, Units DEF Accepted, RefusedTooMany, At
      <4>3. QED
        BY <3>1, <3>4, <4>1, <4>2
    <3>5. QED
      BY <2>2, <3>2, <3>3, <3>4 DEF ServerUnits
  <2>3. ASSUME sPc \in ClientUnits, toServer # << >>
        PROVE  Head(toServer).kind = sPc
    <3>1. /\ sPc = "version" => Replied
          /\ sPc = "choice" => Chosen \/ ChosenNone
          /\ sPc = "response" => Responded
          /\ sPc = "clientInit" => Entering
      BY <2>1, <2>3, ServerPhase
    <3>2. QED
      BY <2>3, <3>1, Streams, Units
      DEF ClientUnits, Replied, Chosen, ChosenNone, Responded, Entering, At
  <2>4. QED
    BY <2>2, <2>3 DEF InStep
<1>2. QED
  BY <1>1, HandshakeInductive, PTL

\* Where rfbInitClient returns TRUE, the server has accepted this client: with
\* its version, a security type it offered, and the right password.
THEOREM AgreementCorrect == Spec => []Agreement
<1>1. HandshakeInv => Agreement
  <2> SUFFICES ASSUME HandshakeInv, pc = "connected" PROVE Agreement
    BY DEF Agreement
  <2>1. ~BeforeVersion
    BY DEF BeforeVersion, Started, Greeted, Replied, At
  <2>2. ~WithType
    BY DEF WithType, Offered, Chosen, ChosenNone, ImposedAuth, Challenged,
       Responded, ImposedKeys, Keys, ImposedNone, At, Awaited
  <2>3. ~Refused
    BY DEF Refused, RefusedTypes, RefusedScheme, RefusedResult,
       RefusedTooMany, Reason, At
  <2>4. WithResult => Open
    BY DEF WithResult, Accepted, Entering, Welcomed, Given, At
  <2>5. Speaking /\ Open /\ Known
    BY <2>1, <2>2, <2>3, <2>4 DEF HandshakeInv, Phase
  <2>6. version[1] < announced[1] \/ version[2] <= announced[2]
    BY <2>5, ReplySpoken DEF Speaking, Known
  <2>7. QED
    BY <2>5, <2>6 DEF Agreement, Open, Speaking, Executed, Executing
<1>2. QED
  BY <1>1, HandshakeInductive, PTL

\* Every `return FALSE` of rfbInitClient has a cause outside of it, or a
\* security type that is not built in.
THEOREM FailureHasReason == Spec => []FailsForAReason
<1>1. HandshakeInv => FailsForAReason
  BY DEF HandshakeInv
<1>2. QED
  BY <1>1, HandshakeInductive, PTL


-----------------------------------------------------------------------------
(* The opening is short.                                                   *)

\* How many steps each side has still to take, at most.
ClientAhead ==
    CASE pc = "wait"                      -> 6
      [] pc = "version"                   -> 5
      [] pc \in {"types", "scheme"}       -> 4
      [] pc \in {"challenge", "keys"}     -> 3
      [] pc = "result"                    -> 2
      [] pc \in {"reason", "serverInit"}  -> 1
      [] pc \in {"connected", "failed"}   -> 0

ServerAhead ==
    CASE sPc = "start"                    -> 5
      [] sPc = "version"                  -> 4
      [] sPc = "choice"                   -> 3
      [] sPc \in {"response", "tls"}      -> 2
      [] sPc = "clientInit"               -> 1
      [] sPc \in {"serving", "closed"}    -> 0

LinkAhead == IF link = "up" THEN 1 ELSE 0

StepsAhead == ClientAhead + ServerAhead + LinkAhead

LEMMA AheadBounded ==
    ASSUME TypeOK
    PROVE  ClientAhead \in 0 .. 6 /\ ServerAhead \in 0 .. 5
<1>1. ClientAhead \in 0 .. 6
  BY DEF TypeOK, ServerUnits, ClientAhead
<1>2. ServerAhead \in 0 .. 5
  BY DEF TypeOK, ClientUnits, ServerAhead
<1>3. QED
  BY <1>1, <1>2

\* Whatever the server sends, each step of the client takes it nearer to its end.
LEMMA ClientNearer ==
    ASSUME Client
    PROVE  /\ ClientAhead' < ClientAhead
           /\ UNCHANGED <<sPc, link>>
<1>1. UNCHANGED <<sPc, link>>
  BY DEF Client, StartHandshake, ReadVersion, ReadTypes, ReadScheme,
         ReadChallenge, ReadKeys, ReadResult, ReadReason, ReadServerInit,
         ReadFails, server
<1>2. ASSUME NEW t, NEW units, Execute(t, units)
      PROVE  pc' \in {"serverInit", "result", "challenge", "keys", "reason",
                      "failed"}
  BY <1>2 DEF Execute, SendClientInit, Awaited
<1>3. CASE StartHandshake
  BY <1>1, <1>3 DEF StartHandshake, ClientAhead
<1>4. CASE ReadVersion
  BY <1>1, <1>4 DEF ReadVersion, Receive, ClientAhead
<1>5. CASE ReadTypes
  <2>1. pc = "types"
    BY <1>5 DEF ReadTypes, Receive
  <2>2. pc' \in {"serverInit", "result", "challenge", "keys", "reason", "failed"}
    <3>1. CASE \E t, units : Execute(t, units)
      BY <3>1, <1>2
    <3>2. CASE ~ \E t, units : Execute(t, units)
      BY <1>5, <3>2 DEF ReadTypes
    <3>3. QED
      BY <3>1, <3>2
  <2>3. QED
    BY <2>1, <2>2, <1>1 DEF ClientAhead
<1>6. CASE ReadScheme
  <2>1. pc = "scheme"
    BY <1>6 DEF ReadScheme, Receive
  <2>2. pc' \in {"serverInit", "result", "challenge", "keys", "reason", "failed"}
    BY <1>6, <1>2 DEF ReadScheme
  <2>3. QED
    BY <2>1, <2>2, <1>1 DEF ClientAhead
<1>7. CASE ReadChallenge
  BY <1>1, <1>7 DEF ReadChallenge, Receive, ClientAhead
<1>8. CASE ReadKeys
  BY <1>1, <1>8 DEF ReadKeys, Receive, ClientAhead
<1>9. CASE ReadResult
  BY <1>1, <1>9 DEF ReadResult, Receive, SendClientInit, ClientAhead
<1>10. CASE ReadReason
  BY <1>1, <1>10 DEF ReadReason, Receive, ClientAhead
<1>11. CASE ReadServerInit
  BY <1>1, <1>11 DEF ReadServerInit, Receive, ClientAhead
<1>12. CASE ReadFails
  BY <1>1, <1>12 DEF ReadFails, ServerUnits, ClientAhead
<1>13. QED
  BY <1>1, <1>3, <1>4, <1>5, <1>6, <1>7, <1>8, <1>9, <1>10, <1>11, <1>12
     DEF Client

\* Whatever the client sends, the same of the server.
LEMMA ServerNearer ==
    ASSUME Server
    PROVE  /\ ServerAhead' < ServerAhead
           /\ UNCHANGED <<pc, link>>
<1>1. UNCHANGED <<pc, link>>
  BY DEF Server, Greet, ServerVersion, ServerChoice, ServerResponse,
         ServerClientInit, client
<1>2. ASSUME NEW t, NEW v, NEW units, Begin(t, v, units)
      PROVE  sPc' \in {"clientInit", "response", "tls"}
  BY <1>2 DEF Begin
<1>3. CASE Greet
  BY <1>1, <1>3 DEF Greet, ServerAhead
<1>4. CASE ServerVersion
  <2>1. sPc = "version"
    BY <1>4 DEF ServerVersion, ServerReceive
  <2>2. sPc' \in {"choice", "clientInit", "response", "tls", "closed"}
    <3>1. CASE \E t, v, units : Begin(t, v, units)
      BY <3>1, <1>2
    <3>2. CASE ~ \E t, v, units : Begin(t, v, units)
      BY <1>4, <3>2 DEF ServerVersion, Refuse
    <3>3. QED
      BY <3>1, <3>2
  <2>3. QED
    BY <2>1, <2>2, <1>1 DEF ServerAhead
<1>5. CASE ServerChoice
  <2>1. sPc = "choice"
    BY <1>5 DEF ServerChoice, ServerReceive
  <2>2. sPc' \in {"clientInit", "response", "tls"}
    BY <1>5, <1>2 DEF ServerChoice
  <2>3. QED
    BY <2>1, <2>2, <1>1 DEF ServerAhead
<1>6. CASE ServerResponse
  BY <1>1, <1>6 DEF ServerResponse, ServerReceive, Refuse, ServerAhead
<1>7. CASE ServerClientInit
  BY <1>1, <1>7 DEF ServerClientInit, ServerReceive, ServerAhead
<1>8. QED
  BY <1>1, <1>3, <1>4, <1>5, <1>6, <1>7 DEF Server

LEMMA OneNearer ==
    ASSUME ClientAhead \in Nat, ServerAhead \in Nat, LinkAhead \in Nat,
           ClientAhead' \in Nat, ServerAhead' \in Nat, LinkAhead' \in Nat,
           ClientAhead' <= ClientAhead, ServerAhead' <= ServerAhead,
           LinkAhead' <= LinkAhead,
           \/ ClientAhead' < ClientAhead
           \/ ServerAhead' < ServerAhead
           \/ LinkAhead' < LinkAhead
    PROVE  StepsAhead' < StepsAhead
<1>1. \A a, b, c, d, e, f \in Nat :
        a <= d /\ b <= e /\ c <= f /\ (a < d \/ b < e \/ c < f)
            => a + b + c < d + e + f
  OBVIOUS
<1>2. /\ StepsAhead = ClientAhead + ServerAhead + LinkAhead
      /\ StepsAhead' = ClientAhead' + ServerAhead' + LinkAhead'
  BY DEF StepsAhead
<1>3. ClientAhead' + ServerAhead' + LinkAhead' < ClientAhead + ServerAhead + LinkAhead
  BY <1>1, Zenon
<1>4. QED
  BY <1>2, <1>3, Zenon

\* The opening takes twelve steps at most, whatever either side sends: six of
\* the client, five of the server, and a broken connection.  No branch of
\* InitialiseRFBConnection or of a handler it calls leads back to a unit read
\* before.
THEOREM FewSteps ==
    Spec => /\ [](StepsAhead \in 0 .. 12)
            /\ [][StepsAhead' < StepsAhead]_vars
<1>1. ASSUME TypeOK
      PROVE  StepsAhead \in 0 .. 12
  BY <1>1, AheadBounded DEF StepsAhead, LinkAhead
<1>2. ASSUME TypeOK, TypeOK', [Next]_vars
      PROVE  [StepsAhead' < StepsAhead]_vars
  <2>1. SUFFICES ASSUME Next
                 PROVE  StepsAhead' < StepsAhead
    BY <1>2
  <2>2. /\ ClientAhead \in Nat /\ ServerAhead \in Nat
        /\ ClientAhead' \in Nat /\ ServerAhead' \in Nat
        /\ LinkAhead \in Nat /\ LinkAhead' \in Nat
    <3>1. ClientAhead \in 0 .. 6 /\ ServerAhead \in 0 .. 5
      BY <1>2, AheadBounded
    <3>2. (ClientAhead \in 0 .. 6 /\ ServerAhead \in 0 .. 5)'
      BY <1>2, AheadBounded, PTL
    <3>3. QED
      BY <3>1, <3>2 DEF LinkAhead
  <2>3. CASE Client
    <3>1. ClientAhead' < ClientAhead /\ sPc' = sPc /\ link' = link
      BY <2>3, ClientNearer
    <3>2. ServerAhead' = ServerAhead /\ LinkAhead' = LinkAhead
      BY <3>1 DEF ServerAhead, LinkAhead
    <3>3. QED
      BY <2>2, <3>1, <3>2, OneNearer
  <2>4. CASE Server
    <3>1. ServerAhead' < ServerAhead /\ pc' = pc /\ link' = link
      BY <2>4, ServerNearer
    <3>2. ClientAhead' = ClientAhead /\ LinkAhead' = LinkAhead
      BY <3>1 DEF ClientAhead, LinkAhead
    <3>3. QED
      BY <2>2, <3>1, <3>2, OneNearer
  <2>5. CASE Break
    <3>1. ClientAhead' = ClientAhead /\ ServerAhead' = ServerAhead
      BY <2>5 DEF Break, client, server, ClientAhead, ServerAhead
    <3>2. LinkAhead' < LinkAhead
      BY <2>5 DEF Break, LinkAhead
    <3>3. QED
      BY <2>2, <3>1, <3>2, OneNearer
  <2>6. QED
    BY <2>1, <2>3, <2>4, <2>5 DEF Next
<1>3. QED
  BY <1>1, <1>2, TypeCorrect, PTL DEF Spec

(***************************************************************************)
(* The opening does not stop half way.                                     *)
(***************************************************************************)
\* rfbInitClient is about to begin; it has something to read, or will read
\* nothing any more and fails; or the server has something to say.
GoesOn ==
    \/ pc = "wait"
    \/ /\ pc \in ServerUnits
       /\ toClient # << >> \/ link = "broken" \/ sPc = "closed"
    \/ /\ link = "up"
       /\ sPc = "start" \/ (sPc \in ClientUnits /\ toServer # << >>)

\* The two sides never wait for each other: up to its end, in or out, one of
\* them has a step to take whichever version and security type they are in, and
\* a unit that it reads is one it expects (ReadInStep).  With FewSteps this is
\* what makes every opening end.
THEOREM NeverBothWait == Spec => [](pc \in {"connected", "failed"} \/ GoesOn)
<1>1. HandshakeInv => pc \in {"connected", "failed"} \/ GoesOn
  <2> SUFFICES ASSUME HandshakeInv, pc \notin {"connected", "failed"}
               PROVE  GoesOn
    OBVIOUS
  <2>1. link \in {"up", "broken"} /\ pc \in ServerUnits \union {"wait"}
    BY PhaseTyped DEF HandshakeInv, Typed, Known
  <2>2. CASE sPc \in {"start", "closed"}
    BY <2>1, <2>2 DEF GoesOn
  <2>3. CASE toClient # << >>
    BY <2>1, <2>3 DEF GoesOn
  <2>4. CASE sPc \in ClientUnits /\ toServer # << >>
    BY <2>1, <2>4 DEF GoesOn
  <2>5. CASE BeforeVersion
    <3>1. CASE Started
      BY <2>2, <3>1 DEF Started, At
    <3>2. CASE Greeted
      BY <2>3, <3>2, Streams DEF Greeted, At
    <3>3. CASE Replied
      BY <2>4, <3>3, Streams DEF Replied, At, ClientUnits
    <3>4. QED
      BY <2>5, <3>1, <3>2, <3>3 DEF BeforeVersion
  <2>6. CASE WithType
    <3>1. CASE Chosen \/ ChosenNone \/ Responded
      BY <2>4, <3>1, Streams DEF Chosen, ChosenNone, Responded, At, ClientUnits
    <3>2. CASE \/ Offered \/ ImposedAuth \/ Challenged
               \/ ImposedKeys \/ Keys \/ ImposedNone
      BY <2>3, <3>2, Streams
      DEF Offered, ImposedAuth, Challenged, ImposedKeys, Keys, ImposedNone, At
    <3>3. QED
      BY <2>6, <3>1, <3>2 DEF WithType
  <2>7. CASE WithResult
    <3>1. CASE Entering
      BY <2>4, <3>1, Streams DEF Entering, At, ClientUnits
    <3>2. CASE Accepted \/ Welcomed
      BY <2>3, <3>2, Streams DEF Accepted, Welcomed, At
    <3>3. QED
      BY <2>7, <3>1, <3>2 DEF WithResult, Open, Given
  <2>8. CASE Refused
    BY <2>2, <2>8 DEF Refused, RefusedTypes, RefusedScheme, RefusedResult,
       RefusedTooMany, Reason, At
  <2>9. QED
    BY <2>5, <2>6, <2>7, <2>8 DEF HandshakeInv, Phase
<1>2. QED
  BY <1>1, HandshakeInductive, PTL
==============================================================================
