------------------------------- MODULE Handshake -------------------------------
(***************************************************************************)
(* The opening of a connection: InitialiseRFBConnection and the handlers   *)
(* of security types (src/src/libvncclient/rfbproto.c) against a server of *)
(* any version that follows the comments of rfb/rfbproto.h.                *)
(*                                                                         *)
(* The two sides write to each other's stream; a unit is what one reads at *)
(* a time, and has a kind and a value.  The stream itself carries no kinds *)
(* and the client looks at none: that the unit it reads is of the kind it  *)
(* expects is a property.  Texts, challenges and desktop parameters are    *)
(* units without a value.                                                  *)
(***************************************************************************)
EXTENDS Naturals, Sequences, Functions

CONSTANTS Versions,      \* versions servers announce: <<major, minor>>
          Offers,        \* lists of security types servers offer
          Passwords,     \* answers of GetPassword
          RightPassword,
          NoPassword     \* the empty string

SecurityType == {"None", "VncAuth", "TLS", "VeNCrypt", "ARD", "MSLogon"}

ASSUME HandshakeAssumption ==
    /\ Versions \subseteq {3, 4} \X Nat
    /\ Offers \subseteq Seq(SecurityType) \ {<< >>}
    /\ RightPassword \in Passwords
    /\ NoPassword \in Passwords \ {RightPassword}

VARIABLES
    \* the server
    announced,  \* the version it announces
    offer,      \* the security types it accepts
    sPc,        \* the kind of unit it waits for, "start", "serving", "closed"
    sVersion,   \* the version it speaks
    sType,      \* the security type it executes
    refused,    \* it has ended the connection of its own will
    \* the connection
    link,       \* "up" or "broken"
    toClient,
    toServer,
    \* rfbClient
    pc,         \* the kind of unit it reads, "wait", "connected", "failed"
    version,    \* major, minor
    authScheme,
    answer      \* the password given by GetPassword

server == <<announced, offer, sPc, sVersion, sType, refused>>
client == <<pc, version, authScheme, answer>>
vars   == <<server, link, toClient, toServer, client>>

NoVersion == <<0, 0>>
NoType    == "none yet"

\* What the client may wait for, and what the server may.
ServerUnits == {"version", "types", "scheme", "challenge", "keys", "result",
                "reason", "serverInit"}
ClientUnits == {"version", "choice", "response", "clientInit"}

Spoken == {3} \X (0 .. 8)  \* versions the client can speak

TypeOK ==
    /\ announced \in Versions
    /\ offer \in Offers
    /\ sPc \in ClientUnits \union {"start", "tls", "serving", "closed"}
    /\ sVersion \in Spoken \union {NoVersion}
    /\ sType \in SecurityType \union {NoType}
    /\ refused \in BOOLEAN
    /\ link \in {"up", "broken"}
    /\ \A i \in 1 .. Len(toClient) : toClient[i].kind \in ServerUnits
    /\ \A i \in 1 .. Len(toServer) : toServer[i].kind \in ClientUnits
    /\ pc \in ServerUnits \union {"wait", "connected", "failed"}
    /\ version \in Spoken \union {NoVersion}
    /\ authScheme \in SecurityType \union {"Failed", NoType}
    /\ answer \in Passwords

Init ==
    /\ announced \in Versions
    /\ offer \in Offers
    /\ sPc = "start"
    /\ sVersion = NoVersion
    /\ sType = NoType
    /\ refused = FALSE
    /\ link = "up"
    /\ toClient = << >>
    /\ toServer = << >>
    /\ pc = "wait"
    /\ version = NoVersion
    /\ authScheme = NoType
    /\ answer = NoPassword

Unit(kind, val) == [kind |-> kind, val |-> val]
Text(kind)      == Unit(kind, "")

\* 3.7 and onwards sends a list of types, 3.8 a result always and a reason
\* with every failure.
SendsList(v)    == v[2] > 6
SendsReasons(v) == v[2] > 7
ReasonIf(b)     == IF b THEN <<Text("reason")>> ELSE << >>

-----------------------------------------------------------------------------
(* The server.                                                             *)

Greet ==
    /\ sPc = "start" /\ link = "up"
    /\ toClient' = Append(toClient, Unit("version", announced))
    /\ sPc' = "version"
    /\ UNCHANGED <<announced, offer, sVersion, sType, refused, link, toServer,
                   client>>

ServerReceive(kind) ==
    /\ sPc = kind /\ link = "up"
    /\ toServer # << >>
    /\ toServer' = Tail(toServer)

Refuse(units) ==
    /\ toClient' = toClient \o units
    /\ sPc' = "closed"
    /\ refused' = TRUE

\* How the security type t goes on in version v.
Begin(t, v, units) ==
    /\ sType' = t
    /\ CASE t = "None" ->
              /\ toClient' = toClient \o units \o
                    IF SendsReasons(v) THEN <<Unit("result", "OK")>> ELSE << >>
              /\ sPc' = "clientInit"
         [] t = "VncAuth" ->
              /\ toClient' = toClient \o units \o <<Text("challenge")>>
              /\ sPc' = "response"
         [] t = "MSLogon" ->
              /\ toClient' = toClient \o units \o <<Text("keys")>>
              /\ sPc' = "response"
         [] OTHER ->
              /\ toClient' = toClient \o units
              /\ sPc' = "tls"

\* The client's version: the server offers its types, imposes one, or refuses.
ServerVersion ==
    /\ ServerReceive("version")
    /\ LET v == Head(toServer).val
       IN /\ sVersion' = v
          /\ IF SendsList(v)
             THEN \/ /\ toClient' = Append(toClient, Unit("types", offer))
                     /\ sPc' = "choice"
                     /\ UNCHANGED <<sType, refused>>
                  \/ /\ Refuse(<<Unit("types", << >>), Text("reason")>>)
                     /\ UNCHANGED sType
             ELSE \/ \E t \in Range(offer) \intersect {"None", "VncAuth", "MSLogon"} :
                        /\ Begin(t, v, <<Unit("scheme", t)>>)
                        /\ UNCHANGED refused
                  \/ /\ Refuse(<<Unit("scheme", "Failed"), Text("reason")>>)
                     /\ UNCHANGED sType
    /\ UNCHANGED <<announced, offer, link, client>>

ServerChoice ==
    /\ ServerReceive("choice")
    /\ Begin(Head(toServer).val, sVersion, << >>)
    /\ UNCHANGED <<announced, offer, sVersion, refused, link, client>>

\* The response to the challenge: accepted, wrong, or one too many.
ServerResponse ==
    /\ ServerReceive("response")
    /\ \/ /\ Head(toServer).val = RightPassword
          /\ toClient' = Append(toClient, Unit("result", "OK"))
          /\ sPc' = "clientInit"
          /\ UNCHANGED refused
       \/ /\ Head(toServer).val # RightPassword
          /\ Refuse(<<Unit("result", "Failed")>>
                    \o ReasonIf(SendsReasons(sVersion)))
       \/ Refuse(<<Unit("result", "TooMany")>>)
    /\ UNCHANGED <<announced, offer, sVersion, sType, link, client>>

ServerClientInit ==
    /\ ServerReceive("clientInit")
    /\ toClient' = Append(toClient, Text("serverInit"))
    /\ sPc' = "serving"
    /\ UNCHANGED <<announced, offer, sVersion, sType, refused, link, client>>

Break ==
    /\ link = "up"
    /\ link' = "broken"
    /\ UNCHANGED <<server, toClient, toServer, client>>

-----------------------------------------------------------------------------
(* The client.                                                             *)

\* rfbInitClient, after the busy wait of VncClientThread::run: the connection
\* is up since before it.
StartHandshake ==
    /\ pc = "wait"
    /\ pc' = "version"
    /\ UNCHANGED <<server, link, toClient, toServer, version, authScheme,
                   answer>>

Receive(kind) ==
    /\ pc = kind
    /\ toClient # << >>
    /\ toClient' = Tail(toClient)

Received == Head(toClient).val

\* Mutation: the version is not capped for the next major version.
ReplyToAsAnnounced(v) ==
    IF v[1] = 3 /\ v[2] \in {14, 16} THEN <<3, v[2] - 10>>
    ELSE IF v[1] = 3 /\ v[2] > 8 THEN <<3, 8>>
    ELSE v

\* Mutation: every server is answered with the newest version.
ReplyNewest(v) == <<3, 8>>

\* UltraVNC Single Click has minor versions of its own, and 3.8 is the last
\* version spoken.
ReplyTo(v) ==
    IF v[1] = 3 /\ v[2] \in {14, 16} THEN <<3, v[2] - 10>>
    ELSE IF v[1] > 3 \/ v[2] > 8 THEN <<3, 8>>
    ELSE v

ReadVersion ==
    /\ Receive("version")
    /\ version' = ReplyTo(Received)
    /\ toServer' = Append(toServer, Unit("version", version'))
    /\ pc' = IF SendsList(version') THEN "types" ELSE "scheme"
    /\ UNCHANGED <<server, link, authScheme, answer>>

\* The client is in, and says so.
SendClientInit(units) ==
    /\ toServer' = toServer \o units \o <<Text("clientInit")>>
    /\ pc' = "serverInit"

\* What the client reads next with security type t.  TLS and VeNCrypt fail at
\* once, as they are not built in (tls_none.c).
Awaited(t) ==
    CASE t = "None"    -> "result"
      [] t = "VncAuth" -> "challenge"
      [] t = "MSLogon" -> "keys"
      [] t = "Failed"  -> "reason"
      [] OTHER         -> "failed"

\* Mutation: a result is expected from every version.
ExecuteWithResult(t, units) ==
    /\ authScheme' = t
    /\ toServer' = toServer \o units
    /\ pc' = Awaited(t)

\* Mutation: no version sends a result without authentication.
ExecuteWithoutResult(t, units) ==
    /\ authScheme' = t
    /\ IF t = "None"
       THEN SendClientInit(units)
       ELSE toServer' = toServer \o units /\ pc' = Awaited(t)

\* switch (authScheme); `units` have been sent before.
Execute(t, units) ==
    /\ authScheme' = t
    /\ IF t = "None" /\ ~SendsReasons(version)
       THEN SendClientInit(units)
       ELSE toServer' = toServer \o units /\ pc' = Awaited(t)

\* LIBVNCSERVER_HAVE_GNUTLS is defined, GetCredential and clientAuthSchemes
\* are not set.
Selectable == {"None", "VncAuth", "TLS", "VeNCrypt"}

\* The first type of the list that may be selected.
IsSelected(list, i) ==
    /\ i \in DOMAIN list
    /\ list[i] \in Selectable
    /\ \A j \in 1 .. (i - 1) : list[j] \notin Selectable

\* Mutation: a list whose first type may not be selected is given up.
ReadTypesOne ==
    /\ Receive("types")
    /\ \/ /\ Received = << >>
          /\ pc' = "reason"
          /\ UNCHANGED <<toServer, authScheme>>
       \/ /\ IsSelected(Received, 1)
          /\ Execute(Received[1], <<Unit("choice", Received[1])>>)
       \/ /\ Received # << >> /\ Received[1] \notin Selectable
          /\ pc' = "failed"
          /\ UNCHANGED <<toServer, authScheme>>
    /\ UNCHANGED <<server, link, version, answer>>

\* ReadSupportedSecurityType: an empty list comes with a reason.
ReadTypes ==
    /\ Receive("types")
    /\ \/ /\ Received = << >>
          /\ pc' = "reason"
          /\ UNCHANGED <<toServer, authScheme>>
       \/ \E i \in DOMAIN Received :
             /\ IsSelected(Received, i)
             /\ Execute(Received[i], <<Unit("choice", Received[i])>>)
       \/ /\ Received # << >>
          /\ \A i \in DOMAIN Received : Received[i] \notin Selectable
          /\ pc' = "failed"
          /\ UNCHANGED <<toServer, authScheme>>
    /\ UNCHANGED <<server, link, version, answer>>

ReadScheme ==
    /\ Receive("scheme")
    /\ Execute(Received, << >>)
    /\ UNCHANGED <<server, link, version, answer>>

\* HandleVncAuth: an empty password is not sent.
ReadChallenge ==
    /\ Receive("challenge")
    /\ answer' \in Passwords
    /\ IF answer' = NoPassword
       THEN pc' = "failed" /\ UNCHANGED toServer
       ELSE /\ pc' = "result"
            /\ toServer' = Append(toServer, Unit("response", answer'))
    /\ UNCHANGED <<server, link, version, authScheme>>

\* HandleMSLogonAuth: there is no GetCredential.
ReadKeys ==
    /\ Receive("keys")
    /\ pc' = "failed"
    /\ UNCHANGED <<server, link, toServer, version, authScheme, answer>>

\* rfbHandleAuthResult.
ReadResult ==
    /\ Receive("result")
    /\ \/ /\ Received = "OK"
          /\ SendClientInit(<< >>)
       \/ /\ Received # "OK"
          /\ pc' = IF Received = "Failed" /\ SendsReasons(version)
                     THEN "reason" ELSE "failed"
          /\ UNCHANGED toServer
    /\ UNCHANGED <<server, link, version, authScheme, answer>>

\* ReadReason, and the same in rfbHandleAuthResult.
ReadReason ==
    /\ Receive("reason")
    /\ pc' = "failed"
    /\ UNCHANGED <<server, link, toServer, version, authScheme, answer>>

\* The server's parameters and the name of the desktop.
ReadServerInit ==
    /\ Receive("serverInit")
    /\ pc' = "connected"
    /\ UNCHANGED <<server, link, toServer, version, authScheme, answer>>

\* A read, or the write after it, fails: the connection is gone, or the server
\* has closed it and everything is read.
ReadFails ==
    /\ pc \in ServerUnits
    /\ link = "broken" \/ (sPc = "closed" /\ toClient = << >>)
    /\ pc' = "failed"
    /\ UNCHANGED <<server, link, toClient, toServer, version, authScheme,
                   answer>>

Server == Greet \/ ServerVersion \/ ServerChoice \/ ServerResponse
          \/ ServerClientInit
Client == StartHandshake \/ ReadVersion \/ ReadTypes \/ ReadScheme
          \/ ReadChallenge \/ ReadKeys \/ ReadResult \/ ReadReason
          \/ ReadServerInit \/ ReadFails

Next == Server \/ Client \/ Break

Spec == Init /\ [][Next]_vars

\* The worker runs, and so does the server.
FairSpec == Spec /\ WF_vars(Client) /\ WF_vars(Server)

-----------------------------------------------------------------------------
(* Properties.                                                             *)

\* Both sides read the streams in step: what arrives next is what the reader
\* takes it for, in every version and with every security type.
InStep ==
    /\ pc \in ServerUnits /\ toClient # << >> => Head(toClient).kind = pc
    /\ sPc \in ClientUnits /\ toServer # << >> => Head(toServer).kind = sPc

\* A client that is connected and its server speak the same version, no newer
\* than the announced one, and have gone through the same security type, one
\* the server offered; with a password, it was the right one.  Nothing is left
\* in the streams: the next byte begins a message.
Agreement ==
    pc = "connected" =>
        /\ sPc = "serving"
        /\ sVersion = version
        /\ version[1] < announced[1] \/ version[2] <= announced[2]
        /\ sType = authScheme
        /\ sType \in Range(offer)
        /\ sType = "VncAuth" => answer = RightPassword
        /\ toClient = << >> /\ toServer = << >>

\* The first type of the offer that may be selected is one the client can
\* execute.
CanExecute ==
    \E i \in DOMAIN offer :
        IsSelected(offer, i) /\ offer[i] \in {"None", "VncAuth"}

\* The client gives up for a reason only: the connection or the server ends
\* it, the password is empty or wrong, or the security type imposed on it or
\* selected by it is one it cannot execute.
FailsForAReason ==
    pc = "failed" =>
        \/ link = "broken" \/ refused
        \/ authScheme = "VncAuth" /\ answer # RightPassword
        \/ SendsList(version) /\ ~CanExecute
        \/ ~SendsList(version) /\ authScheme = "MSLogon"

\* Every handshake ends, with the client in or out.
HandshakeEnds == <>(pc \in {"connected", "failed"})
=============================================================================
