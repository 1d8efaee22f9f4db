------------------------------ MODULE Session -------------------------------
(***************************************************************************)
(* What VncClientThread promises the user interface, whatever its threads  *)
(* do: a request starts from idle, comes to a session or fails, a session  *)
(* ends, and each change is announced, in order, by one notice that the    *)
(* interface shows some time later.  Passwords are asked for only while    *)
(* connecting, before any outcome is known.                                *)
(***************************************************************************)
EXTENDS Naturals, Sequences

VARIABLES phase,    \* "idle", "connecting" or "connected"
          notices,  \* announced, not yet shown
          shown     \* "Disconnected" or "Connected"

vars == <<phase, notices, shown>>

Notice == {"passwordRequest", "connected", "disconnected"}

Init ==
    /\ phase = "idle"
    /\ notices = << >>
    /\ shown = "Disconnected"

Change(from, to) == phase = from /\ phase' = to
Announce(n)      == notices' = Append(notices, n) /\ UNCHANGED shown

Request   == Change("idle", "connecting") /\ UNCHANGED <<notices, shown>>
Ask       == phase = "connecting" /\ Announce("passwordRequest") /\ UNCHANGED phase
Establish == Change("connecting", "connected") /\ Announce("connected")
Fail      == Change("connecting", "idle") /\ Announce("disconnected")
Finish    == Change("connected", "idle") /\ Announce("disconnected")

Show ==
    /\ notices # << >>
    /\ notices' = Tail(notices)
    /\ shown' = CASE Head(notices) = "connected"    -> "Connected"
                  [] Head(notices) = "disconnected" -> "Disconnected"
                  [] OTHER                          -> shown
    /\ UNCHANGED phase

Next == Request \/ Ask \/ Establish \/ Fail \/ Finish \/ Show

Spec == Init /\ [][Next]_vars
=============================================================================
