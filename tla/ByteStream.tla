----------------------------- MODULE ByteStream -----------------------------
(***************************************************************************)
(* What ReadFromRFBServer promises its callers: the bytes the server sent, *)
(* each once and in order, as many at a time as they ask for.  A byte is   *)
(* its position in the stream.                                             *)
(***************************************************************************)
EXTENDS Naturals, Sequences

VARIABLES sent,       \* bytes the server has sent
          delivered,  \* bytes delivered by the reads so far
          chunk       \* what the last read delivered

vars == <<sent, delivered, chunk>>

Init ==
    /\ sent = 0
    /\ delivered = 0
    /\ chunk = << >>

Send ==
    /\ sent' \in Nat
    /\ sent' > sent
    /\ UNCHANGED <<delivered, chunk>>

Read ==
    /\ delivered' \in delivered .. sent
    /\ chunk' = [i \in 1 .. (delivered' - delivered) |-> delivered + i]
    /\ UNCHANGED sent

Next == Send \/ Read

Spec == Init /\ [][Next]_vars
=============================================================================
