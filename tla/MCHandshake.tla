------------------------------ MODULE MCHandshake ------------------------------
(***************************************************************************)
(* Instances of Handshake for TLC.                                         *)
(***************************************************************************)
EXTENDS Handshake, SequencesExt

\* A version of every kind the client tells apart.
MCVersions == {<<3, 3>>, <<3, 5>>, <<3, 7>>, <<3, 8>>, <<3, 16>>, <<3, 889>>,
               <<4, 1>>}

\* Every list of at most three security types.
MCOffers == SeqOf(SecurityType, 3) \ {<< >>}
=============================================================================
