------------------------------- MODULE MCWire -------------------------------
(***************************************************************************)
(* An instance of Wire for TLC.  A length takes two bytes of four values;   *)
(* the frames are the shortest, one of the maximal size and one above it,   *)
(* with bytes that read as lengths when the framing slips.                  *)
(***************************************************************************)
EXTENDS Wire

MCFrames == {<<1>>, <<0, 1>>, <<1, 0, 1>>, <<1, 0, 0, 1>>}

=============================================================================
