------------------------------- MODULE MCCodec --------------------------------
(* An instance of CompactCodec for TLC. *)
EXTENDS CompactCodec

\* Payloads: none, one word, two words.
ThreeBodies == {<<>>, <<"b1">>, <<"b1", "b2">>}
=============================================================================
