------------------------------- MODULE MCSync -------------------------------
(* LoggerSync with named sets of shards.                                   *)
EXTENDS LoggerSync

OneOnly == {<<1, 1>>}
OneEach == {<<1, 1>>, <<2, 1>>}
TwoAndOne == {<<1, 1>>, <<1, 2>>, <<2, 1>>}
=============================================================================
