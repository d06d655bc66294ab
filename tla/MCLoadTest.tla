----------------------------- MODULE MCLoadTest -----------------------------
(* Constants of the TLC run of LoadTest.                                   *)
EXTENDS LoadTest, TLC

CONSTANTS w1, w2

MCConsumers == {w1, w2}
=============================================================================
