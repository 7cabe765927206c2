----------------------------- MODULE MCKvCache -----------------------------
(* One KVarN layer in front of one F16 layer, five rows: a sink of one, two    *)
(* blocks of two.                                                              *)
EXTENDS KvCache, TLC
CONSTANTS a, b
MCFormats == <<"kvarn", "f16">>
TokenSymmetry == Permutations(Tokens)
=============================================================================
