----------------------------- MODULE MCSessions -----------------------------
(* Instances of Sessions for TLC.                                          *)
EXTENDS Sessions, TLC

CONSTANTS f1, f2, g1, g2

MCFiles == {f1, f2}
MCGoroutines == {g1, g2}
Interchangeable == Permutations(MCFiles) \union Permutations(MCGoroutines)
=============================================================================
