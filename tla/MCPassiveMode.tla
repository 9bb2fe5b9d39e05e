---------------------------- MODULE MCPassiveMode ----------------------------
(* PassiveMode for model checking: sessions are interchangeable, ports are *)
(* numbers because the pool hands out the lowest one first.                *)
EXTENDS PassiveMode, TLC

Symmetry == Permutations(Sessions)
=============================================================================
