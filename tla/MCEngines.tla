----------------------------- MODULE MCEngines -----------------------------
(* Two voices of each engine, a 4-bit pico_Int16. *)
EXTENDS Engines

CONSTANTS e1, e2, p1, p2

Espeak == {e1, e2}
Pico2 == {p1, p2}
SecondFile == {<<p2, 2>>}
EveryBuild == SUBSET {"espeak", "pico"}
OnlyPico == {{"pico"}}
=============================================================================
