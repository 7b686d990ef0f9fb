-------------------------------- MODULE Once --------------------------------
(* Values that are computed once, however often the definition that takes   *)
(* them looks at them, and folds that are computed from the left.           *)
EXTENDS Integers, Sequences

With(value, Body(_)) == CHOOSE y \in {Body(x) : x \in {value}} : TRUE

\* Op for the elements of a sequence one after the other.
Each(Op(_, _), start, s) ==
    With(s, LAMBDA t : LET go[i \in 0 .. Len(t)] == IF i = 0 THEN start ELSE With(go[i - 1], LAMBDA v : Op(v, t[i]))
                       IN  go[Len(t)])
=============================================================================
