---------------------------- MODULE ReadingAloud ----------------------------
(***************************************************************************)
(* What cainteoir::tts::speech promises, with no thread, engine or sink in *)
(* it: the texts of a session are read aloud one after the other until     *)
(* there are none left, the session is stopped, or it fails.  A stop is    *)
(* not undone, and lets at most one more text begin.                       *)
(***************************************************************************)
EXTENDS Integers

VARIABLES total,    \* how many texts there are to read
          begun,    \* how many have been begun
          phase,    \* "speaking", "stopping", "ending" (the last text after a stop), "over"
          failed

vars == <<total, begun, phase, failed>>

Init ==
    /\ total \in Nat
    /\ begun = 0
    /\ phase = "speaking"
    /\ failed = FALSE

Say ==
    /\ phase \in {"speaking", "stopping"}
    /\ begun < total
    /\ begun' = begun + 1
    /\ phase' = IF phase = "stopping" THEN "ending" ELSE phase
    /\ UNCHANGED <<total, failed>>

Stop ==
    /\ phase = "speaking"
    /\ phase' = "stopping"
    /\ UNCHANGED <<total, begun, failed>>

End ==
    /\ \/ phase = "speaking" /\ begun = total
       \/ phase \in {"stopping", "ending"}
    /\ phase' = "over"
    /\ UNCHANGED <<total, begun, failed>>

Fail ==
    /\ phase # "over"
    /\ phase' = "over"
    /\ failed' = TRUE
    /\ UNCHANGED <<total, begun>>

Next == Say \/ Stop \/ End \/ Fail

\* A session always comes to its end.
Spec == Init /\ [][Next]_vars /\ WF_vars(Say \/ End \/ Fail)
=============================================================================
