------------------------------ MODULE MCMbrola ------------------------------
(* Small texts for MbrolaSynthesizer. *)
EXTENDS MbrolaSynthesizer

\* One phrase and two, with phones the voice knows, does not know and lacks.
Phrases ==
    {<<"known", "break">>, <<"known", "missing", "break">>, <<"missing", "break", "known">>, <<"unknown", "known", "break", "known">>,
     <<"known", "break", "unknown", "unknown", "break">>, <<"unknown", "break", "unknown", "unknown", "break", "unknown">>}

=============================================================================
