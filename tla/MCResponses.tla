------------------------------ MODULE MCResponses ------------------------------
(***************************************************************************)
(* An instance of Responses for TLC: every chain of at most three layers   *)
(* with Sessioned at most once, one status of each kind.                   *)
(***************************************************************************)
EXTENDS Responses, SequencesExt

MCChains ==
    {ms \in BoundedSeq(Middlewares, 3) :
        \A i, j \in DOMAIN ms :
            (ms[i] = "sessioned" /\ ms[j] = "sessioned") => i = j}
===============================================================================
