----------------------------- MODULE MCDeepPlan -----------------------------
(* Instances of DeepPlan for TLC: a reading task k, an operation o1 with    *)
(* one dangerous call, and two syntheses, of which s2 may become one too.   *)
EXTENDS DeepPlan, Functions, TLC

CONSTANTS k, o1, s1, s2, c1, read, op, sum

\* The entries a plan may have for a task, and "no entry".
Entries(jobs, deps) == {[deps |-> {}, job |-> "none"]} \cup [deps : deps, job : jobs]
Listed(p) == Restrict(p, {t \in DOMAIN p : p[t].job # "none"})

\* o1 after k; s1 covers what it lists; s2 is a second synthesis, or is made an
\* operation beside k.
ChainProposals ==
    {Listed((k :> a) @@ (o1 :> b) @@ (s1 :> c) @@ (s2 :> d)) :
        a \in Entries({read}, {{}}), b \in Entries({op}, {{k}}),
        c \in Entries({sum}, {{}, {k}, {o1}}),
        d \in Entries({sum}, {{}}) \cup Entries({op}, {{}})}
=============================================================================
