------------------------------- MODULE Lists -------------------------------
(***************************************************************************)
(* Lists that are filtered or ranked, in forms about which theorems can be *)
(* proved: the definitions of SelectSeq and SortSeq are out of the         *)
(* prover's reach.                                                         *)
(***************************************************************************)
EXTENDS Naturals, Sequences, FiniteSets, FiniteSetsExt

\* Both bind the list and the set that they are of, so that these are evaluated once.

\* The elements of a set in the order of R, a set of pairs: before each one come as many as its place says.
Ranked(S, R) ==
    LET ranked == [T \in {S} |-> [Q \in {R} |->
                      [i \in 1..Cardinality(T) |-> CHOOSE x \in T : Cardinality({y \in T : <<y, x>> \in Q}) = i - 1]]]
    IN  ranked[S][R] \o <<>>

\* The elements of a sequence at the positions in S, in their order.
Picked(s, S) ==
    LET picked == [t \in {s} |-> [T \in {S} |->
            LET upTo[i \in 0..Len(t)] ==
                    IF i = 0 THEN <<>> ELSE IF i \in T THEN Append(upTo[i - 1], t[i]) ELSE upTo[i - 1]
            IN  upTo[Len(t)]]]
    IN  picked[s][S]

\* The reciprocal 1 / (60 + i) of the first position in "at", in units of 1 / unit; nothing when there is no position.
\* The unit of n makes those of all positions up to n whole.
RankUnit(n) == LET product[k \in 0..n] == IF k = 0 THEN 1 ELSE product[k - 1] * (60 + k) IN product[n]
Reciprocal(unit, at) == Max({0} \cup {unit \div (60 + i) : i \in at})

=============================================================================
