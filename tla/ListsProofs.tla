---------------------------- MODULE ListsProofs -----------------------------
(***************************************************************************)
(* What the proofs about lists rest on: induction over numbers without an  *)
(* operator as a parameter, that recursive functions are what they are     *)
(* defined to be, where repeating a step ends, and what Picked and Ranked  *)
(* (Lists) return.                                                         *)
(***************************************************************************)
EXTENDS Lists, FiniteSetTheorems, SequenceTheorems, WellFoundedInduction, TLAPS

-----------------------------------------------------------------------------
(* Numbers.                                                                *)

\* A set of numbers has a least one.
LEMMA LeastNumber ==
  ASSUME NEW T \in SUBSET Nat, T # {}
  PROVE  \E x \in T : \A y \in T : x <= y
<1> DEFINE less == {p \in Nat \X Nat : p[1] < p[2]}
<1>1. IsWellFoundedOn(less, Nat)
  BY NatLessThanWellFounded DEF OpToRel
<1> HIDE DEF less
<1>2. PICK x \in T : \A y \in T : ~ (<<y, x>> \in less)
  BY <1>1, WFMin
<1>3. ASSUME NEW y \in T PROVE x <= y
  <2>1. <<y, x>> \notin less
    BY <1>2
  <2>2. <<y, x>> \in Nat \X Nat
    OBVIOUS
  <2>3. ~(y < x)
    BY <2>1, <2>2 DEF less
  <2> QED
    BY <2>3
<1> QED
  BY <1>3

\* Induction, as a fact about sets: one that holds 0 and with each number the next one holds all.
LEMMA AllNumbers ==
  ASSUME NEW T \in SUBSET Nat, 0 \in T, \A n \in T : n + 1 \in T
  PROVE  T = Nat
<1> SUFFICES ASSUME Nat \ T # {} PROVE FALSE
  OBVIOUS
<1>1. PICK x \in Nat \ T : \A y \in Nat \ T : x <= y
  BY LeastNumber
<1>2. x - 1 \in T
  BY <1>1
<1>3. (x - 1) + 1 \in T
  BY <1>2
<1> QED
  BY <1>3

\* What holds at the beginning of a loop and is kept by every step holds throughout.
LEMMA LoopStays ==
  ASSUME NEW V, NEW n \in Nat, NEW p, p[0] \in V, \A k \in 1..n : p[k - 1] \in V => p[k] \in V
  PROVE  \A k \in 0..n : p[k] \in V
<1>. DEFINE T == {k \in Nat : k <= n => p[k] \in V}
<1>1. 0 \in T /\ T \in SUBSET Nat
  OBVIOUS
<1>2. ASSUME NEW k \in T PROVE k + 1 \in T
  <2>1. SUFFICES ASSUME k + 1 <= n PROVE p[k + 1] \in V
    OBVIOUS
  <2>2. k + 1 \in 1..n /\ p[k] \in V /\ (k + 1) - 1 = k
    BY <2>1
  <2>. QED
    BY <2>2
<1>3. T = Nat
  <2>. HIDE DEF T
  <2>. QED
    BY <1>1, <1>2, AllNumbers
<1>. QED
  BY <1>3

\* A set of numbers has a minimum, and a maximum if it is bounded.
LEMMA MinIsLeast ==
  ASSUME NEW T \in SUBSET Nat, T # {}
  PROVE  Min(T) \in T /\ \A y \in T : Min(T) <= y
BY LeastNumber DEF Min

LEMMA MaxIsGreatest ==
  ASSUME NEW T \in SUBSET Int, T # {}, NEW b \in Nat, \A x \in T : x <= b
  PROVE  Max(T) \in T /\ \A y \in T : Max(T) >= y
<1> DEFINE below == {b - x : x \in T}
<1>1. below \in SUBSET Nat /\ below # {}
  <2>1. \A x \in T : b - x \in Nat
    OBVIOUS
  <2> QED  BY <2>1
<1>2. PICK m \in below : \A y \in below : m <= y
  BY <1>1, LeastNumber
<1>3. PICK x \in T : m = b - x
  OBVIOUS
<1>4. ASSUME NEW y \in T PROVE x >= y
  <2>1. b - y \in below
    OBVIOUS
  <2>2. m <= b - y
    BY <1>2, <2>1
  <2> QED  BY <1>3, <2>2
<1> QED  BY <1>4 DEF Max

LEMMA MaxOfNumbers ==
  ASSUME NEW T \in SUBSET Nat, T # {}, NEW b \in Nat, \A x \in T : x <= b
  PROVE  Max(T) \in T /\ \A y \in T : Max(T) >= y
<1>1. T \in SUBSET Int
  OBVIOUS
<1> QED
  BY <1>1, MaxIsGreatest

LEMMA Products ==
  ASSUME NEW a \in Nat, NEW b \in Nat, NEW c \in Nat, a <= b
  PROVE  a * c <= b * c
OBVIOUS

LEMMA Quotients ==
  ASSUME NEW a \in Nat, NEW b \in Nat \ {0}
  PROVE  a \div b \in Nat /\ b * (a \div b) <= a /\ a < b * (a \div b) + b
OBVIOUS

-----------------------------------------------------------------------------
(* Recursive functions: that there are functions as they are defined.      *)

\* F takes each value of f to the next one.
Steps(f, n, base, F) == f[0] = base /\ \A k \in 1..n : f[k] = F[k][f[k - 1]]

\* By the number before.
LEMMA StepsExist ==
  ASSUME NEW V, NEW base \in V, NEW F \in [Nat -> [V -> V]], NEW n \in Nat
  PROVE  \E f \in [0..n -> V] : Steps(f, n, base, F)
<1> DEFINE T == {m \in Nat : \E f \in [0..m -> V] : Steps(f, m, base, F)}
<1>1. 0 \in T
  <2>1. [k \in 0..0 |-> base] \in [0..0 -> V] /\ Steps([k \in 0..0 |-> base], 0, base, F)
    BY DEF Steps
  <2> QED
    BY <2>1
<1>2. ASSUME NEW m \in T PROVE m + 1 \in T
  <2>1. PICK f \in [0..m -> V] : Steps(f, m, base, F)
    OBVIOUS
  <2>2. m \in Nat /\ f[m] \in V /\ F[m + 1][f[m]] \in V
    OBVIOUS
  <2> DEFINE g == [k \in 0..(m + 1) |-> IF k <= m THEN f[k] ELSE F[m + 1][f[m]]]
  <2>3. g \in [0..(m + 1) -> V]
    BY <2>2
  <2>4. g[0] = base
    BY <2>1 DEF Steps
  <2>5. ASSUME NEW k \in 1..(m + 1) PROVE g[k] = F[k][g[k - 1]]
    <3>1. CASE k <= m
      <4>1. k \in 1..m /\ g[k] = f[k] /\ g[k - 1] = f[k - 1]
        BY <2>2, <3>1
      <4> HIDE DEF g
      <4> QED
        BY <2>1, <4>1 DEF Steps
    <3>2. CASE k = m + 1
      <4>1. g[k] = F[m + 1][f[m]]
        BY <3>2
      <4>2. g[k - 1] = f[m]
        BY <3>2
      <4> QED
        BY <3>2, <4>1, <4>2
    <3> QED
      BY <3>1, <3>2
  <2> HIDE DEF g
  <2>6. Steps(g, m + 1, base, F)
    BY <2>4, <2>5 DEF Steps
  <2> QED
    BY <2>2, <2>3, <2>6
<1>3. T = Nat
  <2>1. T \in SUBSET Nat
    OBVIOUS
  <2> HIDE DEF T
  <2> QED
    BY <1>1, <1>2, <2>1, AllNumbers
<1> QED
  BY <1>3

\* H gives a function's value from those at arguments of a smaller size.
LooksBack(D, V, size, H) ==
    \A f, g \in [D -> V] : \A x \in D : (\A y \in D : size[y] < size[x] => f[y] = g[y]) => H[f][x] = H[g][x]

Defines(f, D, V, H) == f \in [D -> V] /\ f = H[f]

\* By arguments of a smaller size.
LEMMA RecursionExists ==
  ASSUME NEW D, NEW V, NEW size \in [D -> Nat], NEW H \in [[D -> V] -> [D -> V]], V # {}, LooksBack(D, V, size, H)
  PROVE  \E f : Defines(f, D, V, H)
<1>0. \A f, g \in [D -> V] : \A x \in D : (\A y \in D : size[y] < size[x] => f[y] = g[y]) => H[f][x] = H[g][x]
  BY DEF LooksBack
<1> DEFINE Holds(f, n) == \A x \in D : size[x] < n => f[x] = H[f][x]
           T == {n \in Nat : \E f \in [D -> V] : Holds(f, n)}
<1>1. 0 \in T
  <2>1. PICK v \in V : TRUE
    OBVIOUS
  <2>2. [x \in D |-> v] \in [D -> V] /\ Holds([x \in D |-> v], 0)
    OBVIOUS
  <2> QED
    BY <2>2
<1>2. ASSUME NEW n \in T PROVE n + 1 \in T
  <2>1. PICK f \in [D -> V] : Holds(f, n)
    OBVIOUS
  <2>2. H[f] \in [D -> V]
    OBVIOUS
  <2>3. ASSUME NEW x \in D, size[x] < n + 1 PROVE H[f][x] = H[H[f]][x]
    <3>1. \A y \in D : size[y] < size[x] => f[y] = H[f][y]
      BY <2>1, <2>3
    <3> QED
      BY <1>0, <2>2, <3>1
  <2> QED
    BY <2>2, <2>3
<1>3. T = Nat
  <2>1. T \in SUBSET Nat
    OBVIOUS
  <2> HIDE DEF T
  <2> QED
    BY <1>1, <1>2, <2>1, AllNumbers
<1>4. ASSUME NEW n \in Nat, NEW f \in [D -> V], NEW g \in [D -> V], Holds(f, n), Holds(g, n),
             NEW x \in D, size[x] < n
      PROVE  f[x] = g[x]
  <2> DEFINE U == {m \in Nat : \A y \in D : size[y] < m /\ m <= n => f[y] = g[y]}
  <2>1. 0 \in U
    OBVIOUS
  <2>2. ASSUME NEW m \in U PROVE m + 1 \in U
    <3>1. ASSUME NEW y \in D, size[y] < m + 1, m + 1 <= n PROVE f[y] = g[y]
      <4>1. \A z \in D : size[z] < size[y] => f[z] = g[z]
        BY <3>1
      <4>2. H[f][y] = H[g][y]
        BY <1>0, <4>1
      <4>3. size[y] < n
        BY <3>1
      <4> QED
        BY <1>4, <4>2, <4>3
    <3> QED
      BY <3>1
  <2>3. U = Nat
    <3>1. U \in SUBSET Nat
      OBVIOUS
    <3> HIDE DEF U
    <3> QED
      BY <2>1, <2>2, <3>1, AllNumbers
  <2>4. n \in U
    BY <2>3
  <2> QED
    BY <1>4, <2>4
<1> DEFINE At(n) == CHOOSE f \in [D -> V] : Holds(f, n)
           F == [x \in D |-> At(size[x] + 1)[x]]
<1>5. \A n \in Nat : At(n) \in [D -> V] /\ Holds(At(n), n)
  <2>1. \A n \in Nat : \E f \in [D -> V] : Holds(f, n)
    BY <1>3
  <2> QED
    BY <2>1
<1> HIDE DEF At
<1>6. F \in [D -> V]
  BY <1>5
<1>7. ASSUME NEW x \in D PROVE F[x] = H[F][x]
  <2> DEFINE f == At(size[x] + 1)
  <2>1. f \in [D -> V] /\ Holds(f, size[x] + 1)
    BY <1>5
  <2>2. f[x] = H[f][x]
    BY <2>1
  <2>3. ASSUME NEW y \in D, size[y] < size[x] PROVE F[y] = f[y]
    <3> DEFINE g == At(size[y] + 1)
    <3>1. g \in [D -> V] /\ Holds(g, size[y] + 1)
      BY <1>5
    <3>2. Holds(f, size[y] + 1)
      BY <2>1, <2>3
    <3> HIDE DEF f, g
    <3>3. g[y] = f[y]
      BY <1>4, <2>1, <3>1, <3>2
    <3> QED
      BY <3>3 DEF g
  <2> HIDE DEF f
  <2>4. H[F][x] = H[f][x]
    BY <1>0, <1>6, <2>1, <2>3
  <2> QED
    BY <2>2, <2>4 DEF f
<1>8. H[F] \in [D -> V]
  BY <1>6
<1>9. F = H[F]
  BY <1>6, <1>7, <1>8
<1> HIDE DEF F
<1> QED
  BY <1>6, <1>9 DEF Defines

-----------------------------------------------------------------------------
(* Lists: what is picked from them, and ranked.                            *)

\* The elements of a sequence between two places, and its first ones.
LEMMA Sliced ==
  ASSUME NEW V, NEW b \in Seq(V), NEW e \in 0..Len(b), NEW a \in 0..e
  PROVE  /\ SubSeq(b, a + 1, e) \in Seq(V) /\ Len(SubSeq(b, a + 1, e)) = e - a
         /\ \A i \in 1..(e - a) : SubSeq(b, a + 1, e)[i] = b[a + i]
<1>. DEFINE m == a + 1
            s == SubSeq(b, m, e)
<1>1. a \in Nat /\ e \in Nat /\ a <= e /\ e <= Len(b) /\ m \in Int /\ e \in Int
  OBVIOUS
<1>2. \A i \in m..e : b[i] \in V
  BY <1>1, ElementOfSeq
<1>3. /\ s \in Seq(V) /\ Len(s) = (IF m <= e THEN e - m + 1 ELSE 0)
      /\ \A i \in 1..(e - m + 1) : s[i] = b[m + i - 1]
  <2>. HIDE DEF m
  <2>. QED
    BY ONLY <1>1, <1>2, SubSeqProperties
<1>4. e - m + 1 = e - a /\ Len(s) = e - a
  <2>1. Len(s) = (IF m <= e THEN e - m + 1 ELSE 0)
    BY ONLY <1>3
  <2>. HIDE DEF s
  <2>. QED
    BY ONLY <1>1, <2>1 DEF m
<1>5. ASSUME NEW i \in 1..(e - a) PROVE s[i] = b[a + i]
  <2>1. m + i - 1 = a + i /\ i \in 1..(e - m + 1)
    BY ONLY <1>1, i \in 1..(e - a) DEF m
  <2>. HIDE DEF s, m
  <2>. QED
    BY ONLY <1>3, <2>1
<1>. QED
  BY <1>3, <1>4, <1>5

LEMMA Beginning ==
  ASSUME NEW V, NEW b \in Seq(V), NEW e \in 0..Len(b)
  PROVE  SubSeq(b, 1, e) \in Seq(V) /\ Len(SubSeq(b, 1, e)) = e /\ \A i \in 1..e : SubSeq(b, 1, e)[i] = b[i]
<1>1. 0 \in 0..e /\ e \in Nat
  OBVIOUS
<1>2. /\ SubSeq(b, 0 + 1, e) \in Seq(V) /\ Len(SubSeq(b, 0 + 1, e)) = e - 0
      /\ \A i \in 1..(e - 0) : SubSeq(b, 0 + 1, e)[i] = b[0 + i]
  BY <1>1, Sliced
<1>. QED
  BY <1>1, <1>2

\* One list behind another.
LEMMA Concatenated ==
  ASSUME NEW V, NEW a \in Seq(V), NEW b \in Seq(V)
  PROVE  /\ a \o b \in Seq(V) /\ Len(a \o b) = Len(a) + Len(b) /\ DOMAIN (a \o b) = 1..(Len(a) + Len(b))
         /\ \A i \in DOMAIN a : i \in DOMAIN (a \o b) /\ (a \o b)[i] = a[i]
         /\ \A i \in DOMAIN b : Len(a) + i \in DOMAIN (a \o b) /\ (a \o b)[Len(a) + i] = b[i]
         /\ \A i \in DOMAIN (a \o b) : IF i <= Len(a) THEN i \in DOMAIN a ELSE i - Len(a) \in DOMAIN b /\ i = Len(a) + (i - Len(a))
         /\ Range(a \o b) = Range(a) \cup Range(b)
<1> DEFINE c == a \o b
<1>1. /\ c \in Seq(V) /\ Len(a) \in Nat /\ Len(b) \in Nat /\ Len(c) = Len(a) + Len(b)
      /\ DOMAIN a = 1..Len(a) /\ DOMAIN b = 1..Len(b) /\ DOMAIN c = 1..(Len(a) + Len(b))
  OBVIOUS
<1>2. \A i \in 1..(Len(a) + Len(b)) : c[i] = IF i <= Len(a) THEN a[i] ELSE b[i - Len(a)]
  OBVIOUS
<1> HIDE DEF c
<1>3. \A i \in DOMAIN a : i \in DOMAIN c /\ c[i] = a[i]
  BY ONLY <1>1, <1>2
<1>4. ASSUME NEW i \in DOMAIN b PROVE Len(a) + i \in DOMAIN c /\ c[Len(a) + i] = b[i]
  <2>1. Len(a) + i \in 1..(Len(a) + Len(b)) /\ ~(Len(a) + i <= Len(a)) /\ (Len(a) + i) - Len(a) = i
    BY ONLY <1>1, i \in DOMAIN b
  <2> QED
    BY ONLY <1>1, <1>2, <2>1
<1>5. \A i \in DOMAIN c : IF i <= Len(a) THEN i \in DOMAIN a ELSE i - Len(a) \in DOMAIN b /\ i = Len(a) + (i - Len(a))
  BY ONLY <1>1
<1>6. Range(c) = Range(a) \cup Range(b)
  <2>1. ASSUME NEW i \in DOMAIN c PROVE c[i] \in Range(a) \cup Range(b)
    <3>1. CASE i <= Len(a)
      BY <1>3, <1>5, <3>1 DEF Range
    <3>2. CASE ~(i <= Len(a))
      <4>1. i - Len(a) \in DOMAIN b /\ c[i] = b[i - Len(a)]
        BY <1>4, <1>5, <3>2
      <4> QED
        BY <4>1 DEF Range
    <3> QED
      BY <3>1, <3>2
  <2>2. Range(a) \subseteq Range(c)
    BY <1>3 DEF Range
  <2>3. Range(b) \subseteq Range(c)
    BY <1>4 DEF Range
  <2>4. Range(c) \subseteq Range(a) \cup Range(b)
    BY <2>1 DEF Range
  <2> QED
    BY <2>2, <2>3, <2>4
<1> QED
  BY <1>1, <1>3, <1>4, <1>5, <1>6 DEF c

\* Picked adds each element at a position in S to what is picked of those before it.
PickedBy(p, s, S) ==
    /\ p[0] = <<>> /\ Picked(s, S) = p[Len(s)]
    /\ \A i \in 1..Len(s) : p[i] = IF i \in S THEN Append(p[i - 1], s[i]) ELSE p[i - 1]

LEMMA PickedSteps ==
  ASSUME NEW V, NEW s \in Seq(V), NEW S
  PROVE  \E p \in [0..Len(s) -> Seq(V)] : PickedBy(p, s, S)
<1> DEFINE n == Len(s)
           F == [i \in Nat |-> [x \in Seq(V) |-> IF i \in S /\ i \in 1..n THEN Append(x, s[i]) ELSE x]]
           Made(p) == [i \in 0..n |-> IF i = 0 THEN <<>> ELSE IF i \in S THEN Append(p[i - 1], s[i]) ELSE p[i - 1]]
           q == CHOOSE p : p = Made(p)
<1>1. n \in Nat /\ F \in [Nat -> [Seq(V) -> Seq(V)]] /\ <<>> \in Seq(V)
  OBVIOUS
<1>2. PICK f \in [0..n -> Seq(V)] : Steps(f, n, <<>>, F)
  <2> HIDE DEF F, n
  <2> QED
    BY ONLY <1>1, StepsExist
<1>3. f = Made(f)
  <2>1. ASSUME NEW i \in 0..n, i # 0 PROVE f[i] = IF i \in S THEN Append(f[i - 1], s[i]) ELSE f[i - 1]
    <3>1. i \in 1..n /\ f[i - 1] \in Seq(V)
      BY <2>1
    <3>2. F[i] = [x \in Seq(V) |-> IF i \in S /\ i \in 1..n THEN Append(x, s[i]) ELSE x]
      BY <3>1
    <3> HIDE DEF F
    <3>3. f[i] = F[i][f[i - 1]]
      BY <1>2, <3>1 DEF Steps
    <3> QED
      BY <3>1, <3>2, <3>3
  <2>2. f[0] = <<>>
    BY <1>2 DEF Steps
  <2> QED
    BY <2>1, <2>2
<1>4. q = Made(q)
  BY <1>3
<1>5. Picked(s, S) = q[n]
  <2> DEFINE e(t, T) == (CHOOSE p : p = [i \in 0..Len(t) |-> IF i = 0 THEN <<>>
                                         ELSE IF i \in T THEN Append(p[i - 1], t[i]) ELSE p[i - 1]])[Len(t)]
  <2>1. Picked(s, S) = [t \in {s} |-> [T \in {S} |-> e(t, T)]][s][S]
    BY DEF Picked
  <2>2. q[n] = e(s, S)
    OBVIOUS
  <2> HIDE DEF e
  <2> QED
    BY <2>1, <2>2
<1> HIDE DEF q
<1>6. q[0] = <<>> /\ \A i \in 1..n : q[i] = IF i \in S THEN Append(q[i - 1], s[i]) ELSE q[i - 1]
  <2> HIDE DEF n
  <2>1. 0 \in 0..n /\ \A i \in 1..n : i \in 0..n /\ i # 0
    BY <1>1
  <2> QED
    BY <1>4, <2>1
<1>7. \A k \in 0..n : q[k] \in Seq(V)
  <2> DEFINE T == {k \in Nat : k <= n => q[k] \in Seq(V)}
  <2>1. 0 \in T
    BY <1>1, <1>6
  <2>2. ASSUME NEW k \in T PROVE k + 1 \in T
    <3>1. SUFFICES ASSUME k + 1 <= n PROVE q[k + 1] \in Seq(V)
      OBVIOUS
    <3>2. k + 1 \in 1..n /\ q[k] \in Seq(V) /\ s[k + 1] \in V /\ (k + 1) - 1 = k
      <4>1. k \in Nat /\ (k <= n => q[k] \in Seq(V))
        OBVIOUS
      <4>2. k + 1 \in 1..n /\ q[k] \in Seq(V)
        BY <1>1, <3>1, <4>1
      <4> QED
        BY <4>1, <4>2
    <3>3. q[k + 1] = IF k + 1 \in S THEN Append(q[k], s[k + 1]) ELSE q[k]
      BY ONLY <1>6, <3>2
    <3>4. Append(q[k], s[k + 1]) \in Seq(V)
      BY ONLY <3>2
    <3> QED
      BY <3>2, <3>3, <3>4
  <2>3. T = Nat
    <3>1. T \in SUBSET Nat
      OBVIOUS
    <3> HIDE DEF T
    <3> QED
      BY <2>1, <2>2, <3>1, AllNumbers
  <2> QED
    BY <2>3
<1>8. q \in [0..n -> Seq(V)]
  BY <1>4, <1>7
<1>9. PickedBy(q, s, S)
  BY <1>5, <1>6 DEF PickedBy
<1> QED
  BY <1>8, <1>9

\* What is picked stands in the order in which it stood, and is all that stood at a position in S.
PicksAt(at, s, S) ==
    /\ \A i \in DOMAIN Picked(s, S) : at[i] \in S /\ Picked(s, S)[i] = s[at[i]]
    /\ \A i, j \in DOMAIN Picked(s, S) : i < j => at[i] < at[j]
    /\ \A k \in DOMAIN s : k \in S => \E i \in DOMAIN Picked(s, S) : at[i] = k

LEMMA PickedInOrder ==
  ASSUME NEW V, NEW s \in Seq(V), NEW S
  PROVE  /\ Picked(s, S) \in Seq(V)
         /\ \E at \in [DOMAIN Picked(s, S) -> DOMAIN s] : PicksAt(at, s, S)
<1>p. PICK p \in [0..Len(s) -> Seq(V)] : PickedBy(p, s, S)
  BY PickedSteps
<1> DEFINE n == Len(s)
<1>0. n \in Nat
  OBVIOUS
<1>1. /\ p[0] = <<>> /\ Picked(s, S) = p[n]
      /\ \A i \in 1..n : p[i] = IF i \in S THEN Append(p[i - 1], s[i]) ELSE p[i - 1]
  BY <1>p DEF PickedBy
<1> DEFINE Ordered(k, at) == /\ at \in [1..Len(p[k]) -> 1..k]
                             /\ \A i \in 1..Len(p[k]) : at[i] \in S /\ p[k][i] = s[at[i]]
                             /\ \A i, j \in 1..Len(p[k]) : i < j => at[i] < at[j]
                             /\ \A m \in 1..k : m \in S => \E i \in 1..Len(p[k]) : at[i] = m
           T == {k \in Nat : k <= n => \E at : Ordered(k, at)}
<1>2. 0 \in T
  <2>1. Len(p[0]) = 0
    BY <1>1
  <2> DEFINE none == [i \in {} |-> 0]
  <2>2. 1..Len(p[0]) = {} /\ 1..0 = {} /\ none \in [{} -> {}]
    BY <2>1
  <2> HIDE DEF none
  <2>3. Ordered(0, none)
    BY <2>2
  <2> QED
    BY <2>3
<1>3. ASSUME NEW k \in T PROVE k + 1 \in T
  <2>1. SUFFICES ASSUME k + 1 <= n PROVE \E at : Ordered(k + 1, at)
    <3> HIDE DEF Ordered, n
    <3>1. k + 1 \in Nat
      OBVIOUS
    <3> QED
      BY <3>1
  <2>2. PICK at : Ordered(k, at)
    <3>1. k \in Nat /\ (k <= n => \E at : Ordered(k, at)) /\ n \in Nat
      OBVIOUS
    <3> HIDE DEF Ordered, n
    <3> QED
      BY <2>1, <3>1
  <2>3. p[k] \in Seq(V) /\ k + 1 \in 1..n /\ (k + 1) - 1 = k /\ s[k + 1] \in V
    BY <1>0, <2>1
  <2>4. CASE k + 1 \notin S
    <3>1. p[k + 1] = p[k]
      BY <1>1, <2>3, <2>4
    <3>2. Ordered(k + 1, at)
      BY <2>2, <2>3, <2>4, <3>1
    <3> QED
      BY <3>2
  <2>5. CASE k + 1 \in S
    <3>1. p[k + 1] = Append(p[k], s[k + 1])
      BY <1>1, <2>3, <2>5
    <3> DEFINE m == Len(p[k])
               to == [i \in 1..(m + 1) |-> IF i <= m THEN at[i] ELSE k + 1]
    <3>2. m \in Nat /\ Len(p[k + 1]) = m + 1 /\ p[k + 1][m + 1] = s[k + 1] /\ \A i \in 1..m : p[k + 1][i] = p[k][i]
      BY <2>3, <3>1
    <3>3. to \in [1..(m + 1) -> 1..(k + 1)] /\ to[m + 1] = k + 1 /\ \A i \in 1..m : to[i] = at[i] /\ at[i] \in 1..k
      <4>1. at \in [1..m -> 1..k]
        BY <2>2
      <4> HIDE DEF m
      <4> QED
        BY <3>2, <4>1
    <3> HIDE DEF m, to
    <3>4. \A i \in 1..(m + 1) : to[i] \in S /\ p[k + 1][i] = s[to[i]]
      <4>1. ASSUME NEW i \in 1..m PROVE to[i] \in S /\ p[k + 1][i] = s[to[i]]
        BY <2>2, <3>2, <3>3 DEF m
      <4>2. to[m + 1] \in S /\ p[k + 1][m + 1] = s[to[m + 1]]
        BY <2>5, <3>2, <3>3
      <4>3. \A i \in 1..(m + 1) : i \in 1..m \/ i = m + 1
        BY <3>2
      <4> QED
        BY ONLY <4>1, <4>2, <4>3
    <3>5. \A i, j \in 1..(m + 1) : i < j => to[i] < to[j]
      <4>1. \A i, j \in 1..m : i < j => at[i] < at[j]
        BY <2>2 DEF m
      <4>2. ASSUME NEW i \in 1..(m + 1), NEW j \in 1..(m + 1), i < j PROVE to[i] < to[j]
        <5>1. i \in 1..m /\ (j \in 1..m \/ j = m + 1)
          BY <3>2, <4>2
        <5> QED
          BY <3>3, <4>1, <4>2, <5>1
      <4> QED
        BY <4>2
    <3>6. \A l \in 1..(k + 1) : l \in S => \E i \in 1..(m + 1) : to[i] = l
      <4>1. ASSUME NEW l \in 1..k, l \in S PROVE \E i \in 1..(m + 1) : to[i] = l
        <5>1. PICK i \in 1..m : at[i] = l
          BY <2>2, <4>1 DEF m
        <5> QED
          BY <3>2, <3>3, <5>1
      <4> QED
        BY <3>2, <3>3, <4>1
    <3>7. Ordered(k + 1, to)
      BY <3>2, <3>3, <3>4, <3>5, <3>6
    <3> QED
      BY <3>7
  <2> QED
    BY <2>4, <2>5
<1>4. T = Nat
  <2>1. T \in SUBSET Nat
    OBVIOUS
  <2> HIDE DEF T
  <2> QED
    BY <1>2, <1>3, <2>1, AllNumbers
<1>5. n \in T
  BY <1>0, <1>4
<1>6. PICK at : Ordered(n, at)
  BY <1>0, <1>5
<1>7. DOMAIN p[n] = 1..Len(p[n]) /\ DOMAIN s = 1..n /\ p[n] \in Seq(V)
  OBVIOUS
<1> QED
  <2>1. Picked(s, S) = p[n]
    BY <1>1
  <2>2. p[n] \in Seq(V) /\ at \in [DOMAIN p[n] -> DOMAIN s]
    BY <1>6, <1>7
  <2>3. /\ \A i \in DOMAIN p[n] : at[i] \in S /\ p[n][i] = s[at[i]]
        /\ \A i, j \in DOMAIN p[n] : i < j => at[i] < at[j]
        /\ \A k \in DOMAIN s : k \in S => \E i \in DOMAIN p[n] : at[i] = k
    BY <1>6, <1>7
  <2>4. PicksAt(at, s, S)
    BY <2>1, <2>3 DEF PicksAt
  <2> QED
    BY <2>1, <2>2, <2>4

\* Of the first n positions, the first n elements.
LEMMA PickedPrefix ==
  ASSUME NEW V, NEW s \in Seq(V), NEW n \in 0..Len(s)
  PROVE  /\ Picked(s, 1..n) \in Seq(V) /\ Len(Picked(s, 1..n)) = n
         /\ \A i \in 1..n : Picked(s, 1..n)[i] = s[i]
<1>1. PICK p \in [0..Len(s) -> Seq(V)] : PickedBy(p, s, 1..n)
  BY PickedSteps
<1>2. /\ p[0] = <<>> /\ Picked(s, 1..n) = p[Len(s)]
      /\ \A i \in 1..Len(s) : p[i] = IF i \in 1..n THEN Append(p[i - 1], s[i]) ELSE p[i - 1]
  BY <1>1 DEF PickedBy
<1> DEFINE up(k) == IF k <= n THEN k ELSE n
           T == {k \in Nat : k <= Len(s) => Len(p[k]) = up(k) /\ \A i \in 1..up(k) : p[k][i] = s[i]}
<1>3. Len(s) \in Nat /\ n \in Nat /\ n <= Len(s)
  OBVIOUS
<1>4. 0 \in T
  BY <1>2, <1>3
<1>5. ASSUME NEW k \in T PROVE k + 1 \in T
  <2>1. SUFFICES ASSUME k + 1 <= Len(s)
                 PROVE  Len(p[k + 1]) = up(k + 1) /\ \A i \in 1..up(k + 1) : p[k + 1][i] = s[i]
    OBVIOUS
  <2>2. k \in Nat /\ k + 1 \in 1..Len(s) /\ (k + 1) - 1 = k /\ p[k] \in Seq(V) /\ s[k + 1] \in V
    BY <1>1, <1>3, <2>1
  <2>3. Len(p[k]) = up(k) /\ \A i \in 1..up(k) : p[k][i] = s[i]
    BY <1>3, <2>1, <2>2
  <2>4. p[k + 1] = IF k + 1 \in 1..n THEN Append(p[k], s[k + 1]) ELSE p[k]
    BY ONLY <1>2, <2>2
  <2>5. CASE k + 1 \in 1..n
    <3>1. p[k + 1] = Append(p[k], s[k + 1]) /\ up(k) = k /\ up(k + 1) = k + 1
      BY <1>3, <2>2, <2>4, <2>5
    <3>2. Len(p[k + 1]) = k + 1 /\ p[k + 1][k + 1] = s[k + 1] /\ \A i \in 1..k : p[k + 1][i] = p[k][i]
      BY <2>2, <2>3, <3>1
    <3>3. \A i \in 1..(k + 1) : i \in 1..k \/ i = k + 1
      BY <2>2
    <3> QED
      BY <2>3, <3>1, <3>2, <3>3
  <2>6. CASE k + 1 \notin 1..n
    <3>1. p[k + 1] = p[k] /\ up(k + 1) = up(k)
      BY <1>3, <2>2, <2>4, <2>6
    <3> QED
      BY <2>3, <3>1
  <2> QED
    BY <2>5, <2>6
<1>6. T = Nat
  <2>1. T \in SUBSET Nat
    OBVIOUS
  <2> HIDE DEF T
  <2> QED
    BY <1>4, <1>5, <2>1, AllNumbers
<1>7. Len(s) \in T /\ up(Len(s)) = n /\ p[Len(s)] \in Seq(V)
  BY <1>1, <1>3, <1>6
<1> QED
  BY <1>2, <1>3, <1>7

\* R is a strict total order of the elements of S.
Orders(R, S) ==
    /\ \A x \in S : <<x, x>> \notin R
    /\ \A x, y, z \in S : <<x, y>> \in R /\ <<y, z>> \in R => <<x, z>> \in R
    /\ \A x, y \in S : x # y => <<x, y>> \in R \/ <<y, x>> \in R

\* What is ranked holds every element once, in the order.
LEMMA RankedInOrder ==
  ASSUME NEW S, IsFiniteSet(S), NEW R, Orders(R, S)
  PROVE  /\ Ranked(S, R) \in Seq(S) /\ Len(Ranked(S, R)) = Cardinality(S)
         /\ \A x \in S : \E i \in DOMAIN Ranked(S, R) : Ranked(S, R)[i] = x
         /\ \A i, j \in DOMAIN Ranked(S, R) : i < j => <<Ranked(S, R)[i], Ranked(S, R)[j]>> \in R
<1> DEFINE n == Cardinality(S)
           Before(x) == {y \in S : <<y, x>> \in R}
           place == [x \in S |-> Cardinality(Before(x))]
<1>1. n \in Nat
  BY FS_CardinalityType
<1>2. \A x \in S : IsFiniteSet(Before(x)) /\ place[x] \in Nat
  <2>1. ASSUME NEW x \in S PROVE IsFiniteSet(Before(x)) /\ Cardinality(Before(x)) \in Nat
    <3>1. Before(x) \in SUBSET S
      OBVIOUS
    <3>2. IsFiniteSet(Before(x))
      BY <3>1, FS_Subset
    <3> QED
      BY <3>2, FS_CardinalityType
  <2> QED
    BY <2>1
<1>3. ASSUME NEW x \in S, NEW y \in S, <<x, y>> \in R PROVE place[x] < place[y]
  <2>1. Before(x) \in SUBSET Before(y) /\ x \in Before(y) /\ x \notin Before(x)
    BY <1>3 DEF Orders
  <2>2. Cardinality(Before(x)) <= Cardinality(Before(y))
    BY <1>2, <2>1, FS_Subset
  <2>3. Cardinality(Before(x)) # Cardinality(Before(y))
    BY <1>2, <2>1, FS_Subset
  <2>4. place[x] = Cardinality(Before(x)) /\ place[y] = Cardinality(Before(y))
    OBVIOUS
  <2> QED
    BY <1>2, <2>2, <2>3, <2>4
<1>4. \A x \in S : place[x] \in 0..(n - 1)
  <2>1. ASSUME NEW x \in S PROVE Cardinality(Before(x)) < n
    <3>1. Before(x) \in SUBSET S /\ x \notin Before(x)
      BY DEF Orders
    <3>2. Cardinality(Before(x)) <= n /\ Cardinality(Before(x)) # n
      BY <3>1, FS_Subset
    <3>3. Cardinality(Before(x)) \in Nat
      BY <1>2
    <3> QED
      BY <1>1, <3>2, <3>3
  <2>2. \A x \in S : place[x] = Cardinality(Before(x))
    OBVIOUS
  <2> HIDE DEF place, Before, n
  <2> QED
    BY <1>1, <1>2, <2>1, <2>2
<1> HIDE DEF place
<1>5. place \in Injection(S, 0..(n - 1))
  <2>1. place \in [S -> 0..(n - 1)]
    BY <1>4 DEF place
  <2>2. ASSUME NEW x \in S, NEW y \in S, x # y PROVE place[x] # place[y]
    <3>1. place[x] < place[y] \/ place[y] < place[x]
      BY <1>3, <2>2 DEF Orders
    <3>2. place[x] \in Nat /\ place[y] \in Nat
      BY <1>2
    <3> QED
      BY ONLY <3>1, <3>2
  <2> QED
    BY <2>1, <2>2 DEF Injection, IsInjective
<1>6. place \in Surjection(S, 0..(n - 1))
  <2>1. IsFiniteSet(0..(n - 1)) /\ Cardinality(0..(n - 1)) = n
    BY <1>1, FS_Interval
  <2> QED
    BY <1>5, <2>1, FS_Injection
<1>7. \A x \in S : Cardinality({y \in S : <<y, x>> \in R}) = place[x]
  BY DEF place
<1> DEFINE nth(i) == CHOOSE x \in S : Cardinality({y \in S : <<y, x>> \in R}) = i - 1
           f == [i \in 1..n |-> nth(i)]
<1>8f. \A i \in 1..n : f[i] \in S /\ place[f[i]] = i - 1
  <2> SUFFICES ASSUME NEW i \in 1..n PROVE nth(i) \in S /\ place[nth(i)] = i - 1
    OBVIOUS
  <2>1. i - 1 \in 0..(n - 1)
    BY <1>1
  <2>2. \E x \in S : place[x] = i - 1
    BY <1>6, <2>1 DEF Surjection
  <2>3. \E x \in S : Cardinality({y \in S : <<y, x>> \in R}) = i - 1
    BY <1>7, <2>2
  <2>4. nth(i) \in S /\ Cardinality({y \in S : <<y, nth(i)>> \in R}) = i - 1
    BY <2>3
  <2> HIDE DEF nth
  <2> QED
    BY <1>7, <2>4
<1>9f. Ranked(S, R) = f \o <<>>
  <2> DEFINE e(T, Q) == [i \in 1..Cardinality(T) |-> CHOOSE x \in T : Cardinality({y \in T : <<y, x>> \in Q}) = i - 1]
  <2>1. Ranked(S, R) = [T \in {S} |-> [Q \in {R} |-> e(T, Q)]][S][R] \o <<>>
    BY DEF Ranked
  <2>2. f = e(S, R)
    OBVIOUS
  <2> HIDE DEF e
  <2> QED
    BY <2>1, <2>2
<1> HIDE DEF f, nth
<1>10f. f \in Seq(S) /\ DOMAIN f = 1..n /\ Len(f) = n
  BY <1>1, <1>8f DEF f
<1>11f. Ranked(S, R) = f
  BY <1>9f, <1>10f
<1>8. \A i \in 1..n : Ranked(S, R)[i] \in S /\ place[Ranked(S, R)[i]] = i - 1
  BY <1>8f, <1>11f
<1>9. DOMAIN Ranked(S, R) = 1..n
  BY <1>10f, <1>11f
<1>10. Ranked(S, R) \in Seq(S) /\ Len(Ranked(S, R)) = n
  BY <1>10f, <1>11f
<1>11. ASSUME NEW x \in S PROVE \E i \in 1..n : Ranked(S, R)[i] = x
  <2>1. place[x] + 1 \in 1..n /\ (place[x] + 1) - 1 = place[x]
    BY <1>1, <1>4
  <2> DEFINE y == Ranked(S, R)[place[x] + 1]
  <2>2. y \in S /\ place[y] = place[x]
    BY <1>8, <2>1
  <2>3. y = x
    BY <1>5, <2>2 DEF Injection, IsInjective
  <2> QED
    BY <2>1, <2>3
<1>12. ASSUME NEW i \in 1..n, NEW j \in 1..n, i < j PROVE <<Ranked(S, R)[i], Ranked(S, R)[j]>> \in R
  <2> DEFINE x == Ranked(S, R)[i]
             y == Ranked(S, R)[j]
  <2>1. x \in S /\ y \in S /\ place[x] = i - 1 /\ place[y] = j - 1
    BY <1>8
  <2> HIDE DEF x, y
  <2>2. place[x] < place[y] /\ x # y
    BY <1>1, <1>12, <2>1
  <2>3. <<y, x>> \notin R
    BY <1>2, <1>3, <2>1, <2>2
  <2>4. <<x, y>> \in R
    BY <2>1, <2>2, <2>3 DEF Orders
  <2> QED
    BY <2>4 DEF x, y
<1> QED
  BY <1>9, <1>10, <1>11, <1>12

\* Reciprocal ranks are numbers.
LEMMA UnitIsANumber ==
  ASSUME NEW n \in Nat
  PROVE  RankUnit(n) \in Nat
<1> DEFINE F == [k \in Nat |-> [x \in Nat |-> x * (60 + k)]]
           Made(p) == [k \in 0..n |-> IF k = 0 THEN 1 ELSE p[k - 1] * (60 + k)]
           q == CHOOSE p : p = Made(p)
<1>1. n \in Nat /\ F \in [Nat -> [Nat -> Nat]] /\ 1 \in Nat
  <2>1. \A k, x \in Nat : x * (60 + k) \in Nat
    OBVIOUS
  <2> QED
    BY <2>1
<1>2. PICK f \in [0..n -> Nat] : Steps(f, n, 1, F)
  <2> HIDE DEF F
  <2> QED
    BY ONLY <1>1, StepsExist
<1>3. f = Made(f)
  <2>1. ASSUME NEW k \in 0..n, k # 0 PROVE f[k] = f[k - 1] * (60 + k)
    <3>1. k \in 1..n /\ f[k - 1] \in Nat /\ k \in Nat
      BY <1>1, <2>1
    <3>2. f[k] = F[k][f[k - 1]]
      <4> HIDE DEF F
      <4> QED
        BY <1>2, <3>1 DEF Steps
    <3> QED
      BY <3>1, <3>2
  <2>2. f[0] = 1
    BY <1>2 DEF Steps
  <2> QED
    BY <2>1, <2>2
<1>4. q = Made(q)
  <2> HIDE DEF Made
  <2> QED
    BY <1>3
<1>5. RankUnit(n) = q[n]
  BY DEF RankUnit
<1> HIDE DEF q
<1>6. q[0] = 1 /\ \A k \in 1..n : q[k] = q[k - 1] * (60 + k)
  <2>1. 0 \in 0..n /\ \A k \in 1..n : k \in 0..n /\ k # 0
    BY <1>1
  <2> QED
    BY <1>4, <2>1
<1> DEFINE T == {k \in Nat : k <= n => q[k] \in Nat}
<1>7. 0 \in T
  BY <1>6
<1>8. ASSUME NEW k \in T PROVE k + 1 \in T
  <2>1. SUFFICES ASSUME k + 1 <= n PROVE q[k + 1] \in Nat
    OBVIOUS
  <2>2. k + 1 \in 1..n /\ q[k] \in Nat /\ (k + 1) - 1 = k /\ k \in Nat
    BY <1>1, <2>1
  <2>3. q[k + 1] = q[k] * (60 + (k + 1))
    BY <1>6, <2>2
  <2> QED
    BY <2>2, <2>3
<1>9. T = Nat
  <2>1. T \in SUBSET Nat
    OBVIOUS
  <2> HIDE DEF T
  <2> QED
    BY <1>7, <1>8, <2>1, AllNumbers
<1> QED
  BY <1>1, <1>5, <1>9

LEMMA ReciprocalsAreNumbers ==
  ASSUME NEW unit \in Nat, NEW at \in SUBSET Nat
  PROVE  Reciprocal(unit, at) \in Nat
<1> DEFINE values == {unit \div (60 + i) : i \in at}
           all == {0} \cup values
<1>1. Reciprocal(unit, at) = Max(all)
  BY DEF Reciprocal
<1>2. \A i \in Nat : unit \div (60 + i) \in Nat /\ unit \div (60 + i) <= unit
  <2>1. ASSUME NEW i \in Nat PROVE unit \div (60 + i) \in Nat /\ unit \div (60 + i) <= unit
    <3> DEFINE d == 60 + i
               x == unit \div d
    <3>1. d \in Nat \ {0} /\ d >= 1
      OBVIOUS
    <3>2. x \in Nat /\ d * x <= unit
      <4> HIDE DEF d
      <4> QED
        BY <3>1, Quotients
    <3> HIDE DEF x, d
    <3>3. 1 * x <= d * x
      BY <3>1, <3>2, Products
    <3>4. d * x \in Nat /\ 1 * x = x
      BY <3>1, <3>2
    <3>5. x <= unit
      BY ONLY <3>2, <3>3, <3>4
    <3> QED
      BY <3>2, <3>5 DEF x, d
  <2> QED
    BY <2>1
<1>3. all \in SUBSET Nat /\ all # {} /\ \A x \in all : x <= unit
  BY <1>2
<1> HIDE DEF all
<1>4. Max(all) \in all
  BY <1>3, MaxOfNumbers
<1> QED
  BY <1>1, <1>3, <1>4

-----------------------------------------------------------------------------
(* Where repeating a step ends.                                            *)

Repeats(f, n, x, F, V) == f \in [0..n -> V] /\ f[0] = x /\ \A k \in 1..n : f[k] = F[f[k - 1]]

\* Repeating F leads from x to e, which F leaves as it is.
EndsIn(x, e, F, V) == \E n \in Nat : \E f : Repeats(f, n, x, F, V) /\ f[n] = e /\ F[e] = e

LEMMA EndStays ==
  ASSUME NEW V, NEW F, NEW n \in Nat, NEW x, NEW f, Repeats(f, n, x, F, V), NEW k \in 0..n, F[f[k]] = f[k]
  PROVE  f[n] = f[k]
<1>. DEFINE T == {j \in Nat : k + j <= n => f[k + j] = f[k]}
<1>1. 0 \in T
  OBVIOUS
<1>2. ASSUME NEW j \in T PROVE j + 1 \in T
  <2>1. SUFFICES ASSUME k + (j + 1) <= n PROVE f[k + (j + 1)] = f[k]
    OBVIOUS
  <2>2. k + j <= n /\ k + (j + 1) \in 1..n /\ (k + (j + 1)) - 1 = k + j /\ f[k + j] = f[k]
    BY <2>1
  <2>3. f[k + (j + 1)] = F[f[k + j]]
    BY ONLY <2>2, Repeats(f, n, x, F, V) DEF Repeats
  <2>. QED
    BY ONLY <2>2, <2>3, F[f[k]] = f[k]
<1>3. T = Nat
  <2>1. T \in SUBSET Nat
    OBVIOUS
  <2>. HIDE DEF T
  <2>. QED
    BY <1>1, <1>2, <2>1, AllNumbers
<1>4. n - k \in T /\ k + (n - k) = n
  <2>1. n - k \in Nat /\ k + (n - k) = n
    OBVIOUS
  <2>. HIDE DEF T
  <2>. QED
    BY ONLY <1>3, <2>1
<1>. QED
  BY <1>4

LEMMA SameSteps ==
  ASSUME NEW V, NEW F, NEW x, NEW n \in Nat, NEW f, Repeats(f, n, x, F, V), NEW m \in Nat, NEW g, Repeats(g, m, x, F, V), n <= m
  PROVE  f[n] = g[n]
<1>. DEFINE T == {j \in Nat : j <= n => f[j] = g[j]}
<1>1. 0 \in T
  BY DEF Repeats
<1>2. ASSUME NEW j \in T PROVE j + 1 \in T
  <2>1. SUFFICES ASSUME j + 1 <= n PROVE f[j + 1] = g[j + 1]
    OBVIOUS
  <2>2. j + 1 \in 1..n /\ j + 1 \in 1..m /\ (j + 1) - 1 = j /\ f[j] = g[j]
    BY <2>1
  <2>3. f[j + 1] = F[f[j]] /\ g[j + 1] = F[g[j]]
    BY ONLY <2>2, Repeats(f, n, x, F, V), Repeats(g, m, x, F, V) DEF Repeats
  <2>. QED
    BY ONLY <2>2, <2>3
<1>3. T = Nat
  <2>1. T \in SUBSET Nat
    OBVIOUS
  <2>. HIDE DEF T
  <2>. QED
    BY <1>1, <1>2, <2>1, AllNumbers
<1>. QED
  BY <1>3

LEMMA OnlyEnd ==
  ASSUME NEW V, NEW F, NEW x, NEW d, NEW e, EndsIn(x, d, F, V), EndsIn(x, e, F, V)
  PROVE  d = e
<1>1. PICK n \in Nat : \E f : Repeats(f, n, x, F, V) /\ f[n] = d /\ F[d] = d
  BY DEF EndsIn
<1>2. PICK f : Repeats(f, n, x, F, V) /\ f[n] = d /\ F[d] = d
  BY <1>1
<1>3. PICK m \in Nat : \E g : Repeats(g, m, x, F, V) /\ g[m] = e /\ F[e] = e
  BY DEF EndsIn
<1>4. PICK g : Repeats(g, m, x, F, V) /\ g[m] = e /\ F[e] = e
  BY <1>3
<1>5. CASE n <= m
  <2>1. f[n] = g[n] /\ n \in 0..m
    BY <1>2, <1>4, <1>5, SameSteps
  <2>2. F[g[n]] = g[n]
    BY <1>2, <2>1
  <2>3. g[m] = g[n]
    BY ONLY <1>4, <2>1, <2>2, m \in Nat, EndStays
  <2>. QED
    BY <1>2, <1>4, <2>1, <2>3
<1>6. CASE m <= n
  <2>1. g[m] = f[m] /\ m \in 0..n
    BY <1>2, <1>4, <1>6, SameSteps
  <2>2. F[f[m]] = f[m]
    BY <1>4, <2>1
  <2>3. f[n] = f[m]
    BY ONLY <1>2, <2>1, <2>2, n \in Nat, EndStays
  <2>. QED
    BY <1>2, <1>4, <2>1, <2>3
<1>. QED
  BY <1>5, <1>6

LEMMA EndAtOnce ==
  ASSUME NEW V, NEW F, NEW x \in V, F[x] = x
  PROVE  EndsIn(x, x, F, V)
<1>. DEFINE f == [k \in 0..0 |-> x]
<1>1. Repeats(f, 0, x, F, V) /\ f[0] = x
  BY DEF Repeats
<1>. HIDE DEF f
<1>. QED
  BY <1>1 DEF EndsIn

LEMMA EndAfterStep ==
  ASSUME NEW V, NEW F, NEW x, NEW e, EndsIn(x, e, F, V)
  PROVE  EndsIn(F[x], e, F, V)
<1>1. PICK n \in Nat : \E f : Repeats(f, n, x, F, V) /\ f[n] = e /\ F[e] = e
  BY DEF EndsIn
<1>2. PICK f : Repeats(f, n, x, F, V) /\ f[n] = e /\ F[e] = e
  BY <1>1
<1>3. CASE n = 0
  <2>1. x = e
    BY <1>2, <1>3 DEF Repeats
  <2>2. F[x] = x
    BY <1>2, <2>1
  <2>. QED
    BY <2>2
<1>4. CASE n # 0
  <2>. DEFINE m == n - 1
              h == [k \in 0..m |-> f[k + 1]]
  <2>1. m \in Nat /\ m + 1 = n /\ \A k \in 0..m : k + 1 \in 1..n /\ k + 1 \in 0..n
    BY <1>4
  <2>2. \A k \in 1..m : k \in 0..m /\ k - 1 \in 0..m /\ (k - 1) + 1 = k /\ (k + 1) - 1 = k
    BY <2>1
  <2>3. f \in [0..n -> V] /\ f[0] = x /\ \A k \in 1..n : f[k] = F[f[k - 1]]
    BY <1>2 DEF Repeats
  <2>. HIDE DEF m
  <2>4. h \in [0..m -> V]
    BY ONLY <2>1, <2>3
  <2>5. h[0] = F[x] /\ h[m] = e
    <3>1. 0 \in 0..m /\ m \in 0..m /\ 1 \in 1..n /\ 0 + 1 = 1 /\ 1 - 1 = 0
      BY <2>1
    <3>. QED
      BY <1>2, <2>1, <2>3, <3>1
  <2>6. \A k \in 1..m : h[k] = F[h[k - 1]]
    BY ONLY <2>1, <2>2, <2>3
  <2>. HIDE DEF h
  <2>7. Repeats(h, m, F[x], F, V)
    BY ONLY <2>4, <2>5, <2>6 DEF Repeats
  <2>. QED
    BY <1>2, <2>1, <2>5, <2>7 DEF EndsIn
<1>. QED
  BY <1>3, <1>4

Shrinks(F, V, size) == \A y \in V : F[y] # y => size[F[y]] < size[y]

\* Steps that make something smaller come to an end.
LEMMA EndComes ==
  ASSUME NEW V, NEW F \in [V -> V], NEW size \in [V -> Nat], Shrinks(F, V, size),
         NEW x \in V, NEW n \in Nat, size[x] <= n, NEW f, Repeats(f, n, x, F, V)
  PROVE  EndsIn(x, f[n], F, V)
<1>. DEFINE T == {k \in Nat : k <= n => F[f[k]] = f[k] \/ size[f[k]] + k <= n}
<1>0. f \in [0..n -> V] /\ f[0] = x /\ \A k \in 1..n : f[k] = F[f[k - 1]]
  BY DEF Repeats
<1>s. \A y \in V : F[y] # y => size[F[y]] < size[y]
  BY DEF Shrinks
<1>1. 0 \in T
  BY <1>0
<1>2. ASSUME NEW k \in T PROVE k + 1 \in T
  <2>1. SUFFICES ASSUME k + 1 <= n PROVE F[f[k + 1]] = f[k + 1] \/ size[f[k + 1]] + (k + 1) <= n
    OBVIOUS
  <2>2. k \in Nat /\ k \in 0..n /\ k + 1 \in 1..n /\ (k + 1) - 1 = k /\ (F[f[k]] = f[k] \/ size[f[k]] + k <= n)
    BY <2>1
  <2>3. f[k + 1] = F[f[k]] /\ f[k] \in V /\ F[f[k]] \in V
    BY ONLY <1>0, <2>2, F \in [V -> V]
  <2>4. CASE F[f[k]] = f[k]
    BY <2>3, <2>4
  <2>5. CASE F[f[k]] # f[k]
    <3>. DEFINE a == size[f[k]]
                c == size[f[k + 1]]
    <3>1. a \in Nat /\ c \in Nat /\ c < a /\ a + k <= n
      BY <1>s, <2>2, <2>3, <2>5
    <3>. HIDE DEF a, c
    <3>2. c + (k + 1) <= n
      BY <2>2, <3>1
    <3>. QED
      BY <3>2 DEF c
  <2>. QED
    BY <2>4, <2>5
<1>3. T = Nat
  <2>1. T \in SUBSET Nat
    OBVIOUS
  <2>. HIDE DEF T
  <2>. QED
    BY <1>1, <1>2, <2>1, AllNumbers
<1>4. f[n] \in V
  BY <1>0
<1>5. F[f[n]] = f[n] \/ size[f[n]] + n <= n
  BY <1>3
<1>6. ASSUME F[f[n]] # f[n] PROVE FALSE
  <2>1. size[f[n]] \in Nat /\ size[F[f[n]]] \in Nat /\ size[F[f[n]]] < size[f[n]] /\ size[f[n]] + n <= n
    BY <1>4, <1>5, <1>6, <1>s
  <2>. QED
    BY <2>1
<1>7. n \in Nat /\ Repeats(f, n, x, F, V) /\ F[f[n]] = f[n]
  BY <1>6
<1>. QED
  BY ONLY <1>7 DEF EndsIn

=============================================================================
