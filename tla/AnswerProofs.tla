---------------------------- MODULE AnswerProofs ----------------------------
(***************************************************************************)
(* Proofs about what a reader sees of an answer while it is written        *)
(* (AnswerDecoder, CitationStream).                                        *)
(***************************************************************************)
EXTENDS MCContext, ListsProofs

-----------------------------------------------------------------------------
(* The answer of a deep run.                                               *)

Bytes == {"a", "r3", "r", "esc", "n", "u", "0", "DC", "D8", "begin", "end", "ws", "response", "other", ":", "quote"}

Decoders == [header : Seq(Bytes), pending : Seq(Bytes), value : BOOLEAN, started : BOOLEAN, done : BOOLEAN,
             out : Seq(Units), bad : BOOLEAN]

\* The bytes of every unit, and that no two units have the same.
LEMMA BytesOfUnits ==
  /\ \A u \in Units : UnitBytes(u) \in Seq(Bytes) /\ Len(UnitBytes(u)) \in 1..12
  /\ \A u, v \in Units : UnitBytes(u) = UnitBytes(v) => u = v
<1>1. /\ UnitBytes("ascii") = <<"a">>
      /\ UnitBytes("rune") = <<"r3", "r", "r">>
      /\ UnitBytes("escape") = <<"esc", "n">>
      /\ UnitBytes("code") = <<"esc", "u", "0", "0", "0", "0">>
      /\ UnitBytes("low") = <<"esc", "u", "DC", "0", "0", "0">>
      /\ UnitBytes("pair") = <<"esc", "u", "D8", "0", "0", "0", "esc", "u", "DC", "0", "0", "0">>
  BY DEF UnitBytes
<1>2. /\ Len(UnitBytes("ascii")) = 1 /\ Len(UnitBytes("rune")) = 3 /\ Len(UnitBytes("escape")) = 2
      /\ Len(UnitBytes("code")) = 6 /\ Len(UnitBytes("low")) = 6 /\ Len(UnitBytes("pair")) = 12
      /\ UnitBytes("code")[3] = "0" /\ UnitBytes("low")[3] = "DC"
  BY <1>1
<1>3. /\ UnitBytes("ascii") \in Seq(Bytes) /\ UnitBytes("rune") \in Seq(Bytes) /\ UnitBytes("escape") \in Seq(Bytes)
      /\ UnitBytes("code") \in Seq(Bytes) /\ UnitBytes("low") \in Seq(Bytes) /\ UnitBytes("pair") \in Seq(Bytes)
  <2>1. /\ "a" \in Bytes /\ "r3" \in Bytes /\ "r" \in Bytes /\ "esc" \in Bytes /\ "n" \in Bytes /\ "u" \in Bytes
        /\ "0" \in Bytes /\ "DC" \in Bytes /\ "D8" \in Bytes
    BY DEF Bytes
  <2>2. <<"a">> \in Seq(Bytes) /\ <<"r3", "r", "r">> \in Seq(Bytes) /\ <<"esc", "n">> \in Seq(Bytes)
    BY ONLY <2>1
  <2>3. <<"esc", "u", "0", "0", "0", "0">> \in Seq(Bytes)
    BY ONLY <2>1
  <2>4. <<"esc", "u", "DC", "0", "0", "0">> \in Seq(Bytes)
    BY ONLY <2>1
  <2>5. <<"esc", "u", "D8", "0", "0", "0", "esc", "u", "DC", "0", "0", "0">> \in Seq(Bytes)
    BY ONLY <2>1
  <2>. QED
    BY ONLY <1>1, <2>2, <2>3, <2>4, <2>5
<1>4. \A u, v \in Units : UnitBytes(u) = UnitBytes(v) => u = v
  <2>1. ASSUME NEW u \in Units, NEW v \in Units, UnitBytes(u) = UnitBytes(v) PROVE u = v
    <3>1. Len(UnitBytes(u)) = Len(UnitBytes(v)) /\ UnitBytes(u)[3] = UnitBytes(v)[3]
      BY <2>1
    <3>2. /\ u = "ascii" \/ u = "rune" \/ u = "escape" \/ u = "code" \/ u = "low" \/ u = "pair"
          /\ v = "ascii" \/ v = "rune" \/ v = "escape" \/ v = "code" \/ v = "low" \/ v = "pair"
      BY DEF Units
    <3>. DEFINE L(x) == Len(UnitBytes(x))
                T(x) == UnitBytes(x)[3]
    <3>3. /\ L("ascii") = 1 /\ L("rune") = 3 /\ L("escape") = 2 /\ L("code") = 6 /\ L("low") = 6 /\ L("pair") = 12
          /\ T("code") = "0" /\ T("low") = "DC" /\ L(u) = L(v) /\ T(u) = T(v)
      BY <1>2, <3>1
    <3>. HIDE DEF L, T
    <3>. QED
      BY ONLY <3>2, <3>3
  <2>. QED
    BY <2>1
<1>5. \A u \in Units : UnitBytes(u) \in Seq(Bytes) /\ Len(UnitBytes(u)) \in 1..12
  BY ONLY <1>2, <1>3 DEF Units
<1>. QED
  BY <1>4, <1>5

LEMMA UnitIsRead == \A u \in Units : UnitOf(UnitBytes(u)) = u
<1>. SUFFICES ASSUME NEW u \in Units PROVE UnitOf(UnitBytes(u)) = u
  OBVIOUS
<1>. DEFINE b == UnitBytes(u)
<1>1. \A v \in Units : UnitBytes(v) = b <=> v = u
  BY BytesOfUnits
<1>. HIDE DEF b
<1>2. \E v \in Units : UnitBytes(v) = b
  BY <1>1
<1>3. UnitOf(b) = CHOOSE x \in Units \cup {"bad"} : x # "bad" /\ UnitBytes(x) = b
  BY <1>2 DEF UnitOf
<1>4. "bad" \notin Units
  BY DEF Units
<1>5. \A x \in Units \cup {"bad"} : x # "bad" /\ UnitBytes(x) = b <=> x = u
  BY <1>1, <1>4
<1>6. UnitOf(b) = u
  BY <1>3, <1>4, <1>5
<1>. QED
  BY <1>6 DEF b

\* The bytes of a body, unit by unit.
BodyBy(b, us) ==
    /\ b[0] = <<>> /\ Body(us) = b[Len(us)]
    /\ \A i \in 1..Len(us) : b[i] = b[i - 1] \o UnitBytes(us[i])

LEMMA BodySteps ==
  ASSUME NEW us \in Seq(Units)
  PROVE  \E b \in [0..Len(us) -> Seq(Bytes)] : BodyBy(b, us)
<1>. DEFINE n == Len(us)
            W == Seq(Bytes)
            F == [i \in Nat |-> [x \in W |-> IF i \in 1..n THEN x \o UnitBytes(us[i]) ELSE x]]
            Made(p) == [i \in 0..n |-> IF i = 0 THEN <<>> ELSE p[i - 1] \o UnitBytes(us[i])]
            q == CHOOSE p : p = Made(p)
<1>1. n \in Nat /\ <<>> \in W /\ \A i \in 1..n : UnitBytes(us[i]) \in W
  BY BytesOfUnits
<1>2. F \in [Nat -> [W -> W]]
  <2>1. ASSUME NEW i \in Nat, NEW x \in W PROVE (IF i \in 1..n THEN x \o UnitBytes(us[i]) ELSE x) \in W
    <3>1. CASE i \in 1..n
      <4>1. UnitBytes(us[i]) \in W
        BY <1>1, <3>1
      <4>. QED
        BY <3>1, <4>1
    <3>2. CASE i \notin 1..n
      BY <3>2
    <3>. QED
      BY <3>1, <3>2
  <2>. HIDE DEF W, n
  <2>. QED
    BY <2>1
<1>3. PICK f \in [0..n -> W] : Steps(f, n, <<>>, F)
  <2>. HIDE DEF F, n, W
  <2>. QED
    BY ONLY <1>1, <1>2, StepsExist
<1>4. f = Made(f)
  <2>1. ASSUME NEW i \in 0..n, i # 0 PROVE f[i] = f[i - 1] \o UnitBytes(us[i])
    <3>1. i \in 1..n /\ f[i - 1] \in W
      BY <2>1
    <3>2. F[i] = [x \in W |-> IF i \in 1..n THEN x \o UnitBytes(us[i]) ELSE x]
      BY <3>1
    <3>. HIDE DEF F
    <3>3. f[i] = F[i][f[i - 1]]
      BY <1>3, <3>1 DEF Steps
    <3>. HIDE DEF W
    <3>. QED
      BY <3>1, <3>2, <3>3
  <2>2. f[0] = <<>>
    BY <1>3 DEF Steps
  <2>. QED
    BY <2>1, <2>2
<1>5. q = Made(q)
  BY <1>4
<1>6. Body(us) = q[n]
  BY DEF Body
<1>. HIDE DEF q
<1>7. q[0] = <<>> /\ \A i \in 1..n : q[i] = q[i - 1] \o UnitBytes(us[i])
  <2>. HIDE DEF n
  <2>1. 0 \in 0..n /\ \A i \in 1..n : i \in 0..n /\ i # 0
    BY <1>1
  <2>. QED
    BY <1>5, <2>1
<1>8. \A k \in 0..n : q[k] \in W
  <2>. DEFINE T == {k \in Nat : k <= n => q[k] \in W}
  <2>1. 0 \in T
    BY <1>1, <1>7
  <2>2. ASSUME NEW k \in T PROVE k + 1 \in T
    <3>1. SUFFICES ASSUME k + 1 <= n PROVE q[k + 1] \in W
      OBVIOUS
    <3>. HIDE DEF W
    <3>2. k + 1 \in 1..n /\ q[k] \in W /\ (k + 1) - 1 = k
      BY <1>1, <3>1
    <3>3. q[k + 1] = q[k] \o UnitBytes(us[k + 1]) /\ UnitBytes(us[k + 1]) \in W
      BY ONLY <1>1, <1>7, <3>2
    <3>. QED
      BY ONLY <3>2, <3>3 DEF W
  <2>3. T = Nat
    <3>1. T \in SUBSET Nat
      OBVIOUS
    <3>. HIDE DEF T
    <3>. QED
      BY <2>1, <2>2, <3>1, AllNumbers
  <2>. QED
    BY <1>1, <2>3
<1>9. q \in [0..n -> W]
  BY <1>5, <1>8
<1>. QED
  BY <1>6, <1>7, <1>9 DEF BodyBy

\* An answer as it is written: w has its bytes, its header and key, its units, and the place at which each unit ends.
Spells(w) ==
    /\ w.bytes \in Seq(Bytes) /\ w.header \in Header /\ w.key \in {"response", "other"} /\ w.units \in Seq(Units)
    /\ w.place \in [0..Len(w.units) -> Nat] /\ w.place[0] = Len(w.header) + 1
    /\ \A k \in 1..Len(w.units) : w.place[k] = w.place[k - 1] + Len(UnitBytes(w.units[k]))
    /\ \A k \in 0..Len(w.units) : w.place[k] <= w.place[Len(w.units)]
    /\ \A i \in 1..Len(w.header) : w.bytes[i] = IF w.header[i] = "response" THEN w.key ELSE w.header[i]
    /\ w.bytes[Len(w.header) + 1] = "quote"
    /\ \A k \in 1..Len(w.units) : \A j \in 1..Len(UnitBytes(w.units[k])) :
          w.bytes[w.place[k - 1] + j] = UnitBytes(w.units[k])[j]
    /\ w.bytes[w.place[Len(w.units)] + 1] = "quote"
    /\ Len(w.bytes) = w.place[Len(w.units)] + 2

KeyOf(h, f) == [i \in DOMAIN h |-> IF h[i] = "response" THEN f ELSE h[i]]

LEMMA HeaderBytes ==
  ASSUME NEW h \in Header, NEW f \in {"response", "other"}
  PROVE  (Len(h) = 3 \/ Len(h) = 5) /\ h \in Seq(Bytes) /\ KeyOf(h, f) \in Seq(Bytes) /\ Len(KeyOf(h, f)) = Len(h)
<1>. DEFINE k == KeyOf(h, f)
<1>1. "begin" \in Bytes /\ "ws" \in Bytes /\ "response" \in Bytes /\ "other" \in Bytes /\ ":" \in Bytes
  BY DEF Bytes
<1>0. h = <<"begin", "response", ":">> \/ h = <<"begin", "ws", "response", ":", "ws">>
  BY DEF Header
<1>2. (Len(h) = 3 \/ Len(h) = 5) /\ h \in Seq(Bytes)
  <2>1. <<"begin", "response", ":">> \in Seq(Bytes) /\ Len(<<"begin", "response", ":">>) = 3
    BY ONLY <1>1
  <2>2. <<"begin", "ws", "response", ":", "ws">> \in Seq(Bytes) /\ Len(<<"begin", "ws", "response", ":", "ws">>) = 5
    BY ONLY <1>1
  <2>. QED
    BY ONLY <1>0, <2>1, <2>2
<1>3. DOMAIN h = 1..Len(h) /\ Len(h) \in Nat /\ h = [i \in 1..Len(h) |-> h[i]] /\ \A i \in 1..Len(h) : h[i] \in Bytes
  BY <1>2
<1>4. k \in [1..Len(h) -> Bytes] /\ h \in [1..Len(h) -> Bytes]
  <2>1. \A i \in 1..Len(h) : h[i] \in Bytes /\ (IF h[i] = "response" THEN f ELSE h[i]) \in Bytes
    BY <1>1, <1>3
  <2>2. k = [i \in 1..Len(h) |-> IF h[i] = "response" THEN f ELSE h[i]]
    BY <1>3 DEF KeyOf
  <2>3. k \in [1..Len(h) -> Bytes]
    BY ONLY <2>1, <2>2
  <2>. QED
    BY ONLY <1>3, <2>1, <2>3
<1>. HIDE DEF k
<1>6. k \in Seq(Bytes) /\ Len(k) = Len(h) /\ h \in Seq(Bytes)
  BY ONLY <1>3, <1>4
<1>. QED
  BY <1>2, <1>6 DEF k

\* Two lists, one enclosed in marks.
LEMMA Enclosed ==
  ASSUME NEW V, NEW x \in Seq(V), NEW y \in Seq(V), NEW q \in V, NEW e \in V
  PROVE  LET all == x \o <<q>> \o y \o <<q, e>>
         IN  /\ all \in Seq(V) /\ Len(all) = Len(x) + Len(y) + 3
             /\ \A i \in 1..Len(x) : all[i] = x[i]
             /\ all[Len(x) + 1] = q
             /\ \A i \in 1..Len(y) : all[Len(x) + 1 + i] = y[i]
             /\ all[Len(x) + Len(y) + 2] = q
<1>. DEFINE s == <<q>>
            t == <<q, e>>
            xs == x \o s
            xy == xs \o y
            all == xy \o t
            m == Len(x)
            n == Len(y)
<1>1. /\ s \in Seq(V) /\ Len(s) = 1 /\ s[1] = q /\ 1 \in DOMAIN s
      /\ t \in Seq(V) /\ Len(t) = 2 /\ t[1] = q /\ 1 \in DOMAIN t
      /\ m \in Nat /\ n \in Nat /\ DOMAIN x = 1..m /\ DOMAIN y = 1..n
  OBVIOUS
<1>. HIDE DEF s, t
<1>c. ASSUME NEW c \in Seq(V), NEW d \in Seq(V), NEW k, k = Len(c), NEW l, l = Len(d)
      PROVE  /\ c \o d \in Seq(V) /\ Len(c \o d) = k + l /\ \A i \in 1..k : (c \o d)[i] = c[i]
             /\ \A i \in 1..l : (c \o d)[k + i] = d[i]
  <2>1. DOMAIN c = 1..k /\ DOMAIN d = 1..l
    BY <1>c
  <2>. QED
    BY ONLY <1>c, <2>1, Concatenated
<1>2. /\ xs \in Seq(V) /\ Len(xs) = m + 1 /\ xs[m + 1] = q /\ \A i \in 1..m : xs[i] = x[i]
  <2>1. 1 \in 1..1 /\ m = Len(x)
    OBVIOUS
  <2>. DEFINE o == Len(s)
  <2>. HIDE DEF m, o
  <2>2. o = Len(s) /\ s \in Seq(V)
    BY <1>1 DEF o
  <2>3. /\ xs \in Seq(V) /\ Len(xs) = m + o /\ \A i \in 1..m : xs[i] = x[i]
        /\ \A i \in 1..o : xs[m + i] = s[i]
    BY ONLY <1>c, <2>1, <2>2, x \in Seq(V) DEF xs
  <2>. HIDE DEF xs
  <2>. QED
    BY ONLY <1>1, <2>1, <2>2, <2>3
<1>. DEFINE k == m + 1
            l == m + 1 + n
<1>. HIDE DEF xs
<1>4. /\ xy \in Seq(V) /\ Len(xy) = k + n /\ \A i \in 1..k : xy[i] = xs[i]
      /\ \A i \in 1..n : xy[k + i] = y[i]
  <2>1. n = Len(y) /\ xs \in Seq(V) /\ k = Len(xs)
    BY <1>2
  <2>. HIDE DEF m, n, k
  <2>. QED
    BY ONLY <1>c, <2>1, y \in Seq(V) DEF xy
<1>. HIDE DEF xy, m, n
<1>6. /\ all \in Seq(V) /\ Len(all) = l + 2 /\ \A i \in 1..l : all[i] = xy[i]
      /\ all[l + 1] = q
  <2>1. l = Len(xy) /\ xy \in Seq(V) /\ 1 \in 1..2
    BY <1>4
  <2>. DEFINE o == Len(t)
  <2>. HIDE DEF l, o
  <2>2. o = Len(t) /\ t \in Seq(V)
    BY <1>1 DEF o
  <2>3. /\ all \in Seq(V) /\ Len(all) = l + o /\ \A i \in 1..l : all[i] = xy[i]
        /\ \A i \in 1..o : all[l + i] = t[i]
    BY ONLY <1>c, <2>1, <2>2 DEF all
  <2>. HIDE DEF all
  <2>. QED
    BY ONLY <1>1, <2>1, <2>2, <2>3
<1>. HIDE DEF all
<1>7. /\ m + 1 + n + 2 = m + n + 3 /\ m + 1 + n + 1 = m + n + 2 /\ m + 1 \in 1..(m + 1) /\ m + 1 \in 1..(m + 1 + n)
      /\ \A i \in 1..m : i \in 1..(m + 1) /\ i \in 1..(m + 1 + n)
      /\ \A i \in 1..n : m + 1 + i \in 1..(m + 1 + n)
  BY ONLY <1>1
<1>. QED
  BY ONLY <1>2, <1>4, <1>6, <1>7 DEF all, xy, xs, s, t, m, n

Writes(w, h, f, us) ==
    /\ Spells(w) /\ w.key = f /\ w.units = us
    /\ w.bytes = KeyOf(h, f) \o <<"quote">> \o Body(us) \o <<"quote", "end">>

\* Every answer that the model of the stream begins with is spelt so.
LEMMA WrittenSpells ==
  ASSUME NEW h \in Header, NEW f \in {"response", "other"}, NEW us \in Seq(Units)
  PROVE  \E w : Writes(w, h, f, us)
<1>. DEFINE n == Len(us)
            H == Len(h)
<1>1. PICK b \in [0..n -> Seq(Bytes)] : BodyBy(b, us)
  BY BodySteps
<1>2. n \in Nat /\ (H = 3 \/ H = 5) /\ KeyOf(h, f) \in Seq(Bytes) /\ Len(KeyOf(h, f)) = H
  BY HeaderBytes
<1>3. /\ b[0] = <<>> /\ Body(us) = b[n]
      /\ \A k \in 1..n : b[k] = b[k - 1] \o UnitBytes(us[k])
  BY <1>1 DEF BodyBy
<1>4. \A k \in 1..n : UnitBytes(us[k]) \in Seq(Bytes) /\ Len(UnitBytes(us[k])) \in 1..12
  BY BytesOfUnits
<1>. DEFINE place == [k \in 0..n |-> H + 1 + Len(b[k])]
<1>5. \A k \in 0..n : b[k] \in Seq(Bytes) /\ Len(b[k]) \in Nat
  BY <1>1
<1>6. \A k \in 1..n : /\ k \in 0..n /\ k - 1 \in 0..n
                      /\ Len(b[k]) = Len(b[k - 1]) + Len(UnitBytes(us[k]))
                      /\ \A i \in 1..Len(b[k - 1]) : b[k][i] = b[k - 1][i]
                      /\ \A j \in 1..Len(UnitBytes(us[k])) : b[k][Len(b[k - 1]) + j] = UnitBytes(us[k])[j]
  <2>1. ASSUME NEW k \in 1..n PROVE
                      /\ k \in 0..n /\ k - 1 \in 0..n
                      /\ Len(b[k]) = Len(b[k - 1]) + Len(UnitBytes(us[k]))
                      /\ \A i \in 1..Len(b[k - 1]) : b[k][i] = b[k - 1][i]
                      /\ \A j \in 1..Len(UnitBytes(us[k])) : b[k][Len(b[k - 1]) + j] = UnitBytes(us[k])[j]
    <3>. HIDE DEF n
    <3>1. k \in 0..n /\ k - 1 \in 0..n
      BY <1>2
    <3>2. b[k] = b[k - 1] \o UnitBytes(us[k]) /\ b[k - 1] \in Seq(Bytes) /\ UnitBytes(us[k]) \in Seq(Bytes)
      BY <1>3, <1>4, <1>5, <3>1
    <3>. DEFINE x == b[k - 1]
                y == UnitBytes(us[k])
                z == b[k]
    <3>3. z = x \o y /\ x \in Seq(Bytes) /\ y \in Seq(Bytes)
      BY <3>2
    <3>. HIDE DEF x, y, z
    <3>4. /\ Len(z) = Len(x) + Len(y) /\ \A i \in 1..Len(x) : z[i] = x[i]
          /\ \A j \in 1..Len(y) : z[Len(x) + j] = y[j]
      BY ONLY <3>3, Concatenated
    <3>. QED
      BY ONLY <3>1, <3>4 DEF x, y, z
  <2>. QED
    BY <2>1
<1>7. \A k, m \in 0..n : k <= m => Len(b[k]) <= Len(b[m]) /\ \A i \in 1..Len(b[k]) : b[m][i] = b[k][i]
  <2>. HIDE DEF n
  <2>. SUFFICES ASSUME NEW k \in 0..n PROVE \A m \in 0..n : k <= m => Len(b[k]) <= Len(b[m]) /\ \A i \in 1..Len(b[k]) : b[m][i] = b[k][i]
    OBVIOUS
  <2>. DEFINE T == {d \in Nat : k + d <= n => Len(b[k]) <= Len(b[k + d]) /\ \A i \in 1..Len(b[k]) : b[k + d][i] = b[k][i]}
  <2>1. 0 \in T
    BY <1>5
  <2>2. ASSUME NEW d \in T PROVE d + 1 \in T
    <3>1. SUFFICES ASSUME k + (d + 1) <= n
                   PROVE  Len(b[k]) <= Len(b[k + (d + 1)]) /\ \A i \in 1..Len(b[k]) : b[k + (d + 1)][i] = b[k][i]
      OBVIOUS
    <3>2. d \in Nat /\ k + (d + 1) \in 1..n /\ (k + (d + 1)) - 1 = k + d /\ k + d \in 0..n /\ k + d <= n
      BY <1>2, <3>1
    <3>3. Len(b[k]) <= Len(b[k + d]) /\ \A i \in 1..Len(b[k]) : b[k + d][i] = b[k][i]
      BY <3>2
    <3>4. /\ Len(b[k + (d + 1)]) = Len(b[k + d]) + Len(UnitBytes(us[k + (d + 1)]))
          /\ \A i \in 1..Len(b[k + d]) : b[k + (d + 1)][i] = b[k + d][i]
      <4>. DEFINE e == k + (d + 1)
      <4>1. e \in 1..n /\ e - 1 = k + d
        BY <3>2
      <4>. HIDE DEF e
      <4>2. Len(b[e]) = Len(b[e - 1]) + Len(UnitBytes(us[e])) /\ \A i \in 1..Len(b[e - 1]) : b[e][i] = b[e - 1][i]
        BY ONLY <1>6, <4>1
      <4>. QED
        BY ONLY <4>1, <4>2 DEF e
    <3>5. Len(UnitBytes(us[k + (d + 1)])) \in Nat
      BY <1>4, <3>2
    <3>6. \A i \in 1..Len(b[k]) : i \in 1..Len(b[k + d])
      BY <1>5, <3>2, <3>3
    <3>. QED
      BY ONLY <1>5, <3>2, <3>3, <3>4, <3>5, <3>6
  <2>3. T = Nat
    <3>1. T \in SUBSET Nat
      OBVIOUS
    <3>. HIDE DEF T
    <3>. QED
      BY <2>1, <2>2, <3>1, AllNumbers
  <2>4. ASSUME NEW m \in 0..n, k <= m PROVE Len(b[k]) <= Len(b[m]) /\ \A i \in 1..Len(b[k]) : b[m][i] = b[k][i]
    <3>1. m - k \in Nat /\ k + (m - k) = m /\ m <= n
      BY <1>2, <2>4
    <3>2. m - k \in T
      BY <2>3, <3>1
    <3>. QED
      BY <3>1, <3>2
  <2>. QED
    BY <2>4
<1>. DEFINE all == KeyOf(h, f) \o <<"quote">> \o Body(us) \o <<"quote", "end">>
            key == KeyOf(h, f)
            m == Len(b[n])
<1>8. Body(us) \in Seq(Bytes) /\ Body(us) = b[n] /\ n \in 0..n /\ "quote" \in Bytes /\ "end" \in Bytes
  BY <1>2, <1>3, <1>5 DEF Bytes
<1>9. /\ all \in Seq(Bytes) /\ Len(all) = Len(key) + Len(Body(us)) + 3
      /\ \A i \in 1..Len(key) : all[i] = key[i]
      /\ all[Len(key) + 1] = "quote"
      /\ \A i \in 1..Len(Body(us)) : all[Len(key) + 1 + i] = Body(us)[i]
      /\ all[Len(key) + Len(Body(us)) + 2] = "quote"
  <2>. DEFINE y == Body(us)
  <2>1. key \in Seq(Bytes) /\ y \in Seq(Bytes) /\ "quote" \in Bytes /\ "end" \in Bytes /\ all = key \o <<"quote">> \o y \o <<"quote", "end">>
    BY <1>2, <1>8
  <2>. HIDE DEF key, y, all
  <2>2. /\ all \in Seq(Bytes) /\ Len(all) = Len(key) + Len(y) + 3
        /\ \A i \in 1..Len(key) : all[i] = key[i]
        /\ all[Len(key) + 1] = "quote"
        /\ \A i \in 1..Len(y) : all[Len(key) + 1 + i] = y[i]
        /\ all[Len(key) + Len(y) + 2] = "quote"
    BY ONLY <2>1, Enclosed, SMTT(30)
  <2>. QED
    BY <2>2 DEF y
<1>10. /\ all \in Seq(Bytes) /\ Len(all) = H + m + 3
       /\ \A i \in 1..H : all[i] = key[i]
       /\ all[H + 1] = "quote"
       /\ \A i \in 1..m : all[H + 1 + i] = b[n][i]
       /\ all[H + m + 2] = "quote"
  <2>. HIDE DEF key, H, n, all
  <2>. QED
    BY <1>2, <1>8, <1>9 DEF key
<1>11. H \in Nat /\ m \in Nat /\ DOMAIN key = 1..H /\ DOMAIN h = 1..H
  BY <1>2, <1>5, <1>8, HeaderBytes
<1>. DEFINE w == [bytes |-> all, header |-> h, key |-> f, units |-> us, place |-> place]
<1>12. Spells(w)
  <2>0. w.bytes = all /\ w.header = h /\ w.key = f /\ w.units = us /\ w.place = place
    OBVIOUS
  <2>. HIDE DEF all, key, w
  <2>1. /\ place \in [0..n -> Nat] /\ \A k \in 0..n : place[k] = H + 1 + Len(b[k])
    BY <1>5, <1>11
  <2>. HIDE DEF n, H, m, place
  <2>2. place[0] = H + 1
    <3>1. 0 \in 0..n /\ Len(b[0]) = 0
      BY <1>2, <1>3
    <3>. QED
      BY <1>11, <2>1, <3>1
  <2>3. ASSUME NEW k \in 1..n PROVE place[k] = place[k - 1] + Len(UnitBytes(us[k]))
    <3>. DEFINE p == place[k]
                q == place[k - 1]
                x == Len(b[k - 1])
                y == Len(UnitBytes(us[k]))
                z == Len(b[k])
    <3>0. k \in 0..n /\ k - 1 \in 0..n /\ z = x + y
      BY <1>6
    <3>1. p = H + 1 + z /\ q = H + 1 + x /\ z = x + y /\ x \in Nat /\ y \in Nat
      <4>1. p = H + 1 + z /\ q = H + 1 + x
        BY ONLY <2>1, <3>0
      <4>2. x \in Nat
        BY ONLY <1>5, <3>0
      <4>3. y \in Nat
        BY <1>4
      <4>. QED
        BY <3>0, <4>1, <4>2, <4>3
    <3>. HIDE DEF p, q, x, y, z
    <3>2. p = q + y
      BY ONLY <1>11, <3>1
    <3>. QED
      BY <3>2 DEF p, q, y
  <2>4. ASSUME NEW k \in 0..n PROVE place[k] <= place[n]
    <3>. DEFINE p == place[k]
                q == place[n]
                x == Len(b[k])
                z == Len(b[n])
    <3>1. p = H + 1 + x /\ q = H + 1 + z /\ x <= z /\ x \in Nat /\ z \in Nat
      BY <1>2, <1>5, <1>7, <1>8, <2>1
    <3>. HIDE DEF p, q, x, z
    <3>2. p <= q
      BY ONLY <1>11, <3>1
    <3>. QED
      BY <3>2 DEF p, q
  <2>5. ASSUME NEW i \in 1..H PROVE all[i] = IF h[i] = "response" THEN f ELSE h[i]
    <3>1. all[i] = key[i] /\ i \in DOMAIN h
      BY <1>10, <1>11
    <3>. QED
      BY <3>1 DEF KeyOf, key
  <2>6. ASSUME NEW k \in 1..n, NEW j \in 1..Len(UnitBytes(us[k]))
        PROVE  all[place[k - 1] + j] = UnitBytes(us[k])[j]
    <3>. DEFINE x == Len(b[k - 1])
                y == Len(UnitBytes(us[k]))
                z == Len(b[k])
                i == x + j
                p == place[k - 1]
    <3>1. /\ k \in 0..n /\ k <= n /\ k - 1 \in 0..n /\ z = x + y /\ b[k][i] = UnitBytes(us[k])[j]
          /\ x \in Nat /\ y \in Nat /\ j \in 1..y /\ p = H + 1 + x
      <4>1. k \in 0..n /\ k - 1 \in 0..n /\ z = x + y /\ b[k][i] = UnitBytes(us[k])[j]
        BY <1>6
      <4>2. x \in Nat
        BY ONLY <1>5, <4>1
      <4>3. y \in Nat /\ j \in 1..y
        BY <1>4
      <4>4. p = H + 1 + x
        BY ONLY <2>1, <4>1
      <4>5. k <= n
        BY <1>2
      <4>. QED
        BY <4>1, <4>2, <4>3, <4>4, <4>5
    <3>2. z <= m /\ \A l \in 1..z : b[n][l] = b[k][l]
      BY <1>7, <1>8, <3>1 DEF m
    <3>. HIDE DEF x, y, z, p
    <3>3. i \in 1..z /\ i \in 1..m /\ p + j = H + 1 + i
      <4>1. x \in Nat /\ y \in Nat /\ j \in Nat /\ 1 <= j /\ j <= y /\ z = x + y /\ p = H + 1 + x /\ z <= m
        BY ONLY <3>1, <3>2
      <4>2. x + j \in Nat /\ 1 <= x + j /\ x + j <= z /\ x + j <= m
        BY ONLY <1>11, <4>1
      <4>3. p + j = H + 1 + (x + j)
        BY ONLY <1>11, <4>1
      <4>. QED
        BY ONLY <1>11, <4>1, <4>2, <4>3
    <3>4. all[H + 1 + i] = b[k][i]
      BY <1>10, <3>2, <3>3
    <3>. HIDE DEF i
    <3>5. all[p + j] = UnitBytes(us[k])[j]
      BY ONLY <3>1, <3>3, <3>4
    <3>. QED
      BY ONLY <3>5 DEF p
  <2>7. all[place[n] + 1] = "quote" /\ Len(all) = place[n] + 2
    <3>1. place[n] = H + 1 + m
      BY <1>8, <2>1 DEF m
    <3>2. place[n] + 1 = H + m + 2 /\ place[n] + 2 = H + m + 3
      BY ONLY <1>11, <3>1
    <3>. QED
      BY ONLY <1>10, <3>2
  <2>. QED
    BY <1>10, <2>0, <2>1, <2>2, <2>3, <2>4, <2>5, <2>6, <2>7 DEF Spells, n, H
<1>13. w.key = f /\ w.units = us /\ w.bytes = all
  OBVIOUS
<1>. HIDE DEF w
<1>14. Writes(w, h, f, us)
  BY <1>12, <1>13 DEF Writes
<1>. QED
  BY <1>14

LEMMA PlacesOfUnits ==
  ASSUME NEW w, Spells(w)
  PROVE  LET n == Len(w.units)
         IN  /\ n \in Nat /\ w.units \in Seq(Units) /\ w.bytes \in Seq(Bytes) /\ Len(w.bytes) \in Nat
             /\ \A k \in 0..n : w.place[k] \in Nat /\ w.place[k] <= w.place[n]
             /\ w.place[0] = Len(w.header) + 1 /\ Len(w.bytes) = w.place[n] + 2 /\ w.bytes[w.place[n] + 1] = "quote"
             /\ \A k \in 0..(n - 1) : /\ k + 1 \in 1..n /\ k + 1 \in 0..n /\ w.units[k + 1] \in Units
                                      /\ w.place[k + 1] = w.place[k] + Len(UnitBytes(w.units[k + 1]))
                                      /\ \A j \in 1..Len(UnitBytes(w.units[k + 1])) :
                                            w.bytes[w.place[k] + j] = UnitBytes(w.units[k + 1])[j]
<1>. DEFINE n == Len(w.units)
            P == w.place
            b == w.bytes
            u == w.units
<1>1. u \in Seq(Units) /\ b \in Seq(Bytes)
  BY DEF Spells
<1>2. n \in Nat /\ Len(b) \in Nat /\ \A k \in 1..n : u[k] \in Units
  BY <1>1
<1>3. /\ P \in [0..n -> Nat] /\ P[0] = Len(w.header) + 1 /\ \A k \in 0..n : P[k] <= P[n]
      /\ Len(b) = P[n] + 2 /\ b[P[n] + 1] = "quote"
  BY DEF Spells
<1>4. /\ \A k \in 1..n : P[k] = P[k - 1] + Len(UnitBytes(u[k]))
      /\ \A k \in 1..n : \A j \in 1..Len(UnitBytes(u[k])) : b[P[k - 1] + j] = UnitBytes(u[k])[j]
  BY DEF Spells
<1>. HIDE DEF n, P, b, u
<1>5. ASSUME NEW k \in 0..(n - 1)
      PROVE  /\ k + 1 \in 1..n /\ k + 1 \in 0..n /\ u[k + 1] \in Units /\ P[k + 1] = P[k] + Len(UnitBytes(u[k + 1]))
             /\ \A j \in 1..Len(UnitBytes(u[k + 1])) : b[P[k] + j] = UnitBytes(u[k + 1])[j]
  <2>1. k + 1 \in 1..n /\ k + 1 \in 0..n /\ (k + 1) - 1 = k
    BY <1>2
  <2>. DEFINE m == k + 1
  <2>2. m \in 1..n /\ m - 1 = k
    BY <2>1
  <2>. HIDE DEF m
  <2>3. /\ u[m] \in Units /\ P[m] = P[k] + Len(UnitBytes(u[m]))
        /\ \A j \in 1..Len(UnitBytes(u[m])) : b[P[k] + j] = UnitBytes(u[m])[j]
    BY ONLY <1>2, <1>4, <2>2
  <2>. QED
    BY <2>1, <2>3 DEF m
<1>6. \A k \in 0..n : P[k] \in Nat
  BY <1>3
<1>. QED
  BY ONLY <1>1, <1>2, <1>3, <1>5, <1>6 DEF n, P, b, u

\* The colon behind the key.
Colon(w) == IF Len(w.header) = 3 THEN 3 ELSE 4

LEMMA HeaderIsRead ==
  ASSUME NEW w, Spells(w)
  PROVE  /\ (Len(w.header) = 3 /\ Colon(w) = 3) \/ (Len(w.header) = 5 /\ Colon(w) = 4)
         /\ w.bytes[Colon(w)] = ":" /\ \A i \in 1..(Colon(w) - 1) : w.bytes[i] # ":"
         /\ \A i \in (Colon(w) + 1)..Len(w.header) : w.bytes[i] = "ws"
         /\ w.bytes[1] = "begin" /\ w.bytes[Colon(w) - 1] = w.key /\ (Colon(w) = 4 => w.bytes[2] = "ws")
<1>. DEFINE h == w.header
            b == w.bytes
<1>1. h = <<"begin", "response", ":">> \/ h = <<"begin", "ws", "response", ":", "ws">>
  BY DEF Spells, Header
<1>2. (w.key = "response" \/ w.key = "other") /\ \A i \in 1..Len(h) : b[i] = IF h[i] = "response" THEN w.key ELSE h[i]
  BY DEF Spells
<1>3. CASE h = <<"begin", "response", ":">>
  <2>1. Len(h) = 3 /\ h[1] = "begin" /\ h[2] = "response" /\ h[3] = ":" /\ Colon(w) = 3
    BY <1>3 DEF Colon
  <2>. HIDE DEF h, b
  <2>2. 1 \in 1..Len(h) /\ 2 \in 1..Len(h) /\ 3 \in 1..Len(h)
    BY ONLY <2>1
  <2>3. b[1] = "begin" /\ b[2] = w.key /\ b[3] = ":"
    BY ONLY <1>2, <2>1, <2>2
  <2>4. \A i \in 1..2 : b[i] # ":"
    BY ONLY <1>2, <2>3
  <2>. QED
    BY ONLY <2>1, <2>3, <2>4 DEF h, b
<1>4. CASE h = <<"begin", "ws", "response", ":", "ws">>
  <2>1. /\ Len(h) = 5 /\ h[1] = "begin" /\ h[2] = "ws" /\ h[3] = "response" /\ h[4] = ":" /\ h[5] = "ws" /\ Colon(w) = 4
    BY <1>4 DEF Colon
  <2>. HIDE DEF h, b
  <2>2. 1 \in 1..Len(h) /\ 2 \in 1..Len(h) /\ 3 \in 1..Len(h) /\ 4 \in 1..Len(h) /\ 5 \in 1..Len(h)
    BY ONLY <2>1
  <2>3. b[1] = "begin" /\ b[2] = "ws" /\ b[3] = w.key /\ b[4] = ":" /\ b[5] = "ws"
    BY ONLY <1>2, <2>1, <2>2
  <2>4. (\A i \in 1..3 : b[i] # ":") /\ \A i \in 5..5 : b[i] = "ws"
    BY ONLY <1>2, <2>3
  <2>. QED
    BY ONLY <2>1, <2>3, <2>4 DEF h, b
<1>. QED
  BY <1>1, <1>3, <1>4

LEMMA TwoAppended ==
  ASSUME NEW V, NEW x \in V, NEW y \in V
  PROVE  Append(Append(<<>>, x), y) = <<x, y>>
<1>. DEFINE s == Append(Append(<<>>, x), y)
            t == <<x, y>>
<1>1. s \in Seq(V) /\ Len(s) = 2 /\ s[1] = x /\ s[2] = y
  OBVIOUS
<1>2. t \in Seq(V) /\ Len(t) = 2 /\ t[1] = x /\ t[2] = y
  OBVIOUS
<1>. HIDE DEF s, t
<1>3. Len(s) = Len(t) /\ \A i \in 1..Len(s) : s[i] = t[i]
  BY <1>1, <1>2
<1>4. s = t
  BY <1>1, <1>2, <1>3, SeqEqual
<1>. QED
  BY <1>4 DEF s, t

\* Blanks aside, the key is what stands between the brace and the colon.
LEMMA KeyIsPicked ==
  ASSUME NEW w, Spells(w), NEW s, s = SubSeq(w.bytes, 1, Colon(w) - 1)
  PROVE  Picked(s, {i \in DOMAIN s : s[i] # "ws"}) = <<"begin", w.key>>
<1>. DEFINE b == w.bytes
            C == Colon(w)
            S == {i \in DOMAIN s : s[i] # "ws"}
<1>1. /\ (Len(w.header) = 3 /\ C = 3) \/ (Len(w.header) = 5 /\ C = 4)
      /\ b[1] = "begin" /\ b[C - 1] = w.key /\ (C = 4 => b[2] = "ws")
  BY HeaderIsRead
<1>2. b \in Seq(Bytes) /\ (w.key = "response" \/ w.key = "other")
  BY DEF Spells
<1>3. C - 1 <= Len(b)
  <2>. DEFINE n == Len(w.units)
  <2>1. w.place[0] = Len(w.header) + 1 /\ w.place[0] <= w.place[n] /\ Len(b) = w.place[n] + 2 /\ w.place[n] \in Nat
    <3>1. 0 \in 0..n /\ n \in 0..n
      BY PlacesOfUnits
    <3>. QED
      BY <3>1, PlacesOfUnits
  <2>. HIDE DEF C, b, n
  <2>. QED
    BY ONLY <1>1, <2>1
<1>. HIDE DEF C, b
<1>4. s \in Seq(Bytes) /\ Len(s) = C - 1 /\ DOMAIN s = 1..(C - 1) /\ \A i \in 1..(C - 1) : s[i] = b[i]
  <2>1. s = SubSeq(b, 1, C - 1)
    BY DEF b, C
  <2>2. C \in Nat /\ 1 <= C - 1 /\ \A i \in 1..(C - 1) : i \in 1..Len(b)
    BY ONLY <1>1, <1>2, <1>3
  <2>3. \A i \in 1..(C - 1) : b[i] \in Bytes
    BY ONLY <1>2, <2>2, ElementOfSeq
  <2>4. /\ s \in Seq(Bytes) /\ Len(s) = (IF 1 <= C - 1 THEN (C - 1) - 1 + 1 ELSE 0)
        /\ \A i \in 1..((C - 1) - 1 + 1) : s[i] = b[1 + i - 1]
    BY ONLY <2>1, <2>2, <2>3, SubSeqProperties
  <2>5. Len(s) = C - 1 /\ \A i \in 1..(C - 1) : s[i] = b[i]
    BY ONLY <2>2, <2>4
  <2>6. DOMAIN s = 1..(C - 1)
    BY ONLY <2>4, <2>5
  <2>. QED
    BY ONLY <2>4, <2>5, <2>6
<1>5. PICK p \in [0..Len(s) -> Seq(Bytes)] : PickedBy(p, s, S)
  <2>. HIDE DEF S
  <2>. QED
    BY <1>4, PickedSteps
<1>6. /\ p[0] = <<>> /\ Picked(s, S) = p[Len(s)]
      /\ \A i \in 1..Len(s) : p[i] = IF i \in S THEN Append(p[i - 1], s[i]) ELSE p[i - 1]
  BY <1>5 DEF PickedBy
<1>9. "begin" \in Bytes /\ w.key \in Bytes
  BY <1>2 DEF Bytes
<1>7. CASE C = 3
  <2>1. Len(s) = 2 /\ s[1] = "begin" /\ s[2] = w.key /\ 1 \in S /\ 2 \in S
    <3>1. 1 \in 1..(C - 1) /\ 2 \in 1..(C - 1) /\ C - 1 = 2
      BY ONLY <1>7
    <3>2. s[1] = "begin" /\ s[2] = w.key /\ s[2] # "ws" /\ 1 \in DOMAIN s /\ 2 \in DOMAIN s /\ Len(s) = 2
      BY ONLY <1>1, <1>2, <1>4, <3>1
    <3>. QED
      BY ONLY <3>2 DEF S
  <2>. HIDE DEF S
  <2>2. p[1] = Append(<<>>, "begin") /\ p[2] = Append(p[1], w.key)
    BY ONLY <1>6, <2>1
  <2>3. Picked(s, S) = Append(Append(<<>>, "begin"), w.key)
    BY ONLY <1>6, <2>1, <2>2
  <2>4. Append(Append(<<>>, "begin"), w.key) = <<"begin", w.key>>
    BY ONLY <1>9, TwoAppended
  <2>. QED
    BY ONLY <2>3, <2>4 DEF S
<1>8. CASE C = 4
  <2>1. Len(s) = 3 /\ s[1] = "begin" /\ s[2] = "ws" /\ s[3] = w.key /\ 1 \in S /\ 2 \notin S /\ 3 \in S
    <3>1. 1 \in 1..(C - 1) /\ 2 \in 1..(C - 1) /\ 3 \in 1..(C - 1) /\ C - 1 = 3
      BY ONLY <1>8
    <3>2. /\ s[1] = "begin" /\ s[2] = "ws" /\ s[3] = w.key /\ s[3] # "ws" /\ Len(s) = 3
          /\ 1 \in DOMAIN s /\ 3 \in DOMAIN s
      BY ONLY <1>1, <1>2, <1>4, <1>8, <3>1
    <3>. QED
      BY ONLY <3>2 DEF S
  <2>. HIDE DEF S
  <2>2. p[1] = Append(<<>>, "begin") /\ p[2] = p[1] /\ p[3] = Append(p[2], w.key)
    BY ONLY <1>6, <2>1
  <2>3. Picked(s, S) = Append(Append(<<>>, "begin"), w.key)
    BY ONLY <1>6, <2>1, <2>2
  <2>4. Append(Append(<<>>, "begin"), w.key) = <<"begin", w.key>>
    BY ONLY <1>9, TwoAppended
  <2>. QED
    BY ONLY <2>3, <2>4 DEF S
<1>. QED
  BY <1>1, <1>7, <1>8

\* What is left of a piece of the bytes when the first n are taken from it, and what is taken.
PieceOf(b, at, got, p) == p \in Seq(Bytes) /\ Len(p) = got - at /\ \A i \in 1..(got - at) : p[i] = b[at + i]

CutsAt(b, at, got, n, p) ==
    /\ PieceOf(b, at, got, p)
    /\ SubSeq(p, n + 1, Len(p)) = SubSeq(b, (at + n) + 1, got)
    /\ SubSeq(p, 1, n) = SubSeq(b, at + 1, at + n)

LEMMA Dropped ==
  ASSUME NEW b \in Seq(Bytes), NEW got \in 0..Len(b), NEW at \in 0..got, NEW n \in 0..(got - at), NEW p,
         p = SubSeq(b, at + 1, got)
  PROVE  CutsAt(b, at, got, n, p)
<1>. DEFINE V == Bytes
            q == SubSeq(b, (at + n) + 1, got)
            r == SubSeq(p, n + 1, Len(p))
            s == SubSeq(p, 1, n)
            x == SubSeq(b, at + 1, at + n)
<1>1. Len(b) \in Nat /\ got \in Nat /\ at \in Nat /\ n \in Nat /\ at + n <= got /\ got <= Len(b)
  OBVIOUS
<1>2. p \in Seq(V) /\ Len(p) = got - at /\ \A i \in 1..(got - at) : p[i] = b[at + i]
  BY Sliced
<1>3. q \in Seq(V) /\ Len(q) = got - (at + n) /\ \A i \in 1..(got - (at + n)) : q[i] = b[(at + n) + i]
  <2>. DEFINE a == at + n
  <2>1. a \in 0..got
    BY ONLY <1>1
  <2>. HIDE DEF a
  <2>2. /\ SubSeq(b, a + 1, got) \in Seq(V) /\ Len(SubSeq(b, a + 1, got)) = got - a
        /\ \A i \in 1..(got - a) : SubSeq(b, a + 1, got)[i] = b[a + i]
    BY ONLY <2>1, b \in Seq(V), got \in 0..Len(b), Sliced
  <2>. QED
    BY ONLY <2>2 DEF a, q
<1>4. r \in Seq(V) /\ Len(r) = (got - at) - n /\ \A i \in 1..((got - at) - n) : r[i] = p[n + i]
  <2>. DEFINE l == Len(p)
  <2>1. n \in 0..l /\ l \in 0..Len(p)
    BY ONLY <1>1, <1>2
  <2>2. l = got - at
    BY ONLY <1>2
  <2>. HIDE DEF l
  <2>3. /\ SubSeq(p, n + 1, l) \in Seq(V) /\ Len(SubSeq(p, n + 1, l)) = l - n
        /\ \A i \in 1..(l - n) : SubSeq(p, n + 1, l)[i] = p[n + i]
    BY ONLY <1>2, <2>1, Sliced
  <2>4. SubSeq(p, n + 1, l) = r
    BY DEF l, r
  <2>. HIDE DEF r
  <2>. QED
    BY ONLY <2>2, <2>3, <2>4
<1>5. s \in Seq(V) /\ Len(s) = n /\ \A i \in 1..n : s[i] = p[i]
  <2>1. n \in 0..Len(p)
    BY ONLY <1>1, <1>2
  <2>. QED
    BY ONLY <1>2, <2>1, Beginning DEF s
<1>6. x \in Seq(V) /\ Len(x) = n /\ \A i \in 1..n : x[i] = b[at + i]
  <2>. DEFINE e == at + n
  <2>1. e \in 0..Len(b) /\ at \in 0..e /\ e - at = n
    BY ONLY <1>1
  <2>. HIDE DEF e
  <2>2. /\ SubSeq(b, at + 1, e) \in Seq(V) /\ Len(SubSeq(b, at + 1, e)) = e - at
        /\ \A i \in 1..(e - at) : SubSeq(b, at + 1, e)[i] = b[at + i]
    BY ONLY <2>1, b \in Seq(V), Sliced
  <2>. QED
    BY ONLY <2>1, <2>2 DEF e, x
<1>. HIDE DEF q, r, s, x
<1>7. r = q
  <2>1. Len(q) = Len(r)
    BY ONLY <1>1, <1>3, <1>4
  <2>2. ASSUME NEW i \in 1..Len(r) PROVE r[i] = q[i]
    <3>1. i \in 1..((got - at) - n) /\ i \in 1..(got - (at + n)) /\ n + i \in 1..(got - at) /\ at + (n + i) = (at + n) + i
      BY ONLY <1>1, <1>4, i \in 1..Len(r)
    <3>. QED
      BY ONLY <1>2, <1>3, <1>4, <3>1
  <2>. QED
    BY <1>3, <1>4, <2>1, <2>2, SeqEqual
<1>8. s = x
  <2>1. \A i \in 1..n : i \in 1..(got - at)
    BY ONLY <1>1
  <2>2. Len(s) = Len(x) /\ \A i \in 1..Len(s) : s[i] = x[i]
    BY ONLY <1>2, <1>5, <1>6, <2>1
  <2>. QED
    BY ONLY <1>5, <1>6, <2>2, SeqEqual
<1>. QED
  BY <1>2, <1>7, <1>8 DEF CutsAt, PieceOf, q, r, s, x

\* A unit is read from bytes that it begins with: not before all of them are there.
Begins(p, u) == p \in Seq(Bytes) /\ p # <<>> /\ \A j \in 1..Len(UnitBytes(u)) : j <= Len(p) => p[j] = UnitBytes(u)[j]

LEMMA UnitIsDecoded ==
  ASSUME NEW d \in Decoders, d.value, d.started, ~d.done, ~d.bad, NEW u \in Units, Begins(d.pending, u)
  PROVE  Decode(d) = IF Len(d.pending) < Len(UnitBytes(u)) THEN d
                     ELSE [Drop(d, Len(UnitBytes(u))) EXCEPT !.out = Append(@, u)]
<1>. DEFINE p == d.pending
            c == p[1]
            b == UnitBytes(u)
            n == Len(b)
            L == Len(p)
            Shown == [Drop(d, n) EXCEPT !.out = Append(@, u)]
<1>1. /\ p # <<>> /\ p \in Seq(Bytes) /\ L \in Nat /\ 1 <= L /\ \A j \in 1..n : j <= L => p[j] = b[j]
  BY DEF Begins
<1>2. n \in 1..12
  BY BytesOfUnits
<1>3. c = b[1]
  <2>. HIDE DEF n, L, p, b
  <2>. QED
    BY <1>1, <1>2
<1>4. Decode(d) = IF c = "quote" THEN [d EXCEPT !.done = TRUE]
                  ELSE IF c = "esc" THEN LET m == EscapeLength(p) IN IF L < m THEN d ELSE Show(d, UnitOf(SubSeq(p, 1, m)), m)
                  ELSE IF c = "r3" THEN IF L < 3 THEN d ELSE Show(d, "rune", 3)
                  ELSE Show(d, IF c = "a" THEN "ascii" ELSE "bad", 1)
  BY <1>1 DEF Decode
<1>5. u \in Units /\ u # "bad" /\ Show(d, u, n) = Shown
  BY DEF Units, Show
<1>6. CASE u = "ascii"
  <2>1. b = <<"a">>
    BY <1>6 DEF UnitBytes
  <2>2. n = 1 /\ b[1] = "a"
    BY <2>1
  <2>. HIDE DEF b, n, p, L, Shown
  <2>3. Decode(d) = Show(d, u, n)
    BY <1>3, <1>4, <1>6, <2>2
  <2>. QED
    BY <1>1, <1>5, <2>2, <2>3 DEF b, n, p, L, Shown
<1>7. CASE u = "rune"
  <2>1. b = <<"r3", "r", "r">>
    BY <1>7 DEF UnitBytes
  <2>2. n = 3 /\ b[1] = "r3"
    BY <2>1
  <2>. HIDE DEF b, n, p, L, Shown
  <2>3. Decode(d) = IF L < n THEN d ELSE Show(d, u, n)
    BY <1>3, <1>4, <1>7, <2>2
  <2>. QED
    BY <1>5, <2>3 DEF b, n, p, L, Shown
<1>8. CASE u \in {"escape", "code", "low", "pair"}
  <2>1. /\ u = "escape" => b = <<"esc", "n">>
        /\ u = "code" => b = <<"esc", "u", "0", "0", "0", "0">>
        /\ u = "low" => b = <<"esc", "u", "DC", "0", "0", "0">>
        /\ u = "pair" => b = <<"esc", "u", "D8", "0", "0", "0", "esc", "u", "DC", "0", "0", "0">>
    BY DEF UnitBytes
  <2>2. /\ u = "escape" => n = 2 /\ b[1] = "esc" /\ b[2] = "n"
        /\ u = "code" => n = 6 /\ b[1] = "esc" /\ b[2] = "u" /\ b[3] = "0"
        /\ u = "low" => n = 6 /\ b[1] = "esc" /\ b[2] = "u" /\ b[3] = "DC"
        /\ u = "pair" => n = 12 /\ b[1] = "esc" /\ b[2] = "u" /\ b[3] = "D8"
    BY <2>1
  <2>3. u = "escape" \/ u = "code" \/ u = "low" \/ u = "pair"
    BY <1>8
  <2>. DEFINE m == EscapeLength(p)
  <2>4. m = IF L < 2 \/ p[2] # "u" THEN 2 ELSE IF L >= 3 /\ p[3] = "D8" THEN 12 ELSE 6
    BY DEF EscapeLength
  <2>. HIDE DEF b, n, p, L, Shown, m
  <2>5. c = "esc"
    BY ONLY <1>3, <2>2, <2>3
  <2>6. /\ 2 <= L /\ 2 <= n => p[2] = b[2]
        /\ 3 <= L /\ 3 <= n => p[3] = b[3]
    BY ONLY <1>1, <1>2
  <2>7. Decode(d) = IF L < m THEN d ELSE Show(d, UnitOf(SubSeq(p, 1, m)), m)
    BY ONLY <1>4, <2>5 DEF m
  <2>8. CASE L < n
    <3>1. L < m
      BY ONLY <1>1, <2>2, <2>3, <2>4, <2>6, <2>8
    <3>. QED
      BY <2>7, <2>8, <3>1 DEF p, L, b, n
  <2>9. CASE ~(L < n)
    <3>1. m = n /\ n <= L
      BY ONLY <1>1, <1>2, <2>2, <2>3, <2>4, <2>6, <2>9
    <3>2. SubSeq(p, 1, n) = b
      <4>1. b \in Seq(Bytes) /\ n = Len(b)
        BY BytesOfUnits DEF b, n
      <4>2. \A i \in 1..n : p[i] = b[i] /\ b[i] \in Bytes
        BY <1>1, <1>2, <3>1, <4>1, ElementOfSeq
      <4>. DEFINE s == SubSeq(p, 1, n)
      <4>3. /\ s \in Seq(Bytes) /\ Len(s) = (IF 1 <= n THEN n - 1 + 1 ELSE 0)
            /\ \A i \in 1..(n - 1 + 1) : s[i] = p[1 + i - 1]
        BY <1>2, <4>2, SubSeqProperties
      <4>. HIDE DEF s
      <4>4. Len(s) = n /\ \A i \in 1..n : s[i] = p[i]
        BY ONLY <1>2, <4>3
      <4>5. s = b
        BY ONLY <4>1, <4>2, <4>3, <4>4, SeqEqual
      <4>. QED
        BY <4>5 DEF s
    <3>3. UnitOf(SubSeq(p, 1, n)) = u
      BY <3>2, UnitIsRead DEF b
    <3>4. Decode(d) = Show(d, u, n)
      BY ONLY <1>1, <1>2, <2>7, <2>9, <3>1, <3>3
    <3>. QED
      BY <1>5, <2>9, <3>4 DEF p, L, b, n, Shown
  <2>. QED
    BY <2>8, <2>9
<1>. QED
  BY <1>6, <1>7, <1>8 DEF Units

LEMMA OneFurther ==
  ASSUME NEW V, NEW s \in Seq(V), NEW k \in 0..(Len(s) - 1)
  PROVE  /\ SubSeq(s, 1, k) \in Seq(V) /\ SubSeq(s, 1, k + 1) \in Seq(V)
         /\ Append(SubSeq(s, 1, k), s[k + 1]) = SubSeq(s, 1, k + 1)
<1>. DEFINE x == SubSeq(s, 1, k)
            y == SubSeq(s, 1, k + 1)
            z == Append(x, s[k + 1])
            n == Len(s)
<1>1. n \in Nat /\ k \in Nat /\ k + 1 <= n /\ \A i \in 1..n : s[i] \in V
  OBVIOUS
<1>2. x \in Seq(V) /\ Len(x) = k /\ \A i \in 1..k : x[i] = s[i]
  <2>1. /\ x \in Seq(V) /\ Len(x) = (IF 1 <= k THEN k - 1 + 1 ELSE 0)
        /\ \A i \in 1..(k - 1 + 1) : x[i] = s[1 + i - 1]
    BY <1>1, SubSeqProperties
  <2>. HIDE DEF x, n
  <2>. QED
    BY ONLY <1>1, <2>1
<1>3. y \in Seq(V) /\ Len(y) = k + 1 /\ \A i \in 1..(k + 1) : y[i] = s[i]
  <2>1. /\ y \in Seq(V) /\ Len(y) = (IF 1 <= k + 1 THEN (k + 1) - 1 + 1 ELSE 0)
        /\ \A i \in 1..((k + 1) - 1 + 1) : y[i] = s[1 + i - 1]
    BY <1>1, SubSeqProperties
  <2>. HIDE DEF y, n
  <2>. QED
    BY ONLY <1>1, <2>1
<1>. HIDE DEF x, y, n
<1>4. z \in Seq(V) /\ Len(z) = k + 1 /\ (\A i \in 1..k : z[i] = x[i]) /\ z[k + 1] = s[k + 1]
  <2>1. s[k + 1] \in V
    BY <1>1
  <2>. QED
    BY ONLY <1>1, <1>2, <2>1, AppendProperties
<1>. HIDE DEF z
<1>5. Len(z) = Len(y) /\ \A i \in 1..Len(z) : z[i] = y[i]
  BY ONLY <1>1, <1>2, <1>3, <1>4
<1>6. z = y
  BY ONLY <1>3, <1>4, <1>5, SeqEqual
<1>. QED
  BY <1>2, <1>3, <1>6 DEF x, y, z

LEMMA AppendedBehind ==
  ASSUME NEW V, NEW x \in Seq(V), NEW y \in Seq(V), NEW u \in V
  PROVE  x \o Append(y, u) = Append(x \o y, u)
<1>1. /\ Append(y, u) = y \o <<u>> /\ <<u>> \in Seq(V) /\ x \o y \in Seq(V)
      /\ Append(x \o y, u) = (x \o y) \o <<u>>
  BY AppendIsConcat, ConcatProperties
<1>2. (x \o y) \o <<u>> = x \o (y \o <<u>>)
  BY ONLY <1>1, x \in Seq(V), y \in Seq(V), ConcatAssociative
<1>. QED
  BY ONLY <1>1, <1>2

-----------------------------------------------------------------------------
(* What the decoder has made of the bytes of w up to "got", when "before"  *)
(* had been shown.                                                         *)

ReadTo(d, w, before, got, at) ==
    /\ d.pending = SubSeq(w.bytes, at + 1, got)
    /\ ~d.started => d.out = <<>> /\ before = <<>> /\ ~d.done
    /\ ~d.value => ~d.started /\ at < Colon(w) /\ d.header = SubSeq(w.bytes, 1, at)
    /\ d.value => w.key = "response"
    /\ d.value /\ ~d.started => Colon(w) <= at /\ at <= Len(w.header)
    /\ d.started => \E k \in 0..Len(w.units) : /\ at = w.place[k] /\ before \o d.out = SubSeq(w.units, 1, k)
                                               /\ d.done => k = Len(w.units)

Decoded(d, w, before, got) ==
    /\ d \in Decoders /\ before \in Seq(Units)
    /\ IF d.bad THEN w.key = "other" /\ d.out = <<>> /\ before = <<>> /\ ~d.done
       ELSE \E at \in 0..got : ReadTo(d, w, before, got, at)

LEMMA TextChanges ==
  ASSUME NEW q \in Decoders, NEW o \in Seq(Units), NEW e, e = [q EXCEPT !.out = o]
  PROVE  /\ e \in Decoders /\ e.header = q.header /\ e.pending = q.pending /\ e.value = q.value
         /\ e.started = q.started /\ e.done = q.done /\ e.out = o /\ e.bad = q.bad
BY DEF Decoders

LEMMA DecodeKeeps ==
  ASSUME NEW w, Spells(w), NEW got \in 0..Len(w.bytes), NEW before, NEW d, Decoded(d, w, before, got)
  PROVE  Decoded(Decode(d), w, before, got)
<1>. DEFINE p == d.pending
            c == p[1]
            b == w.bytes
            C == Colon(w)
            H == Len(w.header)
            n == Len(w.units)
<1>1. /\ d \in Decoders /\ before \in Seq(Units)
      /\ d.header \in Seq(Bytes) /\ p \in Seq(Bytes) /\ d.value \in BOOLEAN /\ d.started \in BOOLEAN /\ d.done \in BOOLEAN
      /\ d.out \in Seq(Units) /\ d.bad \in BOOLEAN
  BY DEF Decoded, Decoders
<1>2. CASE p = <<>> \/ d.done \/ d.bad
  BY <1>2 DEF Decode
<1>3. CASE ~(p = <<>> \/ d.done \/ d.bad)
  <2>1. PICK at \in 0..got : ReadTo(d, w, before, got, at)
    BY <1>3 DEF Decoded
  <2>2. /\ p = SubSeq(b, at + 1, got)
        /\ ~d.started => d.out = <<>> /\ before = <<>> /\ ~d.done
        /\ ~d.value => ~d.started /\ at < C /\ d.header = SubSeq(b, 1, at)
        /\ d.value => w.key = "response"
        /\ d.value /\ ~d.started => C <= at /\ at <= H
        /\ d.started => \E k \in 0..n : at = w.place[k] /\ before \o d.out = SubSeq(w.units, 1, k) /\ (d.done => k = n)
    BY <2>1 DEF ReadTo
  <2>3. /\ (H = 3 /\ C = 3) \/ (H = 5 /\ C = 4)
        /\ b[C] = ":" /\ \A i \in 1..(C - 1) : b[i] # ":"
        /\ \A i \in (C + 1)..H : b[i] = "ws"
    BY HeaderIsRead
  <2>4. /\ b \in Seq(Bytes) /\ Len(b) \in Nat /\ got \in Nat /\ at \in Nat /\ at <= got /\ got <= Len(b) /\ n \in Nat
    BY PlacesOfUnits
  <2>5. w.key = "response" \/ w.key = "other"
    BY DEF Spells
  <2>. HIDE DEF p, b, C, H, n
  <2>6. /\ Len(p) = got - at /\ at < got /\ c = b[at + 1] /\ c \in Bytes
        /\ \A i \in 1..(got - at) : p[i] = b[at + i]
    <3>1. /\ Len(p) = got - at /\ \A i \in 1..(got - at) : p[i] = b[at + i]
      <4>1. CutsAt(b, at, got, 0, p)
        BY ONLY <2>2, <2>4, at \in 0..got, got \in 0..Len(b), 0 \in 0..(got - at), Dropped
      <4>. QED
        BY ONLY <4>1 DEF CutsAt, PieceOf
    <3>2. Len(p) # 0 /\ p[1] \in Bytes
      BY ONLY <1>1, <1>3
    <3>. QED
      BY ONLY <2>4, <3>1, <3>2
  <2>7. \A m \in 0..(got - at) : SubSeq(p, m + 1, Len(p)) = SubSeq(b, (at + m) + 1, got)
    <3>1. p = SubSeq(b, at + 1, got) /\ b \in Seq(Bytes) /\ at \in 0..got /\ got \in 0..Len(b)
      BY <2>2, <2>4
    <3>2. ASSUME NEW m \in 0..(got - at) PROVE SubSeq(p, m + 1, Len(p)) = SubSeq(b, (at + m) + 1, got)
      <4>1. p = SubSeq(b, at + 1, got)
        BY ONLY <3>1
      <4>2. b \in Seq(Bytes) /\ got \in 0..Len(b) /\ at \in 0..got /\ m \in 0..(got - at)
        BY ONLY <3>1, m \in 0..(got - at)
      <4>. QED
        <5>1. CutsAt(b, at, got, m, p)
          BY ONLY <4>1, <4>2, Dropped
        <5>. QED
          BY ONLY <5>1 DEF CutsAt
    <3>. QED
      BY <3>2
  <2>8. \A m \in 0..(got - at) : Drop(d, m) \in Decoders /\ Drop(d, m) = [d EXCEPT !.pending = SubSeq(b, (at + m) + 1, got)]
    <3>1. ASSUME NEW m \in 0..(got - at) PROVE SubSeq(b, (at + m) + 1, got) \in Seq(Bytes)
      <4>. DEFINE a == at + m
      <4>1. a \in 0..got /\ got \in 0..Len(b)
        BY ONLY <2>4, at \in 0..got, got \in 0..Len(b), m \in 0..(got - at)
      <4>. HIDE DEF a
      <4>2. SubSeq(b, a + 1, got) \in Seq(Bytes)
        BY ONLY <2>4, <4>1, Sliced
      <4>. QED
        BY ONLY <4>2 DEF a
    <3>2. ASSUME NEW m \in 0..(got - at) PROVE Drop(d, m) = [d EXCEPT !.pending = SubSeq(b, (at + m) + 1, got)]
      BY <2>7 DEF Drop, p
    <3>. QED
      BY <1>1, <3>1, <3>2 DEF Decoders
  <2>. DEFINE e == Decode(d)
  <2>9. 1 \in 0..(got - at) /\ at + 1 \in 0..got
    BY ONLY <2>4, <2>6
  <2>10. CASE ~d.value
    <3>. DEFINE wrong == Picked(d.header, {i \in DOMAIN d.header : d.header[i] # "ws"}) # <<"begin", "response">>
    <3>1. e = [Drop(d, 1) EXCEPT !.header = Append(@, c), !.value = (c = ":"), !.bad = (c = ":" /\ wrong)]
      BY <1>3, <2>10 DEF Decode, p
    <3>. HIDE DEF wrong, c
    <3>. DEFINE q == Drop(d, 1)
                h == Append(d.header, c)
                v == c = ":"
                x == c = ":" /\ wrong
    <3>e. /\ q \in Decoders /\ q.header = d.header /\ q.pending = SubSeq(b, (at + 1) + 1, got) /\ q.value = d.value
          /\ q.started = d.started /\ q.done = d.done /\ q.out = d.out /\ q.bad = d.bad
      <4>1. q \in Decoders /\ q = [d EXCEPT !.pending = SubSeq(b, (at + 1) + 1, got)]
        BY ONLY <2>8, <2>9
      <4>. HIDE DEF q
      <4>. QED
        BY ONLY <1>1, <4>1 DEF Decoders
    <3>h. h \in Seq(Bytes) /\ v \in BOOLEAN /\ x \in BOOLEAN /\ e = [q EXCEPT !.header = h, !.value = v, !.bad = x]
      <4>1. h \in Seq(Bytes)
        BY ONLY <1>1, <2>6
      <4>. HIDE DEF e
      <4>. QED
        BY ONLY <3>1, <3>e, <4>1
    <3>2. /\ e.pending = SubSeq(b, (at + 1) + 1, got) /\ e.header = Append(d.header, c) /\ e.value = v
          /\ e.started = d.started /\ e.done = d.done /\ e.out = d.out /\ e.bad = x /\ e \in Decoders
      <4>. HIDE DEF q, h, v, x, e
      <4>1. /\ e \in Decoders /\ e.header = h /\ e.pending = q.pending /\ e.value = v /\ e.started = q.started
            /\ e.done = q.done /\ e.out = q.out /\ e.bad = x
        BY ONLY <3>e, <3>h DEF Decoders
      <4>. QED
        BY ONLY <3>e, <4>1 DEF h
    <3>3. ~d.started /\ ~d.done /\ d.out = <<>> /\ before = <<>> /\ at < C /\ d.header = SubSeq(b, 1, at)
      BY ONLY <2>2, <2>10
    <3>4. e.header = SubSeq(b, 1, at + 1)
      <4>1. at \in 0..(Len(b) - 1)
        BY ONLY <2>4, <2>6
      <4>. QED
        BY ONLY <2>4, <2>6, <3>2, <3>3, <4>1, OneFurther
    <3>. HIDE DEF e
    <3>5. CASE c = ":"
      <4>1. at + 1 = C
        <5>1. at + 1 = C \/ at + 1 \in 1..(C - 1)
          BY ONLY <2>3, <2>4, <3>3
        <5>. QED
          BY ONLY <2>3, <2>6, <3>5, <5>1
      <4>2. wrong <=> w.key # "response"
        <5>1. d.header = SubSeq(w.bytes, 1, Colon(w) - 1)
          BY ONLY <2>4, <3>3, <4>1 DEF C, b
        <5>2. Picked(d.header, {i \in DOMAIN d.header : d.header[i] # "ws"}) = <<"begin", w.key>>
          BY <5>1, KeyIsPicked
        <5>. QED
          BY ONLY <2>5, <5>2 DEF wrong
      <4>3. CASE w.key = "response"
        <5>2. ~e.bad /\ e.value
          BY ONLY <3>2, <3>5, <4>2, <4>3
        <5>3. C <= at + 1 /\ at + 1 <= H
          BY ONLY <2>3, <4>1
        <5>4. e.pending = SubSeq(b, (at + 1) + 1, got) /\ ~e.started /\ ~e.done /\ e.out = <<>> /\ before = <<>>
          BY ONLY <3>2, <3>3
        <5>1. ReadTo(e, w, before, got, at + 1)
          BY ONLY <4>3, <5>2, <5>3, <5>4 DEF ReadTo, b, C, H
        <5>. QED
          BY ONLY <1>1, <2>9, <3>2, <5>1, <5>2 DEF Decoded, e
      <4>4. CASE w.key # "response"
        <5>1. e.bad
          BY ONLY <3>2, <3>5, <4>2, <4>4
        <5>. QED
          BY ONLY <5>1, <1>1, <2>5, <3>2, <3>3, <3>5, <4>2, <4>4 DEF Decoded, e
      <4>. QED
        BY <4>3, <4>4
    <3>6. CASE c # ":"
      <4>1. at + 1 < C
        BY ONLY <2>3, <2>4, <2>6, <3>3, <3>6
      <4>2. ~e.bad /\ ~e.value
        BY ONLY <3>2, <3>6
      <4>3. e.pending = SubSeq(b, (at + 1) + 1, got) /\ ~e.started /\ ~e.done /\ e.out = <<>> /\ before = <<>>
        BY ONLY <3>2, <3>3
      <4>4. ReadTo(e, w, before, got, at + 1)
        BY ONLY <3>4, <4>1, <4>2, <4>3 DEF ReadTo, b, C
      <4>. QED
        BY ONLY <1>1, <2>9, <3>2, <4>2, <4>4 DEF Decoded, e
    <3>. QED
      BY <3>5, <3>6
  <2>11. CASE d.value /\ ~d.started
    <3>1. e = [Drop(d, 1) EXCEPT !.started = (c = "quote"), !.bad = (c \notin {"quote", "ws"})]
      BY <1>3, <2>11 DEF Decode, p
    <3>. HIDE DEF c
    <3>. DEFINE q == Drop(d, 1)
                s == c = "quote"
                x == c \notin {"quote", "ws"}
    <3>e. /\ q \in Decoders /\ q.header = d.header /\ q.pending = SubSeq(b, (at + 1) + 1, got) /\ q.value = d.value
          /\ q.started = d.started /\ q.done = d.done /\ q.out = d.out /\ q.bad = d.bad
      <4>1. q \in Decoders /\ q = [d EXCEPT !.pending = SubSeq(b, (at + 1) + 1, got)]
        BY ONLY <2>8, <2>9
      <4>. HIDE DEF q
      <4>. QED
        BY ONLY <1>1, <4>1 DEF Decoders
    <3>h. s \in BOOLEAN /\ x \in BOOLEAN /\ e = [q EXCEPT !.started = s, !.bad = x]
      <4>. HIDE DEF e
      <4>. QED
        BY ONLY <3>1
    <3>2. /\ e.pending = SubSeq(b, (at + 1) + 1, got) /\ e.header = d.header /\ e.value = d.value
          /\ e.started = s /\ e.done = d.done /\ e.out = d.out /\ e.bad = x /\ e \in Decoders
      <4>. HIDE DEF q, s, x, e
      <4>1. /\ e \in Decoders /\ e.header = q.header /\ e.pending = q.pending /\ e.value = q.value /\ e.started = s
            /\ e.done = q.done /\ e.out = q.out /\ e.bad = x
        BY ONLY <3>e, <3>h DEF Decoders
      <4>. QED
        BY ONLY <3>e, <4>1
    <3>. HIDE DEF e
    <3>3. ~d.started /\ ~d.done /\ d.out = <<>> /\ before = <<>> /\ C <= at /\ at <= H /\ w.key = "response"
      BY ONLY <2>2, <2>11
    <3>4. CASE at < H
      <4>1. at + 1 \in (C + 1)..H
        BY ONLY <2>3, <2>4, <3>3, <3>4
      <4>2. c = "ws"
        BY ONLY <2>3, <2>6, <4>1
      <4>3. ~e.bad /\ e.value /\ ~e.started /\ C <= at + 1 /\ at + 1 <= H
        <5>1. ~e.bad /\ e.value /\ ~e.started
          BY ONLY <2>11, <3>2, <4>2
        <5>2. C <= at + 1 /\ at + 1 <= H
          BY ONLY <2>3, <4>1
        <5>. QED
          BY ONLY <5>1, <5>2
      <4>4. ReadTo(e, w, before, got, at + 1)
        BY ONLY <3>2, <3>3, <4>3 DEF ReadTo, b, C, H
      <4>. QED
        BY ONLY <1>1, <2>9, <3>2, <4>3, <4>4 DEF Decoded, e
    <3>5. CASE ~(at < H)
      <4>1. at = H
        BY ONLY <2>3, <2>4, <3>3, <3>5
      <4>2. b[H + 1] = "quote" /\ w.place[0] = H + 1
        BY DEF Spells, b, H
      <4>3. c = "quote"
        BY ONLY <2>6, <4>1, <4>2
      <4>4. ~e.bad /\ e.value /\ e.started
        BY ONLY <2>11, <3>2, <4>3
      <4>5. /\ 0 \in 0..Len(w.units) /\ at + 1 = w.place[0]
            /\ before \o e.out = SubSeq(w.units, 1, 0)
        <5>1. before \o e.out = <<>>
          BY ONLY <3>2, <3>3, ConcatEmptySeq, <<>> \in Seq(Units)
        <5>2. SubSeq(w.units, 1, 0) = <<>>
          BY ONLY SubSeqEmpty
        <5>3. 0 \in 0..Len(w.units)
          BY ONLY <2>4 DEF n
        <5>. QED
          BY ONLY <4>1, <4>2, <5>1, <5>2, <5>3
      <4>6. ReadTo(e, w, before, got, at + 1)
        BY ONLY <3>2, <3>3, <4>4, <4>5 DEF ReadTo, b
      <4>. QED
        BY ONLY <1>1, <2>9, <3>2, <4>4, <4>6 DEF Decoded, e
    <3>. QED
      BY <3>4, <3>5
  <2>12. CASE d.value /\ d.started
    <3>1. PICK k \in 0..n : at = w.place[k] /\ before \o d.out = SubSeq(w.units, 1, k)
      BY ONLY <2>2, <2>12
    <3>2. CASE k = n
      <4>1. c = "quote"
        <5>1. b[w.place[n] + 1] = "quote"
          BY PlacesOfUnits DEF b, n
        <5>. QED
          BY ONLY <2>6, <3>1, <3>2, <5>1
      <4>2. e = [d EXCEPT !.done = TRUE]
        BY <1>3, <2>12, <4>1 DEF Decode, p
      <4>3. /\ e.pending = d.pending /\ e.value = d.value /\ e.started = d.started /\ e.out = d.out /\ e.bad = d.bad
            /\ e.done /\ e \in Decoders
        BY <1>1, <4>2 DEF Decoders
      <4>. HIDE DEF e
      <4>4. ReadTo(e, w, before, got, at)
        BY ONLY <2>2, <2>12, <3>1, <3>2, <4>3 DEF ReadTo, p, b, n
      <4>. QED
        BY ONLY <1>1, <1>3, <4>3, <4>4, at \in 0..got DEF Decoded, e
    <3>3. CASE k # n
      <4>. DEFINE u == w.units[k + 1]
                  m == Len(UnitBytes(u))
      <4>1. /\ k \in 0..(n - 1) /\ k + 1 \in 0..n /\ u \in Units /\ w.place[k + 1] = at + m
            /\ \A j \in 1..m : b[at + j] = UnitBytes(u)[j]
        <5>1. k \in 0..(n - 1)
          BY ONLY <2>4, <3>3, k \in 0..n
        <5>2. \A l \in 0..(n - 1) : /\ l + 1 \in 0..n /\ w.units[l + 1] \in Units
                                    /\ w.place[l + 1] = w.place[l] + Len(UnitBytes(w.units[l + 1]))
                                    /\ \A j \in 1..Len(UnitBytes(w.units[l + 1])) :
                                          b[w.place[l] + j] = UnitBytes(w.units[l + 1])[j]
          BY PlacesOfUnits DEF n, b
        <5>. QED
          BY ONLY <3>1, <5>1, <5>2
      <4>2. m \in 1..12
        BY ONLY <4>1, BytesOfUnits
      <4>. HIDE DEF u, m
      <4>3. Begins(p, u)
        <5>1. \A j \in 1..m : j <= Len(p) => p[j] = UnitBytes(u)[j]
          BY ONLY <2>4, <2>6, <4>1, <4>2
        <5>. QED
          BY ONLY <1>1, <1>3, <5>1 DEF Begins, m
      <4>4. e = IF Len(p) < m THEN d ELSE [Drop(d, m) EXCEPT !.out = Append(@, u)]
        BY <1>1, <1>3, <2>12, <4>1, <4>3, UnitIsDecoded DEF p, m
      <4>5. CASE Len(p) < m
        BY ONLY <4>4, <4>5, Decoded(d, w, before, got) DEF e
      <4>6. CASE ~(Len(p) < m)
        <5>1. m \in 0..(got - at) /\ at + m \in 0..got
          <6>1. m \in Nat /\ at \in Nat /\ got \in Nat /\ at <= got
            BY ONLY <2>4, <4>2
          <6>2. Len(p) = got - at
            BY ONLY <2>6
          <6>3. m <= got - at
            BY ONLY <4>6, <6>1, <6>2
          <6>. QED
            BY ONLY <6>1, <6>3
        <5>2. /\ e.pending = SubSeq(b, (at + m) + 1, got) /\ e.value = d.value /\ e.started = d.started
              /\ e.out = Append(d.out, u) /\ e.bad = d.bad /\ e.done = d.done /\ e \in Decoders
          <6>. DEFINE q == Drop(d, m)
                      o == Append(d.out, u)
          <6>1. /\ q \in Decoders /\ q.header = d.header /\ q.pending = SubSeq(b, (at + m) + 1, got) /\ q.value = d.value
                /\ q.started = d.started /\ q.done = d.done /\ q.out = d.out /\ q.bad = d.bad
            <7>1. q \in Decoders /\ q = [d EXCEPT !.pending = SubSeq(b, (at + m) + 1, got)]
              BY ONLY <2>8, <5>1
            <7>. HIDE DEF q
            <7>. QED
              BY ONLY <1>1, <7>1 DEF Decoders
          <6>2. o \in Seq(Units)
            BY ONLY <1>1, <4>1
          <6>3. e = [q EXCEPT !.out = o]
            <7>. HIDE DEF e
            <7>. QED
              BY ONLY <4>4, <4>6, <6>1
          <6>. HIDE DEF q, o, e
          <6>4. /\ e \in Decoders /\ e.header = q.header /\ e.pending = q.pending /\ e.value = q.value
                /\ e.started = q.started /\ e.done = q.done /\ e.out = o /\ e.bad = q.bad
            BY ONLY <6>1, <6>2, <6>3, TextChanges
          <6>. QED
            BY ONLY <6>1, <6>4 DEF o
        <5>. HIDE DEF e
        <5>3. before \o e.out = SubSeq(w.units, 1, k + 1)
          <6>1. before \o e.out = Append(before \o d.out, u)
            <7>. DEFINE o == d.out
            <7>1. before \in Seq(Units) /\ o \in Seq(Units) /\ u \in Units
              BY ONLY <1>1, <4>1
            <7>. HIDE DEF o
            <7>2. before \o Append(o, u) = Append(before \o o, u)
              BY ONLY <7>1, AppendedBehind
            <7>. QED
              BY ONLY <5>2, <7>2 DEF o
          <6>2. w.units \in Seq(Units) /\ k \in 0..(Len(w.units) - 1)
            BY <4>1, PlacesOfUnits DEF n
          <6>3. Append(SubSeq(w.units, 1, k), w.units[k + 1]) = SubSeq(w.units, 1, k + 1)
            BY ONLY <6>2, OneFurther
          <6>. QED
            BY ONLY <3>1, <6>1, <6>3 DEF u
        <5>4. ReadTo(e, w, before, got, at + m)
          BY ONLY <1>3, <2>2, <2>12, <4>1, <5>2, <5>3 DEF ReadTo, b, n
        <5>. QED
          BY ONLY <1>1, <1>3, <5>1, <5>2, <5>4 DEF Decoded, e
      <4>. QED
        BY <4>5, <4>6
    <3>. QED
      BY <3>2, <3>3
  <2>. QED
    BY <1>1, <2>10, <2>11, <2>12
<1>. QED
  BY <1>2, <1>3

LEMMA DecodeAllKeeps ==
  ASSUME NEW w, Spells(w), NEW got \in 0..Len(w.bytes), NEW before, NEW d, Decoded(d, w, before, got)
  PROVE  Decoded(DecodeAll(d), w, before, got)
<1>. DEFINE n == Len(d.pending) + 1
            W == {x \in Decoders : Decoded(x, w, before, got)}
            F == [i \in Nat |-> [x \in W |-> Decode(x)]]
            Made(q) == [i \in 0..n |-> IF i = 0 THEN d ELSE Decode(q[i - 1])]
            a == CHOOSE q : q = Made(q)
<1>1. d \in W /\ n \in Nat
  BY DEF Decoded, Decoders
<1>2. F \in [Nat -> [W -> W]]
  <2>1. ASSUME NEW x \in W PROVE Decode(x) \in W
    <3>1. Decoded(Decode(x), w, before, got)
      BY DecodeKeeps
    <3>. QED
      BY <3>1 DEF Decoded
  <2>. HIDE DEF W
  <2>. QED
    BY <2>1
<1>3. PICK f \in [0..n -> W] : Steps(f, n, d, F)
  <2>. HIDE DEF F, n, W
  <2>. QED
    BY ONLY <1>1, <1>2, StepsExist
<1>. HIDE DEF n
<1>4. f = Made(f)
  <2>1. ASSUME NEW i \in 0..n, i # 0 PROVE f[i] = Decode(f[i - 1])
    <3>. HIDE DEF W
    <3>1. i \in 1..n /\ i \in Nat /\ f[i - 1] \in W
      BY <1>1, <2>1
    <3>2. F[i] = [x \in W |-> Decode(x)]
      BY <3>1
    <3>. HIDE DEF F
    <3>3. f[i] = F[i][f[i - 1]]
      BY <1>3, <3>1 DEF Steps
    <3>. QED
      BY <3>1, <3>2, <3>3
  <2>2. f[0] = d
    BY <1>3 DEF Steps
  <2>3. f = [i \in 0..n |-> f[i]]
    OBVIOUS
  <2>. QED
    BY ONLY <2>1, <2>2, <2>3
<1>5. a = Made(a)
  BY <1>4
<1>6. DecodeAll(d) = a[n]
  BY DEF DecodeAll, n
<1>. HIDE DEF a
<1>7. a[0] = d /\ \A i \in 0..n : i # 0 => a[i] = Decode(a[i - 1])
  BY ONLY <1>1, <1>5
<1>8. \A i \in 0..n : a[i] \in W
  <2>. DEFINE T == {i \in Nat : i <= n => a[i] \in W}
  <2>1. 0 \in T
    BY <1>1, <1>7
  <2>2. ASSUME NEW i \in T PROVE i + 1 \in T
    <3>1. SUFFICES ASSUME i + 1 <= n PROVE a[i + 1] \in W
      OBVIOUS
    <3>2. i + 1 \in 0..n /\ i + 1 # 0 /\ (i + 1) - 1 = i /\ a[i] \in W
      BY <1>1, <3>1
    <3>3. a[i + 1] = Decode(a[i])
      BY ONLY <1>7, <3>2
    <3>4. Decoded(Decode(a[i]), w, before, got)
      BY <3>2, DecodeKeeps
    <3>. QED
      BY ONLY <3>3, <3>4 DEF Decoded
  <2>3. T = Nat
    <3>1. T \in SUBSET Nat
      OBVIOUS
    <3>. HIDE DEF T
    <3>. QED
      BY <2>1, <2>2, <3>1, AllNumbers
  <2>. QED
    BY <1>1, <2>3
<1>9. a[n] \in W
  BY <1>1, <1>8
<1>. QED
  BY <1>6, <1>9

LEMMA BytesArrive ==
  ASSUME NEW w, Spells(w), NEW got \in Nat, NEW n \in Nat, got + n <= Len(w.bytes), NEW before,
         NEW d, Decoded(d, w, before, got),
         NEW e, e = [d EXCEPT !.pending = @ \o SubSeq(w.bytes, got + 1, got + n)]
  PROVE  Decoded(e, w, before, got + n)
<1>. DEFINE b == w.bytes
            s == SubSeq(b, got + 1, got + n)
            p == d.pending
<1>1. b \in Seq(Bytes) /\ Len(b) \in Nat
  BY PlacesOfUnits
<1>2. s \in Seq(Bytes)
  <2>1. \A i \in (got + 1)..(got + n) : b[i] \in Bytes
    BY <1>1, ElementOfSeq
  <2>. QED
    BY ONLY <2>1, got \in Nat, n \in Nat, SubSeqProperties
<1>3. d \in Decoders /\ before \in Seq(Units) /\ p \in Seq(Bytes) /\ p \o s \in Seq(Bytes)
  BY <1>2 DEF Decoded, Decoders
<1>. DEFINE z == p \o s
<1>4. e = [d EXCEPT !.pending = z]
  OBVIOUS
<1>. HIDE DEF s, p, b, z
<1>5. /\ e \in Decoders /\ e.pending = z /\ e.header = d.header /\ e.value = d.value /\ e.started = d.started
      /\ e.done = d.done /\ e.out = d.out /\ e.bad = d.bad
  BY ONLY <1>3, <1>4 DEF Decoders, z
<1>6. CASE d.bad
  BY <1>3, <1>5, <1>6 DEF Decoded
<1>7. CASE ~d.bad
  <2>1. PICK at \in 0..got : ReadTo(d, w, before, got, at)
    BY <1>7 DEF Decoded
  <2>2. p = SubSeq(b, at + 1, got)
    BY <2>1 DEF ReadTo, p, b
  <2>3. z = SubSeq(b, at + 1, got + n)
    <3>1. at + 1 \in 1..(Len(b) + 1) /\ got \in ((at + 1) - 1)..Len(b) /\ got + n \in got..Len(b)
      BY <1>1 DEF b
    <3>. QED
      BY ONLY <1>1, <2>2, <3>1, ConcatAdjacentSubSeq DEF z, s
  <2>4. ReadTo(e, w, before, got + n, at)
    BY ONLY <1>5, <2>1, <2>3 DEF ReadTo, b
  <2>5. at \in 0..(got + n)
    OBVIOUS
  <2>. QED
    BY ONLY <1>3, <1>5, <1>7, <2>4, <2>5 DEF Decoded
<1>. QED
  BY <1>6, <1>7

LEMMA TextIsShown ==
  ASSUME NEW w, NEW got, NEW before, NEW d, Decoded(d, w, before, got), NEW e, e = [d EXCEPT !.pending = @ \o <<>>, !.out = <<>>]
  PROVE  /\ d.bad => Decoded(e, w, before, got)
         /\ ~d.bad => Decoded(e, w, before \o d.out, got)
<1>1. d \in Decoders /\ before \in Seq(Units) /\ d.pending \in Seq(Bytes) /\ d.out \in Seq(Units)
  BY DEF Decoded, Decoders
<1>2. d.pending \o <<>> = d.pending
  BY <1>1, ConcatEmptySeq
<1>3. e = [d EXCEPT !.out = <<>>]
  BY <1>1, <1>2 DEF Decoders
<1>4. /\ e \in Decoders /\ e.header = d.header /\ e.pending = d.pending /\ e.value = d.value
      /\ e.started = d.started /\ e.done = d.done /\ e.out = <<>> /\ e.bad = d.bad
  <2>1. <<>> \in Seq(Units)
    OBVIOUS
  <2>. QED
    BY ONLY <1>1, <1>3, <2>1 DEF Decoders
<1>5. CASE d.bad
  BY <1>1, <1>4, <1>5 DEF Decoded
<1>6. CASE ~d.bad
  <2>. DEFINE o == d.out
              t == before \o o
  <2>1. PICK at \in 0..got : ReadTo(d, w, before, got, at)
    BY <1>6 DEF Decoded
  <2>2. t \in Seq(Units) /\ t \o <<>> = t /\ (before = <<>> /\ o = <<>> => t = <<>>)
    BY <1>1, ConcatProperties, ConcatEmptySeq
  <2>3. ReadTo(e, w, t, got, at)
    <3>1. /\ d.pending = SubSeq(w.bytes, at + 1, got)
          /\ ~d.started => o = <<>> /\ before = <<>> /\ ~d.done
          /\ ~d.value => ~d.started /\ at < Colon(w) /\ d.header = SubSeq(w.bytes, 1, at)
          /\ d.value => w.key = "response"
          /\ d.value /\ ~d.started => Colon(w) <= at /\ at <= Len(w.header)
          /\ d.started => \E k \in 0..Len(w.units) : at = w.place[k] /\ t = SubSeq(w.units, 1, k) /\ (d.done => k = Len(w.units))
      BY <2>1 DEF ReadTo
    <3>. HIDE DEF t, o
    <3>. QED
      BY ONLY <1>4, <2>2, <3>1 DEF ReadTo
  <2>. QED
    BY ONLY <1>4, <1>6, <2>2, <2>3 DEF Decoded
<1>. QED
  BY <1>5, <1>6

-----------------------------------------------------------------------------
(* The stream.                                                             *)

\* The decoder has read what has arrived, or it still stands before it.
Arrived(w, got) ==
    /\ Spells(w) /\ w.key = field /\ w.units = units /\ got \in 0..Len(w.bytes)
    /\ outcome = "open" => arguments = SubSeq(w.bytes, got + 1, Len(w.bytes))
    /\ Decoded([decoder EXCEPT !.pending = @ \o buffer, !.out = <<>>], w, sent, got)

AnswerInv ==
    /\ units \in Seq(Units) /\ field \in {"response", "other"} /\ ready \in BOOLEAN
    /\ outcome \in {"open", "accepted", "failed"}
    /\ checked => ready
    /\ sent # <<>> => checked
    /\ decoder \in Decoders /\ buffer \in Seq(Bytes)
    /\ \E w : \E got \in Nat : Arrived(w, got)

LEMMA AnswerStarts == AnswerInit => AnswerInv
<1>. SUFFICES ASSUME AnswerInit PROVE AnswerInv
  OBVIOUS
<1>1. PICK h \in Header : arguments = KeyOf(h, field) \o <<"quote">> \o Body(units) \o <<"quote", "end">>
  BY DEF AnswerInit, KeyOf
<1>2. /\ units \in Answers /\ field \in {"response", "other"} /\ ready \in BOOLEAN /\ buffer = <<>> /\ decoder = FreshDecoder
      /\ checked = FALSE /\ sent = <<>> /\ outcome = "open"
  BY DEF AnswerInit
<1>3. units \in Seq(Units)
  <2>1. PICK n \in 0..MaxUnits : units \in [1..n -> Units]
    BY <1>2 DEF Answers
  <2>2. n \in Nat
    OBVIOUS
  <2>. QED
    BY <2>1, <2>2
<1>4. PICK w : Spells(w) /\ w.key = field /\ w.units = units /\ w.bytes = arguments
  <2>1. PICK w : Writes(w, h, field, units)
    BY ONLY <1>2, <1>3, h \in Header, WrittenSpells
  <2>. QED
    BY ONLY <1>1, <2>1 DEF Writes
<1>5. w.bytes \in Seq(Bytes) /\ Len(w.bytes) \in Nat
  BY <1>4, PlacesOfUnits
<1>6. SubSeq(w.bytes, 0 + 1, Len(w.bytes)) = arguments /\ SubSeq(w.bytes, 0 + 1, 0) = <<>> /\ SubSeq(w.bytes, 1, 0) = <<>>
  BY <1>4, <1>5, SubSeqFull, SubSeqEmpty
<1>7. FreshDecoder \in Decoders /\ [FreshDecoder EXCEPT !.pending = @ \o buffer, !.out = <<>>] = FreshDecoder
  <2>1. <<>> \in Seq(Bytes) /\ <<>> \in Seq(Units)
    OBVIOUS
  <2>2. FreshDecoder \in Decoders
    BY ONLY <2>1 DEF FreshDecoder, Decoders
  <2>3. FreshDecoder.pending = <<>> /\ FreshDecoder.pending \o buffer = <<>>
    BY <1>2, <2>1, ConcatEmptySeq DEF FreshDecoder
  <2>4. [FreshDecoder EXCEPT !.pending = <<>>, !.out = <<>>] = FreshDecoder
    <3>1. ASSUME NEW x \in Decoders, x.pending = <<>>, x.out = <<>>
          PROVE  [x EXCEPT !.pending = <<>>, !.out = <<>>] = x
      BY <3>1 DEF Decoders
    <3>2. FreshDecoder.pending = <<>> /\ FreshDecoder.out = <<>>
      BY DEF FreshDecoder
    <3>. QED
      BY ONLY <2>2, <3>1, <3>2
  <2>. QED
    BY ONLY <2>2, <2>3, <2>4
<1>8. Decoded(FreshDecoder, w, sent, 0)
  <2>1. 0 < Colon(w)
    BY <1>4, HeaderIsRead
  <2>2. ReadTo(FreshDecoder, w, sent, 0, 0)
    BY <1>2, <1>6, <2>1 DEF ReadTo, FreshDecoder
  <2>3. ~FreshDecoder.bad
    BY DEF FreshDecoder
  <2>. QED
    BY <1>2, <1>7, <2>2, <2>3 DEF Decoded
<1>9. Arrived(w, 0)
  BY <1>2, <1>4, <1>5, <1>6, <1>7, <1>8 DEF Arrived
<1>. QED
  BY <1>2, <1>3, <1>7, <1>9 DEF AnswerInv

LEMMA ChunkKeeps ==
  ASSUME AnswerInv, NEW n \in Nat, NEW name \in BOOLEAN, Chunk(n, name)
  PROVE  AnswerInv'
<1>. DEFINE bytes == buffer \o SubSeq(arguments, 1, n)
            fed == [decoder EXCEPT !.pending = @ \o bytes, !.out = <<>>]
            pushed == DecodeAll(fed)
<1>0. PICK w : \E got \in Nat : Arrived(w, got)
  BY DEF AnswerInv
<1>1. PICK got \in Nat : Arrived(w, got)
  BY <1>0
<1>2. /\ Spells(w) /\ w.key = field /\ w.units = units /\ got \in 0..Len(w.bytes)
      /\ outcome = "open" => arguments = SubSeq(w.bytes, got + 1, Len(w.bytes))
      /\ Decoded([decoder EXCEPT !.pending = @ \o buffer, !.out = <<>>], w, sent, got)
  BY <1>1 DEF Arrived
<1>3. /\ outcome = "open" /\ n <= Len(arguments)
      /\ arguments' = SubSeq(arguments, n + 1, Len(arguments))
      /\ units' = units /\ field' = field /\ ready' = ready
      /\ \/ buffer' = bytes /\ UNCHANGED <<decoder, checked, sent, outcome>>
         \/ outcome' = "failed" /\ UNCHANGED <<buffer, decoder, checked, sent>>
         \/ /\ checked \/ ready
            /\ checked' = TRUE /\ buffer' = <<>> /\ decoder' = pushed
            /\ IF pushed.bad THEN outcome' = "failed" /\ UNCHANGED sent
               ELSE sent' = sent \o pushed.out /\ UNCHANGED outcome
  BY DEF Chunk
<1>. HIDE DEF bytes, fed, pushed
<1>4. /\ units \in Seq(Units) /\ field \in {"response", "other"} /\ ready \in BOOLEAN
      /\ outcome \in {"open", "accepted", "failed"} /\ (checked => ready) /\ (sent # <<>> => checked)
      /\ decoder \in Decoders /\ buffer \in Seq(Bytes)
  BY DEF AnswerInv
<1>. DEFINE b == w.bytes
            new == SubSeq(b, got + 1, got + n)
<1>5. b \in Seq(Bytes) /\ Len(b) \in Nat
  BY <1>2, PlacesOfUnits
<1>6. /\ got + n \in 0..Len(b) /\ SubSeq(arguments, 1, n) = new
      /\ arguments' = SubSeq(b, (got + n) + 1, Len(b))
  <2>1. arguments = SubSeq(b, got + 1, Len(b)) /\ Len(b) \in 0..Len(b) /\ got \in 0..Len(b) /\ 0 \in 0..(Len(b) - got)
    BY <1>2, <1>3, <1>5
  <2>. HIDE DEF b
  <2>2. Len(arguments) = Len(b) - got
    <3>1. CutsAt(b, got, Len(b), 0, arguments)
      BY ONLY <1>5, <2>1, Dropped
    <3>. QED
      BY ONLY <3>1 DEF CutsAt, PieceOf
  <2>3. n \in 0..(Len(b) - got) /\ got + n \in 0..Len(b)
    BY ONLY <1>3, <1>5, <2>1, <2>2, n \in Nat
  <2>4. SubSeq(arguments, n + 1, Len(arguments)) = SubSeq(b, (got + n) + 1, Len(b)) /\ SubSeq(arguments, 1, n) = SubSeq(b, got + 1, got + n)
    <3>1. Len(b) \in 0..Len(b) /\ got \in 0..Len(b) /\ n \in 0..(Len(b) - got) /\ b \in Seq(Bytes)
      BY ONLY <1>5, <2>1, <2>3
    <3>2. arguments = SubSeq(b, got + 1, Len(b))
      BY ONLY <2>1
    <3>3. CutsAt(b, got, Len(b), n, arguments)
      BY ONLY <3>1, <3>2, Dropped
    <3>. QED
      BY ONLY <3>3 DEF CutsAt
  <2>. QED
    BY <1>3, <2>3, <2>4
<1>7. new \in Seq(Bytes) /\ bytes = buffer \o new /\ bytes \in Seq(Bytes)
  <2>1. \A i \in (got + 1)..(got + n) : b[i] \in Bytes
    BY <1>5, <1>6, ElementOfSeq
  <2>2. new \in Seq(Bytes)
    BY ONLY <2>1, got \in Nat, n \in Nat, SubSeqProperties
  <2>. HIDE DEF new
  <2>. QED
    BY <1>4, <1>6, <2>2, ConcatProperties DEF bytes
<1>8. fed \in Decoders /\ Decoded(fed, w, sent, got + n)
  <2>. DEFINE d == [decoder EXCEPT !.pending = @ \o buffer, !.out = <<>>]
              p == decoder.pending
  <2>1. p \in Seq(Bytes) /\ p \o (buffer \o new) = (p \o buffer) \o new /\ p \o buffer \in Seq(Bytes)
    <3>1. p \in Seq(Bytes)
      BY <1>4 DEF Decoders
    <3>2. buffer \in Seq(Bytes) /\ new \in Seq(Bytes)
      BY <1>4, <1>7
    <3>. HIDE DEF p, new
    <3>3. (p \o buffer) \o new = p \o (buffer \o new)
      BY ONLY <3>1, <3>2, ConcatAssociative
    <3>4. p \o buffer \in Seq(Bytes)
      BY ONLY <3>1, <3>2, ConcatProperties
    <3>. QED
      BY ONLY <3>1, <3>3, <3>4
  <2>2. fed = [d EXCEPT !.pending = @ \o new]
    <3>. DEFINE x == p \o buffer
                y == x \o new
    <3>1. fed = [decoder EXCEPT !.pending = y, !.out = <<>>] /\ d = [decoder EXCEPT !.pending = x, !.out = <<>>]
      BY <1>7, <2>1 DEF fed
    <3>. HIDE DEF x, new
    <3>2. d.pending = x
      BY ONLY <1>4, <3>1 DEF Decoders
    <3>. HIDE DEF d, fed, y
    <3>3. [d EXCEPT !.pending = y] = [decoder EXCEPT !.pending = y, !.out = <<>>]
      BY ONLY <1>4, <3>1 DEF Decoders
    <3>. QED
      BY ONLY <3>1, <3>2, <3>3 DEF y
  <2>3. got + n <= Len(w.bytes) /\ Decoded(d, w, sent, got)
    BY <1>2, <1>5, <1>6
  <2>. HIDE DEF d, fed
  <2>4. Decoded(fed, w, sent, got + n)
    BY ONLY <1>2, <2>2, <2>3, got \in Nat, n \in Nat, BytesArrive DEF new, b
  <2>. QED
    BY <2>4 DEF Decoded
<1>9. Decoded(pushed, w, sent, got + n)
  <2>. HIDE DEF fed
  <2>. QED
    BY <1>2, <1>6, <1>8, DecodeAllKeeps DEF pushed
<1>. HIDE DEF b
<1>a. got + n \in Nat
  OBVIOUS
<1>10. CASE buffer' = bytes /\ UNCHANGED <<decoder, checked, sent, outcome>>
  <2>1. Arrived(w, got + n)'
    BY <1>2, <1>3, <1>6, <1>8, <1>10 DEF Arrived, fed, b
  <2>. QED
    BY <1>3, <1>4, <1>7, <1>10, <1>a, <2>1 DEF AnswerInv
<1>11. CASE outcome' = "failed" /\ UNCHANGED <<buffer, decoder, checked, sent>>
  <2>1. Arrived(w, got)'
    BY <1>2, <1>3, <1>11 DEF Arrived
  <2>. QED
    BY <1>3, <1>4, <1>11, <2>1 DEF AnswerInv
<1>12. CASE /\ checked \/ ready
            /\ checked' = TRUE /\ buffer' = <<>> /\ decoder' = pushed
            /\ IF pushed.bad THEN outcome' = "failed" /\ UNCHANGED sent
               ELSE sent' = sent \o pushed.out /\ UNCHANGED outcome
  <2>1. /\ pushed.bad => Decoded([pushed EXCEPT !.pending = @ \o <<>>, !.out = <<>>], w, sent, got + n)
        /\ ~pushed.bad => Decoded([pushed EXCEPT !.pending = @ \o <<>>, !.out = <<>>], w, sent \o pushed.out, got + n)
    BY <1>9, TextIsShown
  <2>2. Decoded([decoder' EXCEPT !.pending = @ \o buffer', !.out = <<>>], w, sent', got + n)
    BY <1>12, <2>1
  <2>3. Arrived(w, got + n)'
    BY <1>2, <1>3, <1>6, <2>2 DEF Arrived, b
  <2>4. decoder' \in Decoders /\ buffer' \in Seq(Bytes) /\ outcome' \in {"open", "accepted", "failed"} /\ ready' /\ checked'
    BY <1>3, <1>4, <1>9, <1>12 DEF Decoded
  <2>. QED
    BY <1>3, <1>4, <1>a, <2>3, <2>4 DEF AnswerInv
<1>. QED
  BY <1>3, <1>10, <1>11, <1>12

LEMMA AnswerStays == AnswerInv /\ [AnswerNext]_answerVars => AnswerInv'
<1>. SUFFICES ASSUME AnswerInv, [AnswerNext]_answerVars PROVE AnswerInv'
  OBVIOUS
<1>1. ASSUME NEW n \in 0..MaxFragment, NEW name \in BOOLEAN, Chunk(n, name) PROVE AnswerInv'
  <2>1. n \in Nat
    OBVIOUS
  <2>. QED
    BY <1>1, <2>1, ChunkKeeps
<1>2. ASSUME \/ Broken \/ (\E reason \in {"tool_calls", "length"} : Eof(reason)) \/ UNCHANGED answerVars
      PROVE  AnswerInv'
  <2>1. /\ UNCHANGED <<units, field, ready, arguments, named, buffer, decoder, checked, sent>>
        /\ outcome' = outcome \/ outcome' \in {"accepted", "failed"}
    BY <1>2 DEF Broken, Eof, answerVars
  <2>0. PICK w : \E got \in Nat : Arrived(w, got)
    BY DEF AnswerInv
  <2>2. PICK got \in Nat : Arrived(w, got)
    BY <2>0
  <2>3. Arrived(w, got)'
    BY <2>1, <2>2 DEF Arrived
  <2>. QED
    BY <2>1, <2>3 DEF AnswerInv
<1>. QED
  BY <1>1, <1>2 DEF AnswerNext

LEMMA AnswerIsGood == AnswerInv => AnswerTypeOK /\ ShownAsWritten
<1>. SUFFICES ASSUME AnswerInv PROVE AnswerTypeOK /\ ShownAsWritten
  OBVIOUS
<1>0. PICK w : \E got \in Nat : Arrived(w, got)
  BY DEF AnswerInv
<1>1. PICK got \in Nat : Arrived(w, got)
  BY <1>0
<1>. DEFINE e == [decoder EXCEPT !.pending = @ \o buffer, !.out = <<>>]
<1>2. w.key = field /\ w.units = units /\ Decoded(e, w, sent, got)
  BY <1>1 DEF Arrived
<1>3. e.bad = decoder.bad /\ e.done = decoder.done /\ e.started = decoder.started /\ e.value = decoder.value /\ e.out = <<>>
  BY DEF AnswerInv, Decoders
<1>4. units \in Seq(Units) /\ sent \in Seq(Units) /\ e \in Decoders
  BY <1>2 DEF AnswerInv, Decoded
<1>. HIDE DEF e
<1>5. CASE e.bad
  <2>1. field = "other" /\ sent = <<>> /\ ~decoder.done
    BY <1>2, <1>3, <1>5 DEF Decoded
  <2>2. IsPrefix(sent, units)
    <3>1. Len(sent) = 0 /\ SubSeq(sent, 1, 0) = <<>> /\ SubSeq(units, 1, 0) = <<>> /\ 0 <= Len(units)
      BY <1>4, <2>1, SubSeqEmpty
    <3>. QED
      BY <3>1 DEF IsPrefix
  <2>. QED
    BY <2>1, <2>2 DEF AnswerInv, AnswerTypeOK, ShownAsWritten
<1>6. CASE ~e.bad
  <2>1. PICK at \in 0..got : ReadTo(e, w, sent, got, at)
    BY <1>2, <1>6 DEF Decoded
  <2>2. /\ ~decoder.started => sent = <<>> /\ ~decoder.done
        /\ decoder.started => field = "response"
        /\ decoder.started => \E k \in 0..Len(units) : sent \o <<>> = SubSeq(units, 1, k) /\ (decoder.done => k = Len(units))
    BY <1>2, <1>3, <2>1 DEF ReadTo
  <2>3. sent \o <<>> = sent
    BY <1>4, ConcatEmptySeq
  <2>4. CASE decoder.started
    <3>1. PICK k \in 0..Len(units) : sent = SubSeq(units, 1, k) /\ (decoder.done => k = Len(units))
      BY <2>2, <2>3, <2>4
    <3>2. Len(sent) = k /\ Len(units) \in Nat
      <4>1. \A i \in 1..k : units[i] \in Units
        BY <1>4
      <4>2. Len(SubSeq(units, 1, k)) = (IF 1 <= k THEN k - 1 + 1 ELSE 0)
        BY <4>1, SubSeqProperties
      <4>. QED
        BY <1>4, <3>1, <4>2
    <3>3. SubSeq(sent, 1, Len(sent)) = sent /\ SubSeq(units, 1, Len(units)) = units
      BY <1>4, SubSeqFull
    <3>4. IsPrefix(sent, units) /\ (decoder.done => sent = units)
      <4>1. k <= Len(units) /\ SubSeq(units, 1, Len(sent)) = sent
        BY <3>1, <3>2
      <4>2. IsPrefix(sent, units)
        BY ONLY <3>2, <3>3, <4>1 DEF IsPrefix
      <4>. QED
        BY <3>1, <3>3, <4>2
    <3>. QED
      BY <1>3, <1>6, <2>2, <2>4, <3>4 DEF AnswerInv, AnswerTypeOK, ShownAsWritten
  <2>5. CASE ~decoder.started
    <3>1. Len(sent) = 0 /\ SubSeq(sent, 1, 0) = <<>> /\ SubSeq(units, 1, 0) = <<>> /\ 0 <= Len(units)
      BY <1>4, <2>2, <2>5, SubSeqEmpty
    <3>2. IsPrefix(sent, units)
      BY <3>1 DEF IsPrefix
    <3>. QED
      BY <1>3, <1>6, <2>2, <2>5, <3>2 DEF AnswerInv, AnswerTypeOK, ShownAsWritten
  <2>. QED
    BY <2>4, <2>5
<1>. QED
  BY <1>5, <1>6

-----------------------------------------------------------------------------
(* The answer of a run with its citations.                                 *)

Outs == Symbols \cup {"source", "unverified", "nolink"}

\* A code that is fenced was opened by its marks.
Streams == {s \in [pending : Seq(Symbols), code : Seq(Symbols), fenced : BOOLEAN, out : Seq(Outs), known : BOOLEAN] :
               s.fenced => s.code # <<>>}

\* What the texts of links become.
Normals == [Seq(Symbols) \X BOOLEAN -> Seq(Outs)]

Behind(s, t) == [s EXCEPT !.pending = @ \o t]

\* The first of a set of places, and that it depends on none behind it.
LEMMA FirstIsLeast ==
  ASSUME NEW n \in Nat, NEW S \in SUBSET (1..n)
  PROVE  /\ FirstOf(S) \in 0..n /\ (FirstOf(S) = 0 <=> S = {})
         /\ S # {} => FirstOf(S) \in S /\ \A i \in S : FirstOf(S) <= i
<1>1. CASE S = {}
  BY <1>1 DEF FirstOf
<1>2. CASE S # {}
  <2>1. S \in SUBSET Nat /\ \A i \in S : i \in 1..n
    OBVIOUS
  <2>2. Min(S) \in S /\ \A i \in S : Min(S) <= i
    BY ONLY <1>2, <2>1, MinIsLeast
  <2>3. FirstOf(S) = Min(S)
    BY <1>2 DEF FirstOf
  <2>. DEFINE f == FirstOf(S)
  <2>4. f \in S /\ \A i \in S : f <= i
    BY <2>2, <2>3
  <2>. HIDE DEF f
  <2>5. f \in 1..n
    BY ONLY <2>1, <2>4
  <2>6. f \in 0..n /\ f # 0
    BY ONLY <2>5
  <2>. QED
    BY ONLY <1>2, <2>4, <2>6 DEF f
<1>. QED
  BY <1>1, <1>2

LEMMA SameFirst ==
  ASSUME NEW n \in Nat, NEW S \in SUBSET (1..n), NEW m \in Nat, NEW T \in SUBSET (1..m), NEW k \in Nat,
         FirstOf(S) # 0, FirstOf(S) <= k, \A i \in 1..k : i \in S <=> i \in T
  PROVE  FirstOf(T) = FirstOf(S)
<1>. DEFINE f == FirstOf(S)
            g == FirstOf(T)
<1>1. f \in S /\ (\A i \in S : f <= i) /\ f \in Nat /\ 1 <= f
  <2>1. f \in 0..n /\ (f = 0 <=> S = {}) /\ (S # {} => f \in S /\ \A i \in S : f <= i)
    BY FirstIsLeast
  <2>. QED
    BY <2>1
<1>2. f \in T
  <2>1. f \in 1..k
    BY <1>1
  <2>. QED
    BY <1>1, <2>1
<1>3. g \in T /\ (\A i \in T : g <= i) /\ g \in Nat /\ 1 <= g
  <2>1. g \in 0..m /\ (T # {} => g \in T /\ \A i \in T : g <= i)
    BY FirstIsLeast
  <2>2. T # {}
    BY <1>2
  <2>3. g \in T
    BY <2>1, <2>2
  <2>. QED
    BY <2>1, <2>2, <2>3
<1>0. f <= k
  OBVIOUS
<1>. HIDE DEF f, g
<1>4. g <= f
  BY <1>2, <1>3
<1>5. g \in S
  <2>1. g \in 1..k
    BY <1>0, <1>1, <1>3, <1>4
  <2>. QED
    BY <1>3, <2>1
<1>6. f = g
  BY ONLY <1>1, <1>3, <1>4, <1>5
<1>. QED
  BY <1>6 DEF f, g

\* A text behind another one leaves what is in the other as it is.
LEMMA BehindText ==
  ASSUME NEW V, NEW p \in Seq(V), NEW t \in Seq(V), NEW q, q = p \o t
  PROVE  /\ q \in Seq(V) /\ Len(q) = Len(p) + Len(t) /\ \A i \in 1..Len(p) : q[i] = p[i]
         /\ \A i \in 1..Len(t) : q[Len(p) + i] = t[i]
<1>1. /\ q \in Seq(V) /\ Len(q) = Len(p) + Len(t)
      /\ \A i \in DOMAIN p : i \in DOMAIN q /\ q[i] = p[i]
      /\ \A i \in DOMAIN t : q[Len(p) + i] = t[i]
  BY Concatenated
<1>. QED
  BY <1>1

LEMMA PieceBehind ==
  ASSUME NEW p \in Seq(Symbols), NEW t \in Seq(Symbols), NEW e \in 0..Len(p), NEW a \in 0..e
  PROVE  SubSeq(p \o t, a + 1, e) = SubSeq(p, a + 1, e)
<1>. DEFINE V == Symbols
            q == p \o t
            x == SubSeq(q, a + 1, e)
            y == SubSeq(p, a + 1, e)
<1>1. q \in Seq(V) /\ Len(q) = Len(p) + Len(t) /\ \A i \in 1..Len(p) : q[i] = p[i]
  BY BehindText
<1>2. e \in 0..Len(q) /\ e \in Nat /\ a \in Nat /\ a <= e /\ e <= Len(p) /\ Len(p) \in Nat
  BY <1>1
<1>3. x \in Seq(V) /\ Len(x) = e - a /\ \A i \in 1..(e - a) : x[i] = q[a + i]
  BY ONLY <1>1, <1>2, a \in 0..e, Sliced
<1>4. y \in Seq(V) /\ Len(y) = e - a /\ \A i \in 1..(e - a) : y[i] = p[a + i]
  BY ONLY p \in Seq(V), e \in 0..Len(p), a \in 0..e, Sliced
<1>. HIDE DEF x, y
<1>5. \A i \in 1..(e - a) : a + i \in 1..Len(p)
  BY ONLY <1>2
<1>6. Len(x) = Len(y) /\ \A i \in 1..Len(x) : x[i] = y[i]
  BY ONLY <1>1, <1>3, <1>4, <1>5
<1>7. x = y
  BY ONLY <1>3, <1>4, <1>6, SeqEqual
<1>. QED
  BY <1>7 DEF x, y

LEMMA BeginningBehind ==
  ASSUME NEW p \in Seq(Symbols), NEW t \in Seq(Symbols), NEW e \in 0..Len(p)
  PROVE  SubSeq(p \o t, 1, e) = SubSeq(p, 1, e)
<1>1. 0 \in 0..e /\ 0 + 1 = 1
  OBVIOUS
<1>2. SubSeq(p \o t, 0 + 1, e) = SubSeq(p, 0 + 1, e)
  BY <1>1, PieceBehind
<1>. QED
  BY <1>1, <1>2

LEMMA RestBehind ==
  ASSUME NEW p \in Seq(Symbols), NEW t \in Seq(Symbols), NEW a \in 0..Len(p)
  PROVE  RestOf(p \o t, a) = RestOf(p, a) \o t
<1>. DEFINE V == Symbols
            q == p \o t
            l == Len(p)
            m == Len(q)
            x == SubSeq(q, a + 1, m)
            y == SubSeq(p, a + 1, l)
            z == y \o t
<1>1. q \in Seq(V) /\ m = l + Len(t) /\ Len(t) \in Nat /\ l \in Nat /\ m \in Nat /\ a \in Nat /\ a <= l
  BY BehindText
<1>2. (\A i \in 1..l : q[i] = p[i]) /\ \A i \in 1..Len(t) : q[l + i] = t[i]
  BY BehindText
<1>3. m \in 0..Len(q) /\ a \in 0..m
  BY <1>1
<1>4. x \in Seq(V) /\ Len(x) = m - a /\ \A i \in 1..(m - a) : x[i] = q[a + i]
  <2>. HIDE DEF m
  <2>. QED
    BY ONLY <1>1, <1>3, Sliced
<1>5. y \in Seq(V) /\ Len(y) = l - a /\ \A i \in 1..(l - a) : y[i] = p[a + i]
  <2>1. l \in 0..Len(p) /\ a \in 0..l
    BY <1>1
  <2>. HIDE DEF l
  <2>. QED
    BY ONLY <2>1, p \in Seq(V), Sliced
<1>6. /\ z \in Seq(V) /\ Len(z) = Len(y) + Len(t)
      /\ \A i \in 1..Len(y) : z[i] = y[i]
      /\ \A i \in 1..Len(t) : z[Len(y) + i] = t[i]
  <2>1. z = y \o t
    OBVIOUS
  <2>2. y \in Seq(V)
    BY <1>5
  <2>. HIDE DEF y, z
  <2>. QED
    BY ONLY <2>1, <2>2, t \in Seq(V), BehindText
<1>. DEFINE k == Len(t)
<1>. HIDE DEF x, y, z, l, m, k
<1>8. ASSUME NEW i \in 1..(m - a) PROVE x[i] = z[i]
  <2>0. x[i] = q[a + i] /\ i \in Nat /\ 1 <= i /\ i <= m - a /\ k \in Nat /\ m = l + k
    <3>1. i \in Nat /\ 1 <= i /\ i <= m - a
      BY ONLY <1>1, i \in 1..(m - a)
    <3>2. k \in Nat /\ m = l + k
      BY ONLY <1>1 DEF k
    <3>. QED
      BY ONLY <1>4, <3>1, <3>2, i \in 1..(m - a)
  <2>1. CASE i <= l - a
    <3>1. i \in 1..(l - a) /\ a + i \in 1..l
      BY ONLY <1>1, <2>0, <2>1
    <3>. QED
      BY ONLY <1>5, <1>6, <1>2, <2>0, <3>1
  <2>2. CASE i > l - a
    <3>. DEFINE j == i - (l - a)
    <3>1. j \in 1..k /\ a + i = l + j /\ i = (l - a) + j
      BY ONLY <1>1, <2>0, <2>2
    <3>. HIDE DEF j
    <3>2. q[l + j] = t[j] /\ z[(l - a) + j] = t[j]
      BY ONLY <1>5, <1>2, <1>6, <3>1 DEF k
    <3>. QED
      BY ONLY <2>0, <3>1, <3>2
  <2>3. i <= l - a \/ i > l - a
    BY ONLY <1>1, <2>0
  <2>. QED
    BY ONLY <2>1, <2>2, <2>3
<1>9. Len(x) = Len(z) /\ \A i \in 1..Len(x) : x[i] = z[i]
  <2>1. Len(z) = (l - a) + k /\ k \in Nat /\ m = l + k
    BY <1>1, <1>5, <1>6 DEF k
  <2>2. Len(x) = Len(z)
    BY ONLY <1>1, <1>4, <2>1
  <2>. QED
    BY ONLY <1>4, <1>8, <2>2
<1>10. x = z
  BY ONLY <1>4, <1>6, <1>9, SeqEqual
<1>. QED
  BY <1>10 DEF RestOf, x, y, z, l, m

LEMMA RestIs ==
  ASSUME NEW p \in Seq(Symbols), NEW a \in 0..Len(p)
  PROVE  RestOf(p, a) \in Seq(Symbols) /\ Len(RestOf(p, a)) = Len(p) - a
<1>. DEFINE e == Len(p)
<1>1. e \in 0..Len(p) /\ a \in 0..e
  OBVIOUS
<1>. HIDE DEF e
<1>2. SubSeq(p, a + 1, e) \in Seq(Symbols) /\ Len(SubSeq(p, a + 1, e)) = e - a
  BY ONLY <1>1, p \in Seq(Symbols), Sliced
<1>. QED
  BY <1>2 DEF RestOf, e

\* Where a line, a run of marks, a span of code, a tag and a bracket end does not depend on the text behind.
LEMMA LineEnds ==
  ASSUME NEW p \in Seq(Symbols), NEW t \in Seq(Symbols)
  PROVE  NewLine(p) \in 0..Len(p) /\ (NewLine(p) # 0 => NewLine(p \o t) = NewLine(p))
<1>. DEFINE q == p \o t
            S == {i \in DOMAIN p : p[i] = "nl"}
            T == {i \in DOMAIN q : q[i] = "nl"}
            l == Len(p)
            m == Len(q)
<1>1. q \in Seq(Symbols) /\ m = l + Len(t) /\ \A i \in 1..l : q[i] = p[i]
  BY BehindText
<1>2. l \in Nat /\ m \in Nat /\ l <= m /\ DOMAIN p = 1..l /\ DOMAIN q = 1..m
  BY <1>1
<1>3. S \in SUBSET (1..l) /\ T \in SUBSET (1..m)
  BY <1>2
<1>4. \A i \in 1..l : i \in 1..m /\ (i \in S <=> i \in T)
  BY <1>1, <1>2
<1>5. NewLine(p) = FirstOf(S) /\ NewLine(q) = FirstOf(T)
  BY DEF NewLine
<1>. HIDE DEF S, T, l, m
<1>6. FirstOf(S) \in 0..l
  BY ONLY <1>2, <1>3, FirstIsLeast
<1>7. ASSUME FirstOf(S) # 0 PROVE FirstOf(T) = FirstOf(S)
  <2>1. FirstOf(S) <= l
    BY ONLY <1>2, <1>6
  <2>. QED
    BY ONLY <1>2, <1>3, <1>4, <1>7, <2>1, SameFirst
<1>. QED
  BY <1>5, <1>6, <1>7 DEF l

LEMMA RunsEnd ==
  ASSUME NEW p \in Seq(Symbols), p # <<>>, NEW t \in Seq(Symbols)
  PROVE  RunLength(p) \in 1..Len(p) /\ (RunLength(p) < Len(p) => RunLength(p \o t) = RunLength(p))
<1>. DEFINE q == p \o t
            l == Len(p)
            m == Len(q)
            S == {i \in DOMAIN p : p[i] # p[1]} \cup {l + 1}
            T == {i \in DOMAIN q : q[i] # q[1]} \cup {m + 1}
<1>1. q \in Seq(Symbols) /\ m = l + Len(t) /\ \A i \in 1..l : q[i] = p[i]
  BY BehindText
<1>2. l \in Nat /\ 1 <= l /\ m \in Nat /\ l <= m /\ DOMAIN p = 1..l /\ DOMAIN q = 1..m
  BY <1>1
<1>3. S \in SUBSET (1..(l + 1)) /\ T \in SUBSET (1..(m + 1)) /\ l + 1 \in S /\ l + 1 \in Nat /\ m + 1 \in Nat
  BY <1>2
<1>4. \A i \in 1..l : (i \in S <=> i \in T) /\ (i \in S => i # 1)
  <2>1. q[1] = p[1] /\ \A i \in 1..l : i \in 1..m /\ i # l + 1 /\ i # m + 1 /\ q[i] = p[i]
    BY <1>1, <1>2
  <2>. QED
    BY <1>2, <2>1
<1>5. RunLength(p) = FirstOf(S) - 1 /\ RunLength(q) = FirstOf(T) - 1
  BY DEF RunLength
<1>. HIDE DEF S, T, l, m
<1>6. FirstOf(S) \in S /\ FirstOf(S) # 0 /\ FirstOf(S) \in 0..(l + 1)
  BY ONLY <1>3, FirstIsLeast
<1>7. FirstOf(S) \in 2..(l + 1)
  <2>1. 1 \in 1..l
    BY ONLY <1>2
  <2>2. FirstOf(S) # 1
    BY ONLY <1>4, <1>6, <2>1
  <2>. QED
    BY ONLY <1>2, <1>6, <2>2
<1>8. ASSUME FirstOf(S) - 1 < l PROVE FirstOf(T) = FirstOf(S)
  <2>1. FirstOf(S) <= l
    BY ONLY <1>2, <1>7, <1>8
  <2>2. \A i \in 1..l : i \in S <=> i \in T
    BY ONLY <1>4
  <2>. QED
    BY ONLY <1>2, <1>3, <1>6, <2>1, <2>2, SameFirst
<1>. DEFINE f == FirstOf(S)
            g == FirstOf(T)
<1>9. f \in 2..(l + 1) /\ (f - 1 < l => g = f)
  BY ONLY <1>7, <1>8
<1>. HIDE DEF f, g
<1>10. f - 1 \in 1..l /\ (f - 1 < l => g - 1 = f - 1)
  BY ONLY <1>2, <1>9
<1>. QED
  BY <1>5, <1>10 DEF f, g, l

\* Where runs of as many backquotes end.
SpanEnds(s, width, final) ==
    {e \in DOMAIN s : \E i \in 1..e :
        /\ \A k \in i..e : s[k] = "bq"
        /\ i > 1 => s[i - 1] # "bq"
        /\ e < Len(s) => s[e + 1] # "bq"
        /\ e - i + 1 = width /\ (e < Len(s) \/ final)}

LEMMA SpanEndsAtRun ==
  ASSUME NEW s \in Seq(Symbols), NEW width, NEW final
  PROVE  CodeSpanEnd(s, width, final) = FirstOf(SpanEnds(s, width, final))
<1>. DEFINE l == Len(s)
            IsRun(r) == /\ r[1] <= r[2] /\ \A k \in r[1]..r[2] : s[k] = "bq"
                        /\ r[1] > 1 => s[r[1] - 1] # "bq"
                        /\ r[2] < l => s[r[2] + 1] # "bq"
            HasWidth(r) == r[2] - r[1] + 1 = width /\ (r[2] < l \/ final)
            runs == {r \in {<<i, j>> : i, j \in DOMAIN s} : IsRun(r)}
            ends == {r[2] : r \in {r \in runs : HasWidth(r)}}
            E == SpanEnds(s, width, final)
<1>1. DOMAIN s = 1..l /\ l \in Nat
  OBVIOUS
<1>2. CodeSpanEnd(s, width, final) = FirstOf(ends)
  BY DEF CodeSpanEnd
<1>3. ASSUME NEW e \in ends PROVE e \in E
  <2>1. PICK r \in runs : HasWidth(r) /\ e = r[2]
    OBVIOUS
  <2>2. PICK i \in 1..l, j \in 1..l : r = <<i, j>>
    BY <1>1, <2>1
  <2>3. IsRun(<<i, j>>) /\ HasWidth(<<i, j>>) /\ e = j
    <3>. HIDE DEF IsRun, HasWidth
    <3>1. IsRun(r) /\ HasWidth(r) /\ e = r[2]
      BY <2>1
    <3>. QED
      BY ONLY <2>2, <3>1
  <2>4. i <= j /\ i \in 1..j
    BY <1>1, <2>3
  <2>. QED
    BY <1>1, <2>3, <2>4 DEF SpanEnds
<1>4. ASSUME NEW e \in E PROVE e \in ends
  <2>1. e \in 1..l
    BY <1>1 DEF SpanEnds
  <2>2. PICK i \in 1..e : /\ \A k \in i..e : s[k] = "bq"
                          /\ i > 1 => s[i - 1] # "bq"
                          /\ e < l => s[e + 1] # "bq"
                          /\ e - i + 1 = width /\ (e < l \/ final)
    BY DEF SpanEnds
  <2>3. i \in 1..l /\ i <= e
    BY <1>1, <2>1
  <2>4. <<i, e>> \in {<<a, b>> : a, b \in DOMAIN s}
    BY <1>1, <2>1, <2>3
  <2>5. IsRun(<<i, e>>) /\ HasWidth(<<i, e>>)
    BY <2>2, <2>3
  <2>6. <<i, e>>[2] = e
    OBVIOUS
  <2>. HIDE DEF IsRun, HasWidth
  <2>7. <<i, e>> \in runs
    BY ONLY <2>4, <2>5
  <2>8. <<i, e>> \in {r \in runs : HasWidth(r)}
    BY ONLY <2>5, <2>7
  <2>. QED
    BY ONLY <2>6, <2>8
<1>. HIDE DEF ends, E
<1>5. ends = E
  BY ONLY <1>3, <1>4
<1>. QED
  BY ONLY <1>2, <1>5 DEF E

\* Where a span ends for which no text has to come.
EndNow(p, width) == CodeSpanEnd(p, width, FALSE)

LEMMA SpansEnd ==
  ASSUME NEW p \in Seq(Symbols), NEW t \in Seq(Symbols), NEW width, NEW final
  PROVE  /\ CodeSpanEnd(p, width, final) \in 0..Len(p)
         /\ EndNow(p, width) # 0 => CodeSpanEnd(p \o t, width, final) = EndNow(p, width)
<1>. DEFINE q == p \o t
            l == Len(p)
            m == Len(q)
            O == SpanEnds(p, width, final)
            S == SpanEnds(p, width, FALSE)
            T == SpanEnds(q, width, final)
<1>1. q \in Seq(Symbols) /\ m = l + Len(t) /\ \A i \in 1..l : q[i] = p[i]
  BY BehindText
<1>2. l \in Nat /\ m \in Nat /\ l <= m /\ DOMAIN p = 1..l /\ DOMAIN q = 1..m
  BY <1>1
<1>3. O \in SUBSET (1..l) /\ S \in SUBSET (1..l) /\ T \in SUBSET (1..m) /\ \A e \in S : e < l
  BY <1>2 DEF SpanEnds
<1>4. ASSUME NEW e \in 1..(l - 1) PROVE e \in S <=> e \in T
  <2>1. e \in 1..l /\ e \in 1..m /\ e < l /\ e < m /\ e + 1 \in 1..l
    BY <1>2
  <2>2. \A i \in 1..e : (\A k \in i..e : k \in 1..l) /\ (i > 1 => i - 1 \in 1..l)
    BY <1>2, <2>1
  <2>. DEFINE IsRun(s, i) == /\ \A k \in i..e : s[k] = "bq"
                             /\ i > 1 => s[i - 1] # "bq"
                             /\ s[e + 1] # "bq" /\ e - i + 1 = width
  <2>3. ASSUME NEW i \in 1..e PROVE IsRun(p, i) <=> IsRun(q, i)
    <3>1. (\A k \in i..e : p[k] = q[k]) /\ (i > 1 => p[i - 1] = q[i - 1]) /\ p[e + 1] = q[e + 1]
      BY <1>1, <2>1, <2>2
    <3>. QED
      BY <3>1
  <2>4. e \in S <=> \E i \in 1..e : IsRun(p, i)
    BY <1>2, <2>1 DEF SpanEnds
  <2>5. e \in T <=> \E i \in 1..e : IsRun(q, i)
    BY <1>2, <2>1 DEF SpanEnds
  <2>. HIDE DEF IsRun, S, T
  <2>. QED
    BY ONLY <2>3, <2>4, <2>5
<1>5. /\ CodeSpanEnd(p, width, final) = FirstOf(O)
      /\ CodeSpanEnd(p, width, FALSE) = FirstOf(S) /\ CodeSpanEnd(q, width, final) = FirstOf(T)
  BY <1>1, SpanEndsAtRun
<1>. HIDE DEF O, S, T, l, m
<1>6. FirstOf(O) \in 0..l
  BY ONLY <1>2, <1>3, FirstIsLeast
<1>7. ASSUME FirstOf(S) # 0 PROVE FirstOf(T) = FirstOf(S)
  <2>1. FirstOf(S) \in S /\ FirstOf(S) \in 0..l
    BY ONLY <1>2, <1>3, <1>7, FirstIsLeast
  <2>. DEFINE k == l - 1
  <2>2. k \in Nat /\ FirstOf(S) <= k
    BY ONLY <1>2, <1>3, <2>1
  <2>3. \A i \in 1..k : i \in S <=> i \in T
    BY ONLY <1>4
  <2>. HIDE DEF k
  <2>. QED
    BY ONLY <1>2, <1>3, <1>7, <2>2, <2>3, SameFirst
<1>. QED
  BY <1>5, <1>6, <1>7 DEF l, EndNow

LEMMA TagsEnd ==
  ASSUME NEW p \in Seq(Symbols), NEW t \in Seq(Symbols)
  PROVE  TagEnd(p) \in 0..Len(p) /\ (TagEnd(p) # 0 => TagEnd(p \o t) = TagEnd(p))
<1>. DEFINE q == p \o t
            Quotes(s, i) == {j \in 1..i : s[j] = "'"}
            S == {i \in DOMAIN p : p[i] = ">" /\ Cardinality(Quotes(p, i)) % 2 = 0}
            T == {i \in DOMAIN q : q[i] = ">" /\ Cardinality(Quotes(q, i)) % 2 = 0}
            l == Len(p)
            m == Len(q)
<1>1. q \in Seq(Symbols) /\ m = l + Len(t) /\ \A i \in 1..l : q[i] = p[i]
  BY BehindText
<1>2. l \in Nat /\ m \in Nat /\ l <= m /\ DOMAIN p = 1..l /\ DOMAIN q = 1..m
  BY <1>1
<1>3. S \in SUBSET (1..l) /\ T \in SUBSET (1..m)
  BY <1>2
<1>4. \A i \in 1..l : i \in S <=> i \in T
  <2>1. ASSUME NEW i \in 1..l PROVE Quotes(p, i) = Quotes(q, i)
    <3>1. \A j \in 1..i : j \in 1..l
      BY <1>2
    <3>. QED
      BY <1>1, <3>1
  <2>2. ASSUME NEW i \in 1..l PROVE i \in 1..m /\ p[i] = q[i]
    BY <1>1, <1>2
  <2>. HIDE DEF Quotes
  <2>. QED
    BY <1>2, <2>1, <2>2
<1>5. TagEnd(p) = FirstOf(S) /\ TagEnd(q) = FirstOf(T)
  BY DEF TagEnd
<1>. HIDE DEF S, T, l, m
<1>6. FirstOf(S) \in 0..l
  BY ONLY <1>2, <1>3, FirstIsLeast
<1>7. ASSUME FirstOf(S) # 0 PROVE FirstOf(T) = FirstOf(S)
  <2>1. FirstOf(S) <= l
    BY ONLY <1>2, <1>6
  <2>. QED
    BY ONLY <1>2, <1>3, <1>4, <1>7, <2>1, SameFirst
<1>. QED
  BY <1>5, <1>6, <1>7 DEF l

LEMMA BracketsClose ==
  ASSUME NEW p \in Seq(Symbols), NEW t \in Seq(Symbols), NEW open, NEW close
  PROVE  /\ Closing(p, open, close) \in 0..Len(p)
         /\ Closing(p, open, close) # 0 => p[Closing(p, open, close)] = close /\ Closing(p \o t, open, close) = Closing(p, open, close)
<1>. DEFINE q == p \o t
            l == Len(p)
            m == Len(q)
            S == {i \in DOMAIN p : p[i] = close /\ ~Escaped(p, i) /\ Count(p, i, open) = Count(p, i, close)}
            T == {i \in DOMAIN q : q[i] = close /\ ~Escaped(q, i) /\ Count(q, i, open) = Count(q, i, close)}
<1>1. q \in Seq(Symbols) /\ m = l + Len(t) /\ \A i \in 1..l : q[i] = p[i]
  BY BehindText
<1>2. l \in Nat /\ m \in Nat /\ l <= m /\ DOMAIN p = 1..l /\ DOMAIN q = 1..m
  BY <1>1
<1>3. S \in SUBSET (1..l) /\ T \in SUBSET (1..m)
  BY <1>2
<1>. HIDE DEF l, m
<1>4. ASSUME NEW i \in 1..l PROVE Escaped(p, i) = Escaped(q, i)
  <2>. DEFINE Marks(s) == {j \in 1..(i - 1) : \A k \in j..(i - 1) : s[k] = "esc"}
  <2>1. \A j \in 1..(i - 1) : \A k \in j..(i - 1) : k \in 1..l
    BY ONLY <1>2, i \in 1..l
  <2>2. Marks(p) = Marks(q)
    BY ONLY <1>1, <2>1
  <2>. HIDE DEF Marks
  <2>3. Cardinality(Marks(p)) = Cardinality(Marks(q))
    BY ONLY <2>2
  <2>. QED
    BY ONLY <2>3 DEF Escaped, Marks
<1>5. ASSUME NEW i \in 1..l, NEW c PROVE Count(p, i, c) = Count(q, i, c)
  <2>. DEFINE Marks(s) == {j \in 1..i : s[j] = c /\ ~Escaped(s, j)}
  <2>1. \A j \in 1..i : j \in 1..l
    BY ONLY <1>2, i \in 1..l
  <2>2. Marks(p) = Marks(q)
    BY ONLY <1>1, <1>4, <2>1
  <2>. HIDE DEF Marks
  <2>3. Cardinality(Marks(p)) = Cardinality(Marks(q))
    BY ONLY <2>2
  <2>. QED
    BY ONLY <2>3 DEF Count, Marks
<1>6. \A i \in 1..l : i \in S <=> i \in T
  <2>1. ASSUME NEW i \in 1..l PROVE i \in DOMAIN p /\ i \in DOMAIN q /\ p[i] = q[i]
    BY ONLY <1>1, <1>2, i \in 1..l
  <2>. QED
    BY ONLY <1>4, <1>5, <2>1
<1>7. \A i \in S : p[i] = close
  OBVIOUS
<1>8. Closing(p, open, close) = FirstOf(S) /\ Closing(q, open, close) = FirstOf(T)
  BY DEF Closing
<1>. HIDE DEF S, T
<1>9. FirstOf(S) \in 0..l /\ (FirstOf(S) # 0 => FirstOf(S) \in S)
  BY ONLY <1>2, <1>3, FirstIsLeast
<1>10. ASSUME FirstOf(S) # 0 PROVE FirstOf(T) = FirstOf(S)
  <2>1. FirstOf(S) <= l
    BY ONLY <1>2, <1>9
  <2>. QED
    BY ONLY <1>2, <1>3, <1>6, <1>10, <2>1, SameFirst
<1>. QED
  BY <1>7, <1>8, <1>9, <1>10 DEF l

\* A stream by what it holds.
Stream(pending, code, fenced, out, known) ==
    [pending |-> pending, code |-> code, fenced |-> fenced, out |-> out, known |-> known]

LEMMA StreamIs ==
  ASSUME NEW p \in Seq(Symbols), NEW c \in Seq(Symbols), NEW f \in BOOLEAN, NEW o \in Seq(Outs), NEW k \in BOOLEAN,
         f => c # <<>>
  PROVE  Stream(p, c, f, o, k) \in Streams
BY DEF Stream, Streams

LEMMA StreamHolds ==
  ASSUME NEW s \in Streams
  PROVE  /\ s.pending \in Seq(Symbols) /\ s.code \in Seq(Symbols) /\ s.fenced \in BOOLEAN /\ s.out \in Seq(Outs)
         /\ s.known \in BOOLEAN /\ (s.fenced => s.code # <<>>)
         /\ s = Stream(s.pending, s.code, s.fenced, s.out, s.known)
BY DEF Stream, Streams

LEMMA BehindIs ==
  ASSUME NEW s \in Streams, NEW t \in Seq(Symbols)
  PROVE  /\ Behind(s, t) = Stream(s.pending \o t, s.code, s.fenced, s.out, s.known)
         /\ Behind(s, t) \in Streams /\ Behind(s, t).pending = s.pending \o t /\ Behind(s, t).code = s.code
         /\ Behind(s, t).fenced = s.fenced /\ Behind(s, t).out = s.out /\ Behind(s, t).known = s.known
<1>. DEFINE w == s.pending \o t
<1>1. w \in Seq(Symbols)
  BY StreamHolds
<1>2. Behind(s, t) = [s EXCEPT !.pending = w]
  BY DEF Behind
<1>. HIDE DEF w
<1>3. [s EXCEPT !.pending = w] = [pending |-> w, code |-> s.code, fenced |-> s.fenced, out |-> s.out, known |-> s.known]
  <2>1. s = [pending |-> s.pending, code |-> s.code, fenced |-> s.fenced, out |-> s.out, known |-> s.known]
    BY StreamHolds DEF Stream
  <2>. QED
    BY ONLY <2>1
<1>4. Behind(s, t) = Stream(w, s.code, s.fenced, s.out, s.known)
  BY <1>2, <1>3 DEF Stream
<1>5. Stream(w, s.code, s.fenced, s.out, s.known) \in Streams
  BY <1>1, StreamHolds, StreamIs
<1>. DEFINE b == Behind(s, t)
<1>. HIDE DEF b
<1>6. b.pending = w /\ b.code = s.code /\ b.fenced = s.fenced /\ b.out = s.out /\ b.known = s.known
  BY ONLY <1>4 DEF Stream, b
<1>. QED
  BY ONLY <1>4, <1>5, <1>6 DEF w, b

LEMMA EmitIs ==
  ASSUME NEW s \in Streams, NEW x, NEW n
  PROVE  Emit(s, x, n) = Stream(RestOf(s.pending, n), s.code, s.fenced, s.out \o x, s.known)
<1>. DEFINE r == RestOf(s.pending, n)
            y == s.out \o x
            s1 == [s EXCEPT !.out = y]
            s2 == [s1 EXCEPT !.pending = r]
<1>1. Emit(s, x, n) = s2
  BY DEF Emit, Streams
<1>. HIDE DEF r, y
<1>2. s1 = [pending |-> s.pending, code |-> s.code, fenced |-> s.fenced, out |-> y, known |-> s.known]
  BY DEF Streams
<1>. HIDE DEF s1
<1>3. s2 = [pending |-> r, code |-> s.code, fenced |-> s.fenced, out |-> y, known |-> s.known]
  BY ONLY <1>2 DEF s2
<1>. QED
  BY <1>1, <1>3 DEF Stream, r, y

EmitCode(s, x, n, d) == [Emit(s, x, n) EXCEPT !.code = d]
EmitFenced(s, x, n, d, g) == [Emit(s, x, n) EXCEPT !.code = d, !.fenced = g]

LEMMA EmitCodeIs ==
  ASSUME NEW s \in Streams, NEW x, NEW n, NEW d
  PROVE  EmitCode(s, x, n, d) = Stream(RestOf(s.pending, n), d, s.fenced, s.out \o x, s.known)
<1>. DEFINE e == Emit(s, x, n)
            r == RestOf(s.pending, n)
            y == s.out \o x
<1>1. e = [pending |-> r, code |-> s.code, fenced |-> s.fenced, out |-> y, known |-> s.known]
  BY EmitIs DEF Stream
<1>. HIDE DEF e, r, y
<1>2. [e EXCEPT !.code = d] = [pending |-> r, code |-> d, fenced |-> s.fenced, out |-> y, known |-> s.known]
  BY ONLY <1>1
<1>. QED
  BY <1>2 DEF EmitCode, Stream, e, r, y

LEMMA EmitFencedIs ==
  ASSUME NEW s \in Streams, NEW x, NEW n, NEW d, NEW g
  PROVE  EmitFenced(s, x, n, d, g) = Stream(RestOf(s.pending, n), d, g, s.out \o x, s.known)
<1>. DEFINE e == EmitCode(s, x, n, d)
            r == RestOf(s.pending, n)
            y == s.out \o x
<1>1. e = [pending |-> r, code |-> d, fenced |-> s.fenced, out |-> y, known |-> s.known]
  BY EmitCodeIs DEF Stream
<1>2. EmitFenced(s, x, n, d, g) = [e EXCEPT !.fenced = g]
  BY DEF EmitCode, EmitFenced
<1>. HIDE DEF e, r, y
<1>3. [e EXCEPT !.fenced = g] = [pending |-> r, code |-> d, fenced |-> g, out |-> y, known |-> s.known]
  BY ONLY <1>1
<1>. QED
  BY ONLY <1>2, <1>3 DEF Stream, r, y

\* No stream is the sign for waiting.
LEMMA NoStreamWaits ==
  ASSUME NEW s \in Streams
  PROVE  s # Wait
<1>1. Wait.pending = <<"wait">>
  BY DEF Wait, Fresh
<1>2. "wait" \notin Symbols
  BY DEF Symbols
<1>3. <<"wait">> \notin Seq(Symbols)
  <2>1. ASSUME <<"wait">> \in Seq(Symbols) PROVE FALSE
    <3>. DEFINE x == <<"wait">>
    <3>1. x \in Seq(Symbols) /\ Len(x) = 1 /\ x[1] = "wait"
      BY <2>1
    <3>. HIDE DEF x
    <3>2. x[1] \in Symbols
      BY ONLY <3>1, ElementOfSeq
    <3>. QED
      BY ONLY <1>2, <3>1, <3>2
  <2>. QED
    BY <2>1
<1>. QED
  BY <1>1, <1>3, StreamHolds

\* A round takes symbols from what is pending, or gives up a span of code.
Moved(s, r) ==
    /\ r \in Streams /\ r.known = s.known
    /\ \/ Len(r.pending) < Len(s.pending)
       \/ r.pending = s.pending /\ s.code # <<>> /\ r.code = <<>>

LEMMA EmittedMoves ==
  ASSUME NEW s \in Streams, NEW n \in 1..Len(s.pending), NEW x \in Seq(Outs), NEW c \in Seq(Symbols), NEW f \in BOOLEAN,
         f => c # <<>>
  PROVE  /\ Moved(s, Emit(s, x, n))
         /\ s.fenced = FALSE => Moved(s, EmitCode(s, x, n, c))
         /\ Moved(s, EmitFenced(s, x, n, c, f))
<1>. DEFINE p == s.pending
            r == RestOf(p, n)
            o == s.out \o x
<1>1. /\ p \in Seq(Symbols) /\ s.code \in Seq(Symbols) /\ s.fenced \in BOOLEAN /\ s.out \in Seq(Outs)
      /\ s.known \in BOOLEAN /\ (s.fenced => s.code # <<>>)
      /\ s = Stream(p, s.code, s.fenced, s.out, s.known)
  BY StreamHolds
<1>2. r \in Seq(Symbols) /\ Len(r) < Len(p)
  <2>1. n \in 0..Len(p)
    BY <1>1
  <2>2. r \in Seq(Symbols) /\ Len(r) = Len(p) - n
    BY ONLY <1>1, <2>1, RestIs
  <2>3. Len(p) \in Nat /\ n \in Nat /\ 1 <= n /\ n <= Len(p)
    BY ONLY <1>1, n \in 1..Len(s.pending)
  <2>. HIDE DEF p, r
  <2>. QED
    BY ONLY <2>2, <2>3
<1>3. o \in Seq(Outs)
  BY <1>1
<1>4. /\ Emit(s, x, n) = Stream(r, s.code, s.fenced, o, s.known)
      /\ EmitCode(s, x, n, c) = Stream(r, c, s.fenced, o, s.known)
      /\ EmitFenced(s, x, n, c, f) = Stream(r, c, f, o, s.known)
  BY EmitIs, EmitCodeIs, EmitFencedIs
<1>. HIDE DEF r, o
<1>5. ASSUME NEW d \in Seq(Symbols), NEW g \in BOOLEAN, g => d # <<>>
      PROVE  Moved(s, Stream(r, d, g, o, s.known))
  <2>. DEFINE e == Stream(r, d, g, o, s.known)
  <2>1. e \in Streams
    BY <1>1, <1>2, <1>3, <1>5, StreamIs
  <2>2. e.pending = r /\ e.known = s.known
    BY DEF Stream
  <2>. HIDE DEF e
  <2>3. Moved(s, e)
    BY <1>2, <2>1, <2>2 DEF Moved
  <2>. QED
    BY <2>3 DEF e
<1>6. Moved(s, Stream(r, s.code, s.fenced, o, s.known)) /\ Moved(s, Stream(r, c, f, o, s.known))
  BY <1>1, <1>5
<1>7. ASSUME s.fenced = FALSE PROVE Moved(s, Stream(r, c, s.fenced, o, s.known))
  BY <1>1, <1>5, <1>7
<1>. QED
  BY <1>4, <1>6, <1>7

\* What a round does to the symbols it takes, it does whatever is behind them.
LEMMA EmittedBehind ==
  ASSUME NEW s \in Streams, NEW n \in 1..Len(s.pending), NEW x \in Seq(Outs), NEW c \in Seq(Symbols), NEW f \in BOOLEAN,
         f => c # <<>>, NEW t \in Seq(Symbols)
  PROVE  /\ Emit(Behind(s, t), x, n) = Behind(Emit(s, x, n), t)
         /\ s.fenced = FALSE => EmitCode(Behind(s, t), x, n, c) = Behind(EmitCode(s, x, n, c), t)
         /\ EmitFenced(Behind(s, t), x, n, c, f) = Behind(EmitFenced(s, x, n, c, f), t)
<1>. DEFINE p == s.pending
            b == Behind(s, t)
            r == RestOf(p, n)
            o == s.out \o x
<1>1. p \in Seq(Symbols)
  BY StreamHolds
<1>2. RestOf(p \o t, n) = r \o t
  <2>1. n \in 0..Len(p)
    BY <1>1
  <2>. QED
    BY ONLY <1>1, <2>1, t \in Seq(Symbols), RestBehind
<1>3. b \in Streams /\ b.pending = p \o t /\ b.code = s.code /\ b.fenced = s.fenced /\ b.out = s.out /\ b.known = s.known
  BY BehindIs
<1>4. /\ Emit(s, x, n) = Stream(r, s.code, s.fenced, o, s.known)
      /\ EmitCode(s, x, n, c) = Stream(r, c, s.fenced, o, s.known)
      /\ EmitFenced(s, x, n, c, f) = Stream(r, c, f, o, s.known)
  BY EmitIs, EmitCodeIs, EmitFencedIs
<1>. HIDE DEF b
<1>5. /\ Emit(b, x, n) = Stream(r \o t, s.code, s.fenced, o, s.known)
      /\ EmitCode(b, x, n, c) = Stream(r \o t, c, s.fenced, o, s.known)
      /\ EmitFenced(b, x, n, c, f) = Stream(r \o t, c, f, o, s.known)
  <2>1. /\ Emit(b, x, n) = Stream(RestOf(b.pending, n), b.code, b.fenced, b.out \o x, b.known)
        /\ EmitCode(b, x, n, c) = Stream(RestOf(b.pending, n), c, b.fenced, b.out \o x, b.known)
        /\ EmitFenced(b, x, n, c, f) = Stream(RestOf(b.pending, n), c, f, b.out \o x, b.known)
    <3>1. b \in Streams
      BY <1>3
    <3>. QED
      BY ONLY <3>1, EmitIs, EmitCodeIs, EmitFencedIs
  <2>. QED
    BY ONLY <1>2, <1>3, <2>1
<1>. DEFINE e1 == Emit(s, x, n)
            e2 == EmitCode(s, x, n, c)
            e3 == EmitFenced(s, x, n, c, f)
<1>6. e1 \in Streams /\ e3 \in Streams /\ (s.fenced = FALSE => e2 \in Streams)
  BY EmittedMoves DEF Moved
<1>. HIDE DEF e1, e2, e3
<1>7. ASSUME NEW d, NEW g, NEW e \in Streams, e = Stream(r, d, g, o, s.known)
      PROVE  Behind(e, t) = Stream(r \o t, d, g, o, s.known)
  <2>1. e.pending = r /\ e.code = d /\ e.fenced = g /\ e.out = o /\ e.known = s.known
    BY ONLY <1>7 DEF Stream
  <2>2. Behind(e, t) = Stream(e.pending \o t, e.code, e.fenced, e.out, e.known)
    BY BehindIs
  <2>. QED
    BY ONLY <2>1, <2>2
<1>8. Behind(e1, t) = Stream(r \o t, s.code, s.fenced, o, s.known)
  BY <1>4, <1>6, <1>7 DEF e1
<1>9. Behind(e3, t) = Stream(r \o t, c, f, o, s.known)
  BY <1>4, <1>6, <1>7 DEF e3
<1>10. s.fenced = FALSE => Behind(e2, t) = Stream(r \o t, c, s.fenced, o, s.known)
  BY <1>4, <1>6, <1>7 DEF e2
<1>. QED
  BY <1>5, <1>8, <1>9, <1>10 DEF b, e1, e2, e3

LEMMA JustEmits ==
  ASSUME NEW s \in Streams, NEW n \in 1..Len(s.pending), NEW x \in Seq(Outs), NEW t \in Seq(Symbols)
  PROVE  Moved(s, Emit(s, x, n)) /\ Emit(Behind(s, t), x, n) = Behind(Emit(s, x, n), t)
<1>1. <<>> \in Seq(Symbols) /\ FALSE \in BOOLEAN /\ (FALSE => <<>> # <<>>)
  OBVIOUS
<1>. QED
  BY <1>1, EmittedMoves, EmittedBehind

LEMMA JustEmitsCode ==
  ASSUME NEW s \in Streams, s.fenced = FALSE, NEW n \in 1..Len(s.pending), NEW x \in Seq(Outs), NEW c \in Seq(Symbols),
         NEW t \in Seq(Symbols)
  PROVE  Moved(s, EmitCode(s, x, n, c)) /\ EmitCode(Behind(s, t), x, n, c) = Behind(EmitCode(s, x, n, c), t)
<1>1. FALSE \in BOOLEAN /\ (FALSE => c # <<>>)
  OBVIOUS
<1>2. Moved(s, EmitCode(s, x, n, c))
  BY <1>1, EmittedMoves
<1>3. EmitCode(Behind(s, t), x, n, c) = Behind(EmitCode(s, x, n, c), t)
  BY <1>1, EmittedBehind
<1>. QED
  BY <1>2, <1>3

LEMMA SymbolsGoOut ==
  /\ \A s \in Seq(Symbols) : s \in Seq(Outs)
  /\ Verified \in Seq(Outs) /\ Unverified \in Seq(Outs) /\ NoLink \in Seq(Outs) /\ <<>> \in Seq(Symbols)
  /\ <<"<">> \in Seq(Outs) /\ <<"[">> \in Seq(Outs)
<1>1. Symbols \subseteq Outs /\ "source" \in Outs /\ "unverified" \in Outs /\ "nolink" \in Outs /\ "<" \in Outs /\ "[" \in Outs
  BY DEF Outs, Symbols
<1>2. \A s \in Seq(Symbols) : s \in Seq(Outs)
  BY <1>1
<1>. QED
  BY <1>1, <1>2 DEF Verified, Unverified, NoLink

\* A round waits, or it moves; at the end it does not wait.
WaitsOrMoves(s, b, r) == (r # Wait => Moved(s, r)) /\ (b => r # Wait)

LEMMA MovedIsGood ==
  ASSUME NEW s, NEW b, NEW r, Moved(s, r)
  PROVE  WaitsOrMoves(s, b, r)
BY NoStreamWaits DEF Moved, WaitsOrMoves

LEMMA WaitIsGood ==
  ASSUME NEW s, NEW b, ~b
  PROVE  WaitsOrMoves(s, b, Wait)
BY DEF WaitsOrMoves

LineEnd(p) == IF NewLine(p) = 0 THEN Len(p) ELSE NewLine(p)

FenceCloses(out, code, line, end) ==
    LET blank == FirstOf({i \in DOMAIN line : line[i] # "sp"} \cup {end + 1}) - 1
        rest  == RestOf(line, blank)
    IN  /\ FenceStart(out) /\ blank <= 3 /\ rest # <<>> /\ rest[1] = code[1]
        /\ RunLength(rest) >= Len(code) /\ Range(RestOf(rest, RunLength(rest))) \subseteq {"sp", "nl"}

LEMMA FencedLineIs ==
  ASSUME NEW s, NEW b
  PROVE  LET end  == LineEnd(s.pending)
             line == SubSeq(s.pending, 1, end)
         IN  FencedLine(s, b) = IF NewLine(s.pending) = 0 /\ ~b THEN Wait
                                ELSE IF FenceCloses(s.out, s.code, line, end) THEN EmitFenced(s, line, end, <<>>, FALSE)
                                ELSE Emit(s, line, end)
BY DEF FencedLine, LineEnd, FenceCloses, EmitFenced

LEMMA FencedLineGoesOn ==
  ASSUME NEW s \in Streams, s.pending # <<>>, NEW t \in Seq(Symbols), NEW b \in BOOLEAN
  PROVE  /\ WaitsOrMoves(s, b, FencedLine(s, b))
         /\ FencedLine(s, FALSE) # Wait => FencedLine(Behind(s, t), b) = Behind(FencedLine(s, FALSE), t)
<1>. DEFINE p == s.pending
            q == p \o t
            u == Behind(s, t)
            end == LineEnd(p)
            line == SubSeq(p, 1, end)
            closes == FenceCloses(s.out, s.code, line, end)
            e == Emit(s, line, end)
            f == EmitFenced(s, line, end, <<>>, FALSE)
<1>1. p \in Seq(Symbols) /\ Len(p) \in Nat /\ 1 <= Len(p)
  BY StreamHolds
<1>2. NewLine(p) \in 0..Len(p) /\ (NewLine(p) # 0 => NewLine(q) = NewLine(p))
  BY <1>1, LineEnds
<1>3. end \in 1..Len(p)
  BY <1>1, <1>2 DEF LineEnd
<1>4. line \in Seq(Outs)
  <2>1. end \in 0..Len(p)
    BY <1>3
  <2>2. line \in Seq(Symbols)
    BY ONLY <1>1, <2>1, Beginning
  <2>. QED
    BY <2>2, SymbolsGoOut
<1>5. /\ FencedLine(s, b) = IF NewLine(p) = 0 /\ ~b THEN Wait ELSE IF closes THEN f ELSE e
      /\ FencedLine(s, FALSE) = IF NewLine(p) = 0 THEN Wait ELSE IF closes THEN f ELSE e
  BY FencedLineIs
<1>6. u \in Streams /\ u.pending = q /\ u.code = s.code /\ u.out = s.out
  BY BehindIs
<1>7. Moved(s, e) /\ Moved(s, f)
  <2>1. <<>> \in Seq(Symbols) /\ FALSE \in BOOLEAN
    OBVIOUS
  <2>. HIDE DEF line, end
  <2>. QED
    BY <1>3, <1>4, <2>1, EmittedMoves
<1>8. Emit(u, line, end) = Behind(e, t) /\ EmitFenced(u, line, end, <<>>, FALSE) = Behind(f, t)
  <2>1. <<>> \in Seq(Symbols) /\ FALSE \in BOOLEAN
    OBVIOUS
  <2>. HIDE DEF line, end
  <2>. QED
    BY <1>3, <1>4, <2>1, EmittedBehind
<1>9. ASSUME NewLine(p) # 0 PROVE FencedLine(u, b) = IF closes THEN Behind(f, t) ELSE Behind(e, t)
  <2>1. LineEnd(q) = end /\ NewLine(q) # 0
    BY <1>2, <1>9 DEF LineEnd
  <2>2. SubSeq(q, 1, end) = line
    <3>1. end \in 0..Len(p)
      BY <1>3
    <3>. QED
      BY ONLY <1>1, <3>1, t \in Seq(Symbols), BeginningBehind
  <2>. DEFINE x == LineEnd(u.pending)
              y == SubSeq(u.pending, 1, x)
  <2>3. FencedLine(u, b) = IF NewLine(u.pending) = 0 /\ ~b THEN Wait
                           ELSE IF FenceCloses(u.out, u.code, y, x) THEN EmitFenced(u, y, x, <<>>, FALSE)
                           ELSE Emit(u, y, x)
    BY FencedLineIs
  <2>4. x = end /\ y = line
    BY <1>6, <2>1, <2>2
  <2>. HIDE DEF x, y, u, q, p, end, line, e, f
  <2>. QED
    BY <1>6, <1>8, <2>1, <2>3, <2>4
<1>. HIDE DEF closes, e, f, u, p
<1>10. WaitsOrMoves(s, b, FencedLine(s, b))
  BY <1>5, <1>7, MovedIsGood, WaitIsGood
<1>. QED
  BY <1>5, <1>9, <1>10 DEF p, u

GaveUp(s) == [s EXCEPT !.out = @ \o s.code, !.code = <<>>]

LEMMA GaveUpMoves ==
  ASSUME NEW s \in Streams, s.code # <<>>, ~s.fenced
  PROVE  Moved(s, GaveUp(s))
<1>. DEFINE y == s.out \o s.code
            s1 == [s EXCEPT !.out = y]
            s2 == [s1 EXCEPT !.code = <<>>]
<1>1. /\ s = [pending |-> s.pending, code |-> s.code, fenced |-> s.fenced, out |-> s.out, known |-> s.known]
      /\ s.pending \in Seq(Symbols) /\ s.code \in Seq(Symbols) /\ s.fenced \in BOOLEAN /\ s.out \in Seq(Outs)
      /\ s.known \in BOOLEAN
  BY StreamHolds DEF Stream
<1>2. GaveUp(s) = s2
  BY DEF GaveUp
<1>3. y \in Seq(Outs) /\ <<>> \in Seq(Symbols)
  BY <1>1, SymbolsGoOut
<1>. HIDE DEF y
<1>4. s1 = [pending |-> s.pending, code |-> s.code, fenced |-> s.fenced, out |-> y, known |-> s.known]
  BY ONLY <1>1 DEF s1
<1>. HIDE DEF s1
<1>5. s2 = Stream(s.pending, <<>>, s.fenced, y, s.known)
  BY ONLY <1>4 DEF s2, Stream
<1>. HIDE DEF s2
<1>6. s2 \in Streams
  <2>1. s.fenced => <<>> # <<>>
    OBVIOUS
  <2>. QED
    BY <1>1, <1>3, <1>5, <2>1, StreamIs
<1>7. s2.pending = s.pending /\ s2.code = <<>> /\ s2.known = s.known
  BY ONLY <1>5 DEF Stream
<1>. QED
  BY <1>2, <1>6, <1>7 DEF Moved

LEMMA CodeSpanIs ==
  ASSUME NEW s, NEW b
  PROVE  LET end == CodeSpanEnd(s.pending, Len(s.code), b)
         IN  CodeSpan(s, b) = IF end # 0 THEN EmitCode(s, s.code \o SubSeq(s.pending, 1, end), end, <<>>)
                              ELSE IF ~b THEN Wait ELSE GaveUp(s)
BY DEF CodeSpan, EmitCode, GaveUp

LEMMA CodeSpanGoesOn ==
  ASSUME NEW s \in Streams, s.code # <<>>, ~s.fenced, NEW t \in Seq(Symbols), NEW b \in BOOLEAN
  PROVE  /\ WaitsOrMoves(s, b, CodeSpan(s, b))
         /\ CodeSpan(s, FALSE) # Wait => CodeSpan(Behind(s, t), b) = Behind(CodeSpan(s, FALSE), t)
<1>. DEFINE p == s.pending
            q == p \o t
            u == Behind(s, t)
            w == Len(s.code)
            end(x) == CodeSpanEnd(p, w, x)
            span(n) == s.code \o SubSeq(p, 1, n)
<1>1. p \in Seq(Symbols) /\ s.code \in Seq(Symbols) /\ Len(p) \in Nat /\ s.fenced = FALSE
  BY StreamHolds
<1>2. ASSUME NEW x \in BOOLEAN
      PROVE  end(x) \in 0..Len(p) /\ (EndNow(p, w) # 0 => CodeSpanEnd(q, w, x) = EndNow(p, w))
  <2>. HIDE DEF w, p
  <2>. QED
    BY ONLY <1>1, t \in Seq(Symbols), SpansEnd DEF q
<1>3. u \in Streams /\ u.pending = q /\ u.code = s.code /\ u.fenced = FALSE
  BY <1>1, BehindIs
<1>4. ASSUME NEW n \in 1..Len(p)
      PROVE  /\ Moved(s, EmitCode(s, span(n), n, <<>>))
             /\ EmitCode(u, span(n), n, <<>>) = Behind(EmitCode(s, span(n), n, <<>>), t)
             /\ SubSeq(q, 1, n) = SubSeq(p, 1, n)
  <2>1. n \in 0..Len(p)
    BY <1>1
  <2>2. SubSeq(p, 1, n) \in Seq(Symbols)
    BY ONLY <1>1, <2>1, Beginning
  <2>3. span(n) \in Seq(Outs)
    <3>1. span(n) \in Seq(Symbols)
      BY <1>1, <2>2
    <3>. QED
      BY <3>1, SymbolsGoOut
  <2>4. SubSeq(q, 1, n) = SubSeq(p, 1, n)
    BY ONLY <1>1, <2>1, t \in Seq(Symbols), BeginningBehind
  <2>5. <<>> \in Seq(Symbols)
    OBVIOUS
  <2>. HIDE DEF span
  <2>6. /\ Moved(s, EmitCode(s, span(n), n, <<>>))
        /\ EmitCode(Behind(s, t), span(n), n, <<>>) = Behind(EmitCode(s, span(n), n, <<>>), t)
    BY ONLY <1>1, <2>3, <2>5, s \in Streams, t \in Seq(Symbols), n \in 1..Len(p), JustEmitsCode
  <2>. QED
    BY <2>4, <2>6
<1>5. WaitsOrMoves(s, b, CodeSpan(s, b))
  <2>1. CodeSpan(s, b) = IF end(b) # 0 THEN EmitCode(s, span(end(b)), end(b), <<>>) ELSE IF ~b THEN Wait ELSE GaveUp(s)
    BY CodeSpanIs
  <2>2. end(b) \in 0..Len(p)
    BY <1>2
  <2>3. end(b) # 0 => Moved(s, EmitCode(s, span(end(b)), end(b), <<>>))
    <3>1. end(b) # 0 => end(b) \in 1..Len(p)
      BY <1>1, <2>2
    <3>. HIDE DEF end
    <3>. QED
      BY <1>4, <3>1
  <2>4. Moved(s, GaveUp(s))
    BY GaveUpMoves
  <2>. HIDE DEF end, span, p
  <2>. QED
    BY <2>1, <2>3, <2>4, MovedIsGood, WaitIsGood
<1>6. ASSUME CodeSpan(s, FALSE) # Wait PROVE CodeSpan(u, b) = Behind(CodeSpan(s, FALSE), t)
  <2>. DEFINE n == EndNow(p, w)
  <2>1. CodeSpan(s, FALSE) = IF n # 0 THEN EmitCode(s, span(n), n, <<>>) ELSE Wait
    BY CodeSpanIs DEF EndNow
  <2>2. n # 0 /\ CodeSpan(s, FALSE) = EmitCode(s, span(n), n, <<>>)
    BY <1>6, <2>1
  <2>3. n \in 1..Len(p) /\ CodeSpanEnd(q, w, b) = n
    <3>1. FALSE \in BOOLEAN
      OBVIOUS
    <3>2. n \in 0..Len(p)
      BY <1>2, <3>1 DEF EndNow
    <3>3. CodeSpanEnd(q, w, b) = n
      BY <1>2, <2>2
    <3>. HIDE DEF n
    <3>4. n \in 1..Len(p)
      BY ONLY <1>1, <2>2, <3>2
    <3>. QED
      BY <3>3, <3>4
  <2>4. CodeSpan(u, b) = IF CodeSpanEnd(u.pending, Len(u.code), b) # 0
                         THEN EmitCode(u, u.code \o SubSeq(u.pending, 1, CodeSpanEnd(u.pending, Len(u.code), b)),
                                       CodeSpanEnd(u.pending, Len(u.code), b), <<>>)
                         ELSE IF ~b THEN Wait ELSE GaveUp(u)
    BY CodeSpanIs
  <2>5. CodeSpanEnd(u.pending, Len(u.code), b) = n
    BY <1>3, <2>3
  <2>. HIDE DEF n
  <2>6. CodeSpan(u, b) = EmitCode(u, u.code \o SubSeq(u.pending, 1, n), n, <<>>)
    BY ONLY <2>2, <2>4, <2>5
  <2>7. u.code \o SubSeq(u.pending, 1, n) = span(n)
    BY <1>3, <1>4, <2>3
  <2>. QED
    BY <1>4, <2>2, <2>3, <2>6, <2>7
<1>. QED
  BY <1>5, <1>6

AtLine(p, out) == RunLength(p) >= 3 /\ FenceStart(out)
Info(p) == SubSeq(p, RunLength(p) + 1, LineEnd(p))
Fences(p, out) == AtLine(p, out) /\ ~(p[1] = "bq" /\ "bq" \in Range(Info(p)))
Marks(p) == SubSeq(p, 1, RunLength(p))
Opened(p, out) == IF Fences(p, out) THEN Marks(p) ELSE <<>>

LEMMA CodeStartIs ==
  ASSUME NEW s, NEW b
  PROVE  LET p == s.pending
         IN  CodeStart(s, b) =
                IF ~b /\ (RunLength(p) = Len(p) \/ (AtLine(p, s.out) /\ NewLine(p) = 0)) THEN Wait
                ELSE IF p[1] = "~" /\ ~Fences(p, s.out) THEN Emit(s, Marks(p), RunLength(p))
                ELSE EmitFenced(s, Opened(p, s.out), RunLength(p), Marks(p), Fences(p, s.out))
BY DEF CodeStart, LineEnd, AtLine, Info, Fences, Marks, Opened, EmitFenced

LEMMA CodeStartGoesOn ==
  ASSUME NEW s \in Streams, s.code = <<>>, s.pending # <<>>, NEW t \in Seq(Symbols), NEW b \in BOOLEAN
  PROVE  /\ WaitsOrMoves(s, b, CodeStart(s, b))
         /\ CodeStart(s, FALSE) # Wait => CodeStart(Behind(s, t), b) = Behind(CodeStart(s, FALSE), t)
<1>. DEFINE p == s.pending
            q == p \o t
            u == Behind(s, t)
            n == RunLength(p)
            f == Fences(p, s.out)
            o == Opened(p, s.out)
            m == Marks(p)
            plain == Emit(s, m, n)
            opened == EmitFenced(s, o, n, m, f)
<1>1. p \in Seq(Symbols) /\ Len(p) \in Nat /\ 1 <= Len(p) /\ t \in Seq(Symbols)
  BY StreamHolds
<1>2. n \in 1..Len(p) /\ (n < Len(p) => RunLength(q) = n)
  BY <1>1, RunsEnd
<1>3. NewLine(p) \in 0..Len(p) /\ (NewLine(p) # 0 => NewLine(q) = NewLine(p))
  BY <1>1, LineEnds
<1>4. m \in Seq(Symbols) /\ m # <<>> /\ m \in Seq(Outs) /\ o \in Seq(Outs) /\ f \in BOOLEAN /\ (f => m # <<>>)
  <2>1. n \in 0..Len(p)
    BY <1>1, <1>2
  <2>2. SubSeq(p, 1, n) \in Seq(Symbols) /\ Len(SubSeq(p, 1, n)) = n
    <3>. HIDE DEF n
    <3>. QED
      BY ONLY <1>1, <2>1, Beginning
  <2>3. m \in Seq(Symbols) /\ Len(m) = n
    BY ONLY <2>2 DEF Marks, m, n
  <2>4. m # <<>>
    <3>. HIDE DEF m, n
    <3>. QED
      BY <1>2, <2>3
  <2>5. f \in BOOLEAN
    BY DEF Fences, AtLine, f
  <2>6. m \in Seq(Outs) /\ o \in Seq(Outs)
    BY <2>3, SymbolsGoOut DEF Opened, m, o
  <2>. HIDE DEF m, o, f
  <2>. QED
    BY <2>3, <2>4, <2>5, <2>6
<1>5. Moved(s, plain) /\ Moved(s, opened)
  <2>1. n \in 1..Len(s.pending)
    BY <1>2
  <2>. HIDE DEF n, m, o, f
  <2>. QED
    BY ONLY <1>4, <2>1, s \in Streams, EmittedMoves DEF plain, opened
<1>6. Emit(u, m, n) = Behind(plain, t) /\ EmitFenced(u, o, n, m, f) = Behind(opened, t)
  <2>1. n \in 1..Len(s.pending)
    BY <1>2
  <2>. HIDE DEF n, m, o, f
  <2>3. Emit(Behind(s, t), m, n) = Behind(Emit(s, m, n), t)
    BY ONLY <1>1, <1>4, <2>1, s \in Streams, JustEmits
  <2>4. EmitFenced(Behind(s, t), o, n, m, f) = Behind(EmitFenced(s, o, n, m, f), t)
    <3>1. m \in Seq(Symbols) /\ f \in BOOLEAN /\ (f => m # <<>>) /\ o \in Seq(Outs) /\ t \in Seq(Symbols)
      BY ONLY <1>1, <1>4
    <3>. QED
      BY ONLY <2>1, <3>1, s \in Streams, EmittedBehind
  <2>. QED
    BY ONLY <2>3, <2>4 DEF plain, opened, u
<1>7. u \in Streams /\ u.pending = q /\ u.out = s.out
  BY BehindIs
<1>8. /\ CodeStart(s, b) = IF ~b /\ (n = Len(p) \/ (AtLine(p, s.out) /\ NewLine(p) = 0)) THEN Wait
                           ELSE IF p[1] = "~" /\ ~f THEN plain ELSE opened
      /\ CodeStart(s, FALSE) = IF n = Len(p) \/ (AtLine(p, s.out) /\ NewLine(p) = 0) THEN Wait
                               ELSE IF p[1] = "~" /\ ~f THEN plain ELSE opened
  BY CodeStartIs
<1>9. ASSUME n # Len(p), ~(AtLine(p, s.out) /\ NewLine(p) = 0)
      PROVE  CodeStart(u, b) = IF p[1] = "~" /\ ~f THEN Behind(plain, t) ELSE Behind(opened, t)
  <2>2. RunLength(q) = n
    <3>1. n < Len(p)
      <4>. HIDE DEF n
      <4>. QED
        BY <1>1, <1>2, <1>9
    <3>. QED
      BY <1>2, <3>1
  <2>3. q[1] = p[1]
    BY <1>1, BehindText
  <2>4. AtLine(q, s.out) <=> AtLine(p, s.out)
    BY <2>2 DEF AtLine
  <2>5. ASSUME AtLine(p, s.out) PROVE Info(q) = Info(p)
    <3>. DEFINE e == NewLine(p)
    <3>1. LineEnd(p) = e /\ LineEnd(q) = e /\ e \in 0..Len(p)
      BY <1>3, <1>9, <2>5 DEF LineEnd
    <3>. HIDE DEF e, n
    <3>2. SubSeq(q, n + 1, e) = SubSeq(p, n + 1, e)
      <4>1. CASE n <= e
        <5>1. n \in 0..e
          BY <1>2, <3>1, <4>1
        <5>. QED
          BY ONLY <1>1, <3>1, <5>1, PieceBehind DEF q
      <4>2. CASE n > e
        <5>1. n + 1 \in Int /\ e \in Int /\ e < n + 1
          BY <1>2, <3>1, <4>2
        <5>2. \A x : SubSeq(x, n + 1, e) = <<>>
          BY ONLY <5>1, SubSeqEmpty
        <5>. QED
          BY ONLY <5>2
      <4>3. n <= e \/ n > e
        BY <1>2, <3>1
      <4>. QED
        BY <4>1, <4>2, <4>3
    <3>. QED
      BY ONLY <2>2, <3>1, <3>2 DEF Info, n
  <2>6. Fences(q, s.out) = f
    <3>1. Fences(q, s.out) \in BOOLEAN /\ f \in BOOLEAN
      BY DEF Fences, AtLine
    <3>2. Fences(q, s.out) <=> Fences(p, s.out)
      BY <2>3, <2>4, <2>5 DEF Fences
    <3>. QED
      BY <3>1, <3>2
  <2>7. Marks(q) = m
    <3>1. n \in 0..Len(p)
      BY <1>1, <1>2
    <3>2. SubSeq(q, 1, n) = SubSeq(p, 1, n)
      <4>. HIDE DEF n
      <4>. QED
        BY ONLY <1>1, <3>1, BeginningBehind DEF q
    <3>. QED
      BY <2>2, <3>2 DEF Marks
  <2>8. Opened(q, s.out) = o
    BY <2>6, <2>7 DEF Opened
  <2>9. RunLength(q) # Len(q)
    <3>1. Len(p) <= Len(q) /\ Len(q) \in Nat
      BY <1>1, BehindText
    <3>. HIDE DEF n, q
    <3>. QED
      BY <1>1, <1>2, <1>9, <2>2, <3>1
  <2>10. ~(AtLine(q, s.out) /\ NewLine(q) = 0)
    BY <1>3, <1>9, <2>4
  <2>11. CodeStart(u, b) =
            IF ~b /\ (RunLength(q) = Len(q) \/ (AtLine(q, s.out) /\ NewLine(q) = 0)) THEN Wait
            ELSE IF q[1] = "~" /\ ~Fences(q, s.out) THEN Emit(u, Marks(q), RunLength(q))
            ELSE EmitFenced(u, Opened(q, s.out), RunLength(q), Marks(q), Fences(q, s.out))
    <3>. HIDE DEF u, q
    <3>. QED
      BY <1>7, CodeStartIs
  <2>. HIDE DEF u, q, n, f, o, m, plain, opened, p
  <2>. QED
    BY <1>6, <2>2, <2>3, <2>6, <2>7, <2>8, <2>9, <2>10, <2>11
<1>. HIDE DEF plain, opened, u, f
<1>10. WaitsOrMoves(s, b, CodeStart(s, b))
  BY <1>5, <1>8, MovedIsGood, WaitIsGood
<1>. QED
  BY <1>8, <1>9, <1>10 DEF u

\* What becomes of a tag.
Cites(p, end, known) ==
    LET ids == {i \in 1..end : p[i] \in {"known", "other"}} IN ids # {} /\ known /\ p[Max(ids)] = "known"
Cited(p, end, known) == IF Cites(p, end, known) THEN Verified ELSE Unverified

LEMMA TagIs ==
  ASSUME NEW s, NEW b
  PROVE  LET p   == s.pending
             end == TagEnd(p)
         IN  Tag(s, b) = IF MaybeTag(p) /\ ~b THEN Wait
                         ELSE IF ~IsTag(p) /\ ~(MaybeTag(p) /\ Len(p) = 2) THEN Emit(s, <<"<">>, 1)
                         ELSE IF end = 0 THEN IF ~b /\ Len(p) < MaxPending THEN Wait ELSE Emit(s, Unverified, Len(p))
                         ELSE Emit(s, Cited(p, end, s.known), end)
<1>. DEFINE p == s.pending
            end == TagEnd(p)
<1>1. Tag(s, b) = IF MaybeTag(p) /\ ~b THEN Wait
                  ELSE IF ~IsTag(p) /\ ~(MaybeTag(p) /\ Len(p) = 2) THEN Emit(s, <<"<">>, 1)
                  ELSE IF end = 0 THEN IF ~b /\ Len(p) < MaxPending THEN Wait ELSE Emit(s, Unverified, Len(p))
                  ELSE Emit(s, IF Cites(p, end, s.known) THEN Verified ELSE Unverified, end)
  BY DEF Tag, Cites
<1>. QED
  BY <1>1 DEF Cited

LEMMA TagGoesOn ==
  ASSUME NEW s \in Streams, s.pending # <<>>, NEW t \in Seq(Symbols), NEW b \in BOOLEAN
  PROVE  /\ WaitsOrMoves(s, b, Tag(s, b))
         /\ Tag(s, FALSE) # Wait /\ Len(s.pending) < MaxPending => Tag(Behind(s, t), b) = Behind(Tag(s, FALSE), t)
<1>. DEFINE p == s.pending
            q == p \o t
            u == Behind(s, t)
            end == TagEnd(p)
            x == Cited(p, end, s.known)
            bracket == <<"<">>
<1>1. p \in Seq(Symbols) /\ Len(p) \in Nat /\ 1 <= Len(p) /\ t \in Seq(Symbols)
  BY StreamHolds
<1>2. end \in 0..Len(p) /\ (end # 0 => TagEnd(q) = end)
  BY <1>1, TagsEnd
<1>3. x \in Seq(Outs) /\ bracket \in Seq(Outs) /\ Unverified \in Seq(Outs)
  BY SymbolsGoOut DEF Cited
<1>4. ASSUME NEW n \in 1..Len(p), NEW y \in Seq(Outs)
      PROVE  Moved(s, Emit(s, y, n)) /\ Emit(u, y, n) = Behind(Emit(s, y, n), t)
  BY <1>1, JustEmits
<1>5. Tag(s, b) = IF MaybeTag(p) /\ ~b THEN Wait
                  ELSE IF ~IsTag(p) /\ ~(MaybeTag(p) /\ Len(p) = 2) THEN Emit(s, bracket, 1)
                  ELSE IF end = 0 THEN IF ~b /\ Len(p) < MaxPending THEN Wait ELSE Emit(s, Unverified, Len(p))
                  ELSE Emit(s, x, end)
  BY TagIs
<1>6. Tag(s, FALSE) = IF MaybeTag(p) THEN Wait
                      ELSE IF ~IsTag(p) THEN Emit(s, bracket, 1)
                      ELSE IF end = 0 THEN IF Len(p) < MaxPending THEN Wait ELSE Emit(s, Unverified, Len(p))
                      ELSE Emit(s, x, end)
  BY TagIs
<1>7. u \in Streams /\ u.pending = q /\ u.known = s.known
  BY BehindIs
<1>8. Moved(s, Emit(s, bracket, 1)) /\ Moved(s, Emit(s, Unverified, Len(p))) /\ (end # 0 => Moved(s, Emit(s, x, end)))
  <2>1. 1 \in 1..Len(p) /\ Len(p) \in 1..Len(p) /\ (end # 0 => end \in 1..Len(p))
    <3>. HIDE DEF end
    <3>. QED
      BY <1>1, <1>2
  <2>. HIDE DEF end, x, bracket
  <2>. QED
    BY <1>3, <1>4, <2>1
<1>9. WaitsOrMoves(s, b, Tag(s, b))
  <2>. HIDE DEF end, x, bracket, p
  <2>. QED
    BY <1>5, <1>8, MovedIsGood, WaitIsGood
<1>10. ASSUME Tag(s, FALSE) # Wait, Len(p) < MaxPending PROVE Tag(u, b) = Behind(Tag(s, FALSE), t)
  <2>1. ~MaybeTag(p) /\ (IsTag(p) => end # 0)
    <3>. HIDE DEF end, x, bracket, p
    <3>. QED
      BY <1>6, <1>10
  <2>2. Tag(s, FALSE) = IF ~IsTag(p) THEN Emit(s, bracket, 1) ELSE Emit(s, x, end)
    <3>. HIDE DEF end, x, bracket, p
    <3>. QED
      BY <1>6, <2>1
  <2>3. Len(q) \in Nat /\ Len(p) <= Len(q) /\ q \in Seq(Symbols) /\ \A i \in 1..Len(p) : q[i] = p[i]
    BY <1>1, BehindText
  <2>4. Len(p) >= 2 /\ (Len(p) = 2 => p[2] # "cite")
    <3>1. \A l \in Nat : 1 <= l /\ l # 1 => l >= 2
      OBVIOUS
    <3>2. Len(p) # 1 /\ (Len(p) = 2 => p[2] # "cite")
      BY ONLY <2>1 DEF MaybeTag
    <3>. QED
      BY ONLY <1>1, <3>1, <3>2
  <2>. HIDE DEF q, p
  <2>5. ~MaybeTag(q)
    BY <1>1, <2>1, <2>3, <2>4 DEF MaybeTag
  <2>6. IsTag(q) <=> IsTag(p)
    <3>1. q[2] = p[2]
      BY <1>1, <2>3, <2>4
    <3>2. CASE Len(p) = 2
      BY <2>4, <3>1, <3>2 DEF IsTag
    <3>3. CASE Len(p) >= 3
      <4>1. q[3] = p[3] /\ Len(q) >= 3
        BY <1>1, <2>3, <3>3
      <4>. QED
        BY <3>1, <3>3, <4>1 DEF IsTag
    <3>4. Len(p) = 2 \/ Len(p) >= 3
      <4>1. \A l \in Nat : l >= 2 => l = 2 \/ l >= 3
        OBVIOUS
      <4>. QED
        BY ONLY <1>1, <2>4, <4>1
    <3>. QED
      BY <3>2, <3>3, <3>4
  <2>7. ASSUME end # 0 PROVE Cited(q, end, s.known) = x
    <3>. DEFINE Named(z) == {i \in 1..end : z[i] \in {"known", "other"}}
    <3>1. end \in Nat /\ \A i \in 1..end : i \in 1..Len(p)
      <4>. HIDE DEF end
      <4>. QED
        BY <1>1, <1>2
    <3>2. \A i \in 1..end : q[i] = p[i]
      BY <2>3, <3>1
    <3>3. Named(q) = Named(p)
      <4>. HIDE DEF end
      <4>. QED
        BY <3>2
    <3>4. ASSUME Named(p) # {} PROVE q[Max(Named(p))] = p[Max(Named(p))]
      <4>. DEFINE T == Named(p)
      <4>1. T \in SUBSET Nat /\ \A i \in T : i \in 1..end /\ i <= end
        <5>. HIDE DEF end
        <5>. QED
          BY <3>1
      <4>2. T # {}
        BY <3>4
      <4>. HIDE DEF T
      <4>3. Max(T) \in T
        BY ONLY <3>1, <4>1, <4>2, MaxOfNumbers
      <4>. QED
        BY <3>2, <4>1, <4>3 DEF T
    <3>5. Cites(q, end, s.known) <=> Cites(p, end, s.known)
      <4>1. \A z : Cites(z, end, s.known) <=> Named(z) # {} /\ s.known /\ z[Max(Named(z))] = "known"
        BY DEF Cites
      <4>. HIDE DEF Named, end
      <4>. QED
        BY <3>3, <3>4, <4>1
    <3>. QED
      BY <3>5 DEF Cited
  <2>8. Tag(u, b) = IF MaybeTag(q) /\ ~b THEN Wait
                    ELSE IF ~IsTag(q) /\ ~(MaybeTag(q) /\ Len(q) = 2) THEN Emit(u, bracket, 1)
                    ELSE IF TagEnd(q) = 0 THEN IF ~b /\ Len(q) < MaxPending THEN Wait ELSE Emit(u, Unverified, Len(q))
                    ELSE Emit(u, Cited(q, TagEnd(q), s.known), TagEnd(q))
    <3>. HIDE DEF u
    <3>. QED
      BY <1>7, TagIs
  <2>9. Tag(u, b) = IF ~IsTag(p) THEN Emit(u, bracket, 1) ELSE Emit(u, x, end)
    <3>1. CASE ~IsTag(p)
      BY <2>5, <2>6, <2>8, <3>1
    <3>2. CASE IsTag(p)
      <4>1. end # 0 /\ TagEnd(q) = end
        BY <1>2, <2>1, <3>2 DEF q
      <4>2. Cited(q, end, s.known) = x
        BY <2>7, <4>1
      <4>. HIDE DEF end, x, bracket, u
      <4>. QED
        BY ONLY <2>5, <2>6, <2>8, <3>2, <4>1, <4>2
    <3>. QED
      BY <3>1, <3>2
  <2>10. 1 \in 1..Len(p) /\ (end # 0 => end \in 1..Len(p))
    <3>. HIDE DEF end
    <3>. QED
      BY <1>1, <1>2
  <2>. HIDE DEF end, x, bracket, u
  <2>. QED
    BY ONLY <1>3, <1>4, <2>1, <2>2, <2>9, <2>10
<1>. QED
  BY <1>9, <1>10

\* What becomes of a link that is complete.
LinkEnd(p, label) == label + Closing(RestOf(p, label), "open", "close")
Inner(p, label) == SubSeq(p, 2, label - 1)
Linked(p, label, end, known, N) ==
    IF p[label + 2] = "#" THEN <<"[">> \o N[<<Inner(p, label), known>>] \o SubSeq(p, label, end)
    ELSE IF known /\ p[label + 2] = "known" THEN Verified
    ELSE N[<<Inner(p, label), known>>] \o NoLink

LEMMA LinkIs ==
  ASSUME NEW s, NEW b, NEW N
  PROVE  LET p     == s.pending
             label == Closing(p, "[", "]")
             end   == LinkEnd(p, label)
         IN  Link(s, b, N) =
                IF label = 0 THEN IF ~b /\ Len(p) < MaxPending THEN Wait ELSE Emit(s, <<"[">>, 1)
                ELSE IF label = Len(p) /\ ~b THEN Wait
                ELSE IF label = Len(p) \/ p[label + 1] # "open" THEN Emit(s, <<"[">>, 1)
                ELSE IF end = label THEN IF ~b /\ Len(p) < MaxPending THEN Wait ELSE Emit(s, NoLink, Len(p))
                ELSE Emit(s, Linked(p, label, end, s.known, N), end)
BY DEF Link, LinkEnd, Linked, Inner

\* Where the label and the link end, and that a text behind them changes neither.
LEMMA LinksEnd ==
  ASSUME NEW p \in Seq(Symbols), p # <<>>, p[1] = "[", NEW t \in Seq(Symbols)
  PROVE  LET label == Closing(p, "[", "]")
             end   == LinkEnd(p, label)
         IN  /\ label \in 0..Len(p)
             /\ label # 0 => label >= 2 /\ Closing(p \o t, "[", "]") = label
             /\ label # 0 /\ label < Len(p) /\ p[label + 1] = "open" /\ end # label =>
                   /\ end \in (label + 2)..Len(p)
                   /\ LinkEnd(p \o t, label) = end
<1>. DEFINE q == p \o t
            label == Closing(p, "[", "]")
            end == LinkEnd(p, label)
            paren == RestOf(p, label)
            c == Closing(paren, "open", "close")
<1>1. Len(p) \in Nat /\ 1 <= Len(p)
  OBVIOUS
<1>2. label \in 0..Len(p) /\ (label # 0 => p[label] = "]" /\ Closing(q, "[", "]") = label)
  BY BracketsClose
<1>3. label # 0 => label >= 2
  <2>. HIDE DEF label
  <2>1. label # 0 => label # 1
    BY <1>2
  <2>. QED
    BY <1>1, <1>2, <2>1
<1>4. ASSUME label # 0, label < Len(p), p[label + 1] = "open", end # label
      PROVE  end \in (label + 2)..Len(p) /\ LinkEnd(q, label) = end
  <2>1. label \in 0..Len(p)
    BY <1>2
  <2>2. paren \in Seq(Symbols) /\ Len(paren) = Len(p) - label
    BY ONLY <2>1, p \in Seq(Symbols), RestIs
  <2>3. RestOf(q, label) = paren \o t
    BY ONLY <2>1, p \in Seq(Symbols), t \in Seq(Symbols), RestBehind
  <2>4. c \in 0..Len(paren) /\ (c # 0 => paren[c] = "close" /\ Closing(paren \o t, "open", "close") = c)
    BY ONLY <2>2, t \in Seq(Symbols), BracketsClose
  <2>5. end = label + c
    BY DEF LinkEnd
  <2>6. c # 0
    <3>. HIDE DEF label, c, end
    <3>. QED
      BY ONLY <1>4, <2>1, <2>5
  <2>7. paren[1] = "open"
    <3>. DEFINE e == Len(p)
    <3>1. e \in 0..Len(p) /\ label \in 0..e
      BY <1>1, <2>1
    <3>2. 1 \in 1..(e - label)
      <4>. HIDE DEF label
      <4>. QED
        BY ONLY <1>1, <1>4, <2>1
    <3>. HIDE DEF label, e
    <3>3. SubSeq(p, label + 1, e)[1] = p[label + 1]
      BY ONLY <3>1, <3>2, p \in Seq(Symbols), Sliced
    <3>. QED
      BY <1>4, <3>3 DEF RestOf, e
  <2>8. c # 1
    BY <2>4, <2>6, <2>7
  <2>9. LinkEnd(q, label) = end
    BY <2>3, <2>4, <2>5, <2>6 DEF LinkEnd
  <2>10. end \in (label + 2)..Len(p)
    <3>. HIDE DEF label, c, end, paren
    <3>. QED
      BY ONLY <1>1, <2>1, <2>2, <2>4, <2>5, <2>6, <2>8
  <2>. QED
    BY <2>9, <2>10
<1>. HIDE DEF label, end
<1>5. /\ label \in 0..Len(p) /\ (label # 0 => label >= 2 /\ Closing(q, "[", "]") = label)
      /\ label # 0 /\ label < Len(p) /\ p[label + 1] = "open" /\ end # label =>
            end \in (label + 2)..Len(p) /\ LinkEnd(q, label) = end
  BY <1>2, <1>3, <1>4
<1>. QED
  BY <1>5 DEF label, end

\* The text of a link is shorter than what is pending; only what becomes of it matters.
LEMMA InnerIsShorter ==
  ASSUME NEW p \in Seq(Symbols), NEW label \in 2..Len(p), NEW t \in Seq(Symbols)
  PROVE  /\ Inner(p, label) \in Seq(Symbols) /\ Len(Inner(p, label)) < Len(p)
         /\ Inner(p \o t, label) = Inner(p, label)
<1>. DEFINE e == label - 1
            a == 1
<1>1. e \in 0..Len(p) /\ a \in 0..e /\ e - a < Len(p) /\ a + 1 = 2
  OBVIOUS
<1>. HIDE DEF e, a
<1>2. SubSeq(p, a + 1, e) \in Seq(Symbols) /\ Len(SubSeq(p, a + 1, e)) = e - a
  BY ONLY <1>1, p \in Seq(Symbols), Sliced
<1>3. SubSeq(p \o t, a + 1, e) = SubSeq(p, a + 1, e)
  BY ONLY <1>1, p \in Seq(Symbols), t \in Seq(Symbols), PieceBehind
<1>4. Inner(p, label) = SubSeq(p, a + 1, e) /\ Inner(p \o t, label) = SubSeq(p \o t, a + 1, e)
  BY <1>1 DEF Inner, e
<1>. QED
  BY ONLY <1>1, <1>2, <1>3, <1>4

LEMMA LinkedIs ==
  ASSUME NEW p \in Seq(Symbols), NEW label \in 2..Len(p), NEW end \in (label + 2)..Len(p), NEW known \in BOOLEAN,
         NEW N \in Normals, NEW t \in Seq(Symbols)
  PROVE  /\ Linked(p, label, end, known, N) \in Seq(Outs)
         /\ Linked(p \o t, label, end, known, N) = Linked(p, label, end, known, N)
<1>. DEFINE q == p \o t
            inner == Inner(p, label)
            n == N[<<inner, known>>]
            rest == SubSeq(p, label, end)
<1>1. inner \in Seq(Symbols) /\ Inner(q, label) = inner
  BY InnerIsShorter
<1>2. n \in Seq(Outs)
  <2>. HIDE DEF inner
  <2>1. <<inner, known>> \in Seq(Symbols) \X BOOLEAN
    BY <1>1
  <2>. QED
    BY <2>1 DEF Normals
<1>3. rest \in Seq(Outs) /\ SubSeq(q, label, end) = rest
  <2>. DEFINE a == label - 1
  <2>1. end \in 0..Len(p) /\ a \in 0..end /\ a + 1 = label
    OBVIOUS
  <2>. HIDE DEF a
  <2>2. SubSeq(p, a + 1, end) \in Seq(Symbols)
    BY ONLY <2>1, p \in Seq(Symbols), Sliced
  <2>3. SubSeq(q, a + 1, end) = SubSeq(p, a + 1, end)
    BY ONLY <2>1, p \in Seq(Symbols), t \in Seq(Symbols), PieceBehind DEF q
  <2>. QED
    BY <2>1, <2>2, <2>3, SymbolsGoOut
<1>4. q[label + 2] = p[label + 2]
  <2>1. label + 2 \in 1..Len(p)
    OBVIOUS
  <2>2. \A i \in 1..Len(p) : q[i] = p[i]
    BY BehindText
  <2>. QED
    BY <2>1, <2>2
<1>5. /\ Linked(p, label, end, known, N) = IF p[label + 2] = "#" THEN <<"[">> \o n \o rest
                                           ELSE IF known /\ p[label + 2] = "known" THEN Verified ELSE n \o NoLink
      /\ Linked(q, label, end, known, N) = IF p[label + 2] = "#" THEN <<"[">> \o n \o rest
                                           ELSE IF known /\ p[label + 2] = "known" THEN Verified ELSE n \o NoLink
  BY <1>1, <1>3, <1>4 DEF Linked
<1>. HIDE DEF n, rest
<1>6. <<"[">> \o n \o rest \in Seq(Outs) /\ n \o NoLink \in Seq(Outs) /\ Verified \in Seq(Outs)
  BY <1>2, <1>3, SymbolsGoOut
<1>. QED
  BY <1>5, <1>6

LEMMA LinkGoesOn ==
  ASSUME NEW s \in Streams, s.pending # <<>>, s.pending[1] = "[", NEW t \in Seq(Symbols), NEW b \in BOOLEAN,
         NEW N \in Normals
  PROVE  /\ WaitsOrMoves(s, b, Link(s, b, N))
         /\ Link(s, FALSE, N) # Wait /\ Len(s.pending) < MaxPending =>
               Link(Behind(s, t), b, N) = Behind(Link(s, FALSE, N), t)
<1>. DEFINE p == s.pending
            q == p \o t
            u == Behind(s, t)
            label == Closing(p, "[", "]")
            end == LinkEnd(p, label)
            x == Linked(p, label, end, s.known, N)
            bracket == <<"[">>
            IsWhole == label # 0 /\ label # Len(p) /\ p[label + 1] = "open" /\ end # label
<1>1. p \in Seq(Symbols) /\ Len(p) \in Nat /\ 1 <= Len(p) /\ t \in Seq(Symbols) /\ s.known \in BOOLEAN
  BY StreamHolds
<1>2. /\ label \in 0..Len(p)
      /\ label # 0 => label >= 2 /\ Closing(q, "[", "]") = label
      /\ label # 0 /\ label < Len(p) /\ p[label + 1] = "open" /\ end # label =>
            end \in (label + 2)..Len(p) /\ LinkEnd(q, label) = end
  BY <1>1, LinksEnd
<1>3. u \in Streams /\ u.pending = q /\ u.known = s.known
  BY BehindIs
<1>4. ASSUME NEW n \in 1..Len(p), NEW y \in Seq(Outs)
      PROVE  Moved(s, Emit(s, y, n)) /\ Emit(u, y, n) = Behind(Emit(s, y, n), t)
  BY <1>1, JustEmits
<1>5. ASSUME IsWhole
      PROVE  /\ end \in 1..Len(p) /\ x \in Seq(Outs) /\ LinkEnd(q, label) = end
             /\ Linked(q, label, end, s.known, N) = x
  <2>1. label < Len(p) /\ label \in 2..Len(p)
    <3>. HIDE DEF label, end
    <3>. QED
      BY ONLY <1>1, <1>2, <1>5 DEF IsWhole
  <2>2. end \in (label + 2)..Len(p) /\ LinkEnd(q, label) = end
    BY <1>2, <1>5, <2>1
  <2>. HIDE DEF label, end
  <2>3. end \in 1..Len(p)
    BY ONLY <1>1, <2>1, <2>2
  <2>4. x \in Seq(Outs) /\ Linked(q, label, end, s.known, N) = x
    BY ONLY <1>1, <2>1, <2>2, N \in Normals, LinkedIs DEF x, q
  <2>. QED
    BY <2>2, <2>3, <2>4
<1>6. Link(s, b, N) = IF label = 0 THEN IF ~b /\ Len(p) < MaxPending THEN Wait ELSE Emit(s, bracket, 1)
                      ELSE IF label = Len(p) /\ ~b THEN Wait
                      ELSE IF label = Len(p) \/ p[label + 1] # "open" THEN Emit(s, bracket, 1)
                      ELSE IF end = label THEN IF ~b /\ Len(p) < MaxPending THEN Wait ELSE Emit(s, NoLink, Len(p))
                      ELSE Emit(s, x, end)
  BY LinkIs
<1>7. Link(s, FALSE, N) = IF label = 0 THEN IF Len(p) < MaxPending THEN Wait ELSE Emit(s, bracket, 1)
                          ELSE IF label = Len(p) THEN Wait
                          ELSE IF p[label + 1] # "open" THEN Emit(s, bracket, 1)
                          ELSE IF end = label THEN IF Len(p) < MaxPending THEN Wait ELSE Emit(s, NoLink, Len(p))
                          ELSE Emit(s, x, end)
  BY LinkIs
<1>8. bracket \in Seq(Outs) /\ NoLink \in Seq(Outs) /\ 1 \in 1..Len(p) /\ Len(p) \in 1..Len(p)
  BY <1>1, SymbolsGoOut
<1>9. /\ Moved(s, Emit(s, bracket, 1)) /\ Emit(u, bracket, 1) = Behind(Emit(s, bracket, 1), t)
      /\ Moved(s, Emit(s, NoLink, Len(p)))
      /\ IsWhole => Moved(s, Emit(s, x, end)) /\ Emit(u, x, end) = Behind(Emit(s, x, end), t)
  <2>. HIDE DEF bracket, x, end, IsWhole, u
  <2>. QED
    BY ONLY <1>4, <1>5, <1>8
<1>10. WaitsOrMoves(s, b, Link(s, b, N))
  <2>. HIDE DEF label, end, x, bracket, p
  <2>. QED
    BY <1>6, <1>9, MovedIsGood, WaitIsGood DEF IsWhole
<1>11. ASSUME Link(s, FALSE, N) # Wait, Len(p) < MaxPending
       PROVE  Link(u, b, N) = Behind(Link(s, FALSE, N), t)
  <2>. DEFINE l == Closing(u.pending, "[", "]")
              e == LinkEnd(u.pending, l)
  <2>1. Link(u, b, N) = IF l = 0 THEN IF ~b /\ Len(u.pending) < MaxPending THEN Wait ELSE Emit(u, bracket, 1)
                        ELSE IF l = Len(u.pending) /\ ~b THEN Wait
                        ELSE IF l = Len(u.pending) \/ u.pending[l + 1] # "open" THEN Emit(u, bracket, 1)
                        ELSE IF e = l THEN IF ~b /\ Len(u.pending) < MaxPending THEN Wait ELSE Emit(u, NoLink, Len(u.pending))
                        ELSE Emit(u, Linked(u.pending, l, e, u.known, N), e)
    BY LinkIs
  <2>2. label # 0 /\ label # Len(p) /\ (p[label + 1] = "open" => IsWhole)
    <3>. HIDE DEF label, end, x, bracket, p
    <3>. QED
      BY <1>7, <1>11 DEF IsWhole
  <2>3. label \in Nat /\ 2 <= label /\ label < Len(p)
    <3>. HIDE DEF label
    <3>. QED
      BY ONLY <1>1, <1>2, <2>2
  <2>4. l = label /\ l # Len(u.pending) /\ u.pending[l + 1] = p[label + 1]
    <3>1. Len(q) \in Nat /\ Len(p) <= Len(q) /\ \A i \in 1..Len(p) : q[i] = p[i]
      BY <1>1, BehindText
    <3>2. l = label
      BY <1>2, <1>3, <2>2
    <3>3. label # Len(q) /\ label + 1 \in 1..Len(p)
      <4>. HIDE DEF label, q
      <4>. QED
        BY ONLY <1>1, <2>3, <3>1
    <3>. HIDE DEF l, label, q, u
    <3>. QED
      BY ONLY <1>3, <3>1, <3>2, <3>3
  <2>5. IsWhole => e = end /\ Linked(u.pending, l, e, u.known, N) = x
    <3>1. IsWhole => e = end
      BY <1>3, <1>5, <2>4
    <3>. HIDE DEF e, l, end, label, u
    <3>. QED
      BY ONLY <1>3, <1>5, <2>4, <3>1
  <2>6. CASE p[label + 1] # "open"
    <3>1. Link(u, b, N) = Emit(u, bracket, 1)
      <4>. HIDE DEF e, l, label, u, p, bracket
      <4>. QED
        BY ONLY <2>1, <2>2, <2>4, <2>6
    <3>2. Link(s, FALSE, N) = Emit(s, bracket, 1)
      <4>. HIDE DEF end, label, p, bracket
      <4>. QED
        BY ONLY <1>7, <2>2, <2>6
    <3>. QED
      BY ONLY <1>9, <3>1, <3>2
  <2>7. CASE p[label + 1] = "open"
    <3>1. IsWhole
      BY <2>2, <2>7
    <3>2. Link(u, b, N) = Emit(u, x, end)
      <4>1. end # label
        BY ONLY <3>1 DEF IsWhole
      <4>. HIDE DEF e, l, label, u, p, bracket, x, end, IsWhole
      <4>. QED
        BY ONLY <2>1, <2>2, <2>4, <2>5, <2>7, <3>1, <4>1
    <3>3. Link(s, FALSE, N) = Emit(s, x, end)
      <4>. HIDE DEF end, label, p, bracket, x
      <4>. QED
        BY ONLY <1>7, <2>2, <2>7, <3>1 DEF IsWhole
    <3>. QED
      BY ONLY <1>9, <3>1, <3>2, <3>3
  <2>. QED
    BY <2>6, <2>7
<1>. QED
  BY <1>10, <1>11

LEMMA EscapeGoesOn ==
  ASSUME NEW s \in Streams, s.pending # <<>>, NEW t \in Seq(Symbols), NEW b \in BOOLEAN
  PROVE  /\ WaitsOrMoves(s, b, Escape(s, b))
         /\ Escape(s, FALSE) # Wait => Escape(Behind(s, t), b) = Behind(Escape(s, FALSE), t)
<1>. DEFINE p == s.pending
            q == p \o t
            u == Behind(s, t)
            least(l) == Min({2, l})
            taken(n) == SubSeq(p, 1, n)
<1>1. p \in Seq(Symbols) /\ Len(p) \in Nat /\ 1 <= Len(p) /\ t \in Seq(Symbols)
  BY StreamHolds
<1>2. u \in Streams /\ u.pending = q
  BY BehindIs
<1>3. Len(q) \in Nat /\ Len(p) <= Len(q)
  BY <1>1, BehindText
<1>4. ASSUME NEW l \in Nat, 1 <= l
      PROVE  least(l) \in 1..l /\ (l # 1 => least(l) = 2)
  <2>. DEFINE T == {2, l}
  <2>1. T \in SUBSET Nat /\ T # {} /\ 2 \in T /\ l \in T
    OBVIOUS
  <2>2. \A i \in T : i = 2 \/ i = l
    OBVIOUS
  <2>. HIDE DEF T
  <2>3. Min(T) \in T /\ \A i \in T : Min(T) <= i
    BY ONLY <2>1, MinIsLeast
  <2>. DEFINE m == Min(T)
  <2>4. (m = 2 \/ m = l) /\ m <= 2 /\ m <= l
    BY ONLY <2>1, <2>2, <2>3
  <2>. HIDE DEF m
  <2>5. m \in 1..l /\ (l # 1 => m = 2)
    BY ONLY <2>4, <1>4, l \in Nat
  <2>. QED
    BY ONLY <2>5 DEF m, T
<1>5. ASSUME NEW n \in 1..Len(p)
      PROVE  /\ Moved(s, Emit(s, taken(n), n)) /\ Emit(u, taken(n), n) = Behind(Emit(s, taken(n), n), t)
             /\ SubSeq(q, 1, n) = taken(n)
  <2>1. n \in 0..Len(p)
    BY <1>1
  <2>2. SubSeq(p, 1, n) \in Seq(Symbols) /\ SubSeq(q, 1, n) = SubSeq(p, 1, n)
    BY ONLY <1>1, <2>1, Beginning, BeginningBehind
  <2>3. taken(n) \in Seq(Outs)
    BY <2>2, SymbolsGoOut
  <2>. HIDE DEF taken
  <2>4. Moved(s, Emit(s, taken(n), n)) /\ Emit(u, taken(n), n) = Behind(Emit(s, taken(n), n), t)
    BY <1>1, <2>3, JustEmits
  <2>. QED
    BY <2>2, <2>4 DEF taken
<1>6. ASSUME NEW z \in Streams, NEW d \in BOOLEAN
      PROVE  Escape(z, d) = IF Len(z.pending) = 1 /\ ~d THEN Wait
                            ELSE Emit(z, SubSeq(z.pending, 1, least(Len(z.pending))), least(Len(z.pending)))
  BY DEF Escape
<1>7. least(Len(p)) \in 1..Len(p) /\ (Len(p) # 1 => least(Len(p)) = 2)
  <2>. HIDE DEF least, p
  <2>. QED
    BY ONLY <1>1, <1>4
<1>. HIDE DEF least
<1>8. WaitsOrMoves(s, b, Escape(s, b))
  <2>1. Escape(s, b) = IF Len(p) = 1 /\ ~b THEN Wait ELSE Emit(s, taken(least(Len(p))), least(Len(p)))
    BY <1>6
  <2>2. Moved(s, Emit(s, taken(least(Len(p))), least(Len(p))))
    BY <1>5, <1>7
  <2>. HIDE DEF taken, p
  <2>. QED
    BY <2>1, <2>2, MovedIsGood, WaitIsGood
<1>9. ASSUME Escape(s, FALSE) # Wait PROVE Escape(u, b) = Behind(Escape(s, FALSE), t)
  <2>1. Len(p) # 1
    BY <1>6, <1>9
  <2>2. Escape(s, FALSE) = Emit(s, taken(2), 2)
    BY <1>6, <1>7, <2>1
  <2>3. Len(q) # 1 /\ 1 <= Len(q)
    <3>1. \A k, l \in Nat : 1 <= k /\ k # 1 /\ k <= l => l # 1 /\ 1 <= l
      OBVIOUS
    <3>. HIDE DEF p, q
    <3>. QED
      BY ONLY <1>1, <1>3, <2>1, <3>1
  <2>4. least(Len(q)) = 2
    <3>. HIDE DEF p, q
    <3>. QED
      BY ONLY <1>3, <1>4, <2>3
  <2>5. Escape(u, b) = Emit(u, SubSeq(q, 1, 2), 2)
    <3>. HIDE DEF u, p, q
    <3>. QED
      BY <1>2, <1>6, <2>3, <2>4
  <2>6. 2 \in 1..Len(p)
    BY <1>7, <2>1
  <2>. QED
    BY <1>5, <2>2, <2>5, <2>6
<1>. QED
  BY <1>8, <1>9

\* An ordinary symbol goes out.
LEMMA SymbolGoesOn ==
  ASSUME NEW s \in Streams, s.pending # <<>>, NEW t \in Seq(Symbols)
  PROVE  LET e == Emit(s, <<s.pending[1]>>, 1)
         IN  Moved(s, e) /\ Emit(Behind(s, t), <<Behind(s, t).pending[1]>>, 1) = Behind(e, t)
<1>. DEFINE p == s.pending
            x == <<p[1]>>
<1>1. p \in Seq(Symbols) /\ Len(p) \in Nat /\ 1 <= Len(p) /\ 1 \in 1..Len(p)
  BY StreamHolds
<1>2. Behind(s, t).pending[1] = p[1]
  <2>. DEFINE q == p \o t
  <2>1. \A i \in 1..Len(p) : q[i] = p[i]
    BY <1>1, BehindText
  <2>2. Behind(s, t).pending = q
    BY BehindIs
  <2>. HIDE DEF q
  <2>. QED
    BY <1>1, <2>1, <2>2
<1>3. x \in Seq(Outs)
  <2>1. p[1] \in Symbols
    BY <1>1
  <2>2. <<p[1]>> \in Seq(Symbols)
    BY <2>1
  <2>. QED
    BY <2>2, SymbolsGoOut
<1>. HIDE DEF x
<1>4. Moved(s, Emit(s, x, 1)) /\ Emit(Behind(s, t), x, 1) = Behind(Emit(s, x, 1), t)
  BY <1>1, <1>3, JustEmits
<1>. QED
  BY <1>2, <1>4 DEF x

\* A round that does not wait does the same whatever is behind the text.
RoundGoesOn(s, t, b, N) ==
    /\ WaitsOrMoves(s, b, Round(s, b, N))
    /\ Round(s, FALSE, N) # Wait /\ Len(s.pending) < MaxPending =>
          Round(Behind(s, t), b, N) = Behind(Round(s, FALSE, N), t)

LEMMA EveryRoundGoesOn ==
  ASSUME NEW s \in Streams, s.pending # <<>>, NEW t \in Seq(Symbols), NEW b \in BOOLEAN, NEW N \in Normals
  PROVE  RoundGoesOn(s, t, b, N)
<1>. DEFINE p == s.pending
            u == Behind(s, t)
<1>1. u.code = s.code /\ u.fenced = s.fenced /\ u.pending[1] = p[1] /\ s.fenced \in BOOLEAN /\ (s.fenced => s.code # <<>>)
  <2>. DEFINE q == p \o t
  <2>1. p \in Seq(Symbols) /\ Len(p) \in Nat /\ 1 <= Len(p) /\ s.fenced \in BOOLEAN /\ (s.fenced => s.code # <<>>)
    BY StreamHolds
  <2>2. \A i \in 1..Len(p) : q[i] = p[i]
    BY <2>1, BehindText
  <2>3. u.pending = q /\ u.code = s.code /\ u.fenced = s.fenced
    BY BehindIs
  <2>. HIDE DEF q, u
  <2>. QED
    BY <2>1, <2>2, <2>3
<1>2. \A z, d : Round(z, d, N) = IF z.code # <<>> THEN IF z.fenced THEN FencedLine(z, d) ELSE CodeSpan(z, d)
                                 ELSE IF z.pending[1] = "esc" THEN Escape(z, d)
                                 ELSE IF z.pending[1] \in {"bq", "~"} THEN CodeStart(z, d)
                                 ELSE IF z.pending[1] = "<" THEN Tag(z, d)
                                 ELSE IF z.pending[1] = "[" THEN Link(z, d, N)
                                 ELSE Emit(z, <<z.pending[1]>>, 1)
  BY DEF Round
<1>. HIDE DEF u, p
<1>3. CASE s.code # <<>> /\ s.fenced
  <2>1. Round(s, b, N) = FencedLine(s, b) /\ Round(s, FALSE, N) = FencedLine(s, FALSE) /\ Round(u, b, N) = FencedLine(u, b)
    BY ONLY <1>1, <1>2, <1>3
  <2>. QED
    BY <2>1, FencedLineGoesOn DEF RoundGoesOn, u
<1>4. CASE s.code # <<>> /\ ~s.fenced
  <2>1. Round(s, b, N) = CodeSpan(s, b) /\ Round(s, FALSE, N) = CodeSpan(s, FALSE) /\ Round(u, b, N) = CodeSpan(u, b)
    BY ONLY <1>1, <1>2, <1>4
  <2>. QED
    BY <1>4, <2>1, CodeSpanGoesOn DEF RoundGoesOn, u
<1>5. CASE s.code = <<>> /\ p[1] = "esc"
  <2>1. Round(s, b, N) = Escape(s, b) /\ Round(s, FALSE, N) = Escape(s, FALSE) /\ Round(u, b, N) = Escape(u, b)
    BY ONLY <1>1, <1>2, <1>5 DEF p
  <2>. QED
    BY <2>1, EscapeGoesOn DEF RoundGoesOn, u
<1>6. CASE s.code = <<>> /\ p[1] \in {"bq", "~"}
  <2>1. Round(s, b, N) = CodeStart(s, b) /\ Round(s, FALSE, N) = CodeStart(s, FALSE) /\ Round(u, b, N) = CodeStart(u, b)
    BY ONLY <1>1, <1>2, <1>6 DEF p
  <2>. QED
    BY <1>6, <2>1, CodeStartGoesOn DEF RoundGoesOn, u
<1>7. CASE s.code = <<>> /\ p[1] = "<"
  <2>1. Round(s, b, N) = Tag(s, b) /\ Round(s, FALSE, N) = Tag(s, FALSE) /\ Round(u, b, N) = Tag(u, b)
    BY ONLY <1>1, <1>2, <1>7 DEF p
  <2>. QED
    BY <2>1, TagGoesOn DEF RoundGoesOn, u
<1>8. CASE s.code = <<>> /\ p[1] = "["
  <2>1. Round(s, b, N) = Link(s, b, N) /\ Round(s, FALSE, N) = Link(s, FALSE, N) /\ Round(u, b, N) = Link(u, b, N)
    BY ONLY <1>1, <1>2, <1>8 DEF p
  <2>. QED
    BY <1>8, <2>1, LinkGoesOn DEF RoundGoesOn, u, p
<1>9. CASE s.code = <<>> /\ p[1] \notin {"esc", "bq", "~", "<", "["}
  <2>. DEFINE e == Emit(s, <<s.pending[1]>>, 1)
  <2>1. Round(s, b, N) = e /\ Round(s, FALSE, N) = e /\ Round(u, b, N) = Emit(u, <<u.pending[1]>>, 1)
    BY ONLY <1>1, <1>2, <1>9 DEF p
  <2>2. Moved(s, e) /\ Emit(u, <<u.pending[1]>>, 1) = Behind(e, t)
    BY SymbolGoesOn DEF u
  <2>. HIDE DEF e
  <2>3. WaitsOrMoves(s, b, e)
    BY <2>2, MovedIsGood
  <2>. QED
    BY <2>1, <2>2, <2>3 DEF RoundGoesOn, u
<1>. QED
  BY <1>3, <1>4, <1>5, <1>6, <1>7, <1>8, <1>9

\* A round asks only what becomes of shorter texts.
Agree(N, M, l) == \A x \in Seq(Symbols) \X BOOLEAN : Len(x[1]) < l => N[x] = M[x]

LEMMA RoundDepends ==
  ASSUME NEW s \in Streams, s.pending # <<>>, NEW b \in BOOLEAN, NEW N, NEW M, Agree(N, M, Len(s.pending))
  PROVE  Round(s, b, N) = Round(s, b, M)
<1>. DEFINE p == s.pending
<1>1. p \in Seq(Symbols) /\ Len(p) \in Nat /\ 1 <= Len(p) /\ s.known \in BOOLEAN
  BY StreamHolds
<1>2. CASE p[1] = "["
  <2>. DEFINE label == Closing(p, "[", "]")
              end == LinkEnd(p, label)
              inner == Inner(p, label)
              x == <<inner, s.known>>
  <2>1. /\ label \in 0..Len(p) /\ (label # 0 => label >= 2)
    <3>1. <<>> \in Seq(Symbols)
      OBVIOUS
    <3>. QED
      BY <1>1, <1>2, <3>1, LinksEnd
  <2>2. ASSUME label # 0 PROVE Linked(p, label, end, s.known, N) = Linked(p, label, end, s.known, M)
    <3>1. label \in 2..Len(p)
      <4>. HIDE DEF label
      <4>. QED
        BY ONLY <1>1, <2>1, <2>2
    <3>2. inner \in Seq(Symbols) /\ Len(inner) < Len(p)
      <4>1. <<>> \in Seq(Symbols)
        OBVIOUS
      <4>. HIDE DEF label
      <4>. QED
        BY ONLY <1>1, <3>1, <4>1, InnerIsShorter DEF inner
    <3>. HIDE DEF inner
    <3>3. x \in Seq(Symbols) \X BOOLEAN /\ x[1] = inner
      BY <1>1, <3>2
    <3>. HIDE DEF x
    <3>4. N[x] = M[x]
      BY ONLY <3>2, <3>3, Agree(N, M, Len(s.pending)) DEF Agree
    <3>. HIDE DEF label, end
    <3>. QED
      BY ONLY <3>4 DEF Linked, x, inner
  <2>3. \A K : Link(s, b, K) =
                IF label = 0 THEN IF ~b /\ Len(p) < MaxPending THEN Wait ELSE Emit(s, <<"[">>, 1)
                ELSE IF label = Len(p) /\ ~b THEN Wait
                ELSE IF label = Len(p) \/ p[label + 1] # "open" THEN Emit(s, <<"[">>, 1)
                ELSE IF end = label THEN IF ~b /\ Len(p) < MaxPending THEN Wait ELSE Emit(s, NoLink, Len(p))
                ELSE Emit(s, Linked(p, label, end, s.known, K), end)
    BY LinkIs
  <2>4. Link(s, b, N) = Link(s, b, M)
    <3>. HIDE DEF label, end, p
    <3>. QED
      BY ONLY <2>2, <2>3
  <2>. QED
    BY <2>4 DEF Round
<1>3. CASE p[1] # "["
  BY <1>3 DEF Round
<1>. QED
  BY <1>2, <1>3

-----------------------------------------------------------------------------
(* What push makes of a stream.                                            *)

Ended(s, b, N) == s.pending = <<>> \/ Round(s, b, N) = Wait
AfterRound(s, b, N) == IF Ended(s, b, N) THEN s ELSE Round(s, b, N)
Advance(b, N) == [s \in Streams |-> AfterRound(s, b, N)]

\* Every round makes this smaller.
Weight(s) == 2 * Len(s.pending) + (IF s.code = <<>> THEN 0 ELSE 1)

LEMMA WeightIs ==
  ASSUME NEW s \in Streams
  PROVE  Weight(s) \in Nat /\ Weight(s) <= 2 * Len(s.pending) + 1
<1>. DEFINE m == Len(s.pending)
            c == IF s.code = <<>> THEN 0 ELSE 1
<1>1. m \in Nat /\ c \in {0, 1}
  BY StreamHolds
<1>2. Weight(s) = 2 * m + c
  BY DEF Weight
<1>. HIDE DEF m, c
<1>3. Weight(s) \in Nat /\ Weight(s) <= 2 * m + 1
  BY ONLY <1>1, <1>2
<1>. QED
  BY <1>3 DEF m

LEMMA MovedIsLighter ==
  ASSUME NEW s \in Streams, NEW r, Moved(s, r)
  PROVE  Weight(r) \in Nat /\ Weight(s) \in Nat /\ Weight(r) < Weight(s) /\ Len(r.pending) <= Len(s.pending) /\ r # s
<1>. DEFINE m == Len(s.pending)
            n == Len(r.pending)
            c == IF s.code = <<>> THEN 0 ELSE 1
            d == IF r.code = <<>> THEN 0 ELSE 1
<1>1. m \in Nat /\ n \in Nat
  BY StreamHolds DEF Moved
<1>2. n < m \/ (n = m /\ d = 0 /\ c = 1)
  BY DEF Moved
<1>3. c \in {0, 1} /\ d \in {0, 1}
  OBVIOUS
<1>4. Weight(s) = 2 * m + c /\ Weight(r) = 2 * n + d
  BY DEF Weight
<1>. HIDE DEF m, n, c, d
<1>5. Weight(r) \in Nat /\ Weight(s) \in Nat /\ Weight(r) < Weight(s) /\ n <= m
  BY ONLY <1>1, <1>2, <1>3, <1>4
<1>6. r # s
  BY <1>5
<1>. QED
  BY <1>5, <1>6 DEF m, n

LEMMA RoundMoves ==
  ASSUME NEW s \in Streams, NEW b \in BOOLEAN, NEW N \in Normals, ~Ended(s, b, N)
  PROVE  Moved(s, Round(s, b, N)) /\ AfterRound(s, b, N) = Round(s, b, N)
<1>1. s.pending # <<>> /\ Round(s, b, N) # Wait
  BY DEF Ended
<1>2. <<>> \in Seq(Symbols)
  OBVIOUS
<1>3. RoundGoesOn(s, <<>>, b, N)
  BY ONLY <1>1, <1>2, s \in Streams, b \in BOOLEAN, N \in Normals, EveryRoundGoesOn
<1>4. Moved(s, Round(s, b, N))
  BY ONLY <1>1, <1>3 DEF RoundGoesOn, WaitsOrMoves
<1>. QED
  BY <1>4 DEF AfterRound

LEMMA AdvanceIs ==
  ASSUME NEW b \in BOOLEAN, NEW N \in Normals
  PROVE  /\ Advance(b, N) \in [Streams -> Streams]
         /\ \A s \in Streams : /\ Advance(b, N)[s] = AfterRound(s, b, N)
                               /\ Ended(s, b, N) <=> Advance(b, N)[s] = s
<1>1. ASSUME NEW s \in Streams
      PROVE  AfterRound(s, b, N) \in Streams /\ Advance(b, N)[s] = AfterRound(s, b, N) /\ (Ended(s, b, N) <=> AfterRound(s, b, N) = s)
  <2>1. Advance(b, N)[s] = AfterRound(s, b, N)
    BY DEF Advance
  <2>2. CASE Ended(s, b, N)
    BY <2>1, <2>2 DEF AfterRound
  <2>3. CASE ~Ended(s, b, N)
    <3>1. Moved(s, Round(s, b, N)) /\ AfterRound(s, b, N) = Round(s, b, N)
      BY <2>3, RoundMoves
    <3>2. Round(s, b, N) \in Streams
      BY ONLY <3>1 DEF Moved
    <3>3. Round(s, b, N) # s
      BY ONLY s \in Streams, <3>1, MovedIsLighter
    <3>. QED
      BY ONLY <2>1, <2>3, <3>1, <3>2, <3>3
  <2>. QED
    BY <2>2, <2>3
<1>2. Advance(b, N) \in [Streams -> Streams]
  BY <1>1 DEF Advance
<1>. QED
  BY <1>1, <1>2

\* The states that push goes through.
MostRounds(s) == 2 * Len(s.pending) + 1
Runs(f, s, b, N) ==
    /\ f \in [0..MostRounds(s) -> Streams] /\ f[0] = s
    /\ \A i \in 1..MostRounds(s) : f[i - 1] \in Streams /\ f[i] = AfterRound(f[i - 1], b, N)

LEMMA RunExists ==
  ASSUME NEW s \in Streams, NEW b \in BOOLEAN, NEW N \in Normals
  PROVE  \E f : Runs(f, s, b, N)
<1>. DEFINE n == MostRounds(s)
            G == Advance(b, N)
            F == [i \in Nat |-> G]
<1>1. n \in Nat
  BY StreamHolds DEF MostRounds
<1>2. G \in [Streams -> Streams]
  BY AdvanceIs
<1>3. PICK f \in [0..n -> Streams] : Steps(f, n, s, F)
  <2>1. F \in [Nat -> [Streams -> Streams]]
    BY <1>2
  <2>. HIDE DEF F, n, G
  <2>. QED
    BY ONLY <1>1, <2>1, s \in Streams, StepsExist
<1>. HIDE DEF n, G
<1>4. ASSUME NEW i \in 1..n PROVE f[i - 1] \in Streams /\ f[i] = AfterRound(f[i - 1], b, N)
  <2>1. f[i - 1] \in Streams /\ f[i] = F[i][f[i - 1]] /\ i \in Nat
    BY <1>1, <1>3 DEF Steps
  <2>. QED
    BY <2>1, AdvanceIs DEF G
<1>5. f[0] = s
  BY <1>3 DEF Steps
<1>6. Runs(f, s, b, N)
  BY <1>3, <1>4, <1>5 DEF Runs, n
<1>. QED
  BY <1>6

LEMMA RoundsRun ==
  ASSUME NEW s \in Streams, NEW b, NEW N, NEW f, Runs(f, s, b, N)
  PROVE  Rounds(s, b, N) = f[MostRounds(s)]
<1>. DEFINE n == MostRounds(s)
            Made(q) == [i \in 0..n |-> IF i = 0 THEN s
                                       ELSE IF q[i - 1].pending = <<>> \/ Round(q[i - 1], b, N) = Wait THEN q[i - 1]
                                       ELSE Round(q[i - 1], b, N)]
            a == CHOOSE q : q = Made(q)
<1>1. n \in Nat
  BY StreamHolds DEF MostRounds
<1>2. Rounds(s, b, N) = a[n]
  BY DEF Rounds, MostRounds
<1>3. f \in [0..n -> Streams] /\ f[0] = s /\ \A i \in 1..n : f[i - 1] \in Streams /\ f[i] = AfterRound(f[i - 1], b, N)
  BY DEF Runs
<1>. HIDE DEF n
<1>4. f = Made(f)
  <2>1. ASSUME NEW i \in 0..n, i # 0
        PROVE  f[i] = IF f[i - 1].pending = <<>> \/ Round(f[i - 1], b, N) = Wait THEN f[i - 1] ELSE Round(f[i - 1], b, N)
    <3>1. i \in 1..n
      BY <1>1, <2>1
    <3>2. f[i] = AfterRound(f[i - 1], b, N)
      BY <1>3, <3>1
    <3>. QED
      BY ONLY <3>2 DEF AfterRound, Ended
  <2>2. f[0] = s
    BY <1>3
  <2>3. f = [i \in 0..n |-> f[i]]
    BY <1>3
  <2>. QED
    BY ONLY <2>1, <2>2, <2>3
<1>5. a = Made(a)
  BY <1>4
<1>. HIDE DEF a
<1>6. a[0] = s /\ \A i \in 1..n : a[i] = AfterRound(a[i - 1], b, N)
  <2>1. a[0] = s /\ \A i \in 0..n : i # 0 => a[i] = IF a[i - 1].pending = <<>> \/ Round(a[i - 1], b, N) = Wait THEN a[i - 1]
                                                    ELSE Round(a[i - 1], b, N)
    BY ONLY <1>1, <1>5
  <2>2. \A i \in 1..n : i \in 0..n /\ i # 0
    BY ONLY <1>1
  <2>. QED
    BY ONLY <2>1, <2>2 DEF AfterRound, Ended
<1>7. \A i \in 0..n : a[i] = f[i]
  <2>. DEFINE T == {i \in Nat : i <= n => a[i] = f[i]}
  <2>1. 0 \in T
    BY <1>3, <1>6
  <2>2. ASSUME NEW i \in T PROVE i + 1 \in T
    <3>1. SUFFICES ASSUME i + 1 <= n PROVE a[i + 1] = f[i + 1]
      OBVIOUS
    <3>2. i + 1 \in 1..n /\ (i + 1) - 1 = i /\ a[i] = f[i]
      BY <1>1, <3>1
    <3>. QED
      BY ONLY <1>3, <1>6, <3>2
  <2>3. T = Nat
    <3>1. T \in SUBSET Nat
      OBVIOUS
    <3>. HIDE DEF T
    <3>. QED
      BY <2>1, <2>2, <3>1, AllNumbers
  <2>. QED
    BY <1>1, <2>3
<1>8. a[n] = f[n]
  BY <1>1, <1>7
<1>. QED
  BY <1>2, <1>8 DEF n

LEMMA RoundsEnd ==
  ASSUME NEW s \in Streams, NEW b \in BOOLEAN, NEW N \in Normals
  PROVE  EndsIn(s, Rounds(s, b, N), Advance(b, N), Streams) /\ Rounds(s, b, N) \in Streams
<1>. DEFINE n == MostRounds(s)
            G == Advance(b, N)
            size == [x \in Streams |-> Weight(x)]
<1>1. n \in Nat /\ Len(s.pending) \in Nat
  BY StreamHolds DEF MostRounds
<1>2. G \in [Streams -> Streams]
  BY AdvanceIs
<1>3. PICK f : Runs(f, s, b, N)
  BY RunExists
<1>4. f \in [0..n -> Streams] /\ f[0] = s /\ \A i \in 1..n : f[i - 1] \in Streams /\ f[i] = AfterRound(f[i - 1], b, N)
  BY <1>3 DEF Runs
<1>5. Rounds(s, b, N) = f[n]
  BY <1>3, RoundsRun
<1>. HIDE DEF n
<1>10. f[n] \in Streams
  BY <1>1, <1>4
<1>11. Repeats(f, n, s, G, Streams)
  <2>1. \A i \in 1..n : f[i] = G[f[i - 1]]
    BY <1>4, AdvanceIs
  <2>. HIDE DEF G
  <2>. QED
    BY <1>4, <2>1 DEF Repeats
<1>. HIDE DEF G
<1>12. size \in [Streams -> Nat] /\ Shrinks(G, Streams, size)
  <2>1. ASSUME NEW y \in Streams PROVE Weight(y) \in Nat
    BY WeightIs
  <2>2. ASSUME NEW y \in Streams, G[y] # y PROVE Weight(G[y]) < Weight(y) /\ G[y] \in Streams
    <3>1. G[y] = AfterRound(y, b, N) /\ ~Ended(y, b, N)
      BY <2>2, AdvanceIs DEF G
    <3>2. Moved(y, G[y])
      BY <3>1, RoundMoves
    <3>. QED
      BY ONLY <3>2, y \in Streams, MovedIsLighter DEF Moved
  <2>. QED
    BY <2>1, <2>2 DEF Shrinks
<1>13. size[s] <= n
  <2>1. size[s] = Weight(s)
    OBVIOUS
  <2>2. Weight(s) <= n
    BY WeightIs DEF n, MostRounds
  <2>. QED
    BY ONLY <2>1, <2>2
<1>. HIDE DEF size
<1>15. EndsIn(s, f[n], G, Streams)
  <2>. DEFINE V == Streams
  <2>1. s \in V /\ n \in Nat /\ G \in [V -> V] /\ Repeats(f, n, s, G, V) /\ size \in [V -> Nat] /\ Shrinks(G, V, size) /\ size[s] <= n
    BY <1>1, <1>2, <1>11, <1>12, <1>13
  <2>. HIDE DEF V
  <2>2. EndsIn(s, f[n], G, V)
    BY ONLY <2>1, EndComes
  <2>. QED
    BY <2>2 DEF V
<1>. QED
  BY <1>5, <1>10, <1>15 DEF G

LEMMA RoundsUnfold ==
  ASSUME NEW s \in Streams, NEW b \in BOOLEAN, NEW N \in Normals
  PROVE  /\ Ended(s, b, N) => Rounds(s, b, N) = s
         /\ ~Ended(s, b, N) => /\ Moved(s, Round(s, b, N))
                               /\ Rounds(s, b, N) = Rounds(Round(s, b, N), b, N)
<1>. DEFINE G == Advance(b, N)
            e == Rounds(s, b, N)
<1>1. EndsIn(s, e, G, Streams)
  BY RoundsEnd
<1>2. G[s] = AfterRound(s, b, N) /\ (Ended(s, b, N) <=> G[s] = s)
  BY AdvanceIs
<1>. HIDE DEF G, e
<1>3. CASE Ended(s, b, N)
  <2>1. EndsIn(s, s, G, Streams)
    BY <1>2, <1>3, EndAtOnce
  <2>2. e = s
    BY ONLY <1>1, <2>1, OnlyEnd
  <2>. QED
    BY <1>3, <2>2 DEF e
<1>4. CASE ~Ended(s, b, N)
  <2>. DEFINE r == Round(s, b, N)
              d == Rounds(r, b, N)
  <2>1. Moved(s, r) /\ G[s] = r
    BY <1>2, <1>4, RoundMoves
  <2>2. r \in Streams
    BY ONLY <2>1 DEF Moved
  <2>. HIDE DEF r
  <2>3. EndsIn(r, d, G, Streams)
    BY <2>2, RoundsEnd DEF G
  <2>. HIDE DEF d
  <2>4. EndsIn(r, e, G, Streams)
    <3>1. EndsIn(G[s], e, G, Streams)
      BY ONLY <1>1, EndAfterStep
    <3>. QED
      BY ONLY <2>1, <3>1
  <2>5. d = e
    BY ONLY <2>3, <2>4, OnlyEnd
  <2>. QED
    BY <1>4, <2>1, <2>5 DEF d, e, r
<1>. QED
  BY <1>3, <1>4

\* What a push leaves: the same register, nothing that a round would take; at the end nothing at all.
LEMMA RoundsLeave ==
  ASSUME NEW b \in BOOLEAN, NEW N \in Normals, NEW s \in Streams
  PROVE  /\ Rounds(s, b, N) \in Streams /\ Rounds(s, b, N).known = s.known
         /\ Ended(Rounds(s, b, N), b, N) /\ (b => Rounds(s, b, N).pending = <<>>)
<1>. DEFINE Good(z) == Rounds(z, b, N).known = z.known /\ Ended(Rounds(z, b, N), b, N)
            T == {n \in Nat : \A z \in Streams : Weight(z) < n => Good(z)}
<1>1. 0 \in T
  <2>1. \A z \in Streams : ~(Weight(z) < 0)
    BY WeightIs
  <2>. HIDE DEF Good
  <2>. QED
    BY <2>1
<1>2. ASSUME NEW n \in T PROVE n + 1 \in T
  <2>0. n \in Nat /\ \A z \in Streams : Weight(z) < n => Good(z)
    OBVIOUS
  <2>1. ASSUME NEW z \in Streams, Weight(z) < n + 1 PROVE Good(z)
    <3>1. CASE Ended(z, b, N)
      <4>1. Rounds(z, b, N) = z
        BY <3>1, RoundsUnfold
      <4>. QED
        BY <3>1, <4>1
    <3>2. CASE ~Ended(z, b, N)
      <4>. DEFINE r == Round(z, b, N)
      <4>1. Moved(z, r) /\ Rounds(z, b, N) = Rounds(r, b, N)
        BY <3>2, RoundsUnfold
      <4>. HIDE DEF r
      <4>2. r \in Streams /\ r.known = z.known
        BY ONLY <4>1 DEF Moved
      <4>3. Weight(r) \in Nat /\ Weight(z) \in Nat /\ Weight(r) < Weight(z)
        BY ONLY <4>1, z \in Streams, MovedIsLighter
      <4>4. Weight(r) < n
        BY ONLY <2>0, <2>1, <4>3
      <4>. HIDE DEF Good
      <4>5. Good(r)
        BY ONLY <2>0, <4>2, <4>4
      <4>. QED
        BY ONLY <4>1, <4>2, <4>5 DEF Good
    <3>. QED
      BY <3>1, <3>2
  <2>. HIDE DEF Good
  <2>. QED
    BY <2>0, <2>1
<1>3. T = Nat
  <2>1. T \in SUBSET Nat
    OBVIOUS
  <2>. HIDE DEF T
  <2>. QED
    BY <1>1, <1>2, <2>1, AllNumbers
<1>4. Good(s)
  <2>. DEFINE w == Weight(s)
  <2>1. w \in Nat /\ w + 1 \in Nat /\ w < w + 1
    BY WeightIs
  <2>. HIDE DEF Good
  <2>. QED
    BY <1>3, <2>1
<1>. DEFINE e == Rounds(s, b, N)
<1>5. e \in Streams
  BY RoundsEnd
<1>6. ASSUME b PROVE e.pending = <<>>
  <2>1. SUFFICES ASSUME e.pending # <<>> PROVE FALSE
    OBVIOUS
  <2>2. Round(e, b, N) = Wait
    BY <1>4, <2>1 DEF Ended
  <2>3. <<>> \in Seq(Symbols)
    OBVIOUS
  <2>. HIDE DEF e
  <2>4. RoundGoesOn(e, <<>>, b, N)
    BY ONLY <1>5, <2>1, <2>3, b \in BOOLEAN, N \in Normals, EveryRoundGoesOn
  <2>. QED
    BY ONLY <1>6, <2>2, <2>4 DEF RoundGoesOn, WaitsOrMoves
<1>. QED
  BY <1>4, <1>5, <1>6

\* A text that is pushed in two parts ends up as one that is pushed at once.
OneByOne(s, t, b, N) == Rounds(Behind(Rounds(s, FALSE, N), t), b, N) = Rounds(Behind(s, t), b, N)

LEMMA PartsAreWhole ==
  ASSUME NEW t \in Seq(Symbols), NEW b \in BOOLEAN, NEW N \in Normals, NEW s \in Streams, Len(s.pending) < MaxPending
  PROVE  OneByOne(s, t, b, N)
<1>. DEFINE T == {n \in Nat : \A z \in Streams : Weight(z) < n /\ Len(z.pending) < MaxPending => OneByOne(z, t, b, N)}
<1>1. 0 \in T
  <2>1. \A z \in Streams : ~(Weight(z) < 0)
    BY WeightIs
  <2>. QED
    BY <2>1
<1>2. ASSUME NEW n \in T PROVE n + 1 \in T
  <2>0. n \in Nat /\ \A z \in Streams : Weight(z) < n /\ Len(z.pending) < MaxPending => OneByOne(z, t, b, N)
    OBVIOUS
  <2>1. ASSUME NEW z \in Streams, Weight(z) < n + 1, Len(z.pending) < MaxPending PROVE OneByOne(z, t, b, N)
    <3>0. FALSE \in BOOLEAN
      OBVIOUS
    <3>1. CASE Ended(z, FALSE, N)
      <4>1. Rounds(z, FALSE, N) = z
        BY <3>0, <3>1, RoundsUnfold
      <4>. QED
        BY <4>1 DEF OneByOne
    <3>2. CASE ~Ended(z, FALSE, N)
      <4>. DEFINE r == Round(z, FALSE, N)
                  v == Behind(z, t)
                  w == Behind(r, t)
      <4>1. Moved(z, r) /\ Rounds(z, FALSE, N) = Rounds(r, FALSE, N)
        BY <3>0, <3>2, RoundsUnfold
      <4>2. z.pending # <<>> /\ r # Wait
        BY <3>2 DEF Ended
      <4>3. Round(v, b, N) = w
        <5>1. RoundGoesOn(z, t, b, N)
          BY <4>2, EveryRoundGoesOn
        <5>. QED
          BY <2>1, <4>2, <5>1 DEF RoundGoesOn
      <4>. HIDE DEF r
      <4>4. r \in Streams
        BY ONLY <4>1 DEF Moved
      <4>5. Weight(r) \in Nat /\ Weight(z) \in Nat /\ Weight(r) < Weight(z) /\ Len(r.pending) <= Len(z.pending)
        BY ONLY <4>1, z \in Streams, MovedIsLighter
      <4>6. Weight(r) < n /\ Len(r.pending) < MaxPending
        <5>1. Weight(r) < n
          BY ONLY <2>0, <2>1, <4>5
        <5>2. Len(r.pending) \in Nat /\ Len(z.pending) \in Nat /\ MaxPending \in Nat
          BY <4>4, StreamHolds, AnswersAreSymbols
        <5>3. \A i, j, k \in Nat : i <= j /\ j < k => i < k
          OBVIOUS
        <5>. QED
          BY ONLY <2>1, <4>5, <5>1, <5>2, <5>3
      <4>7. OneByOne(r, t, b, N)
        BY ONLY <2>0, <4>4, <4>6
      <4>8. v \in Streams /\ w \in Streams /\ v.pending # <<>>
        <5>1. v \in Streams /\ v.pending = z.pending \o t
          BY BehindIs
        <5>2. z.pending \in Seq(Symbols)
          BY StreamHolds
        <5>3. z.pending \o t # <<>>
          <6>. DEFINE p == z.pending
                      q == p \o t
          <6>1. p \in Seq(Symbols) /\ p # <<>>
            BY <4>2, <5>2
          <6>. HIDE DEF p
          <6>2. Len(p) \in Nat /\ 1 <= Len(p) /\ Len(t) \in Nat /\ Len(q) = Len(p) + Len(t)
            BY <6>1, BehindText
          <6>3. Len(q) # 0
            BY <6>2
          <6>4. q # <<>>
            BY <6>3
          <6>. QED
            BY <6>4 DEF p, q
        <5>4. w \in Streams
          BY ONLY <4>4, t \in Seq(Symbols), BehindIs
        <5>. QED
          BY ONLY <5>1, <5>3, <5>4
      <4>. HIDE DEF v, w
      <4>9. w # Wait
        BY <4>8, NoStreamWaits
      <4>10. ~Ended(v, b, N)
        BY ONLY <4>3, <4>8, <4>9 DEF Ended
      <4>11. Rounds(v, b, N) = Rounds(w, b, N)
        BY <4>3, <4>8, <4>10, RoundsUnfold
      <4>. QED
        BY ONLY <4>1, <4>7, <4>11 DEF OneByOne, v, w
    <3>. QED
      BY <3>1, <3>2
  <2>. QED
    BY <2>0, <2>1
<1>3. T = Nat
  <2>1. T \in SUBSET Nat
    OBVIOUS
  <2>. HIDE DEF T
  <2>. QED
    BY <1>1, <1>2, <2>1, AllNumbers
<1>. DEFINE m == Weight(s)
<1>4. m \in Nat /\ m + 1 \in Nat /\ m < m + 1
  BY WeightIs
<1>. QED
  BY <1>3, <1>4

\* What becomes of a stream asks only what becomes of texts shorter than the one that is pending.
LEMMA RoundsDepend ==
  ASSUME NEW s \in Streams, NEW b \in BOOLEAN, NEW N \in Normals, NEW M, Agree(N, M, Len(s.pending))
  PROVE  Rounds(s, b, N) = Rounds(s, b, M)
<1>. DEFINE n == MostRounds(s)
            l == Len(s.pending)
<1>1. n \in Nat /\ l \in Nat
  BY StreamHolds DEF MostRounds
<1>2. PICK f : Runs(f, s, b, N)
  BY RunExists
<1>3. f \in [0..n -> Streams] /\ f[0] = s /\ \A i \in 1..n : f[i - 1] \in Streams /\ f[i] = AfterRound(f[i - 1], b, N)
  BY <1>2 DEF Runs
<1>. HIDE DEF n, l
<1>4. \A i \in 0..n : Len(f[i].pending) <= l
  <2>. DEFINE T == {i \in Nat : i <= n => Len(f[i].pending) <= l}
  <2>1. 0 \in T
    BY <1>1, <1>3 DEF l
  <2>2. ASSUME NEW i \in T PROVE i + 1 \in T
    <3>1. SUFFICES ASSUME i + 1 <= n PROVE Len(f[i + 1].pending) <= l
      OBVIOUS
    <3>2. i + 1 \in 1..n /\ (i + 1) - 1 = i /\ Len(f[i].pending) <= l
      BY <1>1, <3>1
    <3>3. f[i] \in Streams /\ f[i + 1] = AfterRound(f[i], b, N)
      BY ONLY <1>3, <3>2
    <3>4. CASE Ended(f[i], b, N)
      BY <3>2, <3>3, <3>4 DEF AfterRound
    <3>5. CASE ~Ended(f[i], b, N)
      <4>. DEFINE x == f[i]
                  y == f[i + 1]
      <4>1. Moved(x, y)
        BY <3>3, <3>5, RoundMoves
      <4>2. x \in Streams /\ y \in Streams
        BY <3>3, <4>1 DEF Moved
      <4>. HIDE DEF x, y
      <4>3. Len(y.pending) <= Len(x.pending) /\ Len(y.pending) \in Nat /\ Len(x.pending) \in Nat
        BY <4>1, <4>2, MovedIsLighter, StreamHolds
      <4>4. Len(x.pending) <= l
        BY <3>2 DEF x
      <4>5. \A j, k, m \in Nat : j <= k /\ k <= m => j <= m
        OBVIOUS
      <4>6. Len(y.pending) <= l
        BY ONLY <1>1, <4>3, <4>4, <4>5
      <4>. QED
        BY <4>6 DEF y
    <3>. QED
      BY <3>4, <3>5
  <2>3. T = Nat
    <3>1. T \in SUBSET Nat
      OBVIOUS
    <3>. HIDE DEF T
    <3>. QED
      BY <2>1, <2>2, <3>1, AllNumbers
  <2>. QED
    BY <1>1, <2>3
<1>5. ASSUME NEW z \in Streams, Len(z.pending) <= l PROVE AfterRound(z, b, N) = AfterRound(z, b, M)
  <2>1. CASE z.pending = <<>>
    BY <2>1 DEF AfterRound, Ended
  <2>2. CASE z.pending # <<>>
    <3>1. Agree(N, M, Len(z.pending))
      <4>1. Len(z.pending) \in Nat /\ \A x \in Seq(Symbols) \X BOOLEAN : Len(x[1]) \in Nat
        BY StreamHolds
      <4>2. \A i, j, k \in Nat : i < j /\ j <= k => i < k
        OBVIOUS
      <4>3. Agree(N, M, l)
        BY DEF l
      <4>. QED
        BY ONLY <1>1, <1>5, <4>1, <4>2, <4>3 DEF Agree
    <3>2. Round(z, b, N) = Round(z, b, M)
      BY ONLY <2>2, <3>1, z \in Streams, b \in BOOLEAN, RoundDepends
    <3>. QED
      BY ONLY <3>2 DEF AfterRound, Ended
  <2>. QED
    BY <2>1, <2>2
<1>6. Runs(f, s, b, M)
  <2>1. ASSUME NEW i \in 1..n PROVE f[i - 1] \in Streams /\ f[i] = AfterRound(f[i - 1], b, M)
    <3>1. i - 1 \in 0..n
      BY <1>1
    <3>2. f[i - 1] \in Streams /\ f[i] = AfterRound(f[i - 1], b, N) /\ Len(f[i - 1].pending) <= l
      BY ONLY <1>3, <1>4, <3>1, i \in 1..n
    <3>. QED
      BY ONLY <1>5, <3>2
  <2>. QED
    BY <1>3, <2>1 DEF Runs, n
<1>7. Rounds(s, b, N) = f[MostRounds(s)] /\ Rounds(s, b, M) = f[MostRounds(s)]
  BY <1>2, <1>6, RoundsRun
<1>. QED
  BY <1>7

LEMMA FreshIs ==
  ASSUME NEW p \in Seq(Symbols), NEW k \in BOOLEAN
  PROVE  /\ Fresh(p, k) \in Streams /\ Fresh(p, k).pending = p /\ Fresh(p, k).known = k
         /\ \A t \in Seq(Symbols) : Behind(Fresh(p, k), t) = Fresh(p \o t, k)
<1>1. Fresh(p, k) = Stream(p, <<>>, FALSE, <<>>, k)
  BY DEF Fresh, Stream
<1>2. Fresh(p, k) \in Streams
  <2>1. <<>> \in Seq(Symbols) /\ <<>> \in Seq(Outs) /\ FALSE \in BOOLEAN /\ (FALSE => <<>> # <<>>)
    OBVIOUS
  <2>. QED
    BY <1>1, <2>1, StreamIs
<1>. DEFINE s == Fresh(p, k)
<1>3. s.pending = p /\ s.code = <<>> /\ s.fenced = FALSE /\ s.out = <<>> /\ s.known = k
  BY DEF Fresh
<1>. HIDE DEF s
<1>4. ASSUME NEW t \in Seq(Symbols) PROVE Behind(s, t) = Fresh(p \o t, k)
  <2>1. Behind(s, t) = Stream(s.pending \o t, s.code, s.fenced, s.out, s.known)
    BY <1>2, BehindIs DEF s
  <2>. QED
    BY ONLY <1>3, <2>1 DEF Stream, Fresh
<1>. QED
  BY <1>2, <1>3, <1>4 DEF s

\* There is the function as it is defined: the text of a link is shorter than the text around it.
FilteredBy(N) == [x \in Seq(Symbols) \X BOOLEAN |-> Rounds(Fresh(x[1], x[2]), TRUE, N).out]

LEMMA FilteredExists ==
  Filtered \in Normals /\ \A p \in Seq(Symbols), k \in BOOLEAN : Filtered[<<p, k>>] = Rounds(Fresh(p, k), TRUE, Filtered).out
<1>. DEFINE D == Seq(Symbols) \X BOOLEAN
            V == Seq(Outs)
            size == [x \in D |-> Len(x[1])]
            H == [N \in [D -> V] |-> FilteredBy(N)]
<1>1. Normals = [D -> V]
  BY DEF Normals
<1>2. ASSUME NEW x \in D PROVE Fresh(x[1], x[2]) \in Streams /\ Fresh(x[1], x[2]).pending = x[1]
  <2>1. x[1] \in Seq(Symbols) /\ x[2] \in BOOLEAN
    OBVIOUS
  <2>. QED
    BY ONLY <2>1, FreshIs
<1>3. TRUE \in BOOLEAN
  OBVIOUS
<1>4. ASSUME NEW N \in Normals PROVE FilteredBy(N) \in Normals
  <2>1. ASSUME NEW x \in D PROVE Rounds(Fresh(x[1], x[2]), TRUE, N).out \in V
    <3>1. Rounds(Fresh(x[1], x[2]), TRUE, N) \in Streams
      BY <1>2, <1>3, RoundsEnd
    <3>. QED
      BY ONLY <3>1, StreamHolds DEF V
  <2>2. FilteredBy(N) \in [D -> V]
    BY <2>1 DEF FilteredBy
  <2>. QED
    BY <1>1, <2>2
<1>5. size \in [D -> Nat]
  OBVIOUS
<1>6. H \in [[D -> V] -> [D -> V]]
  BY <1>1, <1>4
<1>7. <<>> \in V
  OBVIOUS
<1>8. LooksBack(D, V, size, H)
  <2>1. ASSUME NEW f \in [D -> V], NEW g \in [D -> V], NEW x \in D, \A y \in D : size[y] < size[x] => f[y] = g[y]
        PROVE  H[f][x] = H[g][x]
    <3>. DEFINE s == Fresh(x[1], x[2])
    <3>1. s \in Streams /\ s.pending = x[1]
      BY <1>2
    <3>2. Agree(f, g, Len(s.pending))
      <4>1. \A y \in D : size[y] = Len(y[1])
        OBVIOUS
      <4>. QED
        BY ONLY <2>1, <3>1, <4>1, x \in D DEF Agree, D
    <3>3. f \in Normals /\ g \in Normals
      BY <1>1
    <3>. HIDE DEF s
    <3>4. Rounds(s, TRUE, f) = Rounds(s, TRUE, g)
      BY ONLY <1>3, <3>1, <3>2, <3>3, RoundsDepend
    <3>5. H[f][x] = Rounds(s, TRUE, f).out /\ H[g][x] = Rounds(s, TRUE, g).out
      BY DEF FilteredBy, s
    <3>. QED
      BY ONLY <3>4, <3>5
  <2>. HIDE DEF H, D, V, size
  <2>. QED
    BY ONLY <2>1 DEF LooksBack
<1>9. PICK f : Defines(f, D, V, H)
  <2>. HIDE DEF H, D, V, size
  <2>. QED
    BY ONLY <1>5, <1>6, <1>7, <1>8, RecursionExists
<1>10. f \in [D -> V] /\ f = FilteredBy(f)
  <2>1. f \in [D -> V] /\ f = H[f]
    BY <1>9 DEF Defines
  <2>. QED
    BY ONLY <2>1 DEF H
<1>11. ASSUME NEW g, g = FilteredBy(g) PROVE g = f
  <2>. DEFINE T == {n \in Nat : \A x \in D : Len(x[1]) < n => g[x] = f[x]}
  <2>0. /\ \A x \in D : Len(x[1]) \in Nat
        /\ \A N : \A x \in D : FilteredBy(N)[x] = Rounds(Fresh(x[1], x[2]), TRUE, N).out
    BY DEF FilteredBy
  <2>1. 0 \in T
    BY <2>0
  <2>2. ASSUME NEW n \in T PROVE n + 1 \in T
    <3>0. n \in Nat /\ \A x \in D : Len(x[1]) < n => g[x] = f[x]
      OBVIOUS
    <3>1. ASSUME NEW x \in D, Len(x[1]) < n + 1 PROVE g[x] = f[x]
      <4>. DEFINE s == Fresh(x[1], x[2])
      <4>1. s \in Streams /\ s.pending = x[1]
        BY <1>2
      <4>2. Agree(f, g, Len(s.pending))
        <5>1. \A i, j \in Nat : i < j /\ j < n + 1 => i < n
          BY <3>0
        <5>2. \A y \in D : Len(y[1]) < Len(x[1]) => f[y] = g[y]
          BY ONLY <2>0, <3>0, <3>1, <5>1
        <5>. QED
          BY ONLY <4>1, <5>2 DEF Agree, D
      <4>3. f \in Normals
        BY <1>1, <1>10
      <4>. HIDE DEF s
      <4>4. Rounds(s, TRUE, f) = Rounds(s, TRUE, g)
        BY ONLY <1>3, <4>1, <4>2, <4>3, RoundsDepend
      <4>5. FilteredBy(f)[x] = Rounds(s, TRUE, f).out /\ FilteredBy(g)[x] = Rounds(s, TRUE, g).out
        BY <2>0 DEF s
      <4>. QED
        BY ONLY <1>10, <1>11, <4>4, <4>5
    <3>. HIDE DEF D
    <3>. QED
      BY ONLY <3>0, <3>1
  <2>3. T = Nat
    <3>1. T \in SUBSET Nat
      OBVIOUS
    <3>. HIDE DEF T
    <3>. QED
      BY <2>1, <2>2, <3>1, AllNumbers
  <2>4. \A x \in D : g[x] = f[x]
    <3>1. ASSUME NEW x \in D PROVE g[x] = f[x]
      <4>1. Len(x[1]) \in Nat /\ Len(x[1]) + 1 \in Nat /\ Len(x[1]) < Len(x[1]) + 1
        BY <2>0
      <4>. QED
        BY <2>3, <4>1
    <3>. QED
      BY <3>1
  <2>5. g = [x \in D |-> g[x]]
    BY ONLY <1>11 DEF FilteredBy, D
  <2>. HIDE DEF D
  <2>. QED
    BY ONLY <1>10, <2>4, <2>5
<1>12. Filtered = CHOOSE g : g = FilteredBy(g)
  BY DEF Filtered, FilteredBy
<1>13. Filtered = f
  BY ONLY <1>10, <1>11, <1>12
<1>14. \A x \in D : f[x] = Rounds(Fresh(x[1], x[2]), TRUE, f).out
  <2>1. \A N : \A x \in D : FilteredBy(N)[x] = Rounds(Fresh(x[1], x[2]), TRUE, N).out
    BY DEF FilteredBy
  <2>. QED
    BY ONLY <1>10, <2>1
<1>15. ASSUME NEW p \in Seq(Symbols), NEW k \in BOOLEAN PROVE f[<<p, k>>] = Rounds(Fresh(p, k), TRUE, f).out
  <2>1. <<p, k>> \in D /\ <<p, k>>[1] = p /\ <<p, k>>[2] = k
    OBVIOUS
  <2>. HIDE DEF D
  <2>. QED
    BY ONLY <1>14, <2>1
<1>. QED
  BY ONLY <1>1, <1>10, <1>13, <1>15

\* As long as nothing was registered late and the text is below the hold-back limit, the stream is what the filter makes
\* of the whole text at once, and waits for more of it unless the answer is over.
CitationInv ==
    /\ fragments \in Alphabets /\ text \in Seq(Symbols) /\ stream \in Streams /\ closed \in BOOLEAN
    /\ late => stream.known
    /\ closed => stream.pending = <<>>
    /\ ~late /\ Len(text) < MaxPending => stream = Push(Fresh(text, stream.known), closed)

\* With nothing pending there is nothing to do.
LEMMA PushNothing ==
  ASSUME NEW k \in BOOLEAN, NEW b \in BOOLEAN
  PROVE  Push(Fresh(<<>>, k), b) = Fresh(<<>>, k)
<1>1. <<>> \in Seq(Symbols)
  OBVIOUS
<1>2. Fresh(<<>>, k) \in Streams /\ Fresh(<<>>, k).pending = <<>>
  BY <1>1, FreshIs
<1>3. Ended(Fresh(<<>>, k), b, Filtered)
  BY <1>2 DEF Ended
<1>. QED
  BY <1>2, <1>3, FilteredExists, RoundsUnfold DEF Push

LEMMA PushLeaves ==
  ASSUME NEW s \in Streams, NEW b \in BOOLEAN
  PROVE  Push(s, b) \in Streams /\ Push(s, b).known = s.known /\ (b => Push(s, b).pending = <<>>)
<1>1. Filtered \in Normals
  BY FilteredExists
<1>. QED
  BY <1>1, RoundsLeave DEF Push

LEMMA PushParts ==
  ASSUME NEW s \in Streams, NEW t \in Seq(Symbols), NEW b \in BOOLEAN, Len(s.pending) < MaxPending
  PROVE  Push(Behind(Push(s, FALSE), t), b) = Push(Behind(s, t), b)
<1>1. Filtered \in Normals
  BY FilteredExists
<1>2. OneByOne(s, t, b, Filtered)
  BY <1>1, PartsAreWhole
<1>. QED
  BY <1>2 DEF Push, OneByOne

LEMMA CitationStarts == CitationInit => CitationInv
<1>. SUFFICES ASSUME CitationInit PROVE CitationInv
  OBVIOUS
<1>1. fragments \in Alphabets /\ stream = Fresh(<<>>, FALSE) /\ text = <<>> /\ late = FALSE /\ closed = FALSE
  BY DEF CitationInit
<1>2. <<>> \in Seq(Symbols) /\ FALSE \in BOOLEAN
  OBVIOUS
<1>3. stream \in Streams /\ stream.known = FALSE
  BY <1>1, <1>2, FreshIs
<1>4. Push(Fresh(<<>>, FALSE), FALSE) = Fresh(<<>>, FALSE)
  BY <1>2, PushNothing
<1>. QED
  BY <1>1, <1>2, <1>3, <1>4 DEF CitationInv

LEMMA KnownIs ==
  ASSUME NEW s \in Streams, NEW k
  PROVE  [s EXCEPT !.known = k] = Stream(s.pending, s.code, s.fenced, s.out, k)
<1>1. s = [pending |-> s.pending, code |-> s.code, fenced |-> s.fenced, out |-> s.out, known |-> s.known]
  BY StreamHolds DEF Stream
<1>2. [s EXCEPT !.known = k] = [pending |-> s.pending, code |-> s.code, fenced |-> s.fenced, out |-> s.out, known |-> k]
  BY ONLY <1>1
<1>. QED
  BY <1>2 DEF Stream

LEMMA RegisterKeeps == ASSUME CitationInv, Register PROVE CitationInv'
<1>1. /\ ~closed /\ ~stream.known /\ stream' = [stream EXCEPT !.known = TRUE] /\ late' = (text # <<>>)
      /\ fragments' = fragments /\ text' = text /\ closed' = closed
  BY DEF Register
<1>2. /\ fragments \in Alphabets /\ text \in Seq(Symbols) /\ stream \in Streams /\ closed = FALSE /\ ~late
      /\ Len(text) < MaxPending => stream = Push(Fresh(text, stream.known), closed)
  BY <1>1 DEF CitationInv
<1>3. /\ stream.pending \in Seq(Symbols) /\ stream.code \in Seq(Symbols) /\ stream.fenced \in BOOLEAN
      /\ stream.out \in Seq(Outs) /\ stream.known = FALSE /\ (stream.fenced => stream.code # <<>>)
  BY <1>1, <1>2, StreamHolds
<1>4. stream' = Stream(stream.pending, stream.code, stream.fenced, stream.out, TRUE)
  BY <1>1, <1>2, KnownIs
<1>5. stream' \in Streams
  <2>1. TRUE \in BOOLEAN
    OBVIOUS
  <2>2. Stream(stream.pending, stream.code, stream.fenced, stream.out, TRUE) \in Streams
    BY ONLY <1>3, <2>1, StreamIs
  <2>. QED
    BY <1>4, <2>2
<1>6. stream'.known = TRUE
  BY <1>4 DEF Stream
<1>7. ASSUME ~late', Len(text') < MaxPending PROVE stream' = Push(Fresh(text', stream'.known), closed')
  <2>1. text = <<>> /\ text' = <<>>
    BY <1>1, <1>7
  <2>2. stream = Push(Fresh(<<>>, FALSE), FALSE)
    BY <1>1, <1>2, <1>3, <1>7, <2>1
  <2>3. FALSE \in BOOLEAN /\ TRUE \in BOOLEAN
    OBVIOUS
  <2>4. stream = Fresh(<<>>, FALSE) /\ Push(Fresh(<<>>, TRUE), FALSE) = Fresh(<<>>, TRUE)
    BY <2>2, <2>3, PushNothing
  <2>5. stream' = Fresh(<<>>, TRUE)
    BY <1>1, <2>4 DEF Fresh
  <2>. QED
    BY <1>1, <1>2, <1>6, <2>1, <2>4, <2>5
<1>. QED
  BY <1>1, <1>2, <1>5, <1>6, <1>7 DEF CitationInv

LEMMA AnsweredKeeps == ASSUME CitationInv, NEW f \in fragments, Answered(f) PROVE CitationInv'
<1>1. /\ ~closed /\ text' = text \o f /\ stream' = Push([stream EXCEPT !.pending = @ \o f], FALSE)
      /\ fragments' = fragments /\ late' = late /\ closed' = closed
  BY DEF Answered
<1>2. /\ fragments \in Alphabets /\ text \in Seq(Symbols) /\ stream \in Streams /\ closed = FALSE
      /\ late => stream.known
      /\ ~late /\ Len(text) < MaxPending => stream = Push(Fresh(text, stream.known), FALSE)
  BY <1>1 DEF CitationInv
<1>3. f \in Seq(Symbols) /\ MaxPending \in Nat
  BY <1>2, AnswersAreSymbols
<1>4. text' \in Seq(Symbols) /\ Len(text') = Len(text) + Len(f) /\ Len(text) \in Nat /\ Len(f) \in Nat
  BY <1>1, <1>2, <1>3, BehindText
<1>. DEFINE s == Behind(stream, f)
            k == stream.known
<1>5. stream' = Push(s, FALSE)
  BY <1>1 DEF Behind
<1>6. s \in Streams /\ s.known = k /\ k \in BOOLEAN
  BY <1>2, <1>3, BehindIs, StreamHolds
<1>. HIDE DEF s
<1>7. stream' \in Streams /\ stream'.known = k
  <2>1. FALSE \in BOOLEAN
    OBVIOUS
  <2>. QED
    BY ONLY <1>5, <1>6, <2>1, PushLeaves
<1>8. ASSUME ~late', Len(text') < MaxPending PROVE stream' = Push(Fresh(text', stream'.known), FALSE)
  <2>. DEFINE z == Fresh(text, k)
  <2>1. Len(text) < MaxPending
    BY ONLY <1>3, <1>4, <1>8
  <2>2. stream = Push(z, FALSE)
    BY <1>1, <1>2, <1>8, <2>1
  <2>3. z \in Streams /\ z.pending = text /\ Behind(z, f) = Fresh(text', k)
    BY <1>1, <1>2, <1>3, <1>6, FreshIs
  <2>4. FALSE \in BOOLEAN /\ Len(z.pending) < MaxPending
    BY <2>1, <2>3
  <2>. HIDE DEF z
  <2>5. Push(Behind(Push(z, FALSE), f), FALSE) = Push(Behind(z, f), FALSE)
    BY ONLY <1>3, <2>3, <2>4, PushParts
  <2>. QED
    BY ONLY <1>5, <1>7, <2>2, <2>3, <2>5 DEF s
<1>. QED
  BY <1>1, <1>2, <1>4, <1>7, <1>8 DEF CitationInv

LEMMA FlushKeeps == ASSUME CitationInv, Flush PROVE CitationInv'
<1>1. /\ ~closed /\ closed' = TRUE /\ stream' = Push(stream, TRUE)
      /\ fragments' = fragments /\ text' = text /\ late' = late
  BY DEF Flush
<1>2. /\ fragments \in Alphabets /\ text \in Seq(Symbols) /\ stream \in Streams
      /\ late => stream.known
      /\ ~late /\ Len(text) < MaxPending => stream = Push(Fresh(text, stream.known), FALSE)
  <2>1. closed = FALSE
    BY <1>1 DEF CitationInv
  <2>. QED
    BY <2>1 DEF CitationInv
<1>. DEFINE k == stream.known
<1>3. TRUE \in BOOLEAN /\ k \in BOOLEAN /\ <<>> \in Seq(Symbols)
  BY <1>2, StreamHolds
<1>4. stream' \in Streams /\ stream'.known = k /\ stream'.pending = <<>>
  <2>1. Push(stream, TRUE) \in Streams /\ Push(stream, TRUE).known = stream.known /\ Push(stream, TRUE).pending = <<>>
    <3>1. stream \in Streams
      BY <1>2
    <3>. QED
      BY ONLY <1>3, <3>1, PushLeaves
  <2>. QED
    BY <1>1, <2>1
<1>5. ASSUME ~late, Len(text) < MaxPending PROVE stream' = Push(Fresh(text, k), TRUE)
  <2>. DEFINE z == Fresh(text, k)
  <2>1. stream = Push(z, FALSE)
    BY <1>2, <1>5
  <2>2. z \in Streams /\ z.pending = text /\ Behind(z, <<>>) = Fresh(text \o <<>>, k)
    BY <1>2, <1>3, FreshIs
  <2>3. text \o <<>> = text
    BY <1>2, ConcatEmptySeq
  <2>4. Len(z.pending) < MaxPending /\ Behind(z, <<>>) = z
    BY <1>5, <2>2, <2>3
  <2>5. Behind(stream, <<>>) = stream
    <3>1. stream.pending \o <<>> = stream.pending
      BY <1>2, StreamHolds, ConcatEmptySeq
    <3>2. Behind(stream, <<>>) = Stream(stream.pending \o <<>>, stream.code, stream.fenced, stream.out, stream.known)
      BY <1>2, <1>3, BehindIs
    <3>3. stream = Stream(stream.pending, stream.code, stream.fenced, stream.out, stream.known)
      BY <1>2, StreamHolds
    <3>. QED
      BY ONLY <3>1, <3>2, <3>3
  <2>. HIDE DEF z
  <2>6. Push(Behind(Push(z, FALSE), <<>>), TRUE) = Push(Behind(z, <<>>), TRUE)
    BY ONLY <1>3, <2>2, <2>4, PushParts
  <2>. QED
    BY ONLY <1>1, <2>1, <2>4, <2>5, <2>6 DEF z
<1>. QED
  BY <1>1, <1>2, <1>3, <1>4, <1>5 DEF CitationInv

LEMMA CitationStays == CitationInv /\ [CitationNext]_citationVars => CitationInv'
<1>. SUFFICES ASSUME CitationInv, [CitationNext]_citationVars PROVE CitationInv'
  OBVIOUS
<1>1. CASE Register
  BY <1>1, RegisterKeeps
<1>2. CASE Flush
  BY <1>2, FlushKeeps
<1>3. ASSUME NEW f \in fragments, Answered(f) PROVE CitationInv'
  BY <1>3, AnsweredKeeps
<1>4. CASE UNCHANGED citationVars
  BY <1>4 DEF citationVars, CitationInv
<1>. QED
  BY <1>1, <1>2, <1>3, <1>4 DEF CitationNext

LEMMA CitationIsGood == CitationInv => CitationTypeOK /\ ShownIsStored
<1>. SUFFICES ASSUME CitationInv PROVE CitationTypeOK /\ ShownIsStored
  OBVIOUS
<1>1. stream \in Streams /\ text \in Seq(Symbols) /\ stream.known \in BOOLEAN /\ (stream.fenced => stream.code # <<>>)
  BY StreamHolds DEF CitationInv
<1>2. CitationTypeOK
  BY <1>1 DEF CitationInv, CitationTypeOK
<1>3. ASSUME closed, Len(text) < MaxPending, ~late PROVE stream.out = Normalize(text, stream.known)
  <2>1. closed = TRUE
    BY <1>3 DEF CitationInv
  <2>2. stream = Push(Fresh(text, stream.known), TRUE)
    BY <1>3, <2>1 DEF CitationInv
  <2>3. Filtered[<<text, stream.known>>] = Rounds(Fresh(text, stream.known), TRUE, Filtered).out
    BY <1>1, FilteredExists
  <2>. QED
    BY ONLY <2>2, <2>3 DEF Push, Normalize
<1>. QED
  BY <1>2, <1>3 DEF ShownIsStored

-----------------------------------------------------------------------------
(* Both together.                                                          *)

\* A step is a step of the part the behaviour is of.
LEMMA OnePartAtATime ==
  ASSUME [Next]_vars
  PROVE  /\ part' = part
         /\ part = "citation" => [CitationNext]_citationVars
         /\ part = "answer" => [AnswerNext]_answerVars
BY DEF Next, vars

\* However the argument of the tool "respond" is cut into fragments, what was shown of the answer is the beginning of
\* what the model wrote, unit by unit, and all of it once it is accepted; and however an answer below the hold-back
\* limit is cut, the reader has seen what is stored of it, when its sources were registered before it began
\* (AnswerDecoder and CitationStream).
THEOREM AnswersAreShown == Spec => []ShownIsTheAnswer
<1> DEFINE Inv == (part = "citation" => CitationInv) /\ (part = "answer" => AnswerInv)
<1>1. Init => Inv
  BY CitationStarts, AnswerStarts DEF Init
<1>2. Inv /\ [Next]_vars => Inv'
  BY OnePartAtATime, CitationStays, AnswerStays
<1>3. Inv => ShownIsTheAnswer
  BY CitationIsGood, AnswerIsGood DEF ShownIsTheAnswer
<1> QED
  BY <1>1, <1>2, <1>3, PTL DEF Spec, vars
=============================================================================
