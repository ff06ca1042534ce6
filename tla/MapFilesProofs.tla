--------------------------- MODULE MapFilesProofs ---------------------------
(***************************************************************************)
(* Theorems about MapFiles, for any drives, map sets and lights: the cache *)
(* of resolved points, which no lock protects, shows in no answer; a light *)
(* of a converted set is answered with what it was traced to; a lanelet is *)
(* read the way it is driven, the grid loses no successor of it, and the   *)
(* search for the lights ahead stops at them and misses none but behind a  *)
(* longer way.                                                             *)
(***************************************************************************)
EXTENDS MapFiles, TLAPS, WellFoundedInduction, FiniteSetTheorems

-----------------------------------------------------------------------------
(* Sequences, folded and put in a row                                      *)

\* The order of the naturals, as a relation.
Below == {ij \in Nat \X Nat : ij[1] < ij[2]}

\* What is true of some naturals is true of a least.
LEMMA LeastOf ==
  ASSUME NEW T, T \subseteq Nat, T # {}
  PROVE  \E i \in T : \A j \in T : ~(j < i)
  <1>1. IsWellFoundedOn(Below, Nat)
    BY NatLessThanWellFounded DEF OpToRel, Below
  <1>2. PICK i \in T : \A j \in T : <<j, i>> \notin Below
    BY <1>1, WFMin
  <1>3. QED
    BY <1>2 DEF Below

\* What holds of 0 and goes over from each number to the next holds up to n.
LEMMA UpTo ==
  ASSUME NEW n \in Nat, NEW T, 0 \in T, \A i \in 0 .. n - 1 : i \in T => i + 1 \in T
  PROVE  0 .. n \subseteq T
  <1> DEFINE Out == {i \in 0 .. n : i \notin T}
  <1>1. SUFFICES ASSUME Out # {} PROVE FALSE
    OBVIOUS
  <1>2. PICK i \in Out : \A j \in Out : ~(j < i)
    BY <1>1, LeastOf, Out \subseteq Nat
  <1>3. i # 0 /\ i - 1 \in 0 .. n - 1 /\ i - 1 \notin Out
    BY <1>2
  <1>4. QED
    BY <1>2, <1>3

\* The greatest of some numbers up to n.
LEMMA MaxOf ==
  ASSUME NEW n \in Nat, NEW t \in SUBSET (1 .. n), t # {}
  PROVE  Max(t) \in t /\ \A i \in t : i <= Max(t)
  <1> DEFINE From == {n - i : i \in t}
  <1>0. From \subseteq Nat /\ From # {} /\ \A i \in t : i \in 1 .. n /\ n - i \in From
    <2>1. \A i \in t : i \in 1 .. n /\ n - i \in From
      OBVIOUS
    <2>2. PICK i \in t : TRUE
      OBVIOUS
    <2>3. QED
      BY <2>1, <2>2
  <1>1. PICK k \in From : \A j \in From : ~(j < k)
    <2> HIDE DEF From
    <2>1. QED
      BY <1>0, LeastOf
  <1>2. PICK i \in t : k = n - i
    BY <1>1
  <1>3. ASSUME NEW j \in t PROVE i >= j
    <2>1. n - j \in From /\ i \in 1 .. n /\ j \in 1 .. n
      BY <1>0
    <2>2. ~(n - j < n - i)
      BY <1>1, <1>2, <2>1
    <2> HIDE DEF From
    <2>3. QED
      BY <2>1, <2>2
  <1>4. QED
    BY <1>2, <1>3 DEF Max

\* Max is the greatest of some numbers up to n.
LEMMA MaxIs ==
  ASSUME NEW n \in Nat, NEW t \in SUBSET (1 .. n), NEW k \in t, \A i \in t : i <= k
  PROVE  Max(t) = k
  <1>1. Max(t) \in t /\ \A i \in t : i <= Max(t)
    <2>1. t # {}
      OBVIOUS
    <2>2. QED
      BY <2>1, MaxOf
  <1>2. Max(t) \in Int /\ Max(t) <= k /\ k <= Max(t)
    <2> DEFINE m == Max(t)
    <2>1. m \in t /\ \A i \in t : i <= m
      BY <1>1
    <2> HIDE DEF m
    <2>2. m \in Int /\ m <= k /\ k <= m
      BY <2>1
    <2>3. QED
      BY <2>2 DEF m
  <1>3. k \in Int
    OBVIOUS
  <1>4. QED
    BY <1>2, <1>3

\* A fold with step over n places, from base.
Folding(n, base, step, it) ==
    \A t \in SUBSET (1 .. n) :
        it[t] = IF t = {} THEN base ELSE step[<<Max(t), it[t \ {Max(t)}]>>]

\* A fold has such a table: one step after the other, up to any n.
LEMMA FoldingExists ==
  ASSUME NEW n \in Nat, NEW V, NEW base \in V, NEW step,
         \A i \in 1 .. n, v \in V : step[<<i, v>>] \in V
  PROVE  \E it \in [SUBSET (1 .. n) -> V] : Folding(n, base, step, it)
  <1> DEFINE T == {k \in 0 .. n : \E it \in [SUBSET (1 .. k) -> V] : Folding(k, base, step, it)}
  <1>1. 0 \in T
    <2> DEFINE it == [t \in SUBSET (1 .. 0) |-> base]
    <2>1. \A t \in SUBSET (1 .. 0) : t = {}
      OBVIOUS
    <2>2. it \in [SUBSET (1 .. 0) -> V] /\ Folding(0, base, step, it)
      BY <2>1 DEF Folding
    <2>3. QED
      BY <2>2
  <1>2. ASSUME NEW k \in 0 .. n - 1, k \in T PROVE k + 1 \in T
    <2>1. PICK it \in [SUBSET (1 .. k) -> V] : Folding(k, base, step, it)
      BY <1>2
    <2> DEFINE then == [t \in SUBSET (1 .. k + 1) |->
                          IF k + 1 \in t THEN step[<<k + 1, it[t \ {k + 1}]>>] ELSE it[t]]
    <2>2. \A t \in SUBSET (1 .. k + 1) : t \ {k + 1} \in SUBSET (1 .. k)
      <3>1. \A i \in 1 .. k + 1 : i # k + 1 => i \in 1 .. k
        OBVIOUS
      <3> HIDE DEF then, T
      <3>2. QED
        BY <3>1
    <2>3. \A t \in SUBSET (1 .. k + 1) : k + 1 \notin t => t \in SUBSET (1 .. k)
      BY <2>2
    <2>4. then \in [SUBSET (1 .. k + 1) -> V]
      BY <2>2, <2>3
    <2>5. ASSUME NEW t \in SUBSET (1 .. k + 1), t # {}
          PROVE  then[t] = step[<<Max(t), then[t \ {Max(t)}]>>]
      <3>1. CASE k + 1 \in t
        <4>1. Max(t) = k + 1
          <5>1. k + 1 \in Nat /\ \A i \in t : i <= k + 1
            OBVIOUS
          <5> HIDE DEF then
          <5>2. QED
            BY <3>1, <5>1, MaxIs
        <4>2. t \ {k + 1} \in SUBSET (1 .. k + 1) /\ k + 1 \notin t \ {k + 1}
          BY <2>2
        <4>3. then[t \ {k + 1}] = it[t \ {k + 1}]
          BY <4>2
        <4>4. QED
          BY <3>1, <4>1, <4>3
      <3>2. CASE k + 1 \notin t
        <4>1. t \in SUBSET (1 .. k) /\ it[t] = step[<<Max(t), it[t \ {Max(t)}]>>]
          BY <2>1, <2>3, <2>5, <3>2 DEF Folding
        <4>2. t \ {Max(t)} \in SUBSET (1 .. k + 1) /\ k + 1 \notin t \ {Max(t)}
          BY <3>2
        <4>3. then[t \ {Max(t)}] = it[t \ {Max(t)}] /\ then[t] = it[t]
          BY <3>2, <4>2
        <4>4. QED
          BY <4>1, <4>3
      <3>3. QED
        BY <3>1, <3>2
    <2>6. then[{}] = base
      BY <2>1 DEF Folding
    <2>7. Folding(k + 1, base, step, then)
      BY <2>5, <2>6 DEF Folding
    <2>8. k + 1 \in 0 .. n
      OBVIOUS
    <2>9. QED
      BY <2>4, <2>7, <2>8
  <1>3. n \in T
    <2> HIDE DEF T
    <2>1. \A k \in 0 .. n - 1 : k \in T => k + 1 \in T
      BY <1>2
    <2>3. 0 .. n \subseteq T
      BY <1>1, <2>1, UpTo
    <2>2. QED
      BY <2>3
  <1>4. QED
    BY <1>3

\* Only, step by step: it drops nothing it should keep and goes on in order.
LEMMA OnlySteps ==
  ASSUME NEW X, NEW s \in Seq(X), NEW S
  PROVE  \E g : /\ Only(s, S) = g[Len(s)]
                /\ g[0] = <<>>
                /\ \A k \in 1 .. Len(s) :
                      g[k] = IF s[k] \in S THEN Append(g[k - 1], s[k]) ELSE g[k - 1]
  <1> DEFINE n == Len(s)
             step == [iv \in (1 .. n) \X Seq(X) |->
                         IF s[iv[1]] \in S THEN Append(iv[2], s[iv[1]]) ELSE iv[2]]
             Kept(it) ==
               it = [t \in SUBSET (1 .. n) |->
                       IF t = {} THEN <<>>
                       ELSE IF s[Max(t)] \in S THEN Append(it[t \ {Max(t)}], s[Max(t)])
                            ELSE it[t \ {Max(t)}]]
  <1>0. n \in Nat /\ DOMAIN s = 1 .. n /\ \A i \in 1 .. n : s[i] \in X
    OBVIOUS
  <1>1. Only(s, S) = (CHOOSE it : Kept(it))[1 .. n]
    BY <1>0 DEF Only, FoldLeft, MapThenFoldSet
  <1>2. \E it : Kept(it)
    <2>1. <<>> \in Seq(X) /\ \A i \in 1 .. n, v \in Seq(X) : step[<<i, v>>] \in Seq(X)
      BY <1>0
    <2>2. PICK it \in [SUBSET (1 .. n) -> Seq(X)] : Folding(n, <<>>, step, it)
      <3> HIDE DEF step, n
      <3>1. QED
        BY <1>0, <2>1, FoldingExists
    <2>3. ASSUME NEW t \in SUBSET (1 .. n), t # {}
          PROVE  it[t] = IF s[Max(t)] \in S THEN Append(it[t \ {Max(t)}], s[Max(t)])
                         ELSE it[t \ {Max(t)}]
      <3>1. Max(t) \in 1 .. n
        <4> HIDE DEF n
        <4>1. Max(t) \in t
          BY <1>0, <2>3, MaxOf
        <4>2. QED
          BY <4>1
      <3>2. it[t] = step[<<Max(t), it[t \ {Max(t)}]>>]
        BY <2>2, <2>3 DEF Folding
      <3>3. it[t \ {Max(t)}] \in Seq(X)
        OBVIOUS
      <3>4. QED
        BY <3>1, <3>2, <3>3
    <2>4. it[{}] = <<>>
      BY <2>2 DEF Folding
    <2>5. Kept(it)
      BY <2>3, <2>4
    <2>6. QED
      BY <2>5
  <1>3. PICK it : Kept(it) /\ Only(s, S) = it[1 .. n]
    BY <1>1, <1>2
  <1> DEFINE g == [k \in 0 .. n |-> it[1 .. k]]
  <1>4. g[0] = <<>>
    BY <1>0, <1>3
  <1>5. ASSUME NEW k \in 1 .. n
        PROVE  g[k] = IF s[k] \in S THEN Append(g[k - 1], s[k]) ELSE g[k - 1]
    <2>1. 1 .. k \in SUBSET (1 .. n) /\ k \in 1 .. k /\ \A i \in 1 .. k : i <= k
      OBVIOUS
    <2>2. Max(1 .. k) = k
      BY <1>0, <2>1, MaxIs
    <2>3. (1 .. k) \ {k} = 1 .. k - 1 /\ k - 1 \in 0 .. n /\ k \in 0 .. n
      OBVIOUS
    <2>4. QED
      BY <1>3, <2>1, <2>2, <2>3
  <1>6. Only(s, S) = g[n]
    BY <1>0, <1>3
  <1> HIDE DEF g
  <1>7. QED
    BY <1>4, <1>5, <1>6

\* Once, step by step.
LEMMA OnceSteps ==
  ASSUME NEW X, NEW s \in Seq(X)
  PROVE  \E g : /\ Once(s) = g[Len(s)]
                /\ g[0] = <<>>
                /\ \A k \in 1 .. Len(s) :
                      g[k] = IF Contains(g[k - 1], s[k]) THEN g[k - 1] ELSE Append(g[k - 1], s[k])
  <1> DEFINE n == Len(s)
             step == [iv \in (1 .. n) \X Seq(X) |->
                         IF Contains(iv[2], s[iv[1]]) THEN iv[2] ELSE Append(iv[2], s[iv[1]])]
             Kept(it) ==
               it = [t \in SUBSET (1 .. n) |->
                       IF t = {} THEN <<>>
                       ELSE IF Contains(it[t \ {Max(t)}], s[Max(t)]) THEN it[t \ {Max(t)}]
                            ELSE Append(it[t \ {Max(t)}], s[Max(t)])]
  <1>0. n \in Nat /\ DOMAIN s = 1 .. n /\ \A i \in 1 .. n : s[i] \in X
    OBVIOUS
  <1>1. Once(s) = (CHOOSE it : Kept(it))[1 .. n]
    BY <1>0 DEF Once, FoldLeft, MapThenFoldSet
  <1>2. \E it : Kept(it)
    <2>1. <<>> \in Seq(X) /\ \A i \in 1 .. n, v \in Seq(X) : step[<<i, v>>] \in Seq(X)
      BY <1>0
    <2>2. PICK it \in [SUBSET (1 .. n) -> Seq(X)] : Folding(n, <<>>, step, it)
      <3> HIDE DEF step, n
      <3>1. QED
        BY <1>0, <2>1, FoldingExists
    <2>3. ASSUME NEW t \in SUBSET (1 .. n), t # {}
          PROVE  it[t] = IF Contains(it[t \ {Max(t)}], s[Max(t)]) THEN it[t \ {Max(t)}]
                         ELSE Append(it[t \ {Max(t)}], s[Max(t)])
      <3>1. Max(t) \in 1 .. n
        <4> HIDE DEF n
        <4>1. Max(t) \in t
          BY <1>0, <2>3, MaxOf
        <4>2. QED
          BY <4>1
      <3>2. it[t] = step[<<Max(t), it[t \ {Max(t)}]>>]
        BY <2>2, <2>3 DEF Folding
      <3>3. it[t \ {Max(t)}] \in Seq(X)
        OBVIOUS
      <3>4. QED
        BY <3>1, <3>2, <3>3
    <2>4. it[{}] = <<>>
      BY <2>2 DEF Folding
    <2>5. Kept(it)
      BY <2>3, <2>4
    <2>6. QED
      BY <2>5
  <1>3. PICK it : Kept(it) /\ Once(s) = it[1 .. n]
    BY <1>1, <1>2
  <1> DEFINE g == [k \in 0 .. n |-> it[1 .. k]]
  <1>4. g[0] = <<>>
    BY <1>0, <1>3
  <1>5. ASSUME NEW k \in 1 .. n
        PROVE  g[k] = IF Contains(g[k - 1], s[k]) THEN g[k - 1] ELSE Append(g[k - 1], s[k])
    <2>1. 1 .. k \in SUBSET (1 .. n) /\ k \in 1 .. k /\ \A i \in 1 .. k : i <= k
      OBVIOUS
    <2>2. Max(1 .. k) = k
      BY <1>0, <2>1, MaxIs
    <2>3. (1 .. k) \ {k} = 1 .. k - 1 /\ k - 1 \in 0 .. n /\ k \in 0 .. n
      OBVIOUS
    <2>4. QED
      BY <1>3, <2>1, <2>2, <2>3
  <1>6. Once(s) = g[n]
    BY <1>0, <1>3
  <1> HIDE DEF g
  <1>7. QED
    BY <1>4, <1>5, <1>6

\* FlattenSeq, step by step: one more sequence is put behind the others.
LEMMA FlattenSteps ==
  ASSUME NEW X, NEW ss \in Seq(Seq(X))
  PROVE  \E g : /\ FlattenSeq(ss) = g[Len(ss)]
                /\ g[0] = <<>>
                /\ \A k \in 1 .. Len(ss) : g[k] = g[k - 1] \o ss[k]
  <1> DEFINE n == Len(ss)
             Flat(m, f) == f = [i \in 1 .. m |-> IF i = 1 THEN ss[i] ELSE f[i - 1] \o ss[i]]
  <1>0. n \in Nat /\ DOMAIN ss = 1 .. n /\ \A i \in 1 .. n : ss[i] \in Seq(X)
    OBVIOUS
  <1>1. CASE n = 0
    <2>1. FlattenSeq(ss) = <<>>
      BY <1>1 DEF FlattenSeq
    <2> DEFINE g == [k \in 0 .. 0 |-> <<>>]
    <2>2. FlattenSeq(ss) = g[Len(ss)] /\ g[0] = <<>> /\ 1 .. Len(ss) = {}
      BY <1>1, <2>1
    <2> HIDE DEF g
    <2>3. QED
      BY <2>2
  <1>2. CASE n # 0
    <2>1. FlattenSeq(ss) = (CHOOSE f : Flat(n, f))[n]
      BY <1>2 DEF FlattenSeq
    <2> DEFINE T == {m \in 0 .. n : \E f : Flat(m, f)}
    <2>2. 0 \in T
      <3>1. Flat(0, [i \in 1 .. 0 |-> <<>>])
        OBVIOUS
      <3>2. \E f : Flat(0, f)
        BY <3>1
      <3> HIDE DEF Flat
      <3>3. QED
        BY <1>0, <3>2
    <2>3. ASSUME NEW m \in 0 .. n - 1, m \in T PROVE m + 1 \in T
      <3>1. PICK f : Flat(m, f)
        BY <2>3
      <3> DEFINE h == [i \in 1 .. m + 1 |->
                         IF i = m + 1 THEN IF i = 1 THEN ss[i] ELSE f[m] \o ss[i] ELSE f[i]]
      <3>2. ASSUME NEW i \in 1 .. m + 1 PROVE h[i] = IF i = 1 THEN ss[i] ELSE h[i - 1] \o ss[i]
        <4>1. CASE i = m + 1
          BY <4>1
        <4>2. CASE i # m + 1
          <5>1. i \in 1 .. m /\ (i # 1 => i - 1 \in 1 .. m)
            BY <4>2
          <5>2. f[i] = IF i = 1 THEN ss[i] ELSE f[i - 1] \o ss[i]
            BY <3>1, <5>1
          <5>3. h[i] = f[i] /\ (i # 1 => h[i - 1] = f[i - 1])
            BY <4>2, <5>1
          <5>4. QED
            BY <5>2, <5>3
        <4>3. QED
          BY <4>1, <4>2
      <3>3. Flat(m + 1, h)
        BY <3>2
      <3>4. m + 1 \in 0 .. n
        OBVIOUS
      <3>5. QED
        BY <3>3, <3>4
    <2>4. n \in T
      <3> HIDE DEF T, n
      <3>1. \A m \in 0 .. n - 1 : m \in T => m + 1 \in T
        BY <2>3
      <3>2. 0 .. n \subseteq T
        BY <1>0, <2>2, <3>1, UpTo
      <3>3. QED
        BY <1>0, <3>2
    <2>5. PICK f : Flat(n, f) /\ FlattenSeq(ss) = f[n]
      BY <2>1, <2>4
    <2> DEFINE g == [k \in 0 .. n |-> IF k = 0 THEN <<>> ELSE f[k]]
    <2>6. g[0] = <<>> /\ FlattenSeq(ss) = g[n]
      BY <1>0, <1>2, <2>5
    <2>7. ASSUME NEW k \in 1 .. n PROVE g[k] = g[k - 1] \o ss[k]
      <3>1. k \in 0 .. n /\ k - 1 \in 0 .. n
        BY <1>0
      <3>2. f[k] = IF k = 1 THEN ss[k] ELSE f[k - 1] \o ss[k]
        BY <2>5
      <3>3. g[k] = f[k] /\ g[k - 1] = IF k = 1 THEN <<>> ELSE f[k - 1]
        BY <3>1
      <3>4. <<>> \o ss[k] = ss[k]
        BY <1>0
      <3> HIDE DEF g
      <3>5. QED
        BY <3>2, <3>3, <3>4
    <2> HIDE DEF g
    <2>8. QED
      BY <2>6, <2>7
  <1>3. QED
    BY <1>1, <1>2


\* What an appended sequence holds.
LEMMA RangeOfAppend ==
  ASSUME NEW X, NEW s \in Seq(X), NEW e \in X
  PROVE  Append(s, e) \in Seq(X) /\ Range(Append(s, e)) = Range(s) \cup {e}
  <1>1. /\ Append(s, e) \in Seq(X) /\ DOMAIN Append(s, e) = 1 .. Len(s) + 1
        /\ Len(s) \in Nat /\ DOMAIN s = 1 .. Len(s)
        /\ \A i \in 1 .. Len(s) : Append(s, e)[i] = s[i]
        /\ Append(s, e)[Len(s) + 1] = e
    OBVIOUS
  <1> DEFINE t == Append(s, e)
  <1> HIDE DEF t
  <1>2. \A i \in 1 .. Len(s) + 1 : i \in 1 .. Len(s) \/ i = Len(s) + 1
    BY <1>1
  <1>3. 1 .. Len(s) \subseteq 1 .. Len(s) + 1 /\ Len(s) + 1 \in 1 .. Len(s) + 1
    BY <1>1
  <1>4. {t[i] : i \in 1 .. Len(s) + 1} = {s[i] : i \in 1 .. Len(s)} \cup {e}
    BY <1>1, <1>2, <1>3 DEF t
  <1>5. QED
    BY <1>1, <1>4 DEF Range, t

\* What two sequences in a row hold.
LEMMA RangeOfConcat ==
  ASSUME NEW X, NEW s \in Seq(X), NEW t \in Seq(X)
  PROVE  s \o t \in Seq(X) /\ Range(s \o t) = Range(s) \cup Range(t)
  <1> DEFINE u == s \o t
             m == Len(s)
             n == Len(t)
  <1>1. /\ u \in Seq(X) /\ DOMAIN u = 1 .. m + n
        /\ m \in Nat /\ DOMAIN s = 1 .. m /\ n \in Nat /\ DOMAIN t = 1 .. n
        /\ \A i \in 1 .. m : u[i] = s[i]
        /\ \A i \in 1 .. n : u[m + i] = t[i]
    OBVIOUS
  <1> HIDE DEF u, m, n
  <1>2. \A i \in 1 .. m + n : i \in 1 .. m \/ (i - m \in 1 .. n /\ i = m + (i - m))
    BY <1>1
  <1>3. 1 .. m \subseteq 1 .. m + n /\ \A i \in 1 .. n : m + i \in 1 .. m + n
    BY <1>1
  <1>4. ASSUME NEW x PROVE x \in Range(u) <=> x \in Range(s) \cup Range(t)
    <2>1. ASSUME NEW i \in 1 .. m + n PROVE u[i] \in Range(s) \cup Range(t)
      <3>1. CASE i \in 1 .. m
        BY <1>1, <3>1 DEF Range
      <3>2. CASE i - m \in 1 .. n /\ i = m + (i - m)
        <4>1. u[i] = t[i - m]
          BY <1>1, <3>2
        <4>2. QED
          BY <1>1, <3>2, <4>1 DEF Range
      <3>3. QED
        BY <1>2, <3>1, <3>2
    <2>2. \A i \in 1 .. m : s[i] \in Range(u)
      BY <1>1, <1>3 DEF Range
    <2>3. \A i \in 1 .. n : t[i] \in Range(u)
      BY <1>1, <1>3 DEF Range
    <2>4. QED
      BY <1>1, <2>1, <2>2, <2>3 DEF Range
  <1>5. QED
    BY <1>1, <1>4 DEF u

\* Only keeps just the elements that are in the set.
LEMMA OnlyKeeps ==
  ASSUME NEW X, NEW s \in Seq(X), NEW S
  PROVE  Only(s, S) \in Seq(X) /\ Range(Only(s, S)) = Range(s) \cap S
  <1> DEFINE n == Len(s)
             Before(k) == {s[i] : i \in 1 .. k}
  <1>0. n \in Nat /\ DOMAIN s = 1 .. n /\ \A i \in 1 .. n : s[i] \in X
    OBVIOUS
  <1>1. PICK g : /\ Only(s, S) = g[n]
                 /\ g[0] = <<>>
                 /\ \A k \in 1 .. n :
                       g[k] = IF s[k] \in S THEN Append(g[k - 1], s[k]) ELSE g[k - 1]
    BY OnlySteps
  <1> DEFINE T == {k \in 0 .. n : g[k] \in Seq(X) /\ Range(g[k]) = Before(k) \cap S}
  <1>2. 0 \in T
    <2>1. Range(<<>>) = {} /\ <<>> \in Seq(X)
      BY DEF Range
    <2>2. Before(0) = {} /\ 0 \in 0 .. n
      BY <1>0
    <2> HIDE DEF Before, n
    <2>3. QED
      BY <1>1, <2>1, <2>2
  <1>3. ASSUME NEW k \in 0 .. n - 1, k \in T PROVE k + 1 \in T
    <2>1. k + 1 \in 1 .. n /\ k + 1 \in 0 .. n /\ (k + 1) - 1 = k /\ s[k + 1] \in X
      BY <1>0
    <2>2. Before(k + 1) = Before(k) \cup {s[k + 1]}
      OBVIOUS
    <2>3. g[k + 1] = IF s[k + 1] \in S THEN Append(g[k], s[k + 1]) ELSE g[k]
      BY <1>1, <2>1
    <2> HIDE DEF Before, n
    <2>4. g[k] \in Seq(X) /\ Range(g[k]) = Before(k) \cap S
      BY <1>3
    <2>5. Range(Append(g[k], s[k + 1])) = Range(g[k]) \cup {s[k + 1]}
          /\ Append(g[k], s[k + 1]) \in Seq(X)
      BY <2>1, <2>4, RangeOfAppend
    <2>6. g[k + 1] \in Seq(X) /\ Range(g[k + 1]) = Before(k + 1) \cap S
      BY <2>2, <2>3, <2>4, <2>5
    <2>7. QED
      BY <2>1, <2>6
  <1>4. n \in T
    <2> HIDE DEF T, n
    <2>1. \A k \in 0 .. n - 1 : k \in T => k + 1 \in T
      BY <1>3
    <2>2. 0 .. n \subseteq T
      BY <1>0, <1>2, <2>1, UpTo
    <2>3. QED
      BY <1>0, <2>2
  <1>5. Before(n) = Range(s)
    BY <1>0 DEF Range
  <1>6. QED
    BY <1>1, <1>4, <1>5

\* A first place that keeps all, over the places of a sequence.
LEMMA OnlyApart ==
  ASSUME NEW X, NEW s \in Seq(X), NEW S, NEW R,
         \A i, j \in 1 .. Len(s) : i < j /\ s[i] \in S /\ s[j] \in S => <<s[i], s[j]>> \in R
  PROVE  \A i, j \in 1 .. Len(Only(s, S)) : i < j => <<Only(s, S)[i], Only(s, S)[j]>> \in R
  <1> DEFINE n == Len(s)
             Apart(t) == \A i, j \in 1 .. Len(t) : i < j => <<t[i], t[j]>> \in R
             From(k, t) == \A i \in 1 .. Len(t) : \E p \in 1 .. k : s[p] = t[i] /\ s[p] \in S
  <1>0. n \in Nat /\ DOMAIN s = 1 .. n /\ \A i \in 1 .. n : s[i] \in X
    OBVIOUS
  <1>1. PICK g : /\ Only(s, S) = g[n]
                 /\ g[0] = <<>>
                 /\ \A k \in 1 .. n :
                       g[k] = IF s[k] \in S THEN Append(g[k - 1], s[k]) ELSE g[k - 1]
    BY OnlySteps
  <1> DEFINE T == {k \in 0 .. n : g[k] \in Seq(X) /\ Apart(g[k]) /\ From(k, g[k])}
  <1>2. 0 \in T
    <2>1. 0 \in 0 .. n /\ <<>> \in Seq(X) /\ 1 .. Len(<<>>) = {}
      BY <1>0
    <2>2. QED
      BY <1>1, <2>1
  <1>3. ASSUME NEW k \in 0 .. n - 1, k \in T PROVE k + 1 \in T
    <2>1. k + 1 \in 1 .. n /\ k + 1 \in 0 .. n /\ (k + 1) - 1 = k /\ s[k + 1] \in X
      BY <1>0
    <2>2. g[k + 1] = IF s[k + 1] \in S THEN Append(g[k], s[k + 1]) ELSE g[k]
      BY <1>1, <2>1
    <2>3. 1 .. k \subseteq 1 .. k + 1 /\ k + 1 \in 1 .. k + 1
      OBVIOUS
    <2>4. \A p \in 1 .. k : p \in 1 .. n /\ p < k + 1
      BY <1>0
    <2>5. g[k] \in Seq(X) /\ Apart(g[k]) /\ From(k, g[k])
      BY <1>3
    <2>6. CASE s[k + 1] \notin S
      <3>1. g[k + 1] = g[k]
        BY <2>2, <2>6
      <3>2. From(k + 1, g[k])
        BY <2>3, <2>5
      <3> HIDE DEF Apart, From, n
      <3>3. QED
        BY <2>1, <2>5, <3>1, <3>2
    <2>7. CASE s[k + 1] \in S
      <3> DEFINE t == g[k]
                 m == Len(t)
                 u == Append(t, s[k + 1])
      <3>1. /\ u \in Seq(X) /\ Len(u) = m + 1 /\ m \in Nat
            /\ \A i \in 1 .. m : u[i] = t[i]
            /\ u[m + 1] = s[k + 1]
        BY <2>1, <2>5
      <3>2. g[k + 1] = u
        BY <2>2, <2>7
      <3> HIDE DEF u, m, t
      <3>3. Apart(t) /\ From(k, t) /\ Len(t) = m
        BY <2>5 DEF t, m
      <3>4. ASSUME NEW i \in 1 .. m + 1, NEW j \in 1 .. m + 1, i < j PROVE <<u[i], u[j]>> \in R
        <4>1. i \in 1 .. m
          BY <3>1, <3>4
        <4>2. CASE j \in 1 .. m
          BY <3>1, <3>3, <3>4, <4>1, <4>2
        <4>3. CASE j = m + 1
          <5>1. PICK p \in 1 .. k : s[p] = t[i] /\ s[p] \in S
            BY <3>3, <4>1
          <5>2. p \in 1 .. n /\ p < k + 1
            BY <2>4
          <5>3. <<s[p], s[k + 1]>> \in R
            BY <2>1, <2>7, <5>1, <5>2
          <5>4. QED
            BY <3>1, <4>1, <4>3, <5>1, <5>3
        <4>4. QED
          BY <3>1, <4>2, <4>3
      <3>5. ASSUME NEW i \in 1 .. m + 1 PROVE \E p \in 1 .. k + 1 : s[p] = u[i] /\ s[p] \in S
        <4>1. CASE i \in 1 .. m
          BY <2>3, <3>1, <3>3, <4>1
        <4>2. CASE i = m + 1
          BY <2>3, <2>7, <3>1, <4>2
        <4>3. QED
          BY <3>1, <4>1, <4>2
      <3>6. QED
        BY <2>1, <3>1, <3>2, <3>4, <3>5
    <2>8. QED
      BY <2>6, <2>7
  <1>4. n \in T
    <2> HIDE DEF T, n
    <2>1. \A k \in 0 .. n - 1 : k \in T => k + 1 \in T
      BY <1>3
    <2>2. 0 .. n \subseteq T
      BY <1>0, <1>2, <2>1, UpTo
    <2>3. QED
      BY <1>0, <2>2
  <1>5. QED
    BY <1>1, <1>4

\* Once keeps every element, and none twice.
LEMMA OnceKeeps ==
  ASSUME NEW X, NEW s \in Seq(X)
  PROVE  Once(s) \in Seq(X) /\ Range(Once(s)) = Range(s) /\ IsInjective(Once(s))
  <1> DEFINE n == Len(s)
             Before(k) == {s[i] : i \in 1 .. k}
  <1>0. n \in Nat /\ DOMAIN s = 1 .. n /\ \A i \in 1 .. n : s[i] \in X
    OBVIOUS
  <1>1. PICK g : /\ Once(s) = g[n]
                 /\ g[0] = <<>>
                 /\ \A k \in 1 .. n :
                       g[k] = IF Contains(g[k - 1], s[k]) THEN g[k - 1] ELSE Append(g[k - 1], s[k])
    BY OnceSteps
  <1> DEFINE T == {k \in 0 .. n : g[k] \in Seq(X) /\ Range(g[k]) = Before(k) /\ IsInjective(g[k])}
  <1>2. 0 \in T
    <2>1. Range(<<>>) = {} /\ <<>> \in Seq(X) /\ IsInjective(<<>>)
      BY DEF Range, IsInjective
    <2>2. Before(0) = {} /\ 0 \in 0 .. n
      BY <1>0
    <2> HIDE DEF Before, n
    <2>3. QED
      BY <1>1, <2>1, <2>2
  <1>3. ASSUME NEW k \in 0 .. n - 1, k \in T PROVE k + 1 \in T
    <2>1. k + 1 \in 1 .. n /\ k + 1 \in 0 .. n /\ (k + 1) - 1 = k /\ s[k + 1] \in X
      BY <1>0
    <2>2. Before(k + 1) = Before(k) \cup {s[k + 1]}
      OBVIOUS
    <2>3. g[k + 1] = IF Contains(g[k], s[k + 1]) THEN g[k] ELSE Append(g[k], s[k + 1])
      BY <1>1, <2>1
    <2> HIDE DEF Before, n
    <2> DEFINE t == g[k]
               e == s[k + 1]
               u == Append(t, e)
    <2>4. t \in Seq(X) /\ Range(t) = Before(k) /\ IsInjective(t) /\ e \in X
      BY <1>3, <2>1
    <2>5. Contains(t, e) <=> e \in Range(t)
      BY <2>4 DEF Contains, Range
    <2>6. CASE e \in Range(t)
      <3>1. g[k + 1] = t
        BY <2>3, <2>5, <2>6
      <3>2. QED
        BY <2>1, <2>2, <2>4, <2>6, <3>1
    <2>7. CASE e \notin Range(t)
      <3>1. g[k + 1] = u
        BY <2>3, <2>5, <2>7
      <3> HIDE DEF t, e
      <3>2. u \in Seq(X) /\ Range(u) = Range(t) \cup {e}
        BY <2>4, RangeOfAppend
      <3>3. /\ DOMAIN u = 1 .. Len(t) + 1 /\ DOMAIN t = 1 .. Len(t) /\ Len(t) \in Nat
            /\ \A i \in 1 .. Len(t) : u[i] = t[i]
            /\ u[Len(t) + 1] = e
        BY <2>4
      <3> HIDE DEF u
      <3>4. ASSUME NEW i \in DOMAIN u, NEW j \in DOMAIN u, u[i] = u[j] PROVE i = j
        <4>1. CASE i \in 1 .. Len(t) /\ j \in 1 .. Len(t)
          BY <2>4, <3>3, <3>4, <4>1 DEF IsInjective
        <4>2. CASE i \in 1 .. Len(t) /\ j = Len(t) + 1
          BY <2>7, <3>3, <3>4, <4>2 DEF Range
        <4>3. CASE j \in 1 .. Len(t) /\ i = Len(t) + 1
          BY <2>7, <3>3, <3>4, <4>3 DEF Range
        <4>4. QED
          BY <3>3, <4>1, <4>2, <4>3
      <3>5. IsInjective(u)
        BY <3>4 DEF IsInjective
      <3>6. QED
        BY <2>1, <2>2, <2>4, <3>1, <3>2, <3>5 DEF e
    <2>8. QED
      BY <2>6, <2>7
  <1>4. n \in T
    <2> HIDE DEF T, n
    <2>1. \A k \in 0 .. n - 1 : k \in T => k + 1 \in T
      BY <1>3
    <2>2. 0 .. n \subseteq T
      BY <1>0, <1>2, <2>1, UpTo
    <2>3. QED
      BY <1>0, <2>2
  <1>5. Before(n) = Range(s)
    BY <1>0 DEF Range
  <1>6. QED
    BY <1>1, <1>4, <1>5

\* Sequences in a row hold what any of them holds.
LEMMA FlattenKeeps ==
  ASSUME NEW X, NEW ss \in Seq(Seq(X))
  PROVE  /\ FlattenSeq(ss) \in Seq(X)
         /\ Range(FlattenSeq(ss)) = UNION {Range(ss[i]) : i \in DOMAIN ss}
  <1> DEFINE n == Len(ss)
             Before(k) == UNION {Range(ss[i]) : i \in 1 .. k}
  <1>0. n \in Nat /\ DOMAIN ss = 1 .. n /\ \A i \in 1 .. n : ss[i] \in Seq(X)
    OBVIOUS
  <1>1. PICK g : /\ FlattenSeq(ss) = g[n]
                 /\ g[0] = <<>>
                 /\ \A k \in 1 .. n : g[k] = g[k - 1] \o ss[k]
    BY FlattenSteps
  <1> DEFINE T == {k \in 0 .. n : g[k] \in Seq(X) /\ Range(g[k]) = Before(k)}
  <1>2. 0 \in T
    <2>1. Range(<<>>) = {} /\ <<>> \in Seq(X)
      BY DEF Range
    <2>2. Before(0) = {} /\ 0 \in 0 .. n
      BY <1>0
    <2> HIDE DEF Before, n
    <2>3. QED
      BY <1>1, <2>1, <2>2
  <1>3. ASSUME NEW k \in 0 .. n - 1, k \in T PROVE k + 1 \in T
    <2>1. k + 1 \in 1 .. n /\ k + 1 \in 0 .. n /\ (k + 1) - 1 = k /\ ss[k + 1] \in Seq(X)
      BY <1>0
    <2>2. Before(k + 1) = Before(k) \cup Range(ss[k + 1])
      <3>1. 1 .. k + 1 = (1 .. k) \cup {k + 1}
        OBVIOUS
      <3>2. QED
        BY <3>1
    <2>3. g[k + 1] = g[k] \o ss[k + 1]
      BY <1>1, <2>1
    <2> HIDE DEF Before, n
    <2>4. g[k] \in Seq(X) /\ Range(g[k]) = Before(k)
      BY <1>3
    <2>5. g[k] \o ss[k + 1] \in Seq(X)
          /\ Range(g[k] \o ss[k + 1]) = Range(g[k]) \cup Range(ss[k + 1])
      BY <2>1, <2>4, RangeOfConcat
    <2>6. QED
      BY <2>1, <2>2, <2>3, <2>4, <2>5
  <1>4. n \in T
    <2> HIDE DEF T, n
    <2>1. \A k \in 0 .. n - 1 : k \in T => k + 1 \in T
      BY <1>3
    <2>2. 0 .. n \subseteq T
      BY <1>0, <1>2, <2>1, UpTo
    <2>3. QED
      BY <1>0, <2>2
  <1>5. QED
    BY <1>0, <1>1, <1>4

\* Two sequences without a repetition and without a common element, in a row.
LEMMA ConcatApart ==
  ASSUME NEW X, NEW s \in Seq(X), NEW t \in Seq(X), IsInjective(s), IsInjective(t),
         Range(s) \cap Range(t) = {}
  PROVE  IsInjective(s \o t)
  <1> DEFINE u == s \o t
             m == Len(s)
             l == Len(t)
  <1>1. /\ u \in Seq(X) /\ DOMAIN u = 1 .. m + l
        /\ m \in Nat /\ DOMAIN s = 1 .. m /\ l \in Nat /\ DOMAIN t = 1 .. l
        /\ \A i \in 1 .. m : u[i] = s[i]
        /\ \A i \in 1 .. l : u[m + i] = t[i]
    OBVIOUS
  <1> HIDE DEF u, m, l
  <1>2. \A i \in 1 .. m + l : i \in 1 .. m \/ (i - m \in 1 .. l /\ i = m + (i - m))
    BY <1>1
  <1>3. \A i \in 1 .. m + l : i - m \in 1 .. l => u[i] = t[i - m]
    BY <1>1, <1>2
  <1>4. \A i \in 1 .. m, j \in 1 .. l : s[i] # t[j]
    BY <1>1 DEF Range
  <1>5. ASSUME NEW i \in 1 .. m + l, NEW j \in 1 .. m + l, u[i] = u[j] PROVE i = j
    <2>1. CASE i \in 1 .. m /\ j \in 1 .. m
      <3>1. s[i] = s[j]
        BY <1>1, <1>5, <2>1
      <3>2. QED
        BY <1>1, <2>1, <3>1 DEF IsInjective
    <2>2. CASE i \in 1 .. m /\ j - m \in 1 .. l
      BY <1>1, <1>3, <1>4, <1>5, <2>2
    <2>3. CASE j \in 1 .. m /\ i - m \in 1 .. l
      BY <1>1, <1>3, <1>4, <1>5, <2>3
    <2>4. CASE i - m \in 1 .. l /\ j - m \in 1 .. l
      <3>1. t[i - m] = t[j - m]
        BY <1>3, <1>5, <2>4
      <3>2. i - m = j - m
        BY <1>1, <2>4, <3>1 DEF IsInjective
      <3>3. QED
        BY <1>1, <1>2, <3>2
    <2>5. QED
      BY <1>2, <2>1, <2>2, <2>3, <2>4
  <1>6. QED
    BY <1>1, <1>5 DEF IsInjective, u

\* Sequences in a row repeat nothing when none does and no two share anything.
LEMMA FlattenApart ==
  ASSUME NEW X, NEW ss \in Seq(Seq(X)),
         \A i \in DOMAIN ss : IsInjective(ss[i]),
         \A i, j \in DOMAIN ss : i # j => Range(ss[i]) \cap Range(ss[j]) = {}
  PROVE  IsInjective(FlattenSeq(ss))
  <1> DEFINE n == Len(ss)
             Before(k) == UNION {Range(ss[i]) : i \in 1 .. k}
  <1>0. n \in Nat /\ DOMAIN ss = 1 .. n /\ \A i \in 1 .. n : ss[i] \in Seq(X)
    OBVIOUS
  <1>1. PICK g : /\ FlattenSeq(ss) = g[n]
                 /\ g[0] = <<>>
                 /\ \A k \in 1 .. n : g[k] = g[k - 1] \o ss[k]
    BY FlattenSteps
  <1> DEFINE T == {k \in 0 .. n : g[k] \in Seq(X) /\ Range(g[k]) = Before(k) /\ IsInjective(g[k])}
  <1>2. 0 \in T
    <2>1. Range(<<>>) = {} /\ <<>> \in Seq(X) /\ IsInjective(<<>>)
      BY DEF Range, IsInjective
    <2>2. Before(0) = {} /\ 0 \in 0 .. n
      BY <1>0
    <2> HIDE DEF Before, n
    <2>3. QED
      BY <1>1, <2>1, <2>2
  <1>3. ASSUME NEW k \in 0 .. n - 1, k \in T PROVE k + 1 \in T
    <2>1. k + 1 \in 1 .. n /\ k + 1 \in 0 .. n /\ (k + 1) - 1 = k /\ ss[k + 1] \in Seq(X)
      BY <1>0
    <2>2. Before(k + 1) = Before(k) \cup Range(ss[k + 1])
      <3>1. 1 .. k + 1 = (1 .. k) \cup {k + 1}
        OBVIOUS
      <3>2. QED
        BY <3>1
    <2>3. g[k + 1] = g[k] \o ss[k + 1]
      BY <1>1, <2>1
    <2>4. Before(k) \cap Range(ss[k + 1]) = {}
      <3>1. \A i \in 1 .. k : i \in 1 .. n /\ i # k + 1
        BY <1>0
      <3>2. \A i \in 1 .. k : Range(ss[i]) \cap Range(ss[k + 1]) = {}
        BY <1>0, <2>1, <3>1
      <3>3. QED
        BY <3>2
    <2>5. IsInjective(ss[k + 1])
      BY <1>0, <2>1
    <2> HIDE DEF Before, n
    <2>6. g[k] \in Seq(X) /\ Range(g[k]) = Before(k) /\ IsInjective(g[k])
      BY <1>3
    <2>7. /\ g[k + 1] \in Seq(X) /\ Range(g[k + 1]) = Range(g[k]) \cup Range(ss[k + 1])
      BY <2>1, <2>3, <2>6, RangeOfConcat
    <2>8. IsInjective(g[k + 1])
      BY <2>1, <2>3, <2>4, <2>5, <2>6, ConcatApart
    <2>9. QED
      BY <2>1, <2>2, <2>6, <2>7, <2>8
  <1>4. n \in T
    <2> HIDE DEF T, n
    <2>1. \A k \in 0 .. n - 1 : k \in T => k + 1 \in T
      BY <1>3
    <2>2. 0 .. n \subseteq T
      BY <1>0, <1>2, <2>1, UpTo
    <2>3. QED
      BY <1>0, <2>2
  <1>5. QED
    BY <1>1, <1>4

-----------------------------------------------------------------------------
(* Where a search ends                                                     *)

\* One turn of the loop in rules_ahead, on a search s of the net n.
Turn(n, s) ==
    LET l == Head(s.queue)[1]
        travelled == Head(s.queue)[2]
        ahead == IF l \in s.start THEN travelled ELSE travelled + n.length[l]
        rest == Tail(s.queue)
        onward == IF ahead <= LightSearch
                  THEN [i \in DOMAIN n.successors[l] |-> <<n.successors[l][i], ahead>>]
                  ELSE <<>>
    IN  IF l \in s.seen THEN [s EXCEPT !.queue = rest]
        ELSE IF n.rules[l] # <<>>
        THEN [s EXCEPT !.queue = rest, !.seen = @ \cup {l}, !.found = Once(@ \o n.rules[l])]
        ELSE [s EXCEPT !.queue = rest \o onward, !.seen = @ \cup {l},
                       !.found = Once(@ \o n.rules[l])]

\* t is s, or what some turns make of it.
Reaches(n, s, t) ==
    \A C : s \in C /\ (\A x \in C : x.queue # <<>> => Turn(n, x) \in C) => t \in C

\* And it has nothing left to visit there.
EndsIn(n, s, t) == Reaches(n, s, t) /\ t.queue = <<>>

\* A search whose queue is empty ends where it is.
LEMMA EndsHere ==
  ASSUME NEW n, NEW s, s.queue = <<>>
  PROVE  \A t : EndsIn(n, s, t) <=> t = s
  <1>1. ASSUME NEW t, EndsIn(n, s, t) PROVE t = s
    <2>1. s \in {s} /\ \A x \in {s} : x.queue # <<>> => Turn(n, x) \in {s}
      OBVIOUS
    <2>2. t \in {s}
      BY <1>1, <2>1 DEF EndsIn, Reaches
    <2>3. QED
      BY <2>2
  <1>2. EndsIn(n, s, s)
    BY DEF EndsIn, Reaches
  <1>3. QED
    BY <1>1, <1>2

\* A turn does not change where a search ends.
LEMMA EndsOn ==
  ASSUME NEW n, NEW s, s.queue # <<>>
  PROVE  \A t : EndsIn(n, s, t) <=> EndsIn(n, Turn(n, s), t)
  <1>1. ASSUME NEW t, EndsIn(n, s, t) PROVE EndsIn(n, Turn(n, s), t)
    <2>1. ASSUME NEW C, Turn(n, s) \in C, \A x \in C : x.queue # <<>> => Turn(n, x) \in C
          PROVE  t \in C
      <3>1. s \in C \cup {s} /\ \A x \in C \cup {s} : x.queue # <<>> => Turn(n, x) \in C \cup {s}
        BY <2>1
      <3>2. t \in C \cup {s}
        BY <1>1, <3>1 DEF EndsIn, Reaches
      <3>3. t # s
        BY <1>1 DEF EndsIn
      <3>4. QED
        BY <3>2, <3>3
    <2>2. QED
      BY <1>1, <2>1 DEF EndsIn, Reaches
  <1>2. ASSUME NEW t, EndsIn(n, Turn(n, s), t) PROVE EndsIn(n, s, t)
    <2>1. ASSUME NEW C, s \in C, \A x \in C : x.queue # <<>> => Turn(n, x) \in C
          PROVE  t \in C
      <3>1. Turn(n, s) \in C
        BY <2>1
      <3>2. QED
        BY <1>2, <2>1, <3>1 DEF EndsIn, Reaches
    <2>2. QED
      BY <1>2, <2>1 DEF EndsIn, Reaches
  <1>3. QED
    BY <1>1, <1>2

-----------------------------------------------------------------------------
(* What a drive keeps of a light's points                                  *)

\* A drive has kept nothing before the first point.
Nothing == [rules |-> <<>>, lanes |-> <<>>]

\* A point's lights and lanelets kept behind those of the points before it.
Kept(k, answer) == [rules |-> Once(k.rules \o answer.ahead), lanes |-> Append(k.lanes, answer.lanes)]

\* f is what is kept of the first n points of l, point by point, by a cache.
Keeping(entries, l, n, f) ==
    /\ DOMAIN f = 0 .. n /\ f[0] = Nothing
    /\ \A i \in 1 .. n : /\ l.points[i] \in DOMAIN entries
                         /\ f[i] = Kept(f[i - 1], entries[l.points[i]])

\* A cache has one thing to be kept of the points of a light.
LEMMA KeepingAgrees ==
  ASSUME NEW entries, NEW l, NEW n \in Nat, NEW f, NEW g,
         Keeping(entries, l, n, f), Keeping(entries, l, n, g)
  PROVE  f[n] = g[n]
  <1> DEFINE Apart == {i \in 0 .. n : f[i] # g[i]}
  <1>1. SUFFICES ASSUME Apart # {} PROVE FALSE
    BY DEF Keeping
  <1>2. Apart \subseteq Nat
    OBVIOUS
  <1>3. PICK i \in Apart : \A j \in Apart : ~(j < i)
    <2> HIDE DEF Apart
    <2>1. QED
      BY <1>1, <1>2, LeastOf
  <1>4. i # 0
    BY <1>3 DEF Keeping
  <1>5. i \in 1 .. n /\ i - 1 \in 0 .. n
    BY <1>3, <1>4
  <1>6. i - 1 \notin Apart
    BY <1>3, <1>5
  <1>7. f[i - 1] = g[i - 1]
    BY <1>5, <1>6
  <1>8. f[i] = g[i]
    BY <1>5, <1>7 DEF Keeping
  <1>9. QED
    BY <1>3, <1>8

\* A later cache, that has kept its entries, gives the same.
LEMMA KeepingStands ==
  ASSUME NEW entries, NEW later, NEW l, NEW n \in Nat, NEW f, Keeping(entries, l, n, f),
         DOMAIN entries \subseteq DOMAIN later, \A p \in DOMAIN entries : later[p] = entries[p]
  PROVE  Keeping(later, l, n, f)
  BY DEF Keeping

\* One more point kept.
LEMMA KeepingOn ==
  ASSUME NEW entries, NEW l, NEW n \in Nat, NEW f, Keeping(entries, l, n, f),
         l.points[n + 1] \in DOMAIN entries
  PROVE  \E g : /\ Keeping(entries, l, n + 1, g)
                /\ g[n + 1] = Kept(f[n], entries[l.points[n + 1]])
  <1> DEFINE g == [i \in 0 .. n + 1 |-> IF i = n + 1 THEN Kept(f[n], entries[l.points[n + 1]])
                                        ELSE f[i]]
  <1>1. DOMAIN g = 0 .. n + 1 /\ g[0] = Nothing
    BY DEF Keeping
  <1>2. g[n + 1] = Kept(f[n], entries[l.points[n + 1]])
    OBVIOUS
  <1>3. ASSUME NEW i \in 1 .. n + 1
        PROVE  l.points[i] \in DOMAIN entries /\ g[i] = Kept(g[i - 1], entries[l.points[i]])
    <2>1. CASE i = n + 1
      BY <1>2, <2>1
    <2>2. CASE i \in 1 .. n
      BY <2>2 DEF Keeping
    <2>3. QED
      BY <2>1, <2>2
  <1>4. QED
    BY <1>1, <1>2, <1>3 DEF Keeping

-----------------------------------------------------------------------------
(* The cache                                                               *)

\* The search of a point, as it begins with the order its lanelets iterate in here.
BegunAt(n, order, p) ==
    [queue |-> [i \in DOMAIN order |-> <<order[i], 0>>],
     start |-> Range(LaneletsAt(n, p)), seen |-> {}, found |-> <<>>]

\* What a point is resolved to, wherever its search ends.
ResolvedTo(n, order, p, entry) ==
    \E s : /\ \A t : EndsIn(n, BegunAt(n, order, p), t) <=> t = s
           /\ entry = [lanes |-> LaneletsAt(n, p), ahead |-> s.found]

\* A search is on the way from its point.
Underway(d) ==
    pc[d] = "search" =>
        /\ Point(d) \in DOMAIN setOrder
        /\ \A t : EndsIn(net, search[d], t)
                    <=> EndsIn(net, BegunAt(net, setOrder[Point(d)], Point(d)), t)

\* A drive has kept what the cache has for the points behind it.
KeptSoFar(d) ==
    pc[d] \in {"points", "search"} =>
        /\ at[d] \in Nat
        /\ \E f : Keeping(resolved, light[d], at[d], f)
                  /\ rules[d] = f[at[d]].rules /\ lanes[d] = f[at[d]].lanes

\* An entry of the cache is what any search of its point would come to.
Entered(p) == p \in DOMAIN setOrder /\ ResolvedTo(net, setOrder[p], p, resolved[p])

\* The answer made of what was kept.
GivenAnswer(f, l, k) ==
    [light |-> l, laneIds |-> k.lanes, ruleIds |-> k.rules,
     lightIds |-> Once(FlattenSeq([i \in DOMAIN k.rules |-> f.lights[k.rules[i]]]))]

\* An answer is what the map set makes of the light, by the cache or by its traces.
Answered(a) ==
    IF Given
    THEN /\ Len(a.light.points) \in Nat
         /\ \E f : Keeping(resolved, a.light, Len(a.light.points), f)
                   /\ a = GivenAnswer(file, a.light, f[Len(a.light.points)])
    ELSE a = StopLines(mapSet, format, a.light)

\* Every drive has its place, its light and its search.
DriveTables ==
    /\ DOMAIN pc = Drives /\ DOMAIN light = Drives /\ DOMAIN at = Drives
    /\ DOMAIN search = Drives /\ DOMAIN rules = Drives /\ DOMAIN lanes = Drives

\* What the cache holds, what is searched, kept and answered agree with one another.
CacheInv ==
    /\ DriveTables
    /\ \A d \in Drives : Underway(d) /\ KeptSoFar(d)
    /\ \A p \in DOMAIN resolved : Entered(p)
    /\ \A a \in answers : Answered(a)

\* Nothing is cached, asked or answered at first.
LEMMA CacheInit == Init => CacheInv
  <1> SUFFICES ASSUME Init PROVE CacheInv
    OBVIOUS
  <1>1. DriveTables /\ answers = {} /\ \A d \in Drives : pc[d] = "idle"
    BY DEF Init, GivenInit, DriveTables
  <1>2. DOMAIN resolved = {}
    <2>1. resolved = <<>>
      BY DEF Init, GivenInit
    <2>2. QED
      BY <2>1
  <1>3. QED
    BY <1>1, <1>2 DEF CacheInv, Underway, KeptSoFar

\* The cache only grows, and nothing else of the map changes.
Grows ==
    /\ UNCHANGED <<mapSet, format, file, net>>
    /\ DOMAIN setOrder \subseteq DOMAIN setOrder'
    /\ \A p \in DOMAIN setOrder : setOrder'[p] = setOrder[p]
    /\ DOMAIN resolved \subseteq DOMAIN resolved'
    /\ \A p \in DOMAIN resolved : resolved'[p] = resolved[p]

\* What a drive works on, and what is known of it, outlasts the steps of others.
StateOf(d) == <<pc[d], light[d], at[d], search[d], rules[d], lanes[d]>>

\* What a drive has kept stands while the cache only grows.
LEMMA KeptStands ==
  ASSUME NEW d, KeptSoFar(d), Grows,
         UNCHANGED <<light[d], at[d], rules[d], lanes[d]>>,
         pc'[d] \in {"points", "search"} => pc[d] \in {"points", "search"}
  PROVE  KeptSoFar(d)'
  <1>1. SUFFICES ASSUME pc'[d] \in {"points", "search"}
                 PROVE  /\ at'[d] \in Nat
                        /\ \E f : Keeping(resolved', light'[d], at'[d], f)
                                  /\ rules'[d] = f[at'[d]].rules /\ lanes'[d] = f[at'[d]].lanes
    BY DEF KeptSoFar
  <1>2. PICK f : /\ Keeping(resolved, light[d], at[d], f)
                 /\ rules[d] = f[at[d]].rules /\ lanes[d] = f[at[d]].lanes
    BY <1>1 DEF KeptSoFar
  <1>3. at[d] \in Nat
    BY <1>1 DEF KeptSoFar
  <1>4. Keeping(resolved', light[d], at[d], f)
    BY <1>2, <1>3, KeepingStands DEF Grows
  <1>5. QED
    BY <1>2, <1>3, <1>4

\* So does what holds of a drive that does not move,
LEMMA DriveStands ==
  ASSUME NEW d, Underway(d), KeptSoFar(d), Grows, UNCHANGED StateOf(d)
  PROVE  Underway(d)' /\ KeptSoFar(d)'
  <1>1. Point(d)' = Point(d) /\ UNCHANGED <<pc[d], light[d], at[d], search[d], rules[d], lanes[d]>>
    BY DEF Point, StateOf
  <1>2. Underway(d)'
    BY <1>1 DEF Underway, Grows
  <1>3. QED
    BY <1>1, <1>2, KeptStands

\* an answer,
LEMMA AnswerStands ==
  ASSUME NEW a, Answered(a), Grows PROVE Answered(a)'
  <1>1. Given' = Given /\ file' = file /\ mapSet' = mapSet /\ format' = format
    BY DEF Given, Grows
  <1>2. CASE Given
    <2>1. PICK f : /\ Keeping(resolved, a.light, Len(a.light.points), f)
                   /\ a = GivenAnswer(file, a.light, f[Len(a.light.points)])
      BY <1>2 DEF Answered
    <2>2. Len(a.light.points) \in Nat
      BY <1>2 DEF Answered
    <2>3. Keeping(resolved', a.light, Len(a.light.points), f)
      BY <2>1, <2>2, KeepingStands DEF Grows
    <2>4. QED
      BY <1>1, <1>2, <2>1, <2>2, <2>3 DEF Answered
  <1>3. CASE ~Given
    BY <1>1, <1>3 DEF Answered
  <1>4. QED
    BY <1>2, <1>3

\* and an entry of the cache.
LEMMA EntryStands ==
  ASSUME NEW p \in DOMAIN resolved, Entered(p), Grows PROVE Entered(p)'
  BY DEF Entered, Grows

\* It is enough to look at the drive that steps, at the entry it makes and at its answer.
LEMMA CacheKeeps ==
  ASSUME CacheInv, Grows, DriveTables', NEW d \in Drives,
         \A e \in Drives \ {d} : UNCHANGED StateOf(e),
         Underway(d)', KeptSoFar(d)',
         \A p \in DOMAIN resolved' \ DOMAIN resolved : Entered(p)',
         \A a \in answers' \ answers : Answered(a)'
  PROVE  CacheInv'
  <1>1. \A e \in Drives : Underway(e)' /\ KeptSoFar(e)'
    BY DriveStands DEF CacheInv
  <1>2. \A p \in DOMAIN resolved' : Entered(p)'
    BY EntryStands DEF CacheInv
  <1>3. \A a \in answers' : Answered(a)'
    BY AnswerStands DEF CacheInv
  <1>4. QED
    BY <1>1, <1>2, <1>3 DEF CacheInv

\* The steps, one by one: asking,
LEMMA AskKeeps ==
  ASSUME CacheInv, NEW d \in Drives, NEW l, Ask(d, l), UNCHANGED <<mapSet, format>>
  PROVE  CacheInv'
  <1>1. Grows /\ DriveTables' /\ UNCHANGED <<resolved, answers>>
        /\ \A e \in Drives \ {d} : UNCHANGED StateOf(e)
    BY DEF Ask, GoTo, map, cache, Grows, DriveTables, CacheInv, StateOf
  <1>2. pc'[d] = "points" /\ at'[d] = 0 /\ rules'[d] = <<>> /\ lanes'[d] = <<>>
    BY DEF Ask, GoTo, DriveTables, CacheInv
  <1>3. KeptSoFar(d)'
    <2> DEFINE f == [i \in 0 .. 0 |-> Nothing]
    <2>1. Keeping(resolved', light'[d], 0, f)
      BY DEF Keeping
    <2>2. f[0].rules = <<>> /\ f[0].lanes = <<>>
      BY DEF Nothing
    <2>3. QED
      BY <1>2, <2>1, <2>2 DEF KeptSoFar
  <1>4. Underway(d)'
    BY <1>2 DEF Underway
  <1>5. QED
    BY <1>1, <1>3, <1>4, CacheKeeps

\* What is kept of the next point is what the cache has for it.
LEMMA KeepKeeps ==
  ASSUME CacheInv, Grows, NEW d \in Drives, pc[d] \in {"points", "search"},
         NEW answer, Keep(d, answer), UNCHANGED light,
         Point(d) \in DOMAIN resolved', resolved'[Point(d)] = answer
  PROVE  KeptSoFar(d)'
  <1>1. DriveTables /\ KeptSoFar(d) /\ at[d] \in Nat
    BY DEF CacheInv, KeptSoFar
  <1>2. PICK f : /\ Keeping(resolved, light[d], at[d], f)
                 /\ rules[d] = f[at[d]].rules /\ lanes[d] = f[at[d]].lanes
    BY <1>1 DEF KeptSoFar
  <1>3. Keeping(resolved', light[d], at[d], f)
    BY <1>1, <1>2, KeepingStands DEF Grows
  <1>4. light[d].points[at[d] + 1] = Point(d)
    BY DEF Point
  <1>5. PICK g : /\ Keeping(resolved', light[d], at[d] + 1, g)
                 /\ g[at[d] + 1] = Kept(f[at[d]], answer)
    <2>1. ASSUME NEW n \in Nat, n = at[d], NEW l, l = light[d], NEW entries, entries = resolved'
          PROVE  \E g : Keeping(entries, l, n + 1, g) /\ g[n + 1] = Kept(f[n], answer)
      <3>1. Keeping(entries, l, n, f)
        BY <1>3, <2>1
      <3>2. l.points[n + 1] \in DOMAIN entries /\ entries[l.points[n + 1]] = answer
        BY <1>4, <2>1
      <3>3. QED
        BY <3>1, <3>2, KeepingOn
    <2>2. QED
      BY <1>1, <2>1
  <1>6. /\ at'[d] = at[d] + 1 /\ rules'[d] = Once(rules[d] \o answer.ahead)
        /\ lanes'[d] = Append(lanes[d], answer.lanes)
    BY <1>1 DEF Keep, DriveTables
  <1>7. g[at[d] + 1].rules = rules'[d] /\ g[at[d] + 1].lanes = lanes'[d]
    <2>1. /\ Kept(f[at[d]], answer).rules = Once(f[at[d]].rules \o answer.ahead)
          /\ Kept(f[at[d]], answer).lanes = Append(f[at[d]].lanes, answer.lanes)
      BY DEF Kept
    <2>2. QED
      BY <1>2, <1>5, <1>6, <2>1
  <1>8. Keeping(resolved', light'[d], at'[d], g) /\ at'[d] \in Nat
    BY <1>1, <1>5, <1>6
  <1>9. QED
    BY <1>6, <1>7, <1>8 DEF KeptSoFar

\* a point found in the cache,
LEMMA TakeKeeps ==
  ASSUME CacheInv, NEW d \in Drives, TakeResolved(d), UNCHANGED <<mapSet, format>>
  PROVE  CacheInv'
  <1>1. Grows /\ UNCHANGED <<resolved, answers, light>> /\ Keep(d, resolved[Point(d)])
        /\ pc[d] = "points" /\ Point(d) \in DOMAIN resolved
    BY DEF TakeResolved, MorePoints, map, cache, history, Grows
  <1>2. DriveTables' /\ pc'[d] = "points" /\ \A e \in Drives \ {d} : UNCHANGED StateOf(e)
    BY DEF TakeResolved, Keep, GoTo, CacheInv, DriveTables, StateOf
  <1>3. KeptSoFar(d)'
    BY <1>1, KeepKeeps
  <1>4. Underway(d)'
    BY <1>2 DEF Underway
  <1>5. QED
    BY <1>1, <1>2, <1>3, <1>4, CacheKeeps

\* one whose search begins,
LEMMA BeginKeeps ==
  ASSUME CacheInv, NEW d \in Drives, BeginSearch(d), UNCHANGED <<mapSet, format>>
  PROVE  CacheInv'
  <1> DEFINE p == Point(d)
  <1>1. PICK order :
           /\ p \in DOMAIN setOrder => order = setOrder[p]
           /\ setOrder' = With(setOrder, p, order)
           /\ search' = [search EXCEPT ![d] =
                            [queue |-> [i \in DOMAIN order |-> <<order[i], 0>>],
                             start |-> Range(LaneletsAt(net, p)), seen |-> {}, found |-> <<>>]]
    BY DEF BeginSearch
  <1>2. /\ UNCHANGED <<file, net, resolved, answers, light, at, rules, lanes>>
        /\ pc[d] = "points" /\ pc' = [pc EXCEPT ![d] = "search"]
    BY DEF BeginSearch, MorePoints, map, history, GoTo, Reserve
  <1>3. p \in DOMAIN setOrder' /\ setOrder'[p] = order
        /\ DOMAIN setOrder \subseteq DOMAIN setOrder'
        /\ \A q \in DOMAIN setOrder : setOrder'[q] = setOrder[q]
    BY <1>1 DEF With
  <1>4. Grows
    BY <1>2, <1>3 DEF Grows
  <1>5. DriveTables' /\ pc'[d] = "search" /\ \A e \in Drives \ {d} : UNCHANGED StateOf(e)
    BY <1>1, <1>2 DEF CacheInv, DriveTables, StateOf
  <1>6. KeptSoFar(d)'
    BY <1>2, <1>4, <1>5, KeptStands DEF CacheInv
  <1>7. Underway(d)'
    <2>1. Point(d)' = p
      BY <1>2 DEF Point
    <2>2. search'[d] = BegunAt(net, order, p)
      BY <1>1 DEF BegunAt, CacheInv, DriveTables
    <2>3. QED
      BY <1>2, <1>3, <2>1, <2>2 DEF Underway
  <1>8. QED
    BY <1>2, <1>4, <1>5, <1>6, <1>7, CacheKeeps

\* one turn of a search,
LEMMA VisitKeeps ==
  ASSUME CacheInv, NEW d \in Drives, Visit(d), UNCHANGED <<mapSet, format>>
  PROVE  CacheInv'
  <1>1. search[d].queue # <<>> /\ pc[d] = "search" /\ Grows
        /\ UNCHANGED <<net, setOrder, resolved, answers, pc, light, at, rules, lanes>>
    BY DEF Visit, map, cache, history, Grows
  <1>2. search'[d] = Turn(net, search[d])
    BY DEF Visit, Turn, Ahead, Stops, Lanelet, Travelled, CacheInv, DriveTables
  <1>3. DriveTables' /\ \A e \in Drives \ {d} : UNCHANGED StateOf(e)
    BY <1>1 DEF Visit, CacheInv, DriveTables, StateOf
  <1>4. KeptSoFar(d)'
    BY <1>1, KeptStands DEF CacheInv
  <1>5. Underway(d)'
    <2>1. Point(d)' = Point(d)
      BY <1>1 DEF Point
    <2>2. \A t : EndsIn(net, search[d], t) <=> EndsIn(net, search'[d], t)
      BY <1>1, <1>2, EndsOn
    <2>3. QED
      BY <1>1, <2>1, <2>2 DEF Underway, CacheInv
  <1>6. QED
    BY <1>1, <1>3, <1>4, <1>5, CacheKeeps

\* A search that ends makes the entry of its point, or makes it anew and alike.
LEMMA EndKeeps ==
  ASSUME CacheInv, NEW d \in Drives, EndSearch(d), UNCHANGED <<mapSet, format>>
  PROVE  CacheInv'
  <1> DEFINE p == Point(d)
             answer == [lanes |-> LaneletsAt(net, p), ahead |-> search[d].found]
  <1>1. /\ UNCHANGED <<file, net, setOrder, answers, light>> /\ pc[d] = "search"
        /\ search[d].queue = <<>> /\ resolved' = With(resolved, p, answer) /\ Keep(d, answer)
    BY DEF EndSearch, map, history
  <1>2. p \in DOMAIN setOrder /\ ResolvedTo(net, setOrder[p], p, answer)
    <2>1. /\ p \in DOMAIN setOrder
          /\ \A t : EndsIn(net, search[d], t) <=> EndsIn(net, BegunAt(net, setOrder[p], p), t)
      BY <1>1 DEF CacheInv, Underway
    <2>2. \A t : EndsIn(net, search[d], t) <=> t = search[d]
      BY <1>1, EndsHere
    <2>3. QED
      BY <2>1, <2>2 DEF ResolvedTo
  <1>3. p \in DOMAIN resolved => resolved[p] = answer
    BY <1>2 DEF CacheInv, Entered, ResolvedTo
  <1>4. /\ DOMAIN resolved' = DOMAIN resolved \cup {p} /\ resolved'[p] = answer
        /\ \A q \in DOMAIN resolved : resolved'[q] = resolved[q]
    BY <1>1, <1>3 DEF With
  <1>5. Grows
    BY <1>1, <1>4 DEF Grows
  <1>6. DriveTables' /\ pc'[d] = "points" /\ \A e \in Drives \ {d} : UNCHANGED StateOf(e)
    BY DEF EndSearch, Keep, GoTo, CacheInv, DriveTables, StateOf
  <1>7. KeptSoFar(d)'
    <2> HIDE DEF answer
    <2>1. QED
      BY <1>1, <1>4, <1>5, KeepKeeps
  <1>8. Underway(d)'
    BY <1>6 DEF Underway
  <1>9. ASSUME NEW q \in DOMAIN resolved' \ DOMAIN resolved PROVE Entered(q)'
    <2>1. q = p
      BY <1>4
    <2>2. QED
      BY <1>1, <1>2, <1>4, <2>1 DEF Entered
  <1>10. QED
    BY <1>1, <1>5, <1>6, <1>7, <1>8, <1>9, CacheKeeps

\* the answer of a given map,
LEMMA GivenKeeps ==
  ASSUME CacheInv, Given, NEW d \in Drives, AnswerGiven(d), UNCHANGED <<mapSet, format>>
  PROVE  CacheInv'
  <1>1. Grows /\ DriveTables' /\ pc'[d] = "idle" /\ UNCHANGED resolved
        /\ \A e \in Drives \ {d} : UNCHANGED StateOf(e)
    BY DEF AnswerGiven, GoTo, map, cache, Grows, CacheInv, DriveTables, StateOf
  <1>2. Underway(d)' /\ KeptSoFar(d)'
    BY <1>1 DEF Underway, KeptSoFar
  <1>3. ASSUME NEW a \in answers' \ answers PROVE Answered(a)'
    <2>1. pc[d] = "points" /\ at[d] = Len(light[d].points)
          /\ a = [light |-> light[d], laneIds |-> lanes[d], ruleIds |-> rules[d],
                  lightIds |-> Once(FlattenSeq([i \in DOMAIN rules[d] |->
                                                  file.lights[rules[d][i]]]))]
      BY <1>3 DEF AnswerGiven
    <2>2. PICK f : /\ at[d] \in Nat /\ Keeping(resolved, light[d], at[d], f)
                   /\ rules[d] = f[at[d]].rules /\ lanes[d] = f[at[d]].lanes
      BY <2>1 DEF CacheInv, KeptSoFar
    <2>3. a = GivenAnswer(file, light[d], f[at[d]])
      BY <2>1, <2>2 DEF GivenAnswer
    <2>4. a.light = light[d]
      BY <2>1
    <2>5. Answered(a)
      BY <2>1, <2>2, <2>3, <2>4 DEF Answered
    <2>6. QED
      BY <1>1, <2>5, AnswerStands
  <1>4. QED
    BY <1>1, <1>2, <1>3, CacheKeeps

\* and that of a converted one.
LEMMA ConvertedKeeps ==
  ASSUME CacheInv, ~Given, NEW d \in Drives, AnswerConverted(d), UNCHANGED <<mapSet, format>>
  PROVE  CacheInv'
  <1>1. Grows /\ DriveTables' /\ pc'[d] = "idle" /\ UNCHANGED resolved
        /\ \A e \in Drives \ {d} : UNCHANGED StateOf(e)
    BY DEF AnswerConverted, GoTo, map, cache, Grows, CacheInv, DriveTables, StateOf
  <1>2. Underway(d)' /\ KeptSoFar(d)'
    BY <1>1 DEF Underway, KeptSoFar
  <1>3. ASSUME NEW a \in answers' \ answers PROVE Answered(a)'
    <2>1. a = StopLines(mapSet, format, light[d])
      BY <1>3 DEF AnswerConverted
    <2>2. a.light = light[d]
      BY <2>1 DEF StopLines
    <2>3. Answered(a)
      BY <2>1, <2>2 DEF Answered
    <2>4. QED
      BY <1>1, <2>3, AnswerStands
  <1>4. QED
    BY <1>1, <1>2, <1>3, CacheKeeps

\* CacheInv is inductive.
LEMMA CacheStep == CacheInv /\ [Next]_vars => CacheInv'
  <1> SUFFICES ASSUME CacheInv, [Next]_vars PROVE CacheInv'
    OBVIOUS
  <1>1. CASE Open \/ Finished \/ UNCHANGED vars
    <2>1. UNCHANGED <<mapSet, format, givenVars>>
      BY <1>1 DEF Open, Finished, vars
    <2>2. Grows /\ UNCHANGED <<resolved, answers, pc, light, at, search, rules, lanes>>
      BY <2>1 DEF givenVars, map, cache, asking, history, Grows
    <2>3. DriveTables' /\ \A d \in Drives : UNCHANGED StateOf(d)
      BY <2>2 DEF CacheInv, DriveTables, StateOf
    <2>4. \A d \in Drives : Underway(d)' /\ KeptSoFar(d)'
      BY <2>2, <2>3, DriveStands DEF CacheInv
    <2>5. (\A p \in DOMAIN resolved : Entered(p))' /\ (\A a \in answers : Answered(a))'
      BY <2>2, EntryStands, AnswerStands DEF CacheInv
    <2>6. QED
      BY <2>3, <2>4, <2>5 DEF CacheInv
  <1>2. ASSUME NEW d \in Drives, UNCHANGED <<mapSet, format, opened>>,
               \/ \E l \in Lights : Ask(d, l)
               \/ Given /\ Resolve(d)
               \/ ~Given /\ AnswerConverted(d)
        PROVE  CacheInv'
    BY <1>2, AskKeeps, TakeKeeps, BeginKeeps, VisitKeeps, EndKeeps, GivenKeeps, ConvertedKeeps
    DEF Resolve
  <1>3. QED
    BY <1>1, <1>2 DEF Next

\* Drives that share a map without a lock are answered alike: whoever resolved a point
\* first, however their searches interleaved, and whatever was resolved twice at once.
THEOREM CacheUnseen == Spec => []AnswersAgree
  <1>1. Spec => []CacheInv
    BY CacheInit, CacheStep, PTL DEF Spec
  <1>2. CacheInv => AnswersAgree
    <2>1. SUFFICES ASSUME CacheInv, NEW a \in answers, NEW b \in answers, a.light = b.light
                   PROVE  a = b
      BY DEF AnswersAgree
    <2>2. CASE Given
      <3> DEFINE n == Len(a.light.points)
      <3>1. n \in Nat
        BY <2>1, <2>2 DEF CacheInv, Answered
      <3>2. PICK f : Keeping(resolved, a.light, n, f) /\ a = GivenAnswer(file, a.light, f[n])
        <4>1. Answered(a)
          BY <2>1 DEF CacheInv
        <4>2. QED
          BY <2>2, <4>1 DEF Answered
      <3>3. PICK g : Keeping(resolved, a.light, n, g) /\ b = GivenAnswer(file, a.light, g[n])
        <4>1. Answered(b)
          BY <2>1 DEF CacheInv
        <4>2. QED
          BY <2>1, <2>2, <4>1 DEF Answered
      <3>4. f[n] = g[n]
        BY <3>1, <3>2, <3>3, KeepingAgrees
      <3>5. QED
        BY <3>2, <3>3, <3>4
    <2>3. CASE ~Given
      BY <2>1, <2>3 DEF CacheInv, Answered
    <2>4. QED
      BY <2>2, <2>3
  <1>3. QED
    BY <1>1, <1>2, PTL

-----------------------------------------------------------------------------
(* Following the traces                                                    *)

\* The tables of a set are sequences.
LEMMA Tables ==
  ASSUME NEW m \in MapSets
  PROVE  /\ m.readTrace \in Seq(Range(m.readTrace))
         /\ m.ir \in Seq(Range(m.ir)) /\ m.trace \in Seq(Range(m.trace))
         /\ \A k \in Range(m.readTrace) : k = [ref |-> k.ref, ir |-> k.ir]
  BY TablesAssumption DEF TablesAssumption

\* An element became the same things by the two traces as by the two of them in a row.
LEMMA FromKeeps ==
  ASSUME NEW m \in MapSets, NEW ref
  PROVE  LET became == {k.ir : k \in {k \in Range(m.readTrace) : k.ref = ref}}
         IN  /\ FromOpenDrive(m, ref) \in Seq(became)
             /\ Range(FromOpenDrive(m, ref)) = became
             /\ IsInjective(FromOpenDrive(m, ref))
  <1> DEFINE of == {k \in Range(m.readTrace) : k.ref = ref}
             became == {k.ir : k \in of}
             links == Only(m.readTrace, of)
             irs == [i \in DOMAIN links |-> links[i].ir]
  <1>1. links \in Seq(Range(m.readTrace)) /\ Range(links) = of
    <2>1. m.readTrace \in Seq(Range(m.readTrace))
      BY Tables
    <2>2. /\ links \in Seq(Range(m.readTrace))
          /\ Range(links) = Range(m.readTrace) \cap of
      BY <2>1, OnlyKeeps
    <2>3. QED
      BY <2>2
  <1>2. irs \in Seq(became) /\ Range(irs) = became
    <2> HIDE DEF links, of
    <2>1. /\ DOMAIN links = 1 .. Len(links) /\ Len(links) \in Nat
          /\ \A i \in DOMAIN links : links[i] \in of
      BY <1>1 DEF Range
    <2>2. QED
      BY <1>1, <2>1 DEF Range
  <1>3. FromOpenDrive(m, ref) = Once(irs)
    BY DEF FromOpenDrive
  <1> HIDE DEF irs, of
  <1>4. QED
    BY <1>2, <1>3, OnceKeeps DEF of

\* The rules of a set that name an object.
NamingOf(m, object) == {r \in Range(m.ir) : object \in r.objects}

\* The rules looked up by an object are those that name it.
LEMMA RulesByKeeps ==
  ASSUME NEW m \in MapSets, NEW object
  PROVE  /\ RulesByObject(m, object) \in Seq({r.id : r \in Range(m.ir)})
         /\ Range(RulesByObject(m, object)) = {r.id : r \in NamingOf(m, object)}
  <1> DEFINE of == NamingOf(m, object)
             naming == Only(m.ir, of)
  <1>1. naming \in Seq(Range(m.ir)) /\ Range(naming) = of
    <2>2. naming \in Seq(Range(m.ir)) /\ Range(naming) = Range(m.ir) \cap of
      BY Tables, OnlyKeeps
    <2>3. QED
      BY <2>2 DEF NamingOf
  <1>2. RulesByObject(m, object) = [i \in DOMAIN naming |-> naming[i].id]
    BY DEF RulesByObject, NamingOf
  <1>3. DOMAIN naming = 1 .. Len(naming) /\ Len(naming) \in Nat
        /\ \A i \in DOMAIN naming : naming[i] \in Range(m.ir)
    <2> HIDE DEF naming
    <2>1. QED
      BY <1>1
  <1> HIDE DEF naming
  <1>4. QED
    BY <1>1, <1>2, <1>3 DEF Range

\* The entries of an element in a set's trace.
LinksOf(m, ir, role) == {k \in Range(m.trace) : k.ir = ir /\ role \in {None, k.role}}

\* What one element of the intermediate map became,
LEMMA IdsKeeps ==
  ASSUME NEW m \in MapSets, NEW ir, NEW role
  PROVE  /\ Ids(m, ir, role) \in Seq({k.ref : k \in Range(m.trace)})
         /\ Range(Ids(m, ir, role)) = {k.ref : k \in LinksOf(m, ir, role)}
  <1> DEFINE refs == Only(m.trace, LinksOf(m, ir, role))
  <1>1. refs \in Seq(Range(m.trace)) /\ Range(refs) = LinksOf(m, ir, role)
    <2>2. refs \in Seq(Range(m.trace)) /\ Range(refs) = Range(m.trace) \cap LinksOf(m, ir, role)
      BY Tables, OnlyKeeps
    <2>3. QED
      BY <2>2 DEF LinksOf
  <1>2. Ids(m, ir, role) = [i \in DOMAIN refs |-> refs[i].ref]
    BY DEF Ids, LinksOf
  <1>3. DOMAIN refs = 1 .. Len(refs) /\ Len(refs) \in Nat
        /\ \A i \in DOMAIN refs : refs[i] \in Range(m.trace)
    <2> HIDE DEF refs
    <2>1. QED
      BY <1>1
  <1> HIDE DEF refs
  <1>4. QED
    BY <1>1, <1>2, <1>3 DEF Range

\* What elements of the intermediate map became.
Refs(m, irs, role) ==
    {k.ref : k \in {k \in Range(m.trace) : k.ir \in irs /\ role \in {None, k.role}}}

\* and what several of them became.
LEMMA IdsOfKeeps ==
  ASSUME NEW m \in MapSets, NEW I, NEW irs \in Seq(I), NEW role
  PROVE  /\ IdsOf(m, irs, role) \in Seq({k.ref : k \in Range(m.trace)})
         /\ Range(IdsOf(m, irs, role)) = Refs(m, Range(irs), role)
  <1> DEFINE ss == [i \in DOMAIN irs |-> Ids(m, irs[i], role)]
             X == {k.ref : k \in Range(m.trace)}
  <1>1. DOMAIN irs = 1 .. Len(irs) /\ Len(irs) \in Nat
    OBVIOUS
  <1>2. \A i \in DOMAIN irs : Ids(m, irs[i], role) \in Seq(X)
    BY IdsKeeps
  <1>3. ss \in Seq(Seq(X)) /\ DOMAIN ss = DOMAIN irs
    <2> HIDE DEF X
    <2>1. QED
      BY <1>1, <1>2
  <1>4. \A i \in DOMAIN irs : Range(ss[i]) = {k.ref : k \in LinksOf(m, irs[i], role)}
    BY IdsKeeps
  <1>5. IdsOf(m, irs, role) = FlattenSeq(ss)
    BY DEF IdsOf
  <1> HIDE DEF ss
  <1>6. /\ FlattenSeq(ss) \in Seq(X)
        /\ Range(FlattenSeq(ss)) = UNION {Range(ss[i]) : i \in DOMAIN ss}
    <2> HIDE DEF X
    <2>1. QED
      BY <1>3, FlattenKeeps
  <1>7. UNION {Range(ss[i]) : i \in DOMAIN ss} = Refs(m, Range(irs), role)
    <2>1. UNION {Range(ss[i]) : i \in DOMAIN ss}
            = UNION {{k.ref : k \in LinksOf(m, irs[i], role)} : i \in DOMAIN irs}
      BY <1>3, <1>4
    <2>2. \A k : k \in Range(m.trace) /\ k.ir \in Range(irs) /\ role \in {None, k.role}
                 <=> \E i \in DOMAIN irs : k \in LinksOf(m, irs[i], role)
      BY DEF Range, LinksOf
    <2>3. QED
      BY <2>1, <2>2 DEF Refs
  <1>8. QED
    BY <1>5, <1>6, <1>7

\* Elements that are traced apart name nothing twice.
LEMMA IdsApart ==
  ASSUME NEW m \in MapSets, NEW I, NEW irs \in Seq(I), NEW role,
         IsInjective(irs), TracedApart(m, Range(irs))
  PROVE  IsInjective(IdsOf(m, irs, role))
  <1> DEFINE ss == [i \in DOMAIN irs |-> Ids(m, irs[i], role)]
             X == {k.ref : k \in Range(m.trace)}
  <1>1. DOMAIN irs = 1 .. Len(irs) /\ Len(irs) \in Nat
    OBVIOUS
  <1>2. \A i \in DOMAIN irs : Ids(m, irs[i], role) \in Seq(X)
    BY IdsKeeps
  <1>3. ss \in Seq(Seq(X)) /\ DOMAIN ss = DOMAIN irs
    <2> HIDE DEF X
    <2>1. QED
      BY <1>1, <1>2
  <1>4. ASSUME NEW i \in DOMAIN irs, NEW j \in DOMAIN irs, i # j
        PROVE  Range(ss[i]) \cap Range(ss[j]) = {}
    <2>1. ASSUME NEW p \in DOMAIN m.trace, NEW q \in DOMAIN m.trace,
                 m.trace[p].ir = irs[i], m.trace[q].ir = irs[j]
          PROVE  m.trace[p].ref # m.trace[q].ref
      <3>1. irs[i] # irs[j]
        BY <1>4 DEF IsInjective
      <3>2. p # q
        BY <2>1, <3>1
      <3>3. irs[i] \in Range(irs) /\ irs[j] \in Range(irs)
        BY DEF Range
      <3>4. QED
        BY <2>1, <3>2, <3>3 DEF TracedApart
    <2>2. Range(ss[i]) = {k.ref : k \in LinksOf(m, irs[i], role)}
          /\ Range(ss[j]) = {k.ref : k \in LinksOf(m, irs[j], role)}
      BY IdsKeeps
    <2>3. QED
      BY <2>1, <2>2 DEF LinksOf, Range
  <1>5. ASSUME NEW i \in DOMAIN irs PROVE IsInjective(ss[i])
    <2> DEFINE S == LinksOf(m, irs[i], role)
               refs == Only(m.trace, S)
               R == {kl \in Range(m.trace) \X Range(m.trace) : kl[1].ref # kl[2].ref}
    <2>1. /\ m.trace \in Seq(Range(m.trace))
          /\ DOMAIN m.trace = 1 .. Len(m.trace) /\ Len(m.trace) \in Nat
      BY Tables
    <2>2. ASSUME NEW p \in 1 .. Len(m.trace), NEW q \in 1 .. Len(m.trace),
                 p < q, m.trace[p] \in S, m.trace[q] \in S
          PROVE  <<m.trace[p], m.trace[q]>> \in R
      <3>1. m.trace[p].ir = irs[i] /\ m.trace[q].ir = irs[i] /\ irs[i] \in Range(irs)
        BY <2>2 DEF LinksOf, Range
      <3>2. p # q
        BY <2>2
      <3>3. m.trace[p].ref # m.trace[q].ref
        BY <2>1, <3>1, <3>2 DEF TracedApart
      <3>4. QED
        BY <2>1, <3>3 DEF Range
    <2>3. \A p, q \in 1 .. Len(refs) : p < q => <<refs[p], refs[q]>> \in R
      <3> HIDE DEF R, S
      <3>1. QED
        BY <2>1, <2>2, OnlyApart
    <2>4. refs \in Seq(Range(m.trace))
      BY <2>1, OnlyKeeps
    <2>5. Ids(m, irs[i], role) = [p \in DOMAIN refs |-> refs[p].ref]
      BY DEF Ids, LinksOf
    <2> HIDE DEF refs
    <2>6. ASSUME NEW p \in DOMAIN refs, NEW q \in DOMAIN refs, refs[p].ref = refs[q].ref
          PROVE  p = q
      <3>1. p \in 1 .. Len(refs) /\ q \in 1 .. Len(refs)
        BY <2>4
      <3>2. ~(p < q) /\ ~(q < p)
        BY <2>3, <2>6, <3>1
      <3>3. QED
        BY <2>4, <3>1, <3>2
    <2>7. QED
      BY <2>5, <2>6 DEF IsInjective
  <1>6. IdsOf(m, irs, role) = FlattenSeq(ss)
    BY DEF IdsOf
  <1> HIDE DEF ss, X
  <1>7. QED
    BY <1>3, <1>4, <1>5, <1>6, FlattenApart

\* The rules of some objects, each once though objects share it.
LEMMA RulesOfKeeps ==
  ASSUME NEW m \in MapSets, NEW I, NEW objects \in Seq(I)
  PROVE  /\ RulesOf(m, objects) \in Seq({r.id : r \in Range(m.ir)})
         /\ IsInjective(RulesOf(m, objects))
         /\ Range(RulesOf(m, objects)) = {r.id : r \in NamingAny(m, Range(objects))}
  <1> DEFINE ss == [i \in DOMAIN objects |-> RulesByObject(m, objects[i])]
             X == {r.id : r \in Range(m.ir)}
             By(o) == {r.id : r \in NamingOf(m, o)}
  <1>1. DOMAIN objects = 1 .. Len(objects) /\ Len(objects) \in Nat
    OBVIOUS
  <1>2. \A i \in DOMAIN objects : /\ RulesByObject(m, objects[i]) \in Seq(X)
                                  /\ Range(RulesByObject(m, objects[i])) = By(objects[i])
    BY RulesByKeeps
  <1>3. ss \in Seq(Seq(X)) /\ DOMAIN ss = DOMAIN objects
    <2> HIDE DEF X
    <2>1. QED
      BY <1>1, <1>2
  <1>4. \A i \in DOMAIN ss : Range(ss[i]) = By(objects[i])
    BY <1>2
  <1>5. RulesOf(m, objects) = Once(FlattenSeq(ss))
    BY DEF RulesOf
  <1> HIDE DEF ss
  <1>6. /\ FlattenSeq(ss) \in Seq(X)
        /\ Range(FlattenSeq(ss)) = UNION {Range(ss[i]) : i \in DOMAIN ss}
    <2> HIDE DEF X
    <2>1. QED
      BY <1>3, FlattenKeeps
  <1>7. UNION {Range(ss[i]) : i \in DOMAIN ss}
          = {r.id : r \in NamingAny(m, Range(objects))}
    <2>1. UNION {Range(ss[i]) : i \in DOMAIN ss} = UNION {By(objects[i]) : i \in DOMAIN objects}
      BY <1>3, <1>4
    <2>2. \A r : r \in NamingAny(m, Range(objects))
                   <=> \E i \in DOMAIN objects : r \in NamingOf(m, objects[i])
      BY DEF Range, NamingOf, NamingAny
    <2>3. ASSUME NEW x
          PROVE  x \in UNION {By(objects[i]) : i \in DOMAIN objects}
                   <=> x \in {r.id : r \in NamingAny(m, Range(objects))}
      <3>1. x \in UNION {By(objects[i]) : i \in DOMAIN objects}
              <=> \E i \in DOMAIN objects : \E r \in NamingOf(m, objects[i]) : x = r.id
        OBVIOUS
      <3>2. QED
        BY <2>2, <3>1
    <2>4. QED
      BY <2>1, <2>3
  <1>8. /\ RulesOf(m, objects) \in Seq(X) /\ IsInjective(RulesOf(m, objects))
        /\ Range(RulesOf(m, objects)) = Range(FlattenSeq(ss))
    <2> HIDE DEF X
    <2>1. QED
      BY <1>5, <1>6, OnceKeeps
  <1>9. QED
    BY <1>6, <1>7, <1>8

\* Drives ask about lights of their steps.
LightsInv ==
    /\ mapSet \in MapSets
    /\ DOMAIN pc = Drives /\ DOMAIN light = Drives
    /\ \A d \in Drives : pc[d] # "idle" => light[d] \in Lights
    /\ \A a \in answers : a.light \in Lights

\* LightsInv is inductive.
LEMMA LightsStep == LightsInv /\ [Next]_vars => LightsInv'
  <1> SUFFICES ASSUME LightsInv, [Next]_vars PROVE LightsInv'
    OBVIOUS
  <1>1. CASE Open \/ Finished \/ UNCHANGED vars
    BY <1>1 DEF Open, Finished, vars, givenVars, asking, history, LightsInv
  <1>2. ASSUME NEW d \in Drives, NEW l \in Lights, Ask(d, l), UNCHANGED <<mapSet, format>>
        PROVE  LightsInv'
    BY <1>2 DEF Ask, GoTo, LightsInv
  <1>3. ASSUME NEW d \in Drives, UNCHANGED <<mapSet, light, answers>>,
               TakeResolved(d) \/ BeginSearch(d) \/ Visit(d) \/ EndSearch(d)
        PROVE  LightsInv'
    <2>1. pc[d] # "idle" /\ DOMAIN pc' = Drives /\ \A e \in Drives \ {d} : pc'[e] = pc[e]
      BY <1>3 DEF TakeResolved, BeginSearch, Visit, EndSearch, MorePoints, Keep, GoTo, LightsInv
    <2>2. QED
      BY <1>3, <2>1 DEF LightsInv
  <1>4. ASSUME NEW d \in Drives, AnswerGiven(d) \/ AnswerConverted(d), UNCHANGED mapSet
        PROVE  LightsInv'
    <2>1. light[d] \in Lights
      BY <1>4 DEF AnswerGiven, AnswerConverted, LightsInv
    <2>2. UNCHANGED light /\ pc' = [pc EXCEPT ![d] = "idle"]
      BY <1>4 DEF AnswerGiven, AnswerConverted, GoTo
    <2>3. \A a \in answers' \ answers : a.light = light[d]
      <3>1. CASE AnswerGiven(d)
        BY <3>1 DEF AnswerGiven
      <3>2. CASE AnswerConverted(d)
        <4>1. StopLines(mapSet, format, light[d]).light = light[d]
          BY DEF StopLines
        <4>2. QED
          BY <3>2, <4>1 DEF AnswerConverted
      <3>3. QED
        BY <1>4, <3>1, <3>2
    <2>4. QED
      BY <1>4, <2>1, <2>2, <2>3 DEF LightsInv
  <1>5. ASSUME NEW d \in Drives, UNCHANGED <<mapSet, format, opened>>,
               Given /\ Resolve(d)
        PROVE  LightsInv'
    <2>1. CASE AnswerGiven(d)
      BY <1>4, <1>5, <2>1
    <2>2. CASE TakeResolved(d) \/ BeginSearch(d) \/ Visit(d) \/ EndSearch(d)
      <3>1. UNCHANGED <<light, answers>>
        BY <2>2 DEF TakeResolved, BeginSearch, Visit, EndSearch, history
      <3>2. QED
        BY <1>3, <1>5, <2>2, <3>1
    <2>3. QED
      BY <1>5, <2>1, <2>2 DEF Resolve
  <1>6. QED
    BY <1>1, <1>2, <1>4, <1>5 DEF Next

\* It holds throughout.
LEMMA LightsAlways == Spec => []LightsInv
  <1>1. Init => LightsInv
    BY DEF Init, GivenInit, LightsInv
  <1>2. QED
    BY <1>1, LightsStep, PTL DEF Spec

\* Over maps in which nothing else became what a light and its rules became, a light of
\* a converted set is answered with exactly what it was traced to, and nothing twice.
THEOREM TracesFollowed ==
  ASSUME \A m \in MapSets, l \in Lights : TracedOnce(m, l)
  PROVE  Spec => []TracedExactly
  <1>1. CacheInv /\ LightsInv => TracedExactly
    <2> SUFFICES ASSUME CacheInv, LightsInv, ~Given, NEW a \in answers
                 PROVE  /\ \A i \in DOMAIN a.laneIds :
                              Range(a.laneIds[i]) =
                                Became(a.light.onLanes[i],
                                       IF format = "lanelet2" THEN "lanelet" ELSE None)
                        /\ Range(a.lightIds) = Became(a.light.id, None)
                        /\ Range(a.ruleIds) =
                              {k.ref : k \in {k \in Range(mapSet.trace) :
                                 \E r \in Range(mapSet.ir) : \E o \in r.objects :
                                    /\ k.ir = r.id
                                    /\ [ref |-> a.light.id, ir |-> o] \in Range(mapSet.readTrace)}}
                        /\ IsInjective(a.ruleIds) /\ IsInjective(a.lightIds)
      BY DEF TracedExactly
    <2> DEFINE l == a.light
               objects == FromOpenDrive(mapSet, l.id)
               theirs == RulesOf(mapSet, objects)
    <2>1. a = StopLines(mapSet, format, l)
      BY DEF CacheInv, Answered
    <2>2. /\ a.laneIds = [i \in DOMAIN l.onLanes |->
                            IdsOf(mapSet, FromOpenDrive(mapSet, l.onLanes[i]), LaneRole(format))]
          /\ a.ruleIds = IdsOf(mapSet, theirs, None)
          /\ a.lightIds = IdsOf(mapSet, objects, None)
      <3> HIDE DEF l
      <3>1. QED
        BY <2>1 DEF StopLines
    <2>3. mapSet \in MapSets /\ l \in Lights
      BY DEF LightsInv
    <2>4. ASSUME NEW ref, NEW role
          PROVE  Range(IdsOf(mapSet, FromOpenDrive(mapSet, ref), role)) = Became(ref, role)
      <3> DEFINE became == {k.ir : k \in {k \in Range(mapSet.readTrace) : k.ref = ref}}
      <3>1. FromOpenDrive(mapSet, ref) \in Seq(became)
            /\ Range(FromOpenDrive(mapSet, ref)) = became
        BY <2>3, FromKeeps
      <3>2. \A ir : ir \in became <=> [ref |-> ref, ir |-> ir] \in Range(mapSet.readTrace)
        BY <2>3, Tables
      <3> HIDE DEF became
      <3>3. Range(IdsOf(mapSet, FromOpenDrive(mapSet, ref), role))
              = Refs(mapSet, became, role)
        BY <2>3, <3>1, IdsOfKeeps
      <3>4. QED
        BY <3>2, <3>3 DEF Became, Refs
    <2>5. \A i \in DOMAIN a.laneIds :
             Range(a.laneIds[i]) =
               Became(l.onLanes[i], IF format = "lanelet2" THEN "lanelet" ELSE None)
      <3> HIDE DEF l
      <3>1. QED
        BY <2>2, <2>4 DEF LaneRole
    <2>6. Range(a.lightIds) = Became(l.id, None)
      BY <2>2, <2>4
    <2> DEFINE became == {k.ir : k \in {k \in Range(mapSet.readTrace) : k.ref = l.id}}
               ruling == {r.id : r \in NamingAny(mapSet, became)}
    <2>7. objects \in Seq(became) /\ Range(objects) = became /\ IsInjective(objects)
      BY <2>3, FromKeeps
    <2>8. /\ theirs \in Seq({r.id : r \in Range(mapSet.ir)}) /\ IsInjective(theirs)
          /\ Range(theirs) = ruling
      <3> HIDE DEF objects, became
      <3>1. QED
        BY <2>3, <2>7, RulesOfKeeps
    <2>9. TracedApart(mapSet, became) /\ TracedApart(mapSet, ruling)
      BY <2>3 DEF TracedOnce
    <2>10. IsInjective(a.lightIds)
      <3> HIDE DEF objects, became
      <3>1. QED
        BY <2>2, <2>3, <2>7, <2>9, IdsApart
    <2>11. IsInjective(a.ruleIds)
      <3> HIDE DEF theirs, ruling
      <3>1. QED
        BY <2>2, <2>3, <2>8, <2>9, IdsApart
    <2>12. Range(a.ruleIds) = {k.ref : k \in {k \in Range(mapSet.trace) :
              \E r \in Range(mapSet.ir) : \E o \in r.objects :
                 /\ k.ir = r.id
                 /\ [ref |-> l.id, ir |-> o] \in Range(mapSet.readTrace)}}
      <3>1. Range(a.ruleIds) = Refs(mapSet, ruling, None)
        <4> HIDE DEF theirs, ruling
        <4>1. QED
          BY <2>2, <2>3, <2>8, IdsOfKeeps
      <3>2. \A ir : ir \in became <=> [ref |-> l.id, ir |-> ir] \in Range(mapSet.readTrace)
        BY <2>3, Tables
      <3>3. \A ir : ir \in ruling <=> \E r \in Range(mapSet.ir) : \E o \in r.objects :
                      ir = r.id /\ o \in became
        BY DEF NamingAny
      <3> HIDE DEF ruling, became, l
      <3>4. QED
        BY <3>1, <3>2, <3>3 DEF Refs
    <2>13. QED
      BY <2>5, <2>6, <2>10, <2>11, <2>12
  <1>2. Spec => []CacheInv
    BY CacheInit, CacheStep, PTL DEF Spec
  <1>3. QED
    BY <1>1, <1>2, LightsAlways, PTL

-----------------------------------------------------------------------------
(* Sequences and nets                                                      *)

\* s is a sequence.
IsSeq(s) == s \in Seq(Range(s))

\* Where a sequence is defined and what it holds.
LEMMA SeqFacts ==
  ASSUME NEW s, IsSeq(s)
  PROVE  /\ Len(s) \in Nat /\ DOMAIN s = 1 .. Len(s)
         /\ \A i \in 1 .. Len(s) : s[i] \in Range(s)
         /\ \A r \in Range(s) : \E i \in 1 .. Len(s) : r = s[i]
         /\ \A X : Range(s) \subseteq X => s \in Seq(X)
  <1>1. Len(s) \in Nat /\ DOMAIN s = 1 .. Len(s) /\ s \in [1 .. Len(s) -> Range(s)]
    BY DEF IsSeq
  <1>2. ASSUME NEW X, Range(s) \subseteq X PROVE s \in Seq(X)
    <2>1. s \in [1 .. Len(s) -> X]
      BY <1>1, <1>2
    <2>2. QED
      BY <1>1, <2>1
  <1>3. QED
    BY <1>1, <1>2 DEF Range

\* A sequence of elements of a set.
LEMMA SeqWithin ==
  ASSUME NEW X, NEW s \in Seq(X)
  PROVE  IsSeq(s) /\ Range(s) \subseteq X
  <1>1. Len(s) \in Nat /\ DOMAIN s = 1 .. Len(s) /\ s \in [1 .. Len(s) -> X]
    OBVIOUS
  <1>2. Range(s) \subseteq X
    BY <1>1 DEF Range
  <1>3. s \in [1 .. Len(s) -> Range(s)]
    BY <1>1 DEF Range
  <1>4. QED
    BY <1>1, <1>2, <1>3 DEF IsSeq

\* A sequence without a repetition is as long as its range is large.
LEMMA SeqSize ==
  ASSUME NEW s, IsSeq(s)
  PROVE  IsFiniteSet(Range(s)) /\ Cardinality(Range(s)) <= Len(s)
  <1>1. Len(s) \in Nat /\ s \in Surjection(1 .. Len(s), Range(s))
    BY SeqFacts DEF Surjection, IsSeq
  <1>2. ExistsSurjection(1 .. Len(s), Range(s))
    BY <1>1 DEF ExistsSurjection
  <1>3. IsFiniteSet(Range(s))
    BY <1>1, <1>2, FS_NatSurjection
  <1>4. QED
    BY <1>1, <1>2, <1>3, FS_SurjCardinalityBound

\* The empty sequence holds nothing.
LEMMA NoneInSeq ==
  ASSUME NEW s, s = <<>>
  PROVE  IsSeq(s) /\ Range(s) = {}
  <1>1. DOMAIN s = {} /\ s \in Seq({})
    OBVIOUS
  <1>2. Range(s) = {}
    BY <1>1 DEF Range
  <1>3. QED
    BY <1>1, <1>2 DEF IsSeq

\* Sequences in a row, whatever they hold,
LEMMA ConcatSeq ==
  ASSUME NEW s, NEW t, IsSeq(s), IsSeq(t)
  PROVE  IsSeq(s \o t) /\ Range(s \o t) = Range(s) \cup Range(t)
  <1> DEFINE X == Range(s) \cup Range(t)
  <1>1. s \in Seq(X) /\ t \in Seq(X)
    BY SeqFacts
  <1> HIDE DEF X
  <1>2. s \o t \in Seq(X) /\ Range(s \o t) = Range(s) \cup Range(t)
    BY <1>1, RangeOfConcat
  <1>3. QED
    BY <1>2, SeqWithin

\* each element once,
LEMMA OnceSeq ==
  ASSUME NEW s, IsSeq(s)
  PROVE  IsSeq(Once(s)) /\ Range(Once(s)) = Range(s)
  <1>1. Once(s) \in Seq(Range(s)) /\ Range(Once(s)) = Range(s)
    BY OnceKeeps DEF IsSeq
  <1>2. QED
    BY <1>1, SeqWithin

\* and those of a set.
LEMMA OnlySeq ==
  ASSUME NEW s, IsSeq(s), NEW S
  PROVE  IsSeq(Only(s, S)) /\ Range(Only(s, S)) = Range(s) \cap S
  <1>1. Only(s, S) \in Seq(Range(s)) /\ Range(Only(s, S)) = Range(s) \cap S
    BY OnlyKeeps DEF IsSeq
  <1>2. QED
    BY <1>1, SeqWithin

\* The head of a queue and the rest of it.
LEMMA TailSeq ==
  ASSUME NEW s, IsSeq(s), s # <<>>
  PROVE  Head(s) \in Range(s) /\ IsSeq(Tail(s)) /\ Range(Tail(s)) \subseteq Range(s)
  <1>1. s \in Seq(Range(s)) /\ Len(s) \in Nat /\ 1 \in DOMAIN s
    BY DEF IsSeq
  <1>2. Tail(s) \in Seq(Range(s)) /\ Head(s) = s[1]
    BY <1>1
  <1>3. QED
    BY <1>1, <1>2, SeqWithin DEF Range

\* What __init__ reads from a file: its lanelets, the rules and the successors of each.
Net(n) ==
    /\ IsSeq(n.ids)
    /\ \A l \in Range(n.ids) : /\ IsSeq(n.rules[l])
                               /\ IsSeq(n.successors[l])
                               /\ Range(n.successors[l]) \subseteq Range(n.ids)

\* What is read from a file is a net.
LEMMA ReadNet ==
  ASSUME NEW f, IsSeq(f.ids), \A l \in Range(f.ids) : IsSeq(f.elements[l])
  PROVE  Net(Read(f))
  <1> DEFINE n == Read(f)
             ids == Only(f.ids, {l \in Range(f.ids) : Readable(f, l)})
             bounds == [l \in Range(ids) |-> Bounds(f.ways[f.left[l]], f.ways[f.right[l]])]
             outline == [l \in Range(ids) |-> bounds[l].left \o Reverse(bounds[l].right)]
             end == [l \in Range(ids) |-> Middle(Last(bounds[l].left), Last(bounds[l].right))]
             in(cell) == Only(ids, {l \in Range(ids) : Cell(Start(outline[l])) = cell})
             near(l) == FlattenSeq([i \in DOMAIN CellsAround(end[l]) |->
                                      in(CellsAround(end[l])[i])])
             joined(l) == {o \in Range(ids) \ {l} :
                             SquaredDistance(Start(outline[o]), end[l]) < Square(Join)}
  <1>1. /\ n.ids = ids
        /\ n.rules = [l \in Range(ids) |-> Only(f.elements[l], DOMAIN f.lights)]
        /\ n.successors = [l \in Range(ids) |-> Only(near(l), joined(l))]
    BY DEF Read
  <1>2. IsSeq(ids) /\ Range(ids) \subseteq Range(f.ids)
    BY OnlySeq
  <1> HIDE DEF n, ids, joined
  <1>3. ASSUME NEW l \in Range(ids) PROVE IsSeq(n.rules[l])
    <2>1. IsSeq(f.elements[l]) /\ n.rules[l] = Only(f.elements[l], DOMAIN f.lights)
      BY <1>1, <1>2
    <2>2. QED
      BY <2>1, OnlySeq
  <1>4. ASSUME NEW l \in Range(ids)
        PROVE  IsSeq(n.successors[l]) /\ Range(n.successors[l]) \subseteq Range(ids)
    <2> DEFINE around == CellsAround(end[l])
               ss == [i \in DOMAIN around |-> in(around[i])]
    <2>1. DOMAIN around = 1 .. 9
      BY DEF CellsAround
    <2>2. \A cell : in(cell) \in Seq(Range(ids))
      BY <1>2, OnlyKeeps DEF IsSeq
    <2> HIDE DEF around, in
    <2>3. ss \in Seq(Seq(Range(ids)))
      BY <2>1, <2>2
    <2>4. near(l) = FlattenSeq(ss)
      BY DEF around
    <2> HIDE DEF ss, near
    <2>5. near(l) \in Seq(Range(ids))
      BY <2>3, <2>4, FlattenKeeps
    <2>6. IsSeq(near(l)) /\ Range(near(l)) \subseteq Range(ids)
      BY <2>5, SeqWithin
    <2>7. n.successors[l] = Only(near(l), joined(l))
      BY <1>1
    <2>8. QED
      BY <2>6, <2>7, OnlySeq
  <1>5. QED
    BY <1>1, <1>2, <1>3, <1>4 DEF Net, n

\* The lanelets at a point are lanelets of the net.
LEMMA LaneletsThere ==
  ASSUME NEW n, Net(n), NEW p
  PROVE  IsSeq(LaneletsAt(n, p)) /\ Range(LaneletsAt(n, p)) \subseteq Range(n.ids)
  <1>1. IsSeq(n.ids)
    BY DEF Net
  <1>2. QED
    BY <1>1, OnlySeq DEF LaneletsAt

-----------------------------------------------------------------------------
(* Ways from a point                                                       *)

\* One lanelet further, over a net n.
Onward(n, starts, w) ==
    {[to |-> o,
      metres |-> IF w.to \in starts THEN w.metres ELSE w.metres + n.length[w.to],
      hops |-> w.hops + 1] : o \in Range(n.successors[w.to])}

\* The ways one lanelet further than some.
Further(n, starts, ways) ==
    ways \cup UNION {{v \in Onward(n, starts, w) : v.metres <= LightSearch} :
                       w \in {v \in ways : v.to \in {l \in Range(n.ids) : n.rules[l] = <<>>}}}

\* f[k] are the ways over at most k lanelets.
WaysFrom(n, starts, m, f) ==
    f = [k \in 0 .. m |-> IF k = 0 THEN {[to |-> l, metres |-> 0, hops |-> 0] : l \in starts}
                          ELSE Further(n, starts, f[k - 1])]

\* The ways over any number of lanelets have such a table.
LEMMA WaysExist ==
  ASSUME NEW n, NEW starts, NEW m \in Nat
  PROVE  \E f : WaysFrom(n, starts, m, f)
  <1> DEFINE T == {k \in 0 .. m : \E f : WaysFrom(n, starts, k, f)}
             none == {[to |-> l, metres |-> 0, hops |-> 0] : l \in starts}
  <1>1. 0 \in T
    <2> DEFINE f == [k \in 0 .. 0 |-> none]
    <2>1. WaysFrom(n, starts, 0, f)
      BY DEF WaysFrom
    <2> HIDE DEF f
    <2>2. QED
      BY <2>1
  <1>2. ASSUME NEW k \in 0 .. m - 1, k \in T PROVE k + 1 \in T
    <2>1. PICK f : WaysFrom(n, starts, k, f)
      BY <1>2
    <2> DEFINE g == [i \in 0 .. k + 1 |-> IF i = k + 1 THEN Further(n, starts, f[k]) ELSE f[i]]
    <2>2. ASSUME NEW i \in 0 .. k + 1
          PROVE  g[i] = IF i = 0 THEN none ELSE Further(n, starts, g[i - 1])
      <3>1. CASE i = k + 1
        <4>1. i # 0 /\ i - 1 = k /\ k \in 0 .. k + 1 /\ k # k + 1
          BY <3>1
        <4>2. QED
          BY <3>1, <4>1
      <3>2. CASE i # k + 1
        <4>1. i \in 0 .. k /\ (i # 0 => i - 1 \in 0 .. k + 1 /\ i - 1 # k + 1)
          BY <3>2
        <4>2. f[i] = IF i = 0 THEN none ELSE Further(n, starts, f[i - 1])
          BY <2>1, <4>1 DEF WaysFrom
        <4>3. g[i] = f[i] /\ (i # 0 => g[i - 1] = f[i - 1])
          BY <3>2, <4>1
        <4>4. QED
          BY <4>2, <4>3
      <3>3. QED
        BY <3>1, <3>2
    <2>3. WaysFrom(n, starts, k + 1, g)
      BY <2>2 DEF WaysFrom
    <2> HIDE DEF g
    <2>4. k + 1 \in 0 .. m
      OBVIOUS
    <2>5. QED
      BY <2>3, <2>4
  <1>3. m \in T
    <2> HIDE DEF T
    <2>1. \A k \in 0 .. m - 1 : k \in T => k + 1 \in T
      BY <1>2
    <2>2. 0 .. m \subseteq T
      BY <1>1, <2>1, UpTo
    <2>3. QED
      BY <2>2
  <1>4. QED
    BY <1>3

\* The ways of the property.
LEMMA WaysAre ==
  ASSUME NEW starts, IsSeq(net.ids)
  PROVE  \E f : /\ WaysFrom(net, starts, Len(net.ids), f)
                /\ Ways(starts) = f[Len(net.ids)]
  <1>1. Len(net.ids) \in Nat
    BY SeqFacts
  <1>2. Ways(starts) = (CHOOSE f : WaysFrom(net, starts, Len(net.ids), f))[Len(net.ids)]
    BY DEF Ways, WaysFrom, Further, Onward, Unlit
  <1>3. QED
    BY <1>1, <1>2, WaysExist

\* Ways over fewer lanelets are among those over more.
LEMMA WaysGrow ==
  ASSUME NEW n, NEW starts, NEW m \in Nat, NEW f, WaysFrom(n, starts, m, f), NEW k \in 0 .. m
  PROVE  f[k] \subseteq f[m]
  <1> DEFINE T == {i \in 0 .. m : i >= k => f[k] \subseteq f[i]}
  <1>1. 0 \in T
    OBVIOUS
  <1>2. ASSUME NEW i \in 0 .. m - 1, i \in T PROVE i + 1 \in T
    <2>1. i + 1 \in 0 .. m /\ i + 1 # 0 /\ (i + 1) - 1 = i
      OBVIOUS
    <2>2. f[i + 1] = Further(n, starts, f[i])
      BY <2>1 DEF WaysFrom
    <2>3. f[i] \subseteq f[i + 1]
      BY <2>2 DEF Further
    <2>4. i + 1 >= k => i >= k \/ k = i + 1
      OBVIOUS
    <2>5. QED
      BY <1>2, <2>1, <2>3, <2>4
  <1>3. m \in T
    <2> HIDE DEF T
    <2>1. \A i \in 0 .. m - 1 : i \in T => i + 1 \in T
      BY <1>2
    <2>2. 0 .. m \subseteq T
      BY <1>1, <2>1, UpTo
    <2>3. QED
      BY <2>2
  <1>4. QED
    BY <1>3

\* A search from starts comes by ways over no more lanelets than it has seen, and has
\* found only what is on them.
OnItsWay(n, starts, s) ==
    /\ s = [queue |-> s.queue, start |-> starts, seen |-> s.seen, found |-> s.found]
    /\ s.seen \subseteq Range(n.ids) /\ IsSeq(s.queue) /\ IsSeq(s.found)
    /\ \A e \in Range(s.queue) : e[1] \in Range(n.ids)
    /\ \A f : WaysFrom(n, starts, Len(n.ids), f) =>
         /\ \A e \in Range(s.queue) :
              \E w \in f[Cardinality(s.seen)] : w.to = e[1] /\ w.metres = e[2]
         /\ \A r \in Range(s.found) :
              \E w \in f[Len(n.ids)] : r \in Range(n.rules[w.to])

\* A search has seen no more than all lanelets.
LEMMA SeenWithin ==
  ASSUME NEW n, Net(n), NEW seen, seen \subseteq Range(n.ids)
  PROVE  IsFiniteSet(seen) /\ Cardinality(seen) \in 0 .. Len(n.ids)
  <1>1. IsFiniteSet(Range(n.ids)) /\ Cardinality(Range(n.ids)) <= Len(n.ids) /\ Len(n.ids) \in Nat
    BY SeqSize, SeqFacts DEF Net
  <1>2. IsFiniteSet(seen) /\ Cardinality(seen) <= Cardinality(Range(n.ids))
    BY <1>1, FS_Subset
  <1>3. Cardinality(seen) \in Nat /\ Cardinality(Range(n.ids)) \in Nat
    BY <1>1, <1>2, FS_CardinalityType
  <1>4. QED
    BY <1>1, <1>2, <1>3

\* A turn of the search leaves it on its way.
LEMMA TurnKeepsWay ==
  ASSUME NEW n, Net(n), NEW starts, starts \subseteq Range(n.ids),
         NEW s, OnItsWay(n, starts, s), s.queue # <<>>
  PROVE  OnItsWay(n, starts, Turn(n, s))
  <1> DEFINE l == Head(s.queue)[1]
             travelled == Head(s.queue)[2]
             ahead == IF l \in s.start THEN travelled ELSE travelled + n.length[l]
             rest == Tail(s.queue)
             onward == IF ahead <= LightSearch
                       THEN [i \in DOMAIN n.successors[l] |-> <<n.successors[l][i], ahead>>]
                       ELSE <<>>
             N == Len(n.ids)
             k == Cardinality(s.seen)
  <1>0. /\ s = [queue |-> s.queue, start |-> s.start, seen |-> s.seen, found |-> s.found]
        /\ s.start = starts
    BY DEF OnItsWay
  <1>1. Head(s.queue) \in Range(s.queue) /\ IsSeq(rest) /\ Range(rest) \subseteq Range(s.queue)
    BY TailSeq DEF OnItsWay
  <1>2. k \in 0 .. N /\ IsFiniteSet(s.seen) /\ N \in Nat
    BY SeenWithin, SeqFacts DEF OnItsWay, Net
  <1>3. l \in Range(n.ids)
    BY <1>1 DEF OnItsWay
  <1>4. CASE l \in s.seen
    <2> DEFINE t == [queue |-> rest, start |-> starts, seen |-> s.seen, found |-> s.found]
    <2>1. Turn(n, s) = t
      BY <1>0, <1>4 DEF Turn
    <2> HIDE DEF rest, l
    <2>2. OnItsWay(n, starts, t)
      BY <1>1 DEF OnItsWay
    <2>3. QED
      BY <2>1, <2>2
  <1>5. CASE l \notin s.seen
    <2> DEFINE seen == s.seen \cup {l}
               found == Once(s.found \o n.rules[l])
               queue == IF n.rules[l] # <<>> THEN rest ELSE rest \o onward
               t == [queue |-> queue, start |-> starts, seen |-> seen, found |-> found]
    <2>1. Turn(n, s) = t
      BY <1>0, <1>5 DEF Turn
    <2>2. IsSeq(n.rules[l]) /\ IsSeq(n.successors[l]) /\ Range(n.successors[l]) \subseteq Range(n.ids)
      BY <1>3 DEF Net
    <2>3. IsSeq(found) /\ Range(found) = Range(s.found) \cup Range(n.rules[l])
      <3>1. IsSeq(s.found)
        BY DEF OnItsWay
      <3> HIDE DEF l
      <3>2. QED
        BY <2>2, <3>1, ConcatSeq, OnceSeq
    <2>4. Cardinality(seen) = k + 1 /\ k + 1 \in 0 .. N /\ seen \subseteq Range(n.ids)
      <3>1. seen \subseteq Range(n.ids)
        BY <1>3 DEF OnItsWay
      <3>2. Cardinality(seen) = k + 1
        BY <1>2, <1>5, FS_AddElement
      <3> HIDE DEF seen
      <3>3. QED
        BY <3>1, <3>2, SeenWithin
    <2>5. /\ IsSeq(onward)
          /\ \A e \in Range(onward) :
                /\ ahead <= LightSearch
                /\ \E o \in Range(n.successors[l]) : e = <<o, ahead>>
      <3> HIDE DEF l, ahead
      <3>1. CASE ahead <= LightSearch
        <4> DEFINE succ == n.successors[l]
        <4>1. onward = [i \in 1 .. Len(succ) |-> <<succ[i], ahead>>] /\ Len(succ) \in Nat
          BY <2>2, <3>1, SeqFacts
        <4>2. \A i \in 1 .. Len(succ) : succ[i] \in Range(succ)
          BY <2>2, SeqFacts
        <4> HIDE DEF succ, onward
        <4>3. onward \in Seq(Range(succ) \X {ahead})
          BY <4>1, <4>2
        <4>4. IsSeq(onward) /\ Range(onward) \subseteq Range(succ) \X {ahead}
          BY <4>3, SeqWithin
        <4>5. QED
          BY <3>1, <4>4 DEF succ
      <3>2. CASE ~(ahead <= LightSearch)
        <4>1. onward = <<>>
          BY <3>2
        <4> HIDE DEF onward
        <4>2. IsSeq(onward) /\ Range(onward) = {}
          BY <4>1, NoneInSeq
        <4>3. QED
          BY <4>2
      <3>3. QED
        BY <3>1, <3>2
    <2>6. /\ IsSeq(queue)
          /\ \A e \in Range(queue) :
                e \in Range(s.queue) \/ (e \in Range(onward) /\ n.rules[l] = <<>>)
      <3> HIDE DEF onward, rest, l
      <3>1. IsSeq(rest \o onward) /\ Range(rest \o onward) = Range(rest) \cup Range(onward)
        BY <1>1, <2>5, ConcatSeq
      <3>2. CASE n.rules[l] # <<>>
        <4>1. queue = rest
          BY <3>2
        <4> HIDE DEF queue
        <4>2. QED
          BY <1>1, <4>1
      <3>3. CASE n.rules[l] = <<>>
        <4>1. queue = rest \o onward
          BY <3>3
        <4> HIDE DEF queue
        <4>2. QED
          BY <1>1, <3>1, <3>3, <4>1
      <3>4. QED
        BY <3>2, <3>3
    <2>7. \A e \in Range(queue) : e[1] \in Range(n.ids)
      <3> HIDE DEF queue, onward, l, ahead
      <3>1. QED
        BY <2>2, <2>5, <2>6 DEF OnItsWay
    <2>8. ASSUME NEW f, WaysFrom(n, starts, N, f)
          PROVE  /\ \A e \in Range(queue) : \E w \in f[k + 1] : w.to = e[1] /\ w.metres = e[2]
                 /\ \A r \in Range(found) : \E w \in f[N] : r \in Range(n.rules[w.to])
      <3>1. f[k + 1] = Further(n, starts, f[k])
        <4>1. k + 1 # 0 /\ (k + 1) - 1 = k
          BY <1>2
        <4> HIDE DEF k, N
        <4>2. QED
          BY <2>4, <2>8, <4>1 DEF WaysFrom
      <3>2. PICK u \in f[k] : u.to = l /\ u.metres = travelled
        BY <1>1, <2>8 DEF OnItsWay
      <3>3. ASSUME NEW e \in Range(queue) PROVE \E w \in f[k + 1] : w.to = e[1] /\ w.metres = e[2]
        <4>1. CASE e \in Range(s.queue)
          <5>1. PICK w \in f[k] : w.to = e[1] /\ w.metres = e[2]
            BY <2>8, <4>1 DEF OnItsWay
          <5>2. QED
            BY <3>1, <5>1 DEF Further
        <4>2. CASE e \in Range(onward) /\ n.rules[l] = <<>>
          <5>1. ahead <= LightSearch
            BY <2>5, <4>2
          <5>2. PICK o \in Range(n.successors[l]) : e = <<o, ahead>>
            BY <2>5, <4>2
          <5> DEFINE v == [to |-> o, metres |-> ahead, hops |-> u.hops + 1]
          <5>3. ahead = IF u.to \in starts THEN u.metres ELSE u.metres + n.length[u.to]
            BY <1>0, <3>2
          <5>4. v \in Onward(n, starts, u)
            BY <3>2, <5>2, <5>3 DEF Onward
          <5> HIDE DEF ahead, l
          <5>5. v \in Further(n, starts, f[k])
            BY <1>3, <3>2, <4>2, <5>1, <5>4 DEF Further
          <5>6. QED
            BY <3>1, <5>2, <5>5
        <4>3. QED
          BY <2>6, <4>1, <4>2
      <3>4. ASSUME NEW r \in Range(found) PROVE \E w \in f[N] : r \in Range(n.rules[w.to])
        <4>1. CASE r \in Range(s.found)
          BY <2>8, <4>1 DEF OnItsWay
        <4>2. CASE r \in Range(n.rules[l])
          <5>1. f[k] \subseteq f[N]
            BY <1>2, <2>8, WaysGrow
          <5>2. QED
            BY <3>2, <4>2, <5>1
        <4>3. QED
          BY <2>3, <4>1, <4>2
      <3>5. QED
        BY <3>3, <3>4
    <2> HIDE DEF queue, found, seen
    <2>9. OnItsWay(n, starts, t)
      BY <2>3, <2>4, <2>6, <2>7, <2>8 DEF OnItsWay
    <2>10. QED
      BY <2>1, <2>9
  <1>6. QED
    BY <1>4, <1>5

\* The rules found ahead of a point are all on ways from its lanelets.
AheadOf(n, starts, ahead) ==
    \A f : WaysFrom(n, starts, Len(n.ids), f) =>
        \A r \in Range(ahead) : \E w \in f[Len(n.ids)] : r \in Range(n.rules[w.to])

\* The lanelets a point lies on.
Here(p) == Range(LaneletsAt(net, p))

\* A search under way is on its way from the lanelets of its point.
Searching(d) == pc[d] = "search" => OnItsWay(net, Here(Point(d)), search[d])

\* All that is searched or cached comes from ways ahead of its point.
AheadInv ==
    /\ DriveTables /\ Net(net)
    /\ \A p \in DOMAIN setOrder : IsSeq(setOrder[p]) /\ Range(setOrder[p]) \subseteq Here(p)
    /\ \A d \in Drives : Searching(d)
    /\ \A p \in DOMAIN resolved : AheadOf(net, Range(resolved[p].lanes), resolved[p].ahead)

\* No search is under way at first.
LEMMA AheadInit == Init => AheadInv
  <1> SUFFICES ASSUME Init PROVE AheadInv
    OBVIOUS
  <1>1. DriveTables /\ \A d \in Drives : pc[d] = "idle"
    BY DEF Init, GivenInit, DriveTables
  <1>2. Net(net)
    <2>1. mapSet \in MapSets /\ file = mapSet.file /\ net = Read(file)
      BY DEF Init, GivenInit
    <2>2. IsSeq(file.ids) /\ \A l \in Range(file.ids) : IsSeq(file.elements[l])
      BY <2>1, FilesAssumption DEF FilesAssumption, IsSeq
    <2>3. QED
      BY <2>1, <2>2, ReadNet
  <1>3. DOMAIN setOrder = {} /\ DOMAIN resolved = {}
    <2>1. resolved = <<>> /\ setOrder = <<>>
      BY DEF Init, GivenInit
    <2>2. QED
      BY <2>1
  <1>4. QED
    BY <1>1, <1>2, <1>3 DEF AheadInv, Searching

\* A search begins at the point's own lanelets, in some order.
LEMMA BegunOnItsWay ==
  ASSUME NEW n, Net(n), NEW starts, starts \subseteq Range(n.ids), NEW order, IsSeq(order),
         Range(order) \subseteq starts
  PROVE  OnItsWay(n, starts, [queue |-> [i \in DOMAIN order |-> <<order[i], 0>>],
                              start |-> starts, seen |-> {}, found |-> <<>>])
  <1> DEFINE queue == [i \in DOMAIN order |-> <<order[i], 0>>]
             s == [queue |-> queue, start |-> starts, seen |-> {}, found |-> <<>>]
  <1>1. IsSeq(queue) /\ Range(queue) \subseteq starts \X {0}
    <2>1. queue = [i \in 1 .. Len(order) |-> <<order[i], 0>>] /\ Len(order) \in Nat
      BY SeqFacts
    <2>2. \A i \in 1 .. Len(order) : order[i] \in starts
      BY SeqFacts
    <2> HIDE DEF queue
    <2>3. queue \in Seq(starts \X {0})
      BY <2>1, <2>2
    <2>4. QED
      BY <2>3, SeqWithin
  <1> HIDE DEF queue
  <1>2. IsSeq(s.found) /\ Range(s.found) = {}
    BY NoneInSeq
  <1>3. \A e \in Range(s.queue) : e[1] \in Range(n.ids)
    BY <1>1
  <1>4. Cardinality({}) = 0
    BY FS_EmptySet
  <1>5. ASSUME NEW f, WaysFrom(n, starts, Len(n.ids), f), NEW e \in Range(s.queue)
        PROVE  \E w \in f[Cardinality(s.seen)] : w.to = e[1] /\ w.metres = e[2]
    <2>1. 0 \in 0 .. Len(n.ids)
      BY SeqFacts DEF Net
    <2>2. f[0] = {[to |-> l, metres |-> 0, hops |-> 0] : l \in starts}
      BY <1>5, <2>1 DEF WaysFrom
    <2>3. PICK l \in starts : e = <<l, 0>>
      BY <1>1, <1>5
    <2>4. [to |-> l, metres |-> 0, hops |-> 0] \in f[0]
      BY <2>2
    <2>5. QED
      BY <1>4, <2>3, <2>4
  <1>6. /\ s = [queue |-> s.queue, start |-> starts, seen |-> s.seen, found |-> s.found]
        /\ s.seen = {} /\ s.queue = queue
    OBVIOUS
  <1> HIDE DEF s
  <1>7. OnItsWay(n, starts, s)
    BY <1>1, <1>2, <1>3, <1>5, <1>6 DEF OnItsWay
  <1>8. QED
    BY <1>7 DEF s, queue

\* It is enough to look at the drive that steps, at the order and at the entry it makes.
LEMMA AheadKeeps ==
  ASSUME AheadInv, DriveTables', UNCHANGED net, NEW d \in Drives,
         \A e \in Drives \ {d} : UNCHANGED StateOf(e), Searching(d)',
         \A p \in DOMAIN setOrder' : \/ p \in DOMAIN setOrder /\ setOrder'[p] = setOrder[p]
                                     \/ IsSeq(setOrder'[p]) /\ Range(setOrder'[p]) \subseteq Here(p),
         \A p \in DOMAIN resolved' :
            \/ p \in DOMAIN resolved /\ resolved'[p] = resolved[p]
            \/ AheadOf(net, Range(resolved'[p].lanes), resolved'[p].ahead)
  PROVE  AheadInv'
  <1>1. \A p : Here(p)' = Here(p)
    BY DEF Here
  <1>2. ASSUME NEW e \in Drives \ {d} PROVE Searching(e)'
    <2>1. Searching(e) /\ UNCHANGED <<pc[e], light[e], at[e], search[e]>>
      BY <1>2 DEF AheadInv, StateOf
    <2>2. Point(e)' = Point(e)
      BY <2>1 DEF Point
    <2>3. Here(Point(e))' = Here(Point(e))
      BY <2>2 DEF Here
    <2>4. QED
      BY <2>1, <2>3 DEF Searching
  <1>3. (\A p \in DOMAIN setOrder : IsSeq(setOrder[p]) /\ Range(setOrder[p]) \subseteq Here(p))'
    BY <1>1 DEF AheadInv
  <1>4. (\A p \in DOMAIN resolved : AheadOf(net, Range(resolved[p].lanes), resolved[p].ahead))'
    BY DEF AheadInv
  <1>5. QED
    BY <1>2, <1>3, <1>4 DEF AheadInv

\* AheadInv is inductive.
LEMMA AheadStep == AheadInv /\ [Next]_vars => AheadInv'
  <1> SUFFICES ASSUME AheadInv, [Next]_vars PROVE AheadInv'
    OBVIOUS
  <1>1. CASE Open \/ Finished \/ UNCHANGED vars
    <2>1. UNCHANGED givenVars
      BY <1>1 DEF Open, Finished, vars
    <2>2. UNCHANGED <<net, resolved, setOrder, pc, light, at, search, rules, lanes>>
      BY <2>1 DEF givenVars, map, cache, asking
    <2>3. QED
      BY <2>2 DEF AheadInv, DriveTables, Searching, Point, Here
  <1>2. ASSUME NEW d \in Drives, pc'[d] # "search", UNCHANGED <<net, resolved, setOrder>>,
               DriveTables', \A e \in Drives \ {d} : UNCHANGED StateOf(e)
        PROVE  AheadInv'
    BY <1>2, AheadKeeps DEF Searching
  <1>3. ASSUME NEW d \in Drives, NEW l \in Lights, Ask(d, l) PROVE AheadInv'
    <2>1. pc'[d] = "points" /\ UNCHANGED <<net, resolved, setOrder>> /\ DriveTables'
          /\ \A e \in Drives \ {d} : UNCHANGED StateOf(e)
      BY <1>3 DEF Ask, GoTo, map, cache, DriveTables, AheadInv, StateOf
    <2>2. QED
      BY <1>2, <2>1
  <1>4. ASSUME NEW d \in Drives, TakeResolved(d) PROVE AheadInv'
    <2>1. pc'[d] = "points" /\ UNCHANGED <<net, resolved, setOrder>> /\ DriveTables'
          /\ \A e \in Drives \ {d} : UNCHANGED StateOf(e)
      BY <1>4 DEF TakeResolved, Keep, GoTo, map, cache, DriveTables, AheadInv, StateOf
    <2>2. QED
      BY <1>2, <2>1
  <1>5. ASSUME NEW d \in Drives, AnswerGiven(d) \/ AnswerConverted(d) PROVE AheadInv'
    <2>1. pc'[d] = "idle" /\ UNCHANGED <<net, resolved, setOrder>> /\ DriveTables'
          /\ \A e \in Drives \ {d} : UNCHANGED StateOf(e)
      BY <1>5 DEF AnswerGiven, AnswerConverted, GoTo, map, cache, DriveTables, AheadInv, StateOf
    <2>2. QED
      BY <1>2, <2>1
  <1>6. ASSUME NEW d \in Drives, BeginSearch(d) PROVE AheadInv'
    <2> DEFINE p == Point(d)
               here == Range(LaneletsAt(net, p))
               Begun(order) == [queue |-> [i \in DOMAIN order |-> <<order[i], 0>>],
                                start |-> here, seen |-> {}, found |-> <<>>]
    <2>1. PICK order \in IF p \in DOMAIN setOrder THEN {setOrder[p]} ELSE SetToSeqs(here) :
             /\ setOrder' = With(setOrder, p, order)
             /\ search' = [search EXCEPT ![d] = Begun(order)]
      BY <1>6 DEF BeginSearch
    <2>2. /\ UNCHANGED <<net, resolved, light, at, rules, lanes>>
          /\ pc' = [pc EXCEPT ![d] = "search"]
      BY <1>6 DEF BeginSearch, map, GoTo, Reserve
    <2>3. here = Here(p) /\ here \subseteq Range(net.ids) /\ IsFiniteSet(here)
      <3>1. IsSeq(LaneletsAt(net, p)) /\ here \subseteq Range(net.ids)
        BY LaneletsThere DEF AheadInv
      <3>2. QED
        BY <3>1, SeqSize DEF Here
    <2>4. IsSeq(order) /\ Range(order) \subseteq here
      <3>1. CASE p \in DOMAIN setOrder
        BY <2>1, <2>3, <3>1 DEF AheadInv
      <3>2. CASE p \notin DOMAIN setOrder
        <4> HIDE DEF here
        <4>1. order \in [1 .. Cardinality(here) -> here] /\ Cardinality(here) \in Nat
          BY <2>1, <2>3, <3>2, FS_CardinalityType DEF SetToSeqs
        <4>2. order \in Seq(here)
          BY <4>1
        <4>3. QED
          BY <4>2, SeqWithin
      <3>3. QED
        BY <3>1, <3>2
    <2>5. search'[d] = Begun(order)
      BY <2>1 DEF AheadInv, DriveTables
    <2>6. OnItsWay(net, here, search'[d])
      <3> HIDE DEF here
      <3>1. QED
        BY <2>3, <2>4, <2>5, BegunOnItsWay DEF AheadInv
    <2>7. Searching(d)'
      <3>1. Point(d)' = p
        BY <2>2 DEF Point
      <3>2. Here(Point(d))' = here
        BY <2>2, <3>1 DEF Here
      <3>3. QED
        BY <2>2, <2>6, <3>2 DEF Searching
    <2>8. \A q \in DOMAIN setOrder' : \/ q \in DOMAIN setOrder /\ setOrder'[q] = setOrder[q]
                                      \/ /\ IsSeq(setOrder'[q])
                                         /\ Range(setOrder'[q]) \subseteq Here(q)
      <3>1. \A q \in DOMAIN setOrder' : \/ q = p /\ setOrder'[q] = order
                                        \/ q \in DOMAIN setOrder /\ setOrder'[q] = setOrder[q]
        BY <2>1 DEF With
      <3>2. QED
        BY <2>3, <2>4, <3>1
    <2>9. DriveTables' /\ \A e \in Drives \ {d} : UNCHANGED StateOf(e)
      BY <2>1, <2>2 DEF DriveTables, AheadInv, StateOf
    <2>10. QED
      BY <2>2, <2>7, <2>8, <2>9, AheadKeeps
  <1>7. ASSUME NEW d \in Drives, Visit(d) PROVE AheadInv'
    <2>1. /\ search[d].queue # <<>> /\ pc[d] = "search"
          /\ UNCHANGED <<net, setOrder, resolved, pc, light, at, rules, lanes>>
      BY <1>7 DEF Visit, map, cache
    <2>2. search'[d] = Turn(net, search[d])
      BY <1>7 DEF Visit, Turn, Ahead, Stops, Lanelet, Travelled, AheadInv, DriveTables
    <2>3. OnItsWay(net, Here(Point(d)), search[d]) /\ Net(net)
      BY <2>1 DEF AheadInv, Searching
    <2>4. Here(Point(d)) \subseteq Range(net.ids)
      BY <2>3, LaneletsThere DEF Here
    <2>5. OnItsWay(net, Here(Point(d)), search'[d])
      BY <2>1, <2>2, <2>3, <2>4, TurnKeepsWay
    <2>6. Searching(d)'
      <3>1. Point(d)' = Point(d)
        BY <2>1 DEF Point
      <3>2. Here(Point(d))' = Here(Point(d))
        BY <2>1, <3>1 DEF Here
      <3>3. QED
        BY <2>1, <2>5, <3>2 DEF Searching
    <2>7. DriveTables' /\ \A e \in Drives \ {d} : UNCHANGED StateOf(e)
      BY <1>7, <2>1 DEF Visit, AheadInv, DriveTables, StateOf
    <2>8. QED
      BY <2>1, <2>6, <2>7, AheadKeeps
  <1>8. ASSUME NEW d \in Drives, EndSearch(d) PROVE AheadInv'
    <2> DEFINE p == Point(d)
               answer == [lanes |-> LaneletsAt(net, p), ahead |-> search[d].found]
    <2>1. /\ UNCHANGED <<net, setOrder, light>> /\ pc[d] = "search"
          /\ resolved' = With(resolved, p, answer)
      BY <1>8 DEF EndSearch, map
    <2>2. DriveTables' /\ pc'[d] = "points" /\ \A e \in Drives \ {d} : UNCHANGED StateOf(e)
      BY <1>8 DEF EndSearch, Keep, GoTo, AheadInv, DriveTables, StateOf
    <2>3. AheadOf(net, Here(p), search[d].found)
      BY <2>1 DEF AheadInv, Searching, OnItsWay, AheadOf
    <2>4. \A q \in DOMAIN resolved' : \/ q \in DOMAIN resolved /\ resolved'[q] = resolved[q]
                                      \/ resolved'[q] = answer
      BY <2>1 DEF With
    <2>5. AheadOf(net, Range(answer.lanes), answer.ahead)
      BY <2>3 DEF Here
    <2> HIDE DEF answer
    <2>6. QED
      BY <2>1, <2>2, <2>4, <2>5, AheadKeeps DEF Searching
  <1>9. QED
    BY <1>1, <1>3, <1>4, <1>5, <1>6, <1>7, <1>8 DEF Next, Resolve

\* On every map, for a point anywhere, and however the searches of drives interleave on
\* the cache they share, a point's rules are those of lights on it or ahead of it within
\* the search, none of them behind another light.
THEOREM SearchStops == Spec => []OnlyLightsAhead
  <1>1. AheadInv => OnlyLightsAhead
    <2> SUFFICES ASSUME AheadInv, NEW p \in DOMAIN resolved, NEW r \in Range(resolved[p].ahead)
                 PROVE  \E w \in Ways(Range(resolved[p].lanes)) : r \in Range(net.rules[w.to])
      BY DEF OnlyLightsAhead
    <2>1. PICK f : /\ WaysFrom(net, Range(resolved[p].lanes), Len(net.ids), f)
                   /\ Ways(Range(resolved[p].lanes)) = f[Len(net.ids)]
      BY WaysAre DEF AheadInv, Net
    <2>2. AheadOf(net, Range(resolved[p].lanes), resolved[p].ahead)
      BY DEF AheadInv
    <2>3. QED
      BY <2>1, <2>2 DEF AheadOf
  <1>2. Spec => []AheadInv
    BY AheadInit, AheadStep, PTL DEF Spec
  <1>3. QED
    BY <1>1, <1>2, PTL

-----------------------------------------------------------------------------
(* The grid the successors of a lanelet are found through                  *)

\* A file that can be read: lists of lanelets, each once, with their bounds over points.
Points == Seq(Int \X Int) \ {<<>>}

\* A file as FilesAssumption has it.
FileOf(f) ==
    /\ IsSeq(f.ids) /\ IsInjective(f.ids)
    /\ \A l \in Range(f.ids) :
          /\ IsSeq(f.elements[l])
          /\ f.ways[f.left[l]] # None => f.ways[f.left[l]] \in Points
          /\ f.ways[f.right[l]] # None => f.ways[f.right[l]] \in Points

\* The files of the map sets are such files.
LEMMA FilesRead == \A m \in MapSets : FileOf(m.file)
  BY FilesAssumption DEF FilesAssumption, FileOf, Points, IsSeq

\* A way written back is a way.
LEMMA BackWritten ==
  ASSUME NEW s \in Points
  PROVE  Reverse(s) \in Points
  <1>1. s \in Seq(Int \X Int) /\ Len(s) \in Nat /\ Len(s) # 0 /\ DOMAIN s = 1 .. Len(s)
    BY DEF Points
  <1> DEFINE n == Len(s)
             r == [i \in 1 .. n |-> s[(n - i) + 1]]
  <1>2. \A i \in 1 .. n : (n - i) + 1 \in 1 .. n
    BY <1>1
  <1>3. \A i \in 1 .. n : s[(n - i) + 1] \in Int \X Int
    BY <1>1, <1>2
  <1>4. r \in Seq(Int \X Int) /\ Len(r) = n
    <2> HIDE DEF n
    <2>1. QED
      BY <1>1, <1>3 DEF n
  <1>5. Reverse(s) = r
    BY DEF Reverse
  <1> HIDE DEF r
  <1>6. r # <<>>
    BY <1>1, <1>4
  <1>7. QED
    BY <1>4, <1>5, <1>6 DEF Points

\* The bounds of a lanelet, put the way it runs, are still over points.
LEMMA BoundsDrawn ==
  ASSUME NEW left \in Points, NEW right \in Points
  PROVE  Bounds(left, right).left \in Points /\ Bounds(left, right).right \in Points
  <1>1. AlongLeft(left, right) \in Points
    BY BackWritten DEF AlongLeft
  <1>2. \/ Bounds(left, right) = [left |-> left, right |-> AlongLeft(left, right)]
        \/ Bounds(left, right) = [left |-> Reverse(left),
                                  right |-> Reverse(AlongLeft(left, right))]
    BY DEF Bounds
  <1>3. QED
    BY <1>1, <1>2, BackWritten

\* Its ends are points,
LEMMA EndsDrawn ==
  ASSUME NEW s \in Points
  PROVE  Head(s) \in Int \X Int /\ Last(s) \in Int \X Int
  <1>1. s \in Seq(Int \X Int) /\ Len(s) \in Nat /\ Len(s) # 0 /\ s # <<>>
    BY DEF Points
  <1>2. 1 \in DOMAIN s /\ Len(s) \in DOMAIN s /\ Head(s) = s[1]
    BY <1>1
  <1>3. QED
    BY <1>1, <1>2 DEF Last

\* and so is what lies between two of them.
LEMMA MiddleDrawn ==
  ASSUME NEW p \in Int \X Int, NEW q \in Int \X Int
  PROVE  Middle(p, q) \in Int \X Int
  BY DEF Middle

\* A lanelet starts and ends at points.
Drawn(n) == \A l \in Range(n.ids) : Start(n.outline[l]) \in Int \X Int /\ n.end[l] \in Int \X Int

\* A cell of the grid.
In(n, cell) == Only(n.ids, {l \in Range(n.ids) : Cell(Start(n.outline[l])) = cell})

\* The lanelets that start in the cells around a point.
Near(n, p) == FlattenSeq([i \in DOMAIN CellsAround(p) |-> In(n, CellsAround(p)[i])])

\* A lanelet's successors are, of the lanelets near its end, those that start at it.
Joined(n) ==
    \A l \in Range(n.ids) :
        n.successors[l] = Only(Near(n, n.end[l]),
                               {o \in Range(n.ids) \ {l} :
                                  SquaredDistance(Start(n.outline[o]), n.end[l]) < Square(Join)})

\* What repeats nothing does not when some of it is kept.
LEMMA OnlyOnce ==
  ASSUME NEW s, IsSeq(s), IsInjective(s), NEW S
  PROVE  IsInjective(Only(s, S))
  <1> DEFINE t == Only(s, S)
             R == {xy \in Range(s) \X Range(s) : xy[1] # xy[2]}
  <1>1. s \in Seq(Range(s)) /\ Len(s) \in Nat /\ DOMAIN s = 1 .. Len(s)
    BY SeqFacts DEF IsSeq
  <1>2. ASSUME NEW i \in 1 .. Len(s), NEW j \in 1 .. Len(s), i < j
        PROVE  <<s[i], s[j]>> \in R
    <2>1. s[i] \in Range(s) /\ s[j] \in Range(s)
      BY SeqFacts
    <2>2. i # j
      BY <1>2
    <2>3. s[i] # s[j]
      BY <1>1, <2>2 DEF IsInjective
    <2>4. QED
      BY <2>1, <2>3
  <1>3. \A i, j \in 1 .. Len(t) : i < j => <<t[i], t[j]>> \in R
    <2> HIDE DEF R
    <2>1. QED
      BY <1>1, <1>2, OnlyApart
  <1>4. t \in Seq(Range(s))
    BY <1>1, OnlyKeeps
  <1> HIDE DEF t
  <1>5. ASSUME NEW i \in DOMAIN t, NEW j \in DOMAIN t, t[i] = t[j]
        PROVE  i = j
    <2>1. i \in 1 .. Len(t) /\ j \in 1 .. Len(t) /\ Len(t) \in Nat
      BY <1>4
    <2>2. ~(i < j) /\ ~(j < i)
      BY <1>3, <1>5, <2>1
    <2>3. QED
      BY <2>1, <2>2
  <1>6. QED
    BY <1>5 DEF IsInjective, t

\* What is read from a file is drawn, joined through the grid, and names a lanelet once.
LEMMA ReadDrawn ==
  ASSUME NEW f, FileOf(f)
  PROVE  Drawn(Read(f)) /\ Joined(Read(f)) /\ IsInjective(Read(f).ids)
  <1> DEFINE n == Read(f)
             ids == Only(f.ids, {l \in Range(f.ids) : Readable(f, l)})
             bounds == [l \in Range(ids) |-> Bounds(f.ways[f.left[l]], f.ways[f.right[l]])]
             outline == [l \in Range(ids) |-> bounds[l].left \o Reverse(bounds[l].right)]
             end == [l \in Range(ids) |-> Middle(Last(bounds[l].left), Last(bounds[l].right))]
             in(cell) == Only(ids, {l \in Range(ids) : Cell(Start(outline[l])) = cell})
             near(l) == FlattenSeq([i \in DOMAIN CellsAround(end[l]) |->
                                      in(CellsAround(end[l])[i])])
  <1>1. /\ n.ids = ids /\ n.outline = outline /\ n.end = end
        /\ n.successors = [l \in Range(ids) |->
                             Only(near(l), {o \in Range(ids) \ {l} :
                                SquaredDistance(Start(outline[o]), end[l]) < Square(Join)})]
    BY DEF Read
  <1>2. Range(ids) = {l \in Range(f.ids) : Readable(f, l)}
    BY OnlySeq DEF FileOf
  <1>3. ASSUME NEW l \in Range(ids)
        PROVE  bounds[l].left \in Points /\ bounds[l].right \in Points
    <2>1. f.ways[f.left[l]] \in Points /\ f.ways[f.right[l]] \in Points
      BY <1>2 DEF FileOf, Readable
    <2>2. bounds[l] = Bounds(f.ways[f.left[l]], f.ways[f.right[l]])
      OBVIOUS
    <2>3. QED
      BY <2>1, <2>2, BoundsDrawn
  <1> HIDE DEF ids, bounds
  <1>4. ASSUME NEW l \in Range(ids)
        PROVE  Start(outline[l]) \in Int \X Int /\ end[l] \in Int \X Int
    <2> DEFINE right == Reverse(bounds[l].right)
    <2>1. bounds[l].left \in Points /\ right \in Points /\ bounds[l].right \in Points
      BY <1>3, BackWritten
    <2>2. outline[l] = bounds[l].left \o right
          /\ end[l] = Middle(Last(bounds[l].left), Last(bounds[l].right))
      OBVIOUS
    <2> HIDE DEF right, outline, end
    <2>3. outline[l] \in Points
      BY <2>1, <2>2 DEF Points
    <2>4. Head(outline[l]) \in Int \X Int /\ Last(outline[l]) \in Int \X Int
      BY <2>3, EndsDrawn
    <2>5. Last(bounds[l].left) \in Int \X Int /\ Last(bounds[l].right) \in Int \X Int
      BY <2>1, EndsDrawn
    <2>6. QED
      BY <2>2, <2>4, <2>5, MiddleDrawn DEF Start
  <1>5. Drawn(n)
    <2> HIDE DEF n, outline, end
    <2>1. QED
      BY <1>1, <1>4 DEF Drawn
  <1>6. IsInjective(ids)
    BY OnlyOnce DEF FileOf, ids
  <1>7. Joined(n)
    <2>1. ASSUME NEW l \in Range(ids) PROVE near(l) = Near(n, n.end[l])
      <3>1. \A cell : In(n, cell) = in(cell)
        BY <1>1 DEF In
      <3> HIDE DEF in
      <3>2. QED
        BY <1>1, <3>1 DEF Near
    <2> HIDE DEF n, near
    <2>2. QED
      BY <1>1, <2>1 DEF Joined
  <1>8. QED
    BY <1>1, <1>5, <1>6, <1>7

\* A point within Join of another lies in one of the cells around it.
LEMMA CellsReach ==
  ASSUME NEW p \in Int \X Int, NEW q \in Int \X Int, SquaredDistance(p, q) < Square(Join)
  PROVE  \E i \in 1 .. 9 : CellsAround(q)[i] = Cell(p)
  <1>1. PICK a \in Int, b \in Int, x \in Int, y \in Int : p = <<a, b>> /\ q = <<x, y>>
    OBVIOUS
  <1>2. (a - x) * (a - x) + (b - y) * (b - y) < 9
    BY <1>1 DEF SquaredDistance, Square, Join
  <1>3. \A k \in Int : k * k >= 0 /\ (k > 2 \/ k < -2 => k * k >= 9)
    <2>1. ASSUME NEW k \in Int, k > 2 PROVE k * k >= 9
      BY <2>1
    <2>2. ASSUME NEW k \in Int, k < -2 PROVE k * k >= 9
      BY <2>2
    <2>3. \A k \in Int : k * k >= 0
      OBVIOUS
    <2>4. QED
      BY <2>1, <2>2, <2>3
  <1>4. a - x \in -2 .. 2 /\ b - y \in -2 .. 2
    <2> DEFINE v == a - x
               w == b - y
    <2>1. v \in Int /\ w \in Int
      OBVIOUS
    <2>2. v * v \in Int /\ w * w \in Int
      BY <2>1
    <2>3. v * v >= 0 /\ w * w >= 0 /\ v * v + w * w < 9
      BY <1>2, <1>3, <2>1
    <2> HIDE DEF v, w
    <2>4. ~(v > 2 \/ v < -2) /\ ~(w > 2 \/ w < -2)
      BY <1>3, <2>1, <2>2, <2>3
    <2>5. QED
      BY <2>1, <2>4 DEF v, w
  <1>5. (a \div 10) - (x \div 10) \in -1 .. 1 /\ (b \div 10) - (y \div 10) \in -1 .. 1
    BY <1>4
  <1> DEFINE dx == (a \div 10) - (x \div 10)
             dy == (b \div 10) - (y \div 10)
             i == 3 * (dx + 1) + (dy + 1) + 1
  <1>6. i \in 1 .. 9 /\ (i - 1) \div 3 = dx + 1 /\ (i - 1) % 3 = dy + 1
    <2> HIDE DEF dx, dy
    <2>1. dx \in {-1, 0, 1} /\ dy \in {-1, 0, 1}
      BY <1>5 DEF dx, dy
    <2>2. QED
      BY <2>1
  <1>7. CellsAround(q)[i] = <<(x \div 10) + dx, (y \div 10) + dy>>
    <2> HIDE DEF dx, dy, i
    <2>1. dx \in Int /\ dy \in Int
      BY <1>5 DEF dx, dy
    <2>2. CellsAround(q)[i] = <<Cell(q)[1] + ((i - 1) \div 3) - 1, Cell(q)[2] + ((i - 1) % 3) - 1>>
      BY <1>6 DEF CellsAround
    <2>3. Cell(q)[1] = x \div 10 /\ Cell(q)[2] = y \div 10 /\ x \div 10 \in Int /\ y \div 10 \in Int
      BY <1>1 DEF Cell
    <2>4. QED
      BY <1>6, <2>1, <2>2, <2>3
  <1>8. Cell(p) = <<(x \div 10) + dx, (y \div 10) + dy>>
    BY <1>1 DEF Cell
  <1>9. QED
    BY <1>6, <1>7, <1>8

\* The cells around a point are nine.
LEMMA CellsApart ==
  ASSUME NEW q \in Int \X Int, NEW i \in 1 .. 9, NEW j \in 1 .. 9,
         CellsAround(q)[i] = CellsAround(q)[j]
  PROVE  i = j
  <1>1. \A k \in 1 .. 9 :
           CellsAround(q)[k] = <<Cell(q)[1] + ((k - 1) \div 3) - 1, Cell(q)[2] + ((k - 1) % 3) - 1>>
    BY DEF CellsAround
  <1>2. Cell(q)[1] \in Int /\ Cell(q)[2] \in Int
    BY DEF Cell
  <1>3. (i - 1) \div 3 = (j - 1) \div 3 /\ (i - 1) % 3 = (j - 1) % 3
    BY <1>1, <1>2
  <1>4. QED
    BY <1>3

\* The lanelets near a point: those that start in a cell around it, each once.
LEMMA NearKeeps ==
  ASSUME NEW n, IsSeq(n.ids), IsInjective(n.ids), NEW q \in Int \X Int
  PROVE  /\ IsSeq(Near(n, q)) /\ IsInjective(Near(n, q))
         /\ Range(Near(n, q)) = {l \in Range(n.ids) :
                                   \E i \in 1 .. 9 : CellsAround(q)[i] = Cell(Start(n.outline[l]))}
  <1> DEFINE X == Range(n.ids)
             ss == [i \in 1 .. 9 |-> In(n, CellsAround(q)[i])]
             Of(cell) == {l \in X : Cell(Start(n.outline[l])) = cell}
  <1>1. Near(n, q) = FlattenSeq(ss)
    <2>1. DOMAIN CellsAround(q) = 1 .. 9
      BY DEF CellsAround
    <2>2. QED
      BY <2>1 DEF Near
  <1>2. ASSUME NEW cell
        PROVE  In(n, cell) \in Seq(X) /\ Range(In(n, cell)) = Of(cell) /\ IsInjective(In(n, cell))
    <2>1. n.ids \in Seq(X)
      BY DEF IsSeq
    <2>2. In(n, cell) \in Seq(X) /\ Range(In(n, cell)) = X \cap Of(cell)
      BY <2>1, OnlyKeeps DEF In
    <2>3. QED
      BY <2>2, OnlyOnce DEF In
  <1>3. ss \in Seq(Seq(X)) /\ DOMAIN ss = 1 .. 9
    <2> HIDE DEF X
    <2>1. \A i \in 1 .. 9 : In(n, CellsAround(q)[i]) \in Seq(X)
      BY <1>2
    <2>2. QED
      BY <2>1
  <1>4. \A i \in 1 .. 9 : Range(ss[i]) = Of(CellsAround(q)[i]) /\ IsInjective(ss[i])
    BY <1>2
  <1>5. ASSUME NEW i \in 1 .. 9, NEW j \in 1 .. 9, i # j
        PROVE  Range(ss[i]) \cap Range(ss[j]) = {}
    <2>1. CellsAround(q)[i] # CellsAround(q)[j]
      BY <1>5, CellsApart
    <2>2. QED
      BY <1>4, <2>1
  <1> HIDE DEF ss
  <1>6. IsInjective(FlattenSeq(ss))
    BY <1>3, <1>4, <1>5, FlattenApart
  <1>7. FlattenSeq(ss) \in Seq(X) /\ Range(FlattenSeq(ss)) = UNION {Range(ss[i]) : i \in 1 .. 9}
    BY <1>3, FlattenKeeps
  <1>8. QED
    BY <1>1, <1>4, <1>6, <1>7, SeqWithin

\* The map is the one read from the file of a set.
FileRead == file \in {m.file : m \in MapSets} /\ net = Read(file)

\* The net stays what was read from the file of the set.
LEMMA FileAlways == Spec => []FileRead
  <1>1. Init => FileRead
    BY DEF Init, GivenInit, FileRead
  <1>2. FileRead /\ [Next]_vars => FileRead'
    <2> SUFFICES ASSUME FileRead, [Next]_vars PROVE FileRead'
      OBVIOUS
    <2>1. UNCHANGED <<file, net>>
      BY DEF Next, vars, givenVars, map, cache, asking, history, Open, Finished, AnswerConverted,
             Ask, Resolve, TakeResolved, BeginSearch, Visit, EndSearch, AnswerGiven
    <2>2. QED
      BY <2>1 DEF FileRead
  <1>3. QED
    BY <1>1, <1>2, PTL DEF Spec

\* The grid loses no lanelet and names none twice: wherever the lanelets of a file lie,
\* the successors found through the cells are all lanelets that start within Join of an
\* end, as long as each lanelet is read the way it is driven.
THEOREM GridJoins == Spec => [](DirectionAsDriven => SuccessorsJoin)
  <1>1. FileRead => (DirectionAsDriven => SuccessorsJoin)
    <2> SUFFICES ASSUME FileRead, DirectionAsDriven, NEW l \in Range(net.ids)
                 PROVE  /\ Range(net.successors[l]) =
                             {o \in Range(net.ids) \ {l} :
                                SquaredDistance(file.from[o], file.to[l]) < Square(Join)}
                        /\ IsInjective(net.successors[l])
      BY DEF SuccessorsJoin
    <2>1. FileOf(file)
      BY FilesRead DEF FileRead
    <2>2. Drawn(net) /\ Joined(net) /\ IsInjective(net.ids) /\ IsSeq(net.ids)
      <3>1. Drawn(net) /\ Joined(net) /\ IsInjective(net.ids)
        BY <2>1, ReadDrawn DEF FileRead
      <3>2. IsSeq(net.ids)
        BY <2>1, ReadNet DEF FileRead, FileOf, Net
      <3>3. QED
        BY <3>1, <3>2
    <2> DEFINE end == net.end[l]
               S == {o \in Range(net.ids) \ {l} :
                       SquaredDistance(Start(net.outline[o]), end) < Square(Join)}
    <2>3. net.successors[l] = Only(Near(net, end), S)
      BY <2>2 DEF Joined
    <2>4. /\ IsSeq(Near(net, end)) /\ IsInjective(Near(net, end))
          /\ Range(Near(net, end)) = {o \in Range(net.ids) :
                \E i \in 1 .. 9 : CellsAround(end)[i] = Cell(Start(net.outline[o]))}
      BY <2>2, NearKeeps DEF Drawn
    <2>5. S \subseteq Range(Near(net, end))
      <3> SUFFICES ASSUME NEW o \in S PROVE o \in Range(Near(net, end))
        OBVIOUS
      <3>1. \E i \in 1 .. 9 : CellsAround(end)[i] = Cell(Start(net.outline[o]))
        BY <2>2, CellsReach DEF Drawn
      <3>2. QED
        BY <2>4, <3>1
    <2>6. S = {o \in Range(net.ids) \ {l} :
                 SquaredDistance(file.from[o], file.to[l]) < Square(Join)}
      BY DEF DirectionAsDriven
    <2> DEFINE near == Near(net, end)
    <2> HIDE DEF S, near
    <2>7. Range(net.successors[l]) = S /\ IsInjective(net.successors[l])
      <3>1. IsSeq(near) /\ IsInjective(near) /\ net.successors[l] = Only(near, S)
        BY <2>3, <2>4 DEF near
      <3>2. Range(Only(near, S)) = Range(near) \cap S /\ IsInjective(Only(near, S))
        BY <3>1, OnlySeq, OnlyOnce
      <3>3. S \subseteq Range(near)
        BY <2>5 DEF near
      <3>4. QED
        BY <3>1, <3>2, <3>3
    <2>8. QED
      BY <2>6, <2>7
  <1>2. QED
    BY <1>1, FileAlways, PTL

-----------------------------------------------------------------------------
(* Lengths                                                                 *)

\* A square root, rounded down.
LEMMA RootExists ==
  ASSUME NEW s \in Int, NEW n \in Nat, 0 <= s, s <= n * n
  PROVE  \E k \in 0 .. n : Square(k) <= s /\ s < Square(k + 1)
  <1> DEFINE T == {k \in 0 .. n : Square(k) <= s}
  <1>1. 0 \in T
    BY DEF Square
  <1>2. SUFFICES ASSUME \A k \in 0 .. n : Square(k) <= s => ~(s < Square(k + 1)) PROVE FALSE
    OBVIOUS
  <1>3. ASSUME NEW k \in 0 .. n - 1, k \in T PROVE k + 1 \in T
    <2>1. ~(s < Square(k + 1)) /\ k + 1 \in 0 .. n
      BY <1>2, <1>3
    <2>2. Square(k + 1) \in Int
      BY DEF Square
    <2>3. QED
      BY <2>1, <2>2
  <1>4. n \in T
    <2> HIDE DEF T
    <2>1. 0 .. n \subseteq T
      BY <1>1, <1>3, UpTo
    <2>2. QED
      BY <2>1
  <1>5. ~(s < Square(n + 1)) /\ Square(n + 1) = n * n + 2 * n + 1 /\ n * n \in Int
    <2>1. ~(s < Square(n + 1))
      BY <1>2, <1>4
    <2>2. Square(n + 1) = n * n + 2 * n + 1 /\ n * n \in Int
      BY DEF Square
    <2>3. QED
      BY <2>1, <2>2
  <1> DEFINE m == n * n
  <1>6. m \in Int /\ s <= m /\ ~(s < m + 2 * n + 1)
    BY <1>5
  <1> HIDE DEF m
  <1>7. QED
    BY <1>6

\* The greater of a number and its opposite.
LEMMA MagnitudeIs ==
  ASSUME NEW a \in Int, NEW b \in Int
  PROVE  /\ Max({a - b, b - a}) \in Nat
         /\ Square(a - b) = Square(Max({a - b, b - a}))
  <1> DEFINE c == a - b
             t == {a - b, b - a}
  <1>1. CASE c >= 0
    <2>1. Max(t) = c
      <3>1. c \in t /\ c \in Int /\ \A i \in t : i \in Int /\ c >= i
        BY <1>1
      <3>2. \A x \in t : (\A y \in t : x >= y) => x = c
        BY <3>1
      <3>3. QED
        BY <3>1, <3>2 DEF Max
    <2>2. QED
      BY <1>1, <2>1 DEF Square
  <1>2. CASE ~(c >= 0)
    <2> DEFINE e == b - a
    <2>1. Max(t) = e
      <3>1. e \in t /\ e \in Int /\ \A i \in t : i \in Int /\ e >= i
        BY <1>2
      <3>2. \A x \in t : (\A y \in t : x >= y) => x = e
        BY <3>1
      <3>3. QED
        BY <3>1, <3>2 DEF Max
    <2>2. e \in Nat /\ c * c = e * e
      BY <1>2
    <2>3. QED
      BY <2>1, <2>2 DEF Square
  <1>3. QED
    BY <1>1, <1>2

\* A distance is a natural number.
LEMMA DistanceIs ==
  ASSUME NEW p \in Int \X Int, NEW q \in Int \X Int
  PROVE  Distance(p, q) \in Nat
  <1> DEFINE x == Max({p[1] - q[1], q[1] - p[1]})
             y == Max({p[2] - q[2], q[2] - p[2]})
             s == SquaredDistance(p, q)
  <1>1. /\ x \in Nat /\ y \in Nat
        /\ Square(p[1] - q[1]) = Square(x) /\ Square(p[2] - q[2]) = Square(y)
    BY MagnitudeIs
  <1>2. s = x * x + y * y
    BY <1>1 DEF SquaredDistance, Square
  <1> HIDE DEF x, y, s
  <1>3. /\ x * x \in Nat /\ y * y \in Nat /\ x * y \in Nat
        /\ (x + y) * (x + y) = x * x + y * y + 2 * (x * y)
    BY <1>1
  <1>4. s \in Int /\ 0 <= s /\ s <= (x + y) * (x + y) /\ x + y \in Nat
    BY <1>1, <1>2, <1>3
  <1>5. \E k \in 0 .. x + y : Square(k) <= s /\ s < Square(k + 1)
    BY <1>4, RootExists
  <1>6. Distance(p, q) \in 0 .. x + y
    BY <1>5 DEF Distance, x, y, s
  <1>7. QED
    BY <1>4, <1>6

\* A sum over some numbers, taken in any order.
Summing(n, value, choice, it) ==
    \A t \in SUBSET (1 .. n) :
        it[t] = IF t = {} THEN 0 ELSE value[choice[t]] + it[t \ {choice[t]}]

\* What is left of some numbers when one is taken is one less.
LEMMA OneTaken ==
  ASSUME NEW n \in Nat, NEW t \in SUBSET (1 .. n)
  PROVE  /\ Cardinality(t) \in 0 .. n /\ (Cardinality(t) = 0 <=> t = {})
         /\ \A x \in t : /\ t \ {x} \in SUBSET (1 .. n)
                        /\ Cardinality(t \ {x}) = Cardinality(t) - 1
  <1>1. IsFiniteSet(1 .. n) /\ Cardinality(1 .. n) = n
    BY FS_Interval
  <1>2. IsFiniteSet(t) /\ Cardinality(t) <= Cardinality(1 .. n)
    BY <1>1, FS_Subset
  <1>3. Cardinality(t) \in Nat
    BY <1>2, FS_CardinalityType
  <1>4. Cardinality(t) = 0 <=> t = {}
    BY <1>2, FS_EmptySet
  <1>5. \A x \in t : Cardinality(t \ {x}) = Cardinality(t) - 1
    BY <1>2, FS_RemoveElement
  <1>6. QED
    BY <1>1, <1>2, <1>3, <1>4, <1>5

\* Such a sum is a whole number,
LEMMA SummingIs ==
  ASSUME NEW n \in Nat, NEW value, \A i \in 1 .. n : value[i] \in Int,
         NEW choice, \A t \in SUBSET (1 .. n) : t # {} => choice[t] \in t,
         NEW it, Summing(n, value, choice, it)
  PROVE  it[1 .. n] \in Int
  <1> DEFINE T == {k \in 0 .. n : \A t \in SUBSET (1 .. n) : Cardinality(t) <= k => it[t] \in Int}
  <1>0. it[{}] = 0
    BY {} \in SUBSET (1 .. n) DEF Summing
  <1>1. 0 \in T
    <2>1. ASSUME NEW t \in SUBSET (1 .. n), Cardinality(t) <= 0 PROVE it[t] \in Int
      <3>1. t = {}
        BY <2>1, OneTaken
      <3>2. QED
        BY <1>0, <3>1
    <2>2. QED
      BY <2>1
  <1>2. ASSUME NEW k \in 0 .. n - 1, k \in T PROVE k + 1 \in T
    <2>1. ASSUME NEW t \in SUBSET (1 .. n), Cardinality(t) <= k + 1 PROVE it[t] \in Int
      <3>1. CASE t = {}
        BY <1>0, <3>1
      <3>2. CASE t # {}
        <4> DEFINE x == choice[t]
        <4>1. x \in t /\ x \in 1 .. n
          BY <3>2
        <4>2. it[t] = value[x] + it[t \ {x}]
          BY <3>2 DEF Summing
        <4> HIDE DEF x
        <4>3. t \ {x} \in SUBSET (1 .. n) /\ Cardinality(t \ {x}) <= k
          BY <2>1, <4>1, OneTaken
        <4>4. it[t \ {x}] \in Int /\ value[x] \in Int
          BY <1>2, <4>1, <4>3
        <4>5. QED
          BY <4>2, <4>4
      <3>3. QED
        BY <3>1, <3>2
    <2>2. QED
      BY <2>1
  <1>3. n \in T
    <2> HIDE DEF T
    <2>1. 0 .. n \subseteq T
      BY <1>1, <1>2, UpTo
    <2>2. QED
      BY <2>1
  <1>4. QED
    BY <1>3, OneTaken

\* and there is one.
LEMMA SummingExists ==
  ASSUME NEW n \in Nat, NEW value, \A i \in 1 .. n : value[i] \in Int,
         NEW choice, \A t \in SUBSET (1 .. n) : t # {} => choice[t] \in t
  PROVE  \E it : it \in [SUBSET (1 .. n) -> Int] /\ Summing(n, value, choice, it)
  <1> DEFINE Of(k) == {t \in SUBSET (1 .. n) : Cardinality(t) <= k}
             Sums(k, it) == \A t \in Of(k) :
                it[t] = IF t = {} THEN 0 ELSE value[choice[t]] + it[t \ {choice[t]}]
             T == {k \in 0 .. n : \E it : it \in [Of(k) -> Int] /\ Sums(k, it)}
  <1>1. \A t \in SUBSET (1 .. n) :
           Cardinality(t) \in Nat /\ Cardinality(t) <= n /\ (Cardinality(t) = 0 <=> t = {})
    BY OneTaken
  <1>2. \A t \in SUBSET (1 .. n) : t # {} =>
           /\ t \ {choice[t]} \in SUBSET (1 .. n)
           /\ Cardinality(t \ {choice[t]}) = Cardinality(t) - 1
    BY OneTaken
  <1>3. 0 \in T
    <2> DEFINE it == [t \in Of(0) |-> 0]
    <2>1. \A t \in Of(0) : t = {}
      BY <1>1
    <2>2. it \in [Of(0) -> Int] /\ Sums(0, it)
      BY <2>1
    <2> HIDE DEF it, Of, Sums
    <2>3. QED
      BY <2>2
  <1>4. ASSUME NEW k \in 0 .. n - 1, k \in T PROVE k + 1 \in T
    <2>1. PICK it : it \in [Of(k) -> Int] /\ Sums(k, it)
      BY <1>4
    <2> DEFINE then == [t \in Of(k + 1) |->
                          IF t = {} THEN 0 ELSE value[choice[t]] + it[t \ {choice[t]}]]
    <2>2. ASSUME NEW t \in Of(k + 1), t # {} PROVE t \ {choice[t]} \in Of(k)
      <3> DEFINE rest == t \ {choice[t]}
      <3>1. t \in SUBSET (1 .. n) /\ Cardinality(t) <= k + 1
        OBVIOUS
      <3>2. rest \in SUBSET (1 .. n) /\ Cardinality(rest) = Cardinality(t) - 1
        BY <1>2, <2>2
      <3>3. Cardinality(t) \in Nat
        BY <1>1, <3>1
      <3> HIDE DEF rest
      <3>4. rest \in Of(k)
        BY <3>1, <3>2, <3>3
      <3>5. QED
        BY <3>4 DEF rest
    <2>3. \A t \in Of(k) : t \in Of(k + 1) /\ then[t] = it[t]
      BY <1>1, <2>1
    <2>4. \A t \in Of(k + 1) : t # {} => value[choice[t]] \in Int /\ it[t \ {choice[t]}] \in Int
      BY <2>1, <2>2
    <2> HIDE DEF Of
    <2>5. then \in [Of(k + 1) -> Int]
      BY <2>4
    <2>8. Sums(k + 1, then)
      BY <2>2, <2>3
    <2> HIDE DEF then, Sums
    <2>6. k + 1 \in 0 .. n
      OBVIOUS
    <2>7. QED
      BY <2>5, <2>6, <2>8
  <1>5. n \in T
    <2> HIDE DEF T
    <2>1. 0 .. n \subseteq T
      BY <1>3, <1>4, UpTo
    <2>2. QED
      BY <2>1
  <1>6. Of(n) = SUBSET (1 .. n)
    BY <1>1
  <1> HIDE DEF Of
  <1>7. QED
    BY <1>5, <1>6 DEF Summing

\* A length is a whole number.
LEMMA LengthIs ==
  ASSUME NEW s \in Points
  PROVE  Length(s) \in Int
  <1> DEFINE n == Len(s) - 1
             value == [i \in 1 .. n |-> Distance(s[i], s[i + 1])]
             choice == [t \in SUBSET (1 .. n) |-> CHOOSE x \in t : TRUE]
             Sum(it) == it = [t \in SUBSET (1 .. n) |->
                                IF t = {} THEN 0
                                ELSE Distance(s[CHOOSE x \in t : TRUE], s[(CHOOSE x \in t : TRUE) + 1])
                                       + it[t \ {CHOOSE x \in t : TRUE}]]
  <1>1. s \in Seq(Int \X Int) /\ n \in Nat /\ DOMAIN s = 1 .. n + 1
        /\ \A i \in 1 .. n + 1 : s[i] \in Int \X Int
    BY DEF Points
  <1>2. \A t \in SUBSET (1 .. n) : t # {} => choice[t] \in t
    OBVIOUS
  <1>3. \A i \in 1 .. n : Distance(s[i], s[i + 1]) \in Int
    <2>0. n \in Nat
      BY <1>1
    <2> HIDE DEF n
    <2>1. \A i \in 1 .. n : i \in 1 .. n + 1 /\ i + 1 \in 1 .. n + 1
      BY <2>0
    <2>2. QED
      BY <1>1, <2>1, DistanceIs
  <1>4. Length(s) = (CHOOSE it : Sum(it))[1 .. n]
    BY DEF Length, MapThenSumSet, MapThenFoldSet
  <1> HIDE DEF n
  <1>5. \A i \in 1 .. n : value[i] \in Int
    BY <1>3
  <1>6. \E it : it \in [SUBSET (1 .. n) -> Int] /\ Summing(n, value, choice, it)
    <2> HIDE DEF value, choice
    <2>1. QED
      BY <1>1, <1>2, <1>5, SummingExists
  <1>7. ASSUME NEW it \in [SUBSET (1 .. n) -> Int], Summing(n, value, choice, it)
        PROVE  Sum(it)
    <2>1. ASSUME NEW t \in SUBSET (1 .. n), t # {}
          PROVE  value[choice[t]] = Distance(s[CHOOSE x \in t : TRUE], s[(CHOOSE x \in t : TRUE) + 1])
      <3>1. choice[t] = CHOOSE x \in t : TRUE
        OBVIOUS
      <3>2. choice[t] \in 1 .. n
        BY <1>2, <2>1
      <3> HIDE DEF choice
      <3>3. QED
        BY <3>1, <3>2
    <2>2. ASSUME NEW t \in SUBSET (1 .. n)
          PROVE  it[t] = IF t = {} THEN 0
                         ELSE Distance(s[CHOOSE x \in t : TRUE], s[(CHOOSE x \in t : TRUE) + 1])
                                + it[t \ {CHOOSE x \in t : TRUE}]
      <3>1. it[t] = IF t = {} THEN 0 ELSE value[choice[t]] + it[t \ {choice[t]}]
        BY <1>7 DEF Summing
      <3> HIDE DEF value
      <3>2. QED
        BY <2>1, <3>1
    <2>3. QED
      BY <2>2
  <1> DEFINE chosen == CHOOSE it : Sum(it)
  <1>8. Sum(chosen)
    <2> HIDE DEF Sum
    <2>1. \E it : Sum(it)
      BY <1>6, <1>7
    <2>2. QED
      BY <2>1
  <1> HIDE DEF chosen
  <1>9. Summing(n, value, choice, chosen)
    <2>1. ASSUME NEW t \in SUBSET (1 .. n), t # {}
          PROVE  value[choice[t]] = Distance(s[CHOOSE x \in t : TRUE], s[(CHOOSE x \in t : TRUE) + 1])
      <3>1. choice[t] = CHOOSE x \in t : TRUE
        OBVIOUS
      <3>2. choice[t] \in 1 .. n
        BY <1>2, <2>1
      <3> HIDE DEF choice
      <3>3. QED
        BY <3>1, <3>2
    <2>2. ASSUME NEW t \in SUBSET (1 .. n)
          PROVE  chosen[t] = IF t = {} THEN 0 ELSE value[choice[t]] + chosen[t \ {choice[t]}]
      <3>1. chosen[t] = IF t = {} THEN 0
                        ELSE Distance(s[CHOOSE x \in t : TRUE], s[(CHOOSE x \in t : TRUE) + 1])
                               + chosen[t \ {CHOOSE x \in t : TRUE}]
        BY <1>8
      <3> HIDE DEF value
      <3>2. QED
        BY <2>1, <3>1
    <2>3. QED
      BY <2>2 DEF Summing
  <1>10. chosen[1 .. n] \in Int
    <2> HIDE DEF value, choice
    <2>1. QED
      BY <1>1, <1>2, <1>5, <1>9, SummingIs
  <1>11. QED
    BY <1>4, <1>10 DEF chosen

\* How long a lanelet is is a number.
Measured(n) == \A l \in Range(n.ids) : n.length[l] \in Int

\* The lengths read from a file are whole numbers.
LEMMA ReadMeasured ==
  ASSUME NEW f, FileOf(f)
  PROVE  Measured(Read(f))
  <1> DEFINE n == Read(f)
             ids == Only(f.ids, {l \in Range(f.ids) : Readable(f, l)})
             bounds == [l \in Range(ids) |-> Bounds(f.ways[f.left[l]], f.ways[f.right[l]])]
  <1>1. /\ n.ids = ids
        /\ n.length = [l \in Range(ids) |->
                         (Length(bounds[l].left) + Length(bounds[l].right)) \div 2]
    BY DEF Read
  <1>2. Range(ids) = {l \in Range(f.ids) : Readable(f, l)}
    BY OnlySeq DEF FileOf
  <1>3. ASSUME NEW l \in Range(ids)
        PROVE  Length(bounds[l].left) \in Int /\ Length(bounds[l].right) \in Int
    <2>1. f.ways[f.left[l]] \in Points /\ f.ways[f.right[l]] \in Points
      BY <1>2 DEF FileOf, Readable
    <2>2. bounds[l] = Bounds(f.ways[f.left[l]], f.ways[f.right[l]])
      OBVIOUS
    <2>3. QED
      BY <2>1, <2>2, BoundsDrawn, LengthIs
  <1> HIDE DEF n, ids, bounds
  <1>4. \A l \in Range(ids) : n.length[l] \in Int
    BY <1>1, <1>3
  <1>5. QED
    BY <1>1, <1>4 DEF Measured, n

\* An order of a set of lanelets has them all.
LEMMA OrdersCover ==
  ASSUME NEW here, IsFiniteSet(here), NEW order \in SetToSeqs(here)
  PROVE  IsSeq(order) /\ Range(order) = here
  <1> DEFINE n == Cardinality(here)
  <1>1. n \in Nat /\ order \in [1 .. n -> here] /\ \A i, j \in 1 .. n : i # j => order[i] # order[j]
    BY FS_CardinalityType DEF SetToSeqs
  <1> HIDE DEF n
  <1>2. IsFiniteSet(1 .. n) /\ Cardinality(1 .. n) = n
    BY <1>1, FS_Interval
  <1>3. IsSeq(order) /\ Range(order) \subseteq here
    <2>1. order \in Seq(here)
      BY <1>1
    <2>2. QED
      BY <2>1, SeqWithin
  <1>4. Cardinality(Range(order)) = n
    <2>1. order \in Bijection(1 .. n, Range(order))
      BY <1>1 DEF Bijection, Injection, Surjection, Range, IsInjective
    <2>2. ExistsBijection(1 .. n, Range(order))
      BY <2>1 DEF ExistsBijection
    <2>3. QED
      BY <1>2, <2>2, FS_Bijection
  <1>5. QED
    BY <1>3, <1>4, FS_Subset DEF n

-----------------------------------------------------------------------------
(* In the order of lanelets                                                *)

\* What a turn puts at the end of the queue.
Pushed(n, s) ==
    LET l == Head(s.queue)[1]
        travelled == Head(s.queue)[2]
        ahead == IF l \in s.start THEN travelled ELSE travelled + n.length[l]
    IN  IF l \notin s.seen /\ n.rules[l] = <<>> /\ ahead <= LightSearch
        THEN [i \in DOMAIN n.successors[l] |-> <<n.successors[l][i], ahead>>]
        ELSE <<>>

\* What a turn of the search puts into its queue.
LEMMA PushedIs ==
  ASSUME NEW n, Net(n), NEW starts, NEW s, OnItsWay(n, starts, s), s.queue # <<>>
  PROVE  IsSeq(Pushed(n, s))
  <1> DEFINE l == Head(s.queue)[1]
             travelled == Head(s.queue)[2]
             ahead == IF l \in s.start THEN travelled ELSE travelled + n.length[l]
             succ == n.successors[l]
  <1>1. Head(s.queue) \in Range(s.queue)
    BY TailSeq DEF OnItsWay
  <1>2. IsSeq(succ)
    BY <1>1 DEF OnItsWay, Net
  <1>3. \/ Pushed(n, s) = [i \in DOMAIN succ |-> <<succ[i], ahead>>]
        \/ Pushed(n, s) = <<>>
    BY DEF Pushed
  <1>4. IsSeq([i \in DOMAIN succ |-> <<succ[i], ahead>>])
    <2> HIDE DEF succ, ahead
    <2>1. [i \in DOMAIN succ |-> <<succ[i], ahead>>] \in Seq(Range(succ) \X {ahead})
      BY <1>2, SeqFacts
    <2>2. QED
      BY <2>1, SeqWithin
  <1>5. QED
    BY <1>3, <1>4, NoneInSeq

\* A turn sees the lanelet at the head of the queue, once.
LEMMA TurnIs ==
  ASSUME NEW n, Net(n), NEW starts, NEW s, OnItsWay(n, starts, s), s.queue # <<>>
  PROVE  /\ Turn(n, s).queue = Tail(s.queue) \o Pushed(n, s)
         /\ Turn(n, s).start = s.start /\ Turn(n, s).seen = s.seen \cup {Head(s.queue)[1]}
         /\ Range(s.found) \subseteq Range(Turn(n, s).found)
         /\ Head(s.queue)[1] \notin s.seen =>
              Range(n.rules[Head(s.queue)[1]]) \subseteq Range(Turn(n, s).found)
  <1> DEFINE l == Head(s.queue)[1]
             rest == Tail(s.queue)
             found == Once(s.found \o n.rules[l])
             t == Turn(n, s)
             Does == /\ t.queue = rest \o Pushed(n, s)
                     /\ t.start = s.start /\ t.seen = s.seen \cup {l}
                     /\ Range(s.found) \subseteq Range(t.found)
                     /\ l \notin s.seen => Range(n.rules[l]) \subseteq Range(t.found)
  <1>0. /\ s = [queue |-> s.queue, start |-> s.start, seen |-> s.seen, found |-> s.found]
        /\ s.start = starts
    BY DEF OnItsWay
  <1>1. Head(s.queue) \in Range(s.queue) /\ IsSeq(rest)
    BY TailSeq DEF OnItsWay
  <1>2. rest \o <<>> = rest
    BY <1>1 DEF IsSeq
  <1>3. ASSUME l \in s.seen PROVE Does
    <2>1. t = [queue |-> rest, start |-> s.start, seen |-> s.seen, found |-> s.found]
      BY <1>0, <1>3 DEF Turn
    <2>2. Pushed(n, s) = <<>>
      BY <1>3 DEF Pushed
    <2> HIDE DEF t, rest, l
    <2>3. QED
      BY <1>2, <1>3, <2>1, <2>2
  <1>4. ASSUME l \notin s.seen PROVE Does
    <2>1. IsSeq(n.rules[l]) /\ IsSeq(s.found)
      BY <1>1 DEF OnItsWay, Net
    <2>2. Range(found) = Range(s.found) \cup Range(n.rules[l])
      <3> HIDE DEF l
      <3>1. QED
        BY <2>1, ConcatSeq, OnceSeq
    <2>3. t = [queue |-> IF n.rules[l] # <<>> THEN rest ELSE rest \o Pushed(n, s),
               start |-> s.start, seen |-> s.seen \cup {l}, found |-> found]
      BY <1>0, <1>4 DEF Turn, Pushed
    <2>4. n.rules[l] # <<>> => Pushed(n, s) = <<>>
      BY DEF Pushed
    <2> HIDE DEF t, rest, l, found
    <2>5. t.queue = rest \o Pushed(n, s)
      BY <1>2, <2>3, <2>4
    <2>6. QED
      BY <1>4, <2>2, <2>3, <2>5
  <1> HIDE DEF Does
  <1>5. Does
    BY <1>3, <1>4
  <1>6. QED
    BY <1>5 DEF Does

\* By what way a search comes to a lanelet.
Way(l, metres, hops) == [to |-> l, metres |-> metres, hops |-> hops]

\* A lanelet is seen, or queued, over at most so many lanelets.
Comes(s, first, hops, l, most) ==
    \/ l \in s.seen /\ first[l].hops <= most
    \/ \E i \in 1 .. Len(s.queue) : s.queue[i][1] = l /\ hops[i] <= most

\* A search goes through the lanelets in the order of how many lie before them: hops is
\* how many lie before each in the queue, first how each lanelet seen was first come to.
InBreadth(n, starts, s, first, hops) ==
    /\ \A i \in 1 .. Len(s.queue) : s.queue[i][2] \in Int /\ hops[i] \in Nat
    /\ \A i, j \in 1 .. Len(s.queue) : i <= j => hops[i] <= hops[j] /\ hops[j] <= hops[i] + 1
    /\ \A l \in s.seen :
          /\ first[l].metres \in Int /\ first[l].hops \in Nat
          /\ \A i \in 1 .. Len(s.queue) : first[l].hops <= hops[i]
          /\ Range(n.rules[l]) \subseteq Range(s.found)
    /\ \A f : WaysFrom(n, starts, Len(n.ids), f) =>
         /\ \A i \in 1 .. Len(s.queue) :
               Way(s.queue[i][1], s.queue[i][2], hops[i]) \in f[Cardinality(s.seen)]
         /\ \A l \in s.seen : Way(l, first[l].metres, first[l].hops) \in f[Len(n.ids)]
    /\ \A l \in starts : Comes(s, first, hops, l, 0)
    /\ \A l \in s.seen :
          LET ahead == IF l \in starts THEN first[l].metres ELSE first[l].metres + n.length[l]
          IN  n.rules[l] = <<>> /\ ahead <= LightSearch =>
                \A o \in Range(n.successors[l]) : Comes(s, first, hops, o, first[l].hops + 1)

\* A turn of the search goes on in that order.
LEMMA TurnInBreadth ==
  ASSUME NEW n, Net(n), Measured(n), NEW starts, starts \subseteq Range(n.ids), NEW s,
         OnItsWay(n, starts, s), s.queue # <<>>,
         NEW first, NEW hops, InBreadth(n, starts, s, first, hops)
  PROVE  \E then, onward : InBreadth(n, starts, Turn(n, s), then, onward)
  <1> DEFINE t == Turn(n, s)
             q == s.queue
             l == Head(q)[1]
             travelled == Head(q)[2]
             ahead == IF l \in starts THEN travelled ELSE travelled + n.length[l]
             more == Pushed(n, s)
             N == Len(n.ids)
             k == Cardinality(s.seen)
             m == Len(q)
             then == IF l \in s.seen THEN first
                     ELSE [x \in s.seen \cup {l} |->
                             IF x = l THEN [metres |-> travelled, hops |-> hops[1]] ELSE first[x]]
             onward == [i \in 1 .. Len(t.queue) |-> IF i < m THEN hops[i + 1] ELSE hops[1] + 1]
  <1>1. /\ IsSeq(q) /\ m \in Nat /\ m >= 1 /\ DOMAIN q = 1 .. m /\ Head(q) = q[1]
        /\ 1 \in 1 .. m
    <2>1. IsSeq(q)
      BY DEF OnItsWay
    <2>2. m \in Nat /\ m # 0 /\ DOMAIN q = 1 .. m /\ Head(q) = q[1]
      BY <2>1 DEF IsSeq
    <2>3. QED
      BY <2>1, <2>2
  <1>2. IsSeq(more) /\ Len(more) \in Nat
    BY PushedIs, SeqFacts
  <1>3. /\ t.queue = Tail(q) \o more /\ t.start = starts /\ t.seen = s.seen \cup {l}
        /\ Range(s.found) \subseteq Range(t.found)
        /\ l \notin s.seen => Range(n.rules[l]) \subseteq Range(t.found)
    <2>1. s.start = starts
      BY DEF OnItsWay
    <2>2. /\ t.queue = Tail(q) \o more /\ t.start = s.start /\ t.seen = s.seen \cup {l}
          /\ Range(s.found) \subseteq Range(t.found)
          /\ l \notin s.seen => Range(n.rules[l]) \subseteq Range(t.found)
      <3> HIDE DEF t, q, l, more, then, onward, ahead
      <3>1. /\ Turn(n, s).queue = Tail(s.queue) \o Pushed(n, s)
            /\ Turn(n, s).start = s.start /\ Turn(n, s).seen = s.seen \cup {Head(s.queue)[1]}
            /\ Range(s.found) \subseteq Range(Turn(n, s).found)
            /\ Head(s.queue)[1] \notin s.seen =>
                 Range(n.rules[Head(s.queue)[1]]) \subseteq Range(Turn(n, s).found)
        BY TurnIs
      <3>2. QED
        BY <3>1 DEF t, q, l, more
    <2>3. QED
      BY <2>1, <2>2
  <1> HIDE DEF more, t
  <1>4. /\ Len(t.queue) = (m - 1) + Len(more)
        /\ \A i \in 1 .. m - 1 : t.queue[i] = q[i + 1]
        /\ \A i \in 1 .. Len(more) : t.queue[(m - 1) + i] = more[i]
    <2> DEFINE X == Range(q) \cup Range(more)
    <2>1. q \in Seq(X) /\ more \in Seq(X)
      BY <1>1, <1>2, SeqFacts
    <2> HIDE DEF X
    <2>2. /\ Tail(q) \in Seq(X) /\ Len(Tail(q)) = m - 1
          /\ \A i \in 1 .. m - 1 : Tail(q)[i] = q[i + 1]
      BY <1>1, <2>1
    <2> DEFINE rest == Tail(q)
    <2> HIDE DEF rest, q, m
    <2>3. /\ Len(rest \o more) = (m - 1) + Len(more)
          /\ \A i \in 1 .. m - 1 : (rest \o more)[i] = rest[i]
          /\ \A i \in 1 .. Len(more) : (rest \o more)[(m - 1) + i] = more[i]
      BY <1>1, <1>2, <2>1, <2>2 DEF rest
    <2>4. QED
      BY <1>3, <2>2, <2>3 DEF rest
  <1>5. \A i \in 1 .. Len(t.queue) :
           \/ i \in 1 .. m - 1 /\ i + 1 \in 1 .. m /\ t.queue[i] = q[i + 1] /\ onward[i] = hops[i + 1]
           \/ \E j \in 1 .. Len(more) : /\ i = (m - 1) + j /\ ~(i < m) /\ t.queue[i] = more[j]
                                        /\ onward[i] = hops[1] + 1
    <2> HIDE DEF m, q
    <2>1. ASSUME NEW i \in 1 .. Len(t.queue), i < m
          PROVE  i \in 1 .. m - 1 /\ i + 1 \in 1 .. m /\ t.queue[i] = q[i + 1] /\ onward[i] = hops[i + 1]
      BY <1>1, <1>4, <2>1
    <2>2. ASSUME NEW i \in 1 .. Len(t.queue), ~(i < m)
          PROVE  \E j \in 1 .. Len(more) : /\ i = (m - 1) + j /\ t.queue[i] = more[j]
                                           /\ onward[i] = hops[1] + 1
      <3>1. i - (m - 1) \in 1 .. Len(more) /\ i = (m - 1) + (i - (m - 1))
        BY <1>1, <1>2, <1>4, <2>2
      <3>2. QED
        BY <1>4, <2>2, <3>1
    <2>3. QED
      BY <2>1, <2>2
  <1>6. l \in Range(n.ids) /\ travelled \in Int /\ hops[1] \in Nat /\ ahead \in Int
    <2>1. l \in Range(n.ids)
      BY <1>1 DEF OnItsWay, Range
    <2>2. travelled \in Int /\ hops[1] \in Nat
      BY <1>1 DEF InBreadth
    <2>3. QED
      BY <2>1, <2>2 DEF Measured
  <1>7. ASSUME NEW j \in 1 .. Len(more)
        PROVE  /\ l \notin s.seen /\ n.rules[l] = <<>> /\ ahead <= LightSearch
               /\ \E o \in Range(n.successors[l]) : more[j] = <<o, ahead>>
    <2>1. more # <<>>
      BY <1>2, <1>7
    <2>2. s.start = starts
      BY DEF OnItsWay
    <2>3. /\ l \notin s.seen /\ n.rules[l] = <<>> /\ ahead <= LightSearch
          /\ more = [i \in DOMAIN n.successors[l] |-> <<n.successors[l][i], ahead>>]
      BY <2>1, <2>2 DEF Pushed, more
    <2>4. j \in DOMAIN n.successors[l]
      <3>1. j \in DOMAIN more
        BY <1>2, SeqFacts
      <3>2. QED
        BY <2>3, <3>1
    <2> HIDE DEF l, ahead
    <2>5. more[j] = <<n.successors[l][j], ahead>>
      BY <2>3, <2>4
    <2>6. QED
      BY <2>3, <2>4, <2>5 DEF Range
  <1>8. /\ then[l].hops <= hops[1] /\ then[l].hops \in Nat /\ then[l].metres \in Int
        /\ l \notin s.seen => then[l] = [metres |-> travelled, hops |-> hops[1]]
        /\ \A x \in s.seen : then[x] = first[x]
    <2>1. CASE l \in s.seen
      <3>1. first[l].hops \in Nat /\ first[l].metres \in Int /\ first[l].hops <= hops[1]
        BY <1>1, <2>1 DEF InBreadth
      <3>2. QED
        BY <2>1, <3>1
    <2>2. CASE l \notin s.seen
      <3> HIDE DEF l, travelled
      <3>1. QED
        BY <1>6, <2>2
    <2>3. QED
      BY <2>1, <2>2
  <1>9. ASSUME NEW x, NEW most \in Int, Comes(s, first, hops, x, most)
        PROVE  Comes(t, then, onward, x, most)
    <2>1. CASE x \in s.seen /\ first[x].hops <= most
      BY <1>3, <1>8, <2>1 DEF Comes
    <2>2. ASSUME NEW i \in 1 .. m, q[i][1] = x, hops[i] <= most
          PROVE  Comes(t, then, onward, x, most)
      <3>1. CASE i = 1
        <4>1. x = l /\ hops[1] <= most
          BY <1>1, <2>2, <3>1
        <4> HIDE DEF then, l
        <4>2. then[x].hops <= most
          BY <1>6, <1>8, <4>1
        <4>3. x \in t.seen
          BY <1>3, <4>1
        <4>4. QED
          BY <4>2, <4>3 DEF Comes
      <3>2. CASE i # 1
        <4>1. i - 1 \in 1 .. m - 1 /\ (i - 1) + 1 = i /\ i - 1 < m /\ i - 1 \in 1 .. Len(t.queue)
          BY <1>1, <1>2, <1>4, <3>2
        <4>2. t.queue[i - 1] = q[i] /\ onward[i - 1] = hops[i]
          BY <1>4, <4>1
        <4>3. QED
          BY <2>2, <4>1, <4>2 DEF Comes
      <3>3. QED
        BY <3>1, <3>2
    <2>3. QED
      BY <1>9, <2>1, <2>2 DEF Comes
  <1>10. \A i \in 1 .. Len(t.queue) : t.queue[i][2] \in Int /\ onward[i] \in Nat
    <2>1. \A i \in 1 .. m : q[i][2] \in Int /\ hops[i] \in Nat
      BY DEF InBreadth
    <2> HIDE DEF onward, ahead, l, q, m
    <2>2. ASSUME NEW i \in 1 .. Len(t.queue) PROVE t.queue[i][2] \in Int /\ onward[i] \in Nat
      <3>1. CASE \E j \in 1 .. Len(more) : t.queue[i] = more[j] /\ onward[i] = hops[1] + 1
        BY <1>6, <1>7, <3>1
      <3>2. CASE i + 1 \in 1 .. m /\ t.queue[i] = q[i + 1] /\ onward[i] = hops[i + 1]
        BY <2>1, <3>2
      <3>3. QED
        BY <1>5, <3>1, <3>2
    <2>3. QED
      BY <2>2
  <1>11. \A i, j \in 1 .. Len(t.queue) : i <= j => onward[i] <= onward[j] /\ onward[j] <= onward[i] + 1
    <2>1. \A i, j \in 1 .. m : i <= j => hops[i] <= hops[j] /\ hops[j] <= hops[i] + 1
      BY DEF InBreadth
    <2>2. \A i \in 1 .. m : hops[i] \in Nat
      BY DEF InBreadth
    <2>3. \A i \in 1 .. m : hops[1] <= hops[i] /\ hops[i] <= hops[1] + 1
      BY <1>1, <2>1
    <2>4. Len(t.queue) \in Nat
      BY <1>1, <1>2, <1>4
    <2> HIDE DEF onward, q, m
    <2>5. ASSUME NEW i \in 1 .. Len(t.queue), NEW j \in 1 .. Len(t.queue), i <= j
          PROVE  onward[i] <= onward[j] /\ onward[j] <= onward[i] + 1
      <3>1. CASE i < m /\ j < m
        <4>1. /\ i + 1 \in 1 .. m /\ onward[i] = hops[i + 1]
              /\ j + 1 \in 1 .. m /\ onward[j] = hops[j + 1] /\ i + 1 <= j + 1
          BY <1>5, <2>5, <3>1
        <4>2. QED
          BY <2>1, <4>1
      <3>2. CASE i < m /\ ~(j < m)
        <4>1. /\ i + 1 \in 1 .. m /\ onward[i] = hops[i + 1] /\ onward[j] = hops[1] + 1
          BY <1>1, <1>5, <3>2
        <4>2. QED
          BY <1>6, <2>2, <2>3, <4>1
      <3>3. CASE ~(i < m) /\ ~(j < m)
        <4>1. onward[i] = hops[1] + 1 /\ onward[j] = hops[1] + 1
          BY <1>1, <1>5, <3>3
        <4>2. QED
          BY <1>6, <4>1
      <3>4. QED
        BY <1>1, <2>4, <2>5, <3>1, <3>2, <3>3
    <2>6. QED
      BY <2>5
  <1>12. ASSUME NEW x \in t.seen
         PROVE  /\ then[x].metres \in Int /\ then[x].hops \in Nat
                /\ \A i \in 1 .. Len(t.queue) : then[x].hops <= onward[i]
                /\ Range(n.rules[x]) \subseteq Range(t.found)
    <2>1. \A i \in 1 .. m : hops[i] \in Nat /\ hops[1] <= hops[i]
      BY <1>1 DEF InBreadth
    <2>2. then[x].metres \in Int /\ then[x].hops \in Nat /\ then[x].hops <= hops[1]
      <3>1. CASE x \in s.seen
        BY <1>1, <1>8, <3>1 DEF InBreadth
      <3>2. CASE x = l
        BY <1>8, <3>2
      <3>3. QED
        BY <1>3, <3>1, <3>2
    <2>3. Range(n.rules[x]) \subseteq Range(t.found)
      <3>1. CASE x \in s.seen
        BY <1>3, <3>1 DEF InBreadth
      <3>2. CASE x \notin s.seen /\ x = l
        BY <1>3, <3>2
      <3>3. QED
        BY <1>3, <3>1, <3>2
    <2> HIDE DEF then, onward, q, m
    <2>4. ASSUME NEW i \in 1 .. Len(t.queue) PROVE then[x].hops <= onward[i]
      <3>1. CASE onward[i] = hops[1] + 1
        BY <1>6, <2>2, <3>1
      <3>2. CASE i + 1 \in 1 .. m /\ onward[i] = hops[i + 1]
        BY <1>6, <2>1, <2>2, <3>2
      <3>3. QED
        BY <1>5, <3>1, <3>2
    <2>5. QED
      BY <2>2, <2>3, <2>4
  <1>13. ASSUME NEW f, WaysFrom(n, starts, N, f)
         PROVE  /\ \A i \in 1 .. Len(t.queue) :
                     Way(t.queue[i][1], t.queue[i][2], onward[i]) \in f[Cardinality(t.seen)]
                /\ \A x \in t.seen : Way(x, then[x].metres, then[x].hops) \in f[N]
    <2>1. k \in 0 .. N /\ IsFiniteSet(s.seen) /\ N \in Nat /\ Cardinality(t.seen) \in 0 .. N
      <3>1. s.seen \subseteq Range(n.ids) /\ t.seen \subseteq Range(n.ids)
        BY <1>3, <1>6 DEF OnItsWay
      <3>2. QED
        BY <3>1, SeenWithin, SeqFacts DEF Net
    <2>2. f[k] \subseteq f[N]
      BY <1>13, <2>1, WaysGrow
    <2>3. IF l \in s.seen THEN Cardinality(t.seen) = k
          ELSE Cardinality(t.seen) = k + 1 /\ f[k + 1] = Further(n, starts, f[k])
      <3>1. Cardinality(t.seen) = IF l \in s.seen THEN k ELSE k + 1
        BY <1>3, <2>1, FS_AddElement
      <3>2. CASE l \in s.seen
        BY <3>1, <3>2
      <3>3. CASE l \notin s.seen
        <4>1. k + 1 \in 0 .. N /\ k + 1 # 0 /\ (k + 1) - 1 = k
          BY <2>1, <3>1, <3>3
        <4> HIDE DEF k, N
        <4>2. QED
          BY <1>13, <3>1, <3>3, <4>1 DEF WaysFrom
      <3>4. QED
        BY <3>2, <3>3
    <2>4. f[k] \subseteq f[Cardinality(t.seen)]
      BY <2>3 DEF Further
    <2>5. \A i \in 1 .. m : Way(q[i][1], q[i][2], hops[i]) \in f[k]
      BY <1>13 DEF InBreadth
    <2>6. Way(l, travelled, hops[1]) \in f[k]
      BY <1>1, <2>5
    <2>7. ASSUME NEW j \in 1 .. Len(more)
          PROVE  Way(more[j][1], more[j][2], hops[1] + 1) \in f[Cardinality(t.seen)]
      <3> DEFINE u == Way(l, travelled, hops[1])
      <3>1. PICK o \in Range(n.successors[l]) : more[j] = <<o, ahead>>
        BY <1>7
      <3> DEFINE v == Way(o, ahead, hops[1] + 1)
      <3>2. u.to = l /\ u.metres = travelled /\ u.hops = hops[1]
        BY DEF Way
      <3>3. v \in Onward(n, starts, u)
        BY <3>1, <3>2 DEF Onward, Way
      <3>4. v.metres <= LightSearch /\ u.to \in {x \in Range(n.ids) : n.rules[x] = <<>>}
        BY <1>6, <1>7, <3>2 DEF Way
      <3> HIDE DEF u, v, l, ahead, k
      <3>5. v \in Further(n, starts, f[k])
        BY <2>6, <3>3, <3>4 DEF Further, u
      <3>6. QED
        BY <1>7, <2>3, <3>1, <3>5 DEF v
    <2>8. ASSUME NEW i \in 1 .. Len(t.queue)
          PROVE  Way(t.queue[i][1], t.queue[i][2], onward[i]) \in f[Cardinality(t.seen)]
      <3> HIDE DEF onward, q, m, l, ahead, k
      <3>1. CASE \E j \in 1 .. Len(more) : t.queue[i] = more[j] /\ onward[i] = hops[1] + 1
        BY <2>7, <3>1
      <3>2. CASE i + 1 \in 1 .. m /\ t.queue[i] = q[i + 1] /\ onward[i] = hops[i + 1]
        BY <2>4, <2>5, <3>2
      <3>3. QED
        BY <1>5, <3>1, <3>2
    <2>9. ASSUME NEW x \in t.seen PROVE Way(x, then[x].metres, then[x].hops) \in f[N]
      <3>1. CASE x \in s.seen
        BY <1>8, <1>13, <3>1 DEF InBreadth
      <3>2. CASE x \notin s.seen
        <4>1. x = l /\ then[x] = [metres |-> travelled, hops |-> hops[1]]
          BY <1>3, <1>8, <3>2
        <4> HIDE DEF then, l, travelled, k
        <4>2. QED
          BY <2>2, <2>6, <4>1
      <3>3. QED
        BY <3>1, <3>2
    <2>10. QED
      BY <2>8, <2>9
  <1>14. \A x \in starts : Comes(t, then, onward, x, 0)
    <2>1. \A x \in starts : Comes(s, first, hops, x, 0)
      BY DEF InBreadth
    <2> HIDE DEF then, onward
    <2>2. QED
      BY <1>9, <2>1
  <1>15. ASSUME NEW x \in t.seen, n.rules[x] = <<>>,
                (IF x \in starts THEN then[x].metres ELSE then[x].metres + n.length[x]) <= LightSearch,
                NEW o \in Range(n.successors[x])
         PROVE  Comes(t, then, onward, o, then[x].hops + 1)
    <2>1. CASE x \in s.seen
      <3>1. then[x] = first[x]
        BY <1>8, <2>1
      <3> HIDE DEF then, onward
      <3>2. first[x].hops + 1 \in Int
        BY <2>1 DEF InBreadth
      <3>3. Comes(s, first, hops, o, first[x].hops + 1)
        BY <1>15, <2>1, <3>1 DEF InBreadth
      <3>4. QED
        BY <1>9, <3>1, <3>2, <3>3
    <2>2. CASE x \notin s.seen
      <3>1. x = l /\ then[x] = [metres |-> travelled, hops |-> hops[1]]
        BY <1>3, <1>8, <2>2
      <3>2. ahead <= LightSearch
        BY <1>15, <3>1
      <3>3. s.start = starts
        BY DEF OnItsWay
      <3>4. more = [i \in DOMAIN n.successors[l] |-> <<n.successors[l][i], ahead>>]
        BY <1>15, <2>2, <3>1, <3>2, <3>3 DEF Pushed, more
      <3> HIDE DEF l, ahead
      <3>5. PICK j \in DOMAIN n.successors[l] : n.successors[l][j] = o
        BY <1>15, <3>1 DEF Range
      <3>6. j \in 1 .. Len(more) /\ more[j] = <<o, ahead>>
        <4>1. j \in DOMAIN more /\ more[j] = <<o, ahead>>
          BY <3>4, <3>5
        <4>2. QED
          BY <1>2, <4>1, SeqFacts
      <3> DEFINE i == (m - 1) + j
      <3>7. i \in 1 .. Len(t.queue) /\ t.queue[i] = <<o, ahead>> /\ onward[i] = hops[1] + 1
        <4>0. m \in Nat /\ m >= 1 /\ j \in 1 .. Len(more)
          BY <1>1, <3>6
        <4> HIDE DEF m
        <4>1. i \in 1 .. Len(t.queue) /\ ~(i < m)
          BY <1>2, <1>4, <4>0
        <4>2. t.queue[i] = more[j]
          BY <1>4, <4>0
        <4>3. QED
          BY <3>6, <4>1, <4>2
      <3> HIDE DEF i, then, onward
      <3>8. then[x].hops + 1 = hops[1] + 1 /\ hops[1] + 1 <= hops[1] + 1
        BY <1>6, <3>1
      <3>9. QED
        BY <3>7, <3>8 DEF Comes
    <2>3. QED
      BY <2>1, <2>2
  <1> HIDE DEF then, onward
  <1>16. InBreadth(n, starts, t, then, onward)
    BY <1>10, <1>11, <1>12, <1>13, <1>14, <1>15 DEF InBreadth
  <1>17. QED
    BY <1>16 DEF t

\* A way on from the starts, put as Ways has them.
LEMMA WaysTyped ==
  ASSUME NEW n, Net(n), Measured(n), NEW starts, starts \subseteq Range(n.ids),
         NEW m \in Nat, NEW f, WaysFrom(n, starts, m, f), NEW k \in 0 .. m, NEW w \in f[k]
  PROVE  w.to \in Range(n.ids) /\ w.metres \in Int /\ w.hops \in Nat
  <1> DEFINE Typed(v) == v.to \in Range(n.ids) /\ v.metres \in Int /\ v.hops \in Nat
             T == {i \in 0 .. m : \A v \in f[i] : Typed(v)}
  <1>1. 0 \in T
    <2>1. f[0] = {[to |-> l, metres |-> 0, hops |-> 0] : l \in starts}
      BY DEF WaysFrom
    <2>2. QED
      BY <2>1
  <1>2. ASSUME NEW i \in 0 .. m - 1, i \in T PROVE i + 1 \in T
    <2>1. i + 1 \in 0 .. m /\ i + 1 # 0 /\ (i + 1) - 1 = i
      OBVIOUS
    <2>2. f[i + 1] = Further(n, starts, f[i])
      BY <2>1 DEF WaysFrom
    <2>3. ASSUME NEW u \in f[i], NEW v \in Onward(n, starts, u) PROVE Typed(v)
      <3>1. Typed(u)
        BY <1>2
      <3>2. PICK o \in Range(n.successors[u.to]) :
               v = [to |-> o,
                    metres |-> IF u.to \in starts THEN u.metres ELSE u.metres + n.length[u.to],
                    hops |-> u.hops + 1]
        BY DEF Onward
      <3>3. o \in Range(n.ids) /\ n.length[u.to] \in Int
        BY <3>1 DEF Net, Measured
      <3>4. QED
        BY <3>1, <3>2, <3>3
    <2> HIDE DEF Typed
    <2>4. \A v \in f[i + 1] : Typed(v)
      BY <1>2, <2>2, <2>3 DEF Further
    <2>5. QED
      BY <2>1, <2>4
  <1>3. k \in T
    <2> HIDE DEF T
    <2>1. 0 .. m \subseteq T
      BY <1>1, <1>2, UpTo
    <2>2. QED
      BY <2>1
  <1>4. QED
    BY <1>3

\* A search whose queue is empty came to every lanelet some way leads to, over no more
\* lanelets and, but for a detour, over no more metres.
LEMMA EndedEverywhere ==
  ASSUME NEW n, Net(n), Measured(n), NEW starts, starts \subseteq Range(n.ids), NEW s,
         s.queue = <<>>, NEW first, NEW hops, InBreadth(n, starts, s, first, hops),
         NEW f, WaysFrom(n, starts, Len(n.ids), f), ~Detour(f[Len(n.ids)]),
         NEW w \in f[Len(n.ids)]
  PROVE  Range(n.rules[w.to]) \subseteq Range(s.found)
  <1> DEFINE N == Len(n.ids)
             Met(v) == v.to \in s.seen /\ first[v.to].hops <= v.hops
             T == {i \in 0 .. N : \A v \in f[i] : Met(v)}
  <1>1. N \in Nat
    BY SeqFacts DEF Net
  <1>2. \A o, most : Comes(s, first, hops, o, most) => o \in s.seen /\ first[o].hops <= most
    <2>1. Len(s.queue) = 0
      OBVIOUS
    <2>2. QED
      BY <2>1 DEF Comes
  <1>3. 0 \in T
    <2>1. f[0] = {[to |-> l, metres |-> 0, hops |-> 0] : l \in starts}
      BY <1>1 DEF WaysFrom
    <2>2. \A l \in starts : l \in s.seen /\ first[l].hops <= 0
      BY <1>2 DEF InBreadth
    <2>3. QED
      BY <1>1, <2>1, <2>2
  <1>4. ASSUME NEW i \in 0 .. N - 1, i \in T PROVE i + 1 \in T
    <2>1. i \in 0 .. N /\ i + 1 \in 0 .. N /\ i + 1 # 0 /\ (i + 1) - 1 = i
      BY <1>1
    <2>2. f[i + 1] = Further(n, starts, f[i])
      BY <2>1 DEF WaysFrom
    <2>3. ASSUME NEW u \in f[i], n.rules[u.to] = <<>>,
                 NEW v \in Onward(n, starts, u), v.metres <= LightSearch
          PROVE  Met(v)
      <3> DEFINE l == u.to
                 x == Way(l, first[l].metres, first[l].hops)
      <3>1. l \in Range(n.ids) /\ u.metres \in Int /\ u.hops \in Nat
        BY <1>1, <2>1, WaysTyped
      <3>2. l \in s.seen /\ first[l].hops <= u.hops
        BY <1>4
      <3>3. first[l].metres \in Int /\ first[l].hops \in Nat /\ n.length[l] \in Int
        BY <3>1, <3>2 DEF InBreadth, Measured
      <3>4. PICK o \in Range(n.successors[l]) :
               v = [to |-> o,
                    metres |-> IF l \in starts THEN u.metres ELSE u.metres + n.length[l],
                    hops |-> u.hops + 1]
        BY DEF Onward
      <3>5. first[l].metres <= u.metres
        <4>1. x \in f[N] /\ u \in f[N]
          <5>1. f[i] \subseteq f[N]
            BY <1>1, <2>1, WaysGrow
          <5>2. QED
            BY <3>2, <5>1 DEF InBreadth
        <4>2. x.to = u.to /\ x.metres = first[l].metres /\ x.hops = first[l].hops
          BY DEF Way
        <4> HIDE DEF x
        <4>3. ~(u.metres < x.metres /\ x.hops <= u.hops)
          BY <4>1, <4>2 DEF Detour
        <4> HIDE DEF l
        <4>4. QED
          BY <3>1, <3>2, <3>3, <4>2, <4>3
      <3>6. (IF l \in starts THEN first[l].metres ELSE first[l].metres + n.length[l]) <= LightSearch
        <4>1. v.metres = IF l \in starts THEN u.metres ELSE u.metres + n.length[l]
          BY <3>4
        <4> HIDE DEF l
        <4>2. LightSearch \in Int
          BY DEF LightSearch
        <4>3. QED
          BY <2>3, <3>1, <3>3, <3>5, <4>1, <4>2
      <3>7. Comes(s, first, hops, o, first[l].hops + 1)
        BY <2>3, <3>2, <3>4, <3>6 DEF InBreadth
      <3>8. o \in s.seen /\ first[o].hops <= first[l].hops + 1 /\ first[o].hops \in Nat
        BY <1>2, <3>7 DEF InBreadth
      <3>9. v.to = o /\ v.hops = u.hops + 1
        BY <3>4
      <3> HIDE DEF l
      <3>10. QED
        BY <3>1, <3>2, <3>3, <3>8, <3>9
    <2>4. \A v \in f[i] : Met(v)
      BY <1>4
    <2> HIDE DEF Met, T
    <2>5. \A v \in f[i + 1] : Met(v)
      BY <2>2, <2>3, <2>4 DEF Further
    <2>6. QED
      BY <2>1, <2>5 DEF T
  <1>5. N \in T
    <2> HIDE DEF T
    <2>1. 0 .. N \subseteq T
      BY <1>1, <1>3, <1>4, UpTo
    <2>2. QED
      BY <1>1, <2>1
  <1>6. w.to \in s.seen
    BY <1>5
  <1>7. QED
    BY <1>6 DEF InBreadth

\* A search begins with its starts, in some order of them all.
LEMMA BegunInBreadth ==
  ASSUME NEW n, Net(n), NEW starts, NEW order, IsSeq(order), Range(order) = starts
  PROVE  \E first, hops :
            InBreadth(n, starts, [queue |-> [i \in DOMAIN order |-> <<order[i], 0>>],
                                  start |-> starts, seen |-> {}, found |-> <<>>], first, hops)
  <1> DEFINE queue == [i \in DOMAIN order |-> <<order[i], 0>>]
             s == [queue |-> queue, start |-> starts, seen |-> {}, found |-> <<>>]
             hops == [i \in 1 .. Len(order) |-> 0]
             first == <<>>
  <1>1. /\ Len(order) \in Nat /\ DOMAIN order = 1 .. Len(order)
        /\ \A i \in 1 .. Len(order) : order[i] \in starts
        /\ \A l \in starts : \E i \in 1 .. Len(order) : l = order[i]
    BY SeqFacts
  <1>2. Len(queue) = Len(order) /\ \A i \in 1 .. Len(order) : queue[i] = <<order[i], 0>>
    <2>1. queue \in Seq(starts \X {0})
      BY <1>1
    <2>2. DOMAIN queue = 1 .. Len(order)
      BY <1>1
    <2>3. QED
      BY <1>1, <2>1, <2>2
  <1>3. s.queue = queue /\ s.seen = {}
    OBVIOUS
  <1> HIDE DEF s, queue
  <1>4. \A i \in 1 .. Len(order) : hops[i] = 0
    OBVIOUS
  <1> HIDE DEF hops, first
  <1>5. ASSUME NEW f, WaysFrom(n, starts, Len(n.ids), f), NEW i \in 1 .. Len(s.queue)
        PROVE  Way(s.queue[i][1], s.queue[i][2], hops[i]) \in f[Cardinality(s.seen)]
    <2>1. Cardinality(s.seen) = 0 /\ 0 \in 0 .. Len(n.ids)
      BY <1>3, FS_EmptySet, SeqFacts DEF Net
    <2>2. f[0] = {[to |-> l, metres |-> 0, hops |-> 0] : l \in starts}
      BY <1>5, <2>1 DEF WaysFrom
    <2>3. Way(s.queue[i][1], s.queue[i][2], hops[i]) = [to |-> order[i], metres |-> 0, hops |-> 0]
      BY <1>2, <1>3, <1>4, <1>5 DEF Way
    <2>4. order[i] \in starts
      BY <1>1, <1>2, <1>3, <1>5
    <2>5. QED
      BY <2>1, <2>2, <2>3, <2>4
  <1>6. \A l \in starts : Comes(s, first, hops, l, 0)
    BY <1>1, <1>2, <1>3, <1>4 DEF Comes
  <1>7. InBreadth(n, starts, s, first, hops)
    BY <1>2, <1>3, <1>4, <1>5, <1>6 DEF InBreadth
  <1>8. QED
    BY <1>7 DEF s, queue

-----------------------------------------------------------------------------
(* Nothing missed                                                          *)

\* No light a way leads to is missing from what was found, but for a detour.
Thorough(n, starts, ahead) ==
    \A f : WaysFrom(n, starts, Len(n.ids), f) =>
        \/ Detour(f[Len(n.ids)])
        \/ \A w \in f[Len(n.ids)] : Range(n.rules[w.to]) \subseteq Range(ahead)

\* A search under way goes through the lanelets in order.
Spreading(d) ==
    pc[d] = "search" => \E first, hops : InBreadth(net, Here(Point(d)), search[d], first, hops)

\* All that is searched or cached is on the way to missing nothing near.
ThoroughInv ==
    /\ Measured(net)
    /\ \A p \in DOMAIN setOrder : Here(p) \subseteq Range(setOrder[p])
    /\ \A d \in Drives : Spreading(d)
    /\ \A p \in DOMAIN resolved : Thorough(net, Range(resolved[p].lanes), resolved[p].ahead)

\* No search is under way at first.
LEMMA ThoroughInit == Init => ThoroughInv
  <1> SUFFICES ASSUME Init PROVE ThoroughInv
    OBVIOUS
  <1>1. \A d \in Drives : pc[d] = "idle"
    BY DEF Init, GivenInit
  <1>2. Measured(net)
    <2>1. mapSet \in MapSets /\ file = mapSet.file /\ net = Read(file)
      BY DEF Init, GivenInit
    <2>2. QED
      BY <2>1, FilesRead, ReadMeasured
  <1>3. DOMAIN setOrder = {} /\ DOMAIN resolved = {}
    <2>1. resolved = <<>> /\ setOrder = <<>>
      BY DEF Init, GivenInit
    <2>2. QED
      BY <2>1
  <1>4. QED
    BY <1>1, <1>2, <1>3 DEF ThoroughInv, Spreading

\* As AheadKeeps.
LEMMA ThoroughKeeps ==
  ASSUME ThoroughInv, UNCHANGED net, NEW d \in Drives,
         \A e \in Drives \ {d} : UNCHANGED StateOf(e), Spreading(d)',
         \A p \in DOMAIN setOrder' : \/ p \in DOMAIN setOrder /\ setOrder'[p] = setOrder[p]
                                     \/ Here(p) \subseteq Range(setOrder'[p]),
         \A p \in DOMAIN resolved' :
            \/ p \in DOMAIN resolved /\ resolved'[p] = resolved[p]
            \/ Thorough(net, Range(resolved'[p].lanes), resolved'[p].ahead)
  PROVE  ThoroughInv'
  <1>1. \A p : Here(p)' = Here(p)
    BY DEF Here
  <1>2. ASSUME NEW e \in Drives \ {d} PROVE Spreading(e)'
    <2>1. Spreading(e) /\ UNCHANGED <<pc[e], light[e], at[e], search[e]>>
      BY <1>2 DEF ThoroughInv, StateOf
    <2>2. Point(e)' = Point(e)
      BY <2>1 DEF Point
    <2>3. Here(Point(e))' = Here(Point(e))
      BY <2>2 DEF Here
    <2>4. QED
      BY <2>1, <2>3 DEF Spreading
  <1>3. (\A p \in DOMAIN setOrder : Here(p) \subseteq Range(setOrder[p]))'
    BY <1>1 DEF ThoroughInv
  <1>4. (\A p \in DOMAIN resolved : Thorough(net, Range(resolved[p].lanes), resolved[p].ahead))'
    BY DEF ThoroughInv
  <1>5. Measured(net)'
    BY DEF ThoroughInv
  <1>6. QED
    BY <1>2, <1>3, <1>4, <1>5 DEF ThoroughInv

\* ThoroughInv is inductive, beside AheadInv.
LEMMA ThoroughStep == AheadInv /\ ThoroughInv /\ [Next]_vars => ThoroughInv'
  <1> SUFFICES ASSUME AheadInv, ThoroughInv, [Next]_vars PROVE ThoroughInv'
    OBVIOUS
  <1>1. CASE Open \/ Finished \/ UNCHANGED vars
    <2>1. UNCHANGED givenVars
      BY <1>1 DEF Open, Finished, vars
    <2>2. UNCHANGED <<net, resolved, setOrder, pc, light, at, search, rules, lanes>>
      BY <2>1 DEF givenVars, map, cache, asking
    <2>3. QED
      BY <2>2 DEF ThoroughInv, Spreading, Point, Here
  <1>2. ASSUME NEW d \in Drives, pc'[d] # "search", UNCHANGED <<net, resolved, setOrder>>,
               \A e \in Drives \ {d} : UNCHANGED StateOf(e)
        PROVE  ThoroughInv'
    BY <1>2, ThoroughKeeps DEF Spreading
  <1>3. ASSUME NEW d \in Drives, NEW l \in Lights, Ask(d, l) PROVE ThoroughInv'
    <2>1. pc'[d] = "points" /\ UNCHANGED <<net, resolved, setOrder>>
          /\ \A e \in Drives \ {d} : UNCHANGED StateOf(e)
      BY <1>3 DEF Ask, GoTo, map, cache, DriveTables, AheadInv, StateOf
    <2>2. QED
      BY <1>2, <2>1
  <1>4. ASSUME NEW d \in Drives, TakeResolved(d) PROVE ThoroughInv'
    <2>1. pc'[d] = "points" /\ UNCHANGED <<net, resolved, setOrder>>
          /\ \A e \in Drives \ {d} : UNCHANGED StateOf(e)
      BY <1>4 DEF TakeResolved, Keep, GoTo, map, cache, DriveTables, AheadInv, StateOf
    <2>2. QED
      BY <1>2, <2>1
  <1>5. ASSUME NEW d \in Drives, AnswerGiven(d) \/ AnswerConverted(d) PROVE ThoroughInv'
    <2>1. pc'[d] = "idle" /\ UNCHANGED <<net, resolved, setOrder>>
          /\ \A e \in Drives \ {d} : UNCHANGED StateOf(e)
      BY <1>5 DEF AnswerGiven, AnswerConverted, GoTo, map, cache, DriveTables, AheadInv, StateOf
    <2>2. QED
      BY <1>2, <2>1
  <1>6. ASSUME NEW d \in Drives, BeginSearch(d) PROVE ThoroughInv'
    <2> DEFINE p == Point(d)
               here == Range(LaneletsAt(net, p))
               Begun(order) == [queue |-> [i \in DOMAIN order |-> <<order[i], 0>>],
                                start |-> here, seen |-> {}, found |-> <<>>]
    <2>1. PICK order \in IF p \in DOMAIN setOrder THEN {setOrder[p]} ELSE SetToSeqs(here) :
             /\ setOrder' = With(setOrder, p, order)
             /\ search' = [search EXCEPT ![d] = Begun(order)]
      BY <1>6 DEF BeginSearch
    <2>2. /\ UNCHANGED <<net, resolved, light, at, rules, lanes>>
          /\ pc' = [pc EXCEPT ![d] = "search"]
      BY <1>6 DEF BeginSearch, map, GoTo, Reserve
    <2>3. here = Here(p) /\ IsFiniteSet(here)
      <3>1. IsSeq(LaneletsAt(net, p))
        BY LaneletsThere DEF AheadInv
      <3>2. QED
        BY <3>1, SeqSize DEF Here
    <2>4. IsSeq(order) /\ Range(order) = here
      <3>1. CASE p \in DOMAIN setOrder
        BY <2>1, <2>3, <3>1 DEF AheadInv, ThoroughInv
      <3>2. CASE p \notin DOMAIN setOrder
        <4> HIDE DEF here
        <4>1. order \in SetToSeqs(here)
          BY <2>1, <3>2
        <4>2. QED
          BY <2>3, <4>1, OrdersCover
      <3>3. QED
        BY <3>1, <3>2
    <2>5. search'[d] = Begun(order)
      BY <2>1 DEF AheadInv, DriveTables
    <2>6. \E first, hops : InBreadth(net, here, search'[d], first, hops)
      <3> HIDE DEF here
      <3>1. QED
        BY <2>4, <2>5, BegunInBreadth DEF AheadInv
    <2>7. Spreading(d)'
      <3>1. Point(d)' = p
        BY <2>2 DEF Point
      <3>2. Here(Point(d))' = here
        BY <2>2, <3>1 DEF Here
      <3> HIDE DEF here
      <3>3. QED
        BY <2>2, <2>6, <3>2 DEF Spreading
    <2>8. \A q \in DOMAIN setOrder' : \/ q \in DOMAIN setOrder /\ setOrder'[q] = setOrder[q]
                                      \/ Here(q) \subseteq Range(setOrder'[q])
      <3>1. \A q \in DOMAIN setOrder' : \/ q = p /\ setOrder'[q] = order
                                        \/ q \in DOMAIN setOrder /\ setOrder'[q] = setOrder[q]
        BY <2>1 DEF With
      <3>2. QED
        BY <2>3, <2>4, <3>1
    <2>9. \A e \in Drives \ {d} : UNCHANGED StateOf(e)
      BY <2>1, <2>2 DEF DriveTables, AheadInv, StateOf
    <2>10. QED
      BY <2>2, <2>7, <2>8, <2>9, ThoroughKeeps
  <1>7. ASSUME NEW d \in Drives, Visit(d) PROVE ThoroughInv'
    <2>1. /\ search[d].queue # <<>> /\ pc[d] = "search"
          /\ UNCHANGED <<net, setOrder, resolved, pc, light, at, rules, lanes>>
      BY <1>7 DEF Visit, map, cache
    <2>2. search'[d] = Turn(net, search[d])
      BY <1>7 DEF Visit, Turn, Ahead, Stops, Lanelet, Travelled, AheadInv, DriveTables
    <2>3. OnItsWay(net, Here(Point(d)), search[d]) /\ Net(net) /\ Measured(net)
      BY <2>1 DEF AheadInv, Searching, ThoroughInv
    <2>4. Here(Point(d)) \subseteq Range(net.ids)
      BY <2>3, LaneletsThere DEF Here
    <2>5. PICK first, hops : InBreadth(net, Here(Point(d)), search[d], first, hops)
      BY <2>1 DEF ThoroughInv, Spreading
    <2>6. \E then, onward : InBreadth(net, Here(Point(d)), search'[d], then, onward)
      BY <2>1, <2>2, <2>3, <2>4, <2>5, TurnInBreadth
    <2>7. Spreading(d)'
      <3>1. Point(d)' = Point(d)
        BY <2>1 DEF Point
      <3>2. Here(Point(d))' = Here(Point(d))
        BY <2>1, <3>1 DEF Here
      <3>3. QED
        BY <2>1, <2>6, <3>2 DEF Spreading
    <2>8. \A e \in Drives \ {d} : UNCHANGED StateOf(e)
      BY <1>7, <2>1 DEF Visit, AheadInv, DriveTables, StateOf
    <2>9. QED
      BY <2>1, <2>7, <2>8, ThoroughKeeps
  <1>8. ASSUME NEW d \in Drives, EndSearch(d) PROVE ThoroughInv'
    <2> DEFINE p == Point(d)
               answer == [lanes |-> LaneletsAt(net, p), ahead |-> search[d].found]
    <2>1. /\ UNCHANGED <<net, setOrder, light>> /\ pc[d] = "search" /\ search[d].queue = <<>>
          /\ resolved' = With(resolved, p, answer)
      BY <1>8 DEF EndSearch, map
    <2>2. pc'[d] = "points" /\ \A e \in Drives \ {d} : UNCHANGED StateOf(e)
      BY <1>8 DEF EndSearch, Keep, GoTo, AheadInv, DriveTables, StateOf
    <2>3. Thorough(net, Here(p), search[d].found)
      <3>1. Net(net) /\ Measured(net) /\ Here(p) \subseteq Range(net.ids)
        BY LaneletsThere DEF AheadInv, ThoroughInv, Here
      <3>2. PICK first, hops : InBreadth(net, Here(p), search[d], first, hops)
        BY <2>1 DEF ThoroughInv, Spreading
      <3>3. QED
        BY <2>1, <3>1, <3>2, EndedEverywhere DEF Thorough
    <2>4. \A q \in DOMAIN resolved' : \/ q \in DOMAIN resolved /\ resolved'[q] = resolved[q]
                                      \/ resolved'[q] = answer
      BY <2>1 DEF With
    <2>5. Thorough(net, Range(answer.lanes), answer.ahead)
      BY <2>3 DEF Here
    <2> HIDE DEF answer
    <2>6. Spreading(d)'
      BY <2>2 DEF Spreading
    <2>7. QED
      BY <2>1, <2>2, <2>4, <2>5, <2>6, ThoroughKeeps
  <1>9. QED
    BY <1>1, <1>3, <1>4, <1>5, <1>6, <1>7, <1>8 DEF Next, Resolve

\* On every map, however the searches of drives interleave on the cache they share, a
\* light within the search is only missed where a way over fewer lanelets is the longer:
\* the queue is visited in the order of lanelets, so a lanelet is first come to over
\* as few as any way has, and no light is lost to its being visited once.
THEOREM SearchThorough == Spec => []MissedOnlyByDetour
  <1>1. AheadInv /\ ThoroughInv => MissedOnlyByDetour
    <2> SUFFICES ASSUME AheadInv, ThoroughInv, NEW p \in DOMAIN resolved
                 PROVE  LET ways == Ways(Range(resolved[p].lanes)) IN
                        \/ \A w \in ways : Range(net.rules[w.to]) \subseteq Range(resolved[p].ahead)
                        \/ Detour(ways)
      BY DEF MissedOnlyByDetour
    <2>1. PICK f : /\ WaysFrom(net, Range(resolved[p].lanes), Len(net.ids), f)
                   /\ Ways(Range(resolved[p].lanes)) = f[Len(net.ids)]
      BY WaysAre DEF AheadInv, Net
    <2>2. Thorough(net, Range(resolved[p].lanes), resolved[p].ahead)
      BY DEF ThoroughInv
    <2>3. QED
      BY <2>1, <2>2 DEF Thorough
  <1>2. Spec => [](AheadInv /\ ThoroughInv)
    BY AheadInit, AheadStep, ThoroughInit, ThoroughStep, PTL DEF Spec
  <1>3. QED
    BY <1>1, <1>2, PTL

-----------------------------------------------------------------------------
(* The way a lanelet is read                                               *)

\* Sound of the numbers may be taken first.
Adding(n, value, it) ==
    /\ it[{}] = 0
    /\ \A t \in SUBSET (1 .. n) : it[t] \in Int /\ \A x \in t : it[t] = value[x] + it[t \ {x}]

\* A sum does not depend on what is taken first.
LEMMA AnyTaken ==
  ASSUME NEW n \in Nat, NEW value, \A i \in 1 .. n : value[i] \in Int,
         NEW choice, \A t \in SUBSET (1 .. n) : t # {} => choice[t] \in t,
         NEW it, Summing(n, value, choice, it)
  PROVE  Adding(n, value, it)
  <1> DEFINE Sound(t) == it[t] \in Int /\ \A x \in t : it[t] = value[x] + it[t \ {x}]
             T == {k \in 0 .. n : \A t \in SUBSET (1 .. n) : Cardinality(t) <= k => Sound(t)}
  <1>0. Sound({})
    <2>1. it[{}] = 0
      BY {} \in SUBSET (1 .. n) DEF Summing
    <2>2. QED
      BY <2>1
  <1>1. 0 \in T
    <2>1. ASSUME NEW t \in SUBSET (1 .. n), Cardinality(t) <= 0 PROVE Sound(t)
      <3>1. t = {}
        BY <2>1, OneTaken
      <3> HIDE DEF Sound
      <3>2. QED
        BY <1>0, <3>1
    <2> HIDE DEF Sound
    <2>2. QED
      BY <2>1
  <1>2. ASSUME NEW k \in 0 .. n - 1, k \in T PROVE k + 1 \in T
    <2>1. ASSUME NEW t \in SUBSET (1 .. n), Cardinality(t) <= k + 1 PROVE Sound(t)
      <3> DEFINE y == choice[t]
      <3>1. CASE t = {}
        <4> HIDE DEF Sound
        <4>1. QED
          BY <1>0, <3>1
      <3>2. ASSUME t # {} PROVE Sound(t)
        <4>1. y \in t /\ it[t] = value[y] + it[t \ {y}]
          BY <3>2 DEF Summing
        <4> HIDE DEF y
        <4>2. \A x \in t : /\ t \ {x} \in SUBSET (1 .. n) /\ Cardinality(t \ {x}) <= k
          BY <2>1, OneTaken
        <4> HIDE DEF Sound
        <4>3. \A x \in t : Sound(t \ {x})
          BY <1>2, <4>2
        <4> USE DEF Sound
        <4>4. \A x \in t : it[t \ {x}] \in Int /\ value[x] \in Int
          BY <4>3
        <4>5. ASSUME NEW x \in t PROVE it[t] = value[x] + it[t \ {x}]
          <5>1. CASE x = y
            BY <4>1, <5>1
          <5>2. CASE x # y
            <6> DEFINE rest == it[(t \ {y}) \ {x}]
            <6>1. it[t \ {y}] = value[x] + rest
              BY <4>1, <4>3, <5>2
            <6>2. (t \ {x}) \ {y} = (t \ {y}) \ {x}
              OBVIOUS
            <6>3. it[t \ {x}] = value[y] + it[(t \ {x}) \ {y}]
              BY <4>1, <4>3, <5>2
            <6>4. it[t \ {x}] = value[y] + rest
              BY <6>2, <6>3
            <6>5. rest \in Int
              <7>1. (t \ {y}) \ {x} \in SUBSET (1 .. n) /\ Cardinality((t \ {y}) \ {x}) <= k
                <8>1. t \ {y} \in SUBSET (1 .. n) /\ Cardinality(t \ {y}) <= k /\ x \in t \ {y}
                  BY <4>1, <4>2, <5>2
                <8>2. /\ (t \ {y}) \ {x} \in SUBSET (1 .. n)
                      /\ Cardinality((t \ {y}) \ {x}) = Cardinality(t \ {y}) - 1
                      /\ Cardinality(t \ {y}) \in Nat
                  BY <8>1, OneTaken
                <8>3. QED
                  BY <8>1, <8>2
              <7>2. QED
                BY <1>2, <7>1
            <6> HIDE DEF rest
            <6>6. QED
              BY <4>1, <4>4, <6>1, <6>4, <6>5
          <5>3. QED
            BY <5>1, <5>2
        <4>6. it[t] \in Int
          BY <4>1, <4>4
        <4>7. QED
          BY <4>5, <4>6
      <3> HIDE DEF Sound
      <3>3. QED
        BY <3>1, <3>2
    <2> HIDE DEF Sound
    <2>2. QED
      BY <2>1
  <1>3. n \in T
    <2> HIDE DEF T
    <2>1. 0 .. n \subseteq T
      BY <1>1, <1>2, UpTo
    <2>2. QED
      BY <2>1
  <1>4. \A t \in SUBSET (1 .. n) : Cardinality(t) <= n
    BY OneTaken
  <1> HIDE DEF Sound
  <1>5. \A t \in SUBSET (1 .. n) : Sound(t)
    BY <1>3, <1>4
  <1>6. it[{}] = 0
    BY {} \in SUBSET (1 .. n) DEF Summing
  <1>7. QED
    BY <1>5, <1>6 DEF Sound, Adding

\* to pairs the numbers so that those of a pair have opposite values.
Opposite(n, value, other, to) ==
    \A i \in 1 .. n : /\ to[i] \in 1 .. n /\ to[to[i]] = i
                      /\ value[i] \in Int /\ other[i] = 0 - value[to[i]]

\* What is opposite, one for one, adds up to the opposite.
LEMMA OppositeSums ==
  ASSUME NEW n \in Nat, NEW value, NEW other, NEW to, Opposite(n, value, other, to),
         NEW it, Adding(n, value, it), NEW ot, Adding(n, other, ot)
  PROVE  ot[1 .. n] = 0 - it[1 .. n]
  <1> DEFINE Of(t) == {to[i] : i \in t}
             T == {k \in 0 .. n : \A t \in SUBSET (1 .. n) :
                                    Cardinality(t) <= k => ot[t] = 0 - it[Of(t)]}
  <1>0. it[{}] = 0 /\ ot[{}] = 0
    BY DEF Adding
  <1>9. \A v, w : v = 0 /\ w = 0 => w = 0 - v
    OBVIOUS
  <1>1. 0 \in T
    <2>1. ASSUME NEW t \in SUBSET (1 .. n), Cardinality(t) <= 0 PROVE ot[t] = 0 - it[Of(t)]
      <3>1. t = {}
        BY <2>1, OneTaken
      <3>2. Of(t) = {}
        BY <3>1
      <3> HIDE DEF Of
      <3>3. ot[t] = 0 /\ it[Of(t)] = 0
        BY <1>0, <3>1, <3>2
      <3>4. QED
        BY <1>9, <3>3
    <2> HIDE DEF Of
    <2>2. QED
      BY <2>1
  <1>2. ASSUME NEW k \in 0 .. n - 1, k \in T PROVE k + 1 \in T
    <2>1. ASSUME NEW t \in SUBSET (1 .. n), Cardinality(t) <= k + 1 PROVE ot[t] = 0 - it[Of(t)]
      <3>1. CASE t = {}
        <4>1. Of(t) = {}
          BY <3>1
        <4> HIDE DEF Of
        <4>2. ot[t] = 0 /\ it[Of(t)] = 0
          BY <1>0, <3>1, <4>1
        <4>3. QED
          BY <1>9, <4>2
      <3>2. CASE t # {}
        <4>1. PICK x \in t : x \in 1 .. n
          BY <3>2
        <4>2. /\ t \ {x} \in SUBSET (1 .. n) /\ Cardinality(t \ {x}) <= k
          BY <2>1, <4>1, OneTaken
        <4>3. Of(t) \in SUBSET (1 .. n) /\ to[x] \in Of(t) /\ Of(t \ {x}) \in SUBSET (1 .. n)
          BY <4>1 DEF Opposite
        <4>4. Of(t) \ {to[x]} = Of(t \ {x})
          <5>1. \A i \in t : to[i] = to[x] => i = x
            <6>1. ASSUME NEW i \in t, to[i] = to[x] PROVE i = x
              <7>1. to[to[i]] = i /\ to[to[x]] = x
                BY DEF Opposite
              <7>2. QED
                BY <6>1, <7>1
            <6>2. QED
              BY <6>1
          <5>2. QED
            BY <5>1
        <4> HIDE DEF Of
        <4>5. ot[t] = other[x] + ot[t \ {x}]
          BY <4>1 DEF Adding
        <4>6. it[Of(t)] = value[to[x]] + it[Of(t \ {x})] /\ it[Of(t \ {x})] \in Int
          <5>1. /\ it[Of(t)] = value[to[x]] + it[Of(t) \ {to[x]}]
                /\ it[Of(t \ {x})] \in Int
            BY <4>3 DEF Adding
          <5>2. QED
            BY <4>4, <5>1
        <4>7. ot[t \ {x}] = 0 - it[Of(t \ {x})]
          BY <1>2, <4>2
        <4>8. other[x] = 0 - value[to[x]] /\ value[to[x]] \in Int
          BY <4>1 DEF Opposite
        <4>9. QED
          BY <4>5, <4>6, <4>7, <4>8
      <3>3. QED
        BY <3>1, <3>2
    <2> HIDE DEF Of
    <2>2. QED
      BY <2>1
  <1>3. n \in T
    <2> HIDE DEF T
    <2>1. 0 .. n \subseteq T
      BY <1>1, <1>2, UpTo
    <2>2. QED
      BY <2>1
  <1>4. Cardinality(1 .. n) <= n
    BY OneTaken
  <1>5. Of(1 .. n) = 1 .. n
    <2>1. \A i \in 1 .. n : to[i] \in 1 .. n /\ i = to[to[i]]
      BY DEF Opposite
    <2>2. ASSUME NEW i \in 1 .. n PROVE i \in Of(1 .. n)
      <3> DEFINE j == to[i]
      <3>1. j \in 1 .. n /\ i = to[j]
        BY <2>1
      <3> HIDE DEF j
      <3>2. QED
        BY <3>1
    <2>3. Of(1 .. n) \subseteq 1 .. n
      BY <2>1
    <2>4. QED
      BY <2>2, <2>3
  <1> HIDE DEF Of
  <1>6. QED
    BY <1>3, <1>4, <1>5

\* The edge of an outline from its i-th point.
Edge(s, i) == s[i][1] * After(s, i)[2] - After(s, i)[1] * s[i][2]

\* All of them.
Edges(s) == [i \in 1 .. Len(s) |-> Edge(s, i)]

\* What a sum over a set takes first.
AnyOf(n) == [t \in SUBSET (1 .. n) |-> CHOOSE x \in t : TRUE]

\* The area of an outline is the sum over its edges.
LEMMA AreaSums ==
  ASSUME NEW s \in Points
  PROVE  /\ \A i \in 1 .. Len(s) : Edges(s)[i] \in Int
         /\ \E it : Summing(Len(s), Edges(s), AnyOf(Len(s)), it) /\ SignedArea(s) = it[1 .. Len(s)]
  <1> DEFINE n == Len(s)
             value == Edges(s)
             choice == AnyOf(n)
             Pick(t) == CHOOSE x \in t : TRUE
             Sum(it) == it = [t \in SUBSET (1 .. n) |->
                                IF t = {} THEN 0
                                ELSE (s[Pick(t)][1] * After(s, Pick(t))[2]
                                        - After(s, Pick(t))[1] * s[Pick(t)][2])
                                       + it[t \ {Pick(t)}]]
  <1>1. /\ s \in Seq(Int \X Int) /\ n \in Nat /\ n # 0 /\ DOMAIN s = 1 .. n
        /\ \A i \in 1 .. n : s[i] \in Int \X Int
    BY DEF Points
  <1>2. \A t \in SUBSET (1 .. n) : t # {} => choice[t] \in t
    BY DEF AnyOf
  <1>3. SignedArea(s) = (CHOOSE it : Sum(it))[1 .. n]
    BY DEF SignedArea, MapThenSumSet, MapThenFoldSet
  <1> HIDE DEF n
  <1>4. \A i \in 1 .. n : value[i] \in Int /\ value[i] = Edge(s, i)
    <2>1. ASSUME NEW i \in 1 .. n PROVE Edge(s, i) \in Int
      <3>1. (i % n) + 1 \in 1 .. n
        BY <1>1
      <3>2. s[i] \in Int \X Int /\ s[(i % n) + 1] \in Int \X Int
        BY <1>1, <3>1
      <3>3. After(s, i) = s[(i % n) + 1]
        BY DEF After, n
      <3> DEFINE p == s[i]
                 q == s[(i % n) + 1]
      <3>4. Edge(s, i) = p[1] * q[2] - q[1] * p[2]
        BY <3>3 DEF Edge
      <3> HIDE DEF p, q
      <3>5. p[1] \in Int /\ p[2] \in Int /\ q[1] \in Int /\ q[2] \in Int
        BY <3>2 DEF p, q
      <3>6. QED
        BY <3>4, <3>5
    <2>2. \A i \in 1 .. n : value[i] = Edge(s, i)
      BY DEF Edges, n
    <2> HIDE DEF value
    <2>3. QED
      BY <2>1, <2>2
  <1> HIDE DEF value
  <1>5. ASSUME NEW t \in SUBSET (1 .. n), t # {}
        PROVE  /\ choice[t] = Pick(t)
               /\ value[choice[t]] = s[Pick(t)][1] * After(s, Pick(t))[2]
                                       - After(s, Pick(t))[1] * s[Pick(t)][2]
    <2>1. choice[t] = Pick(t)
      BY DEF AnyOf
    <2>2. choice[t] \in 1 .. n
      BY <1>2, <1>5
    <2> HIDE DEF choice, Pick
    <2>3. value[choice[t]] = Edge(s, Pick(t))
      BY <1>4, <2>1, <2>2
    <2>4. QED
      BY <2>1, <2>3 DEF Edge
  <1> HIDE DEF choice
  <1>6. PICK ot : ot \in [SUBSET (1 .. n) -> Int] /\ Summing(n, value, choice, ot)
    BY <1>1, <1>2, <1>4, SummingExists
  <1> HIDE DEF Pick
  <1>7. Sum(ot)
    <2>1. ASSUME NEW t \in SUBSET (1 .. n)
          PROVE  ot[t] = IF t = {} THEN 0
                         ELSE (s[Pick(t)][1] * After(s, Pick(t))[2] - After(s, Pick(t))[1] * s[Pick(t)][2])
                                + ot[t \ {Pick(t)}]
      <3>1. ot[t] = IF t = {} THEN 0 ELSE value[choice[t]] + ot[t \ {choice[t]}]
        BY <1>6 DEF Summing
      <3>2. QED
        BY <1>5, <3>1
    <2>2. QED
      BY <1>6, <2>1
  <1> DEFINE chosen == CHOOSE it : Sum(it)
  <1>8. Sum(chosen)
    <2> HIDE DEF Sum
    <2>1. QED
      BY <1>7
  <1> HIDE DEF chosen
  <1>9. Summing(n, value, choice, chosen)
    <2>1. ASSUME NEW t \in SUBSET (1 .. n)
          PROVE  chosen[t] = IF t = {} THEN 0 ELSE value[choice[t]] + chosen[t \ {choice[t]}]
      <3>1. chosen[t] = IF t = {} THEN 0
                        ELSE (s[Pick(t)][1] * After(s, Pick(t))[2] - After(s, Pick(t))[1] * s[Pick(t)][2])
                               + chosen[t \ {Pick(t)}]
        BY <1>8
      <3>2. QED
        BY <1>5, <3>1
    <2>2. QED
      BY <2>1 DEF Summing
  <1>10. SignedArea(s) = chosen[1 .. n]
    BY <1>3 DEF chosen, Pick
  <1>11. QED
    BY <1>4, <1>9, <1>10 DEF n, value, choice

\* A way written back.
LEMMA ReverseIs ==
  ASSUME NEW s \in Points
  PROVE  /\ Reverse(s) \in Points /\ Len(Reverse(s)) = Len(s) /\ Len(s) \in Nat /\ Len(s) >= 1
         /\ DOMAIN s = 1 .. Len(s) /\ s \in Seq(Int \X Int)
         /\ \A i \in 1 .. Len(s) : Reverse(s)[i] = s[(Len(s) - i) + 1]
         /\ Reverse(Reverse(s)) = s
         /\ Head(Reverse(s)) = Last(s) /\ Last(Reverse(s)) = Head(s)
  <1> DEFINE n == Len(s)
             r == Reverse(s)
  <1>1. s \in Seq(Int \X Int) /\ n \in Nat /\ n >= 1 /\ DOMAIN s = 1 .. n
    BY DEF Points
  <1>2. r \in Points
    BY BackWritten
  <1>3. r \in Seq(Int \X Int) /\ r = [i \in 1 .. n |-> s[(n - i) + 1]]
    BY <1>2 DEF Points, Reverse
  <1>4. Len(r) = n /\ DOMAIN r = 1 .. n /\ \A i \in 1 .. n : r[i] = s[(n - i) + 1]
    <2> HIDE DEF r
    <2>1. DOMAIN r = 1 .. n
      BY <1>3
    <2>2. DOMAIN r = 1 .. Len(r) /\ Len(r) \in Nat
      BY <1>3
    <2>3. Len(r) = n
      BY <1>1, <2>1, <2>2
    <2>4. QED
      BY <1>3, <2>1, <2>3
  <1>5. Reverse(r) = [i \in 1 .. n |-> r[(n - i) + 1]]
    <2> HIDE DEF r
    <2>1. QED
      BY <1>4 DEF Reverse
  <1>6. \A i \in 1 .. n : (n - i) + 1 \in 1 .. n /\ (n - ((n - i) + 1)) + 1 = i
    <2> HIDE DEF n
    <2>1. QED
      BY <1>1
  <1>7. Reverse(r) = s
    <2> HIDE DEF r
    <2>1. \A i \in 1 .. n : r[(n - i) + 1] = s[i]
      BY <1>4, <1>6
    <2>2. s = [i \in 1 .. n |-> s[i]]
      BY <1>1
    <2>3. QED
      BY <1>5, <2>1, <2>2
  <1>8. Head(r) = Last(s) /\ Last(r) = Head(s)
    <2> HIDE DEF r
    <2>1. Head(s) = s[1] /\ Head(r) = r[1] /\ Last(s) = s[n] /\ Last(r) = r[n]
      <3>1. s # <<>> /\ r # <<>>
        BY <1>2 DEF Points, r
      <3>2. QED
        BY <1>1, <1>3, <1>4, <3>1 DEF Last
    <2>2. 1 \in 1 .. n /\ n \in 1 .. n /\ (n - 1) + 1 = n /\ (n - n) + 1 = 1
      BY <1>1
    <2>3. r[1] = s[n] /\ r[n] = s[1]
      BY <1>4, <2>2
    <2>4. QED
      BY <2>1, <2>3
  <1>9. QED
    BY <1>1, <1>2, <1>4, <1>7, <1>8

\* One way written after another.
LEMMA JoinedIs ==
  ASSUME NEW u \in Points, NEW v \in Points
  PROVE  /\ u \o v \in Points /\ Len(u \o v) = Len(u) + Len(v)
         /\ \A i \in 1 .. Len(u) : (u \o v)[i] = u[i]
         /\ \A i \in 1 .. Len(v) : (u \o v)[Len(u) + i] = v[i]
  <1>1. /\ u \in Seq(Int \X Int) /\ v \in Seq(Int \X Int) /\ u # <<>> /\ v # <<>>
        /\ Len(u) \in Nat /\ Len(v) \in Nat /\ Len(u) >= 1
    BY DEF Points
  <1>2. u \o v \in Seq(Int \X Int) /\ Len(u \o v) = Len(u) + Len(v)
    BY <1>1
  <1>3. u \o v # <<>>
    BY <1>1, <1>2
  <1>4. \A i \in 1 .. Len(u) : (u \o v)[i] = u[i]
    BY <1>1
  <1>5. \A i \in 1 .. Len(v) : (u \o v)[Len(u) + i] = v[i]
    BY <1>1
  <1>6. QED
    BY <1>2, <1>3, <1>4, <1>5 DEF Points

\* The next point of an outline, the first after the last.
LEMMA AroundIs ==
  ASSUME NEW n \in Nat, NEW i \in 1 .. n
  PROVE  (i % n) + 1 = IF i = n THEN 1 ELSE i + 1
  OBVIOUS

\* An outline drawn the other way round has the opposite area.
LEMMA TurnedArea ==
  ASSUME NEW left \in Points, NEW right \in Points
  PROVE  SignedArea(Reverse(left) \o right) = 0 - SignedArea(left \o Reverse(right))
  <1> DEFINE a == Len(left)
             b == Len(right)
             n == a + b
             P == left \o Reverse(right)
             Q == Reverse(left) \o right
             from == [i \in 1 .. n |-> IF i <= a THEN (a + 1) - i ELSE (n + a + 1) - i]
             to == [i \in 1 .. n |-> IF i < a THEN a - i ELSE (n + a) - i]
             next(i) == IF i = n THEN 1 ELSE i + 1
  <1>1. /\ a \in Nat /\ a >= 1 /\ b \in Nat /\ b >= 1
        /\ left \in Seq(Int \X Int) /\ Reverse(left) \in Seq(Int \X Int) /\ Len(Reverse(left)) = a
        /\ right \in Seq(Int \X Int) /\ Reverse(right) \in Seq(Int \X Int) /\ Len(Reverse(right)) = b
        /\ \A i \in 1 .. a : Reverse(left)[i] = left[(a - i) + 1]
        /\ \A i \in 1 .. b : Reverse(right)[i] = right[(b - i) + 1]
    BY ReverseIs DEF Points
  <1>2. /\ P \in Points /\ Len(P) = n
        /\ \A i \in 1 .. a : P[i] = left[i]
        /\ \A i \in 1 .. b : P[a + i] = right[(b - i) + 1]
    <2> DEFINE r == Reverse(right)
    <2>1. r \in Points /\ Len(r) = b /\ \A i \in 1 .. b : r[i] = right[(b - i) + 1]
      BY <1>1, ReverseIs
    <2>2. P = left \o r
      OBVIOUS
    <2>3. /\ left \o r \in Points /\ Len(left \o r) = Len(left) + Len(r)
          /\ \A i \in 1 .. Len(left) : (left \o r)[i] = left[i]
          /\ \A i \in 1 .. Len(r) : (left \o r)[Len(left) + i] = r[i]
      <3> HIDE DEF r, P
      <3>1. QED
        BY <2>1, JoinedIs
    <2> HIDE DEF r, P
    <2>4. QED
      BY <2>1, <2>2, <2>3
  <1>3. /\ Q \in Points /\ Len(Q) = n
        /\ \A i \in 1 .. a : Q[i] = left[(a - i) + 1]
        /\ \A i \in 1 .. b : Q[a + i] = right[i]
    <2> DEFINE r == Reverse(left)
    <2>1. r \in Points /\ Len(r) = a /\ \A i \in 1 .. a : r[i] = left[(a - i) + 1]
      BY <1>1, ReverseIs
    <2>2. Q = r \o right
      OBVIOUS
    <2> HIDE DEF r, Q
    <2>3. QED
      BY <2>1, <2>2, JoinedIs
  <1>4. /\ \A i \in 1 .. Len(P) : Edges(P)[i] \in Int /\ Edges(P)[i] = Edge(P, i)
        /\ \A i \in 1 .. Len(Q) : Edges(Q)[i] \in Int /\ Edges(Q)[i] = Edge(Q, i)
    <2> HIDE DEF P, Q
    <2>1. QED
      BY <1>2, <1>3, AreaSums DEF Edges
  <1> HIDE DEF P, Q, a, b
  <1>5. ASSUME NEW i \in 1 .. n
        PROVE  /\ from[i] \in 1 .. n /\ to[i] \in 1 .. n /\ to[to[i]] = i
               /\ from[i] = next(to[i]) /\ next(i) \in 1 .. n /\ from[next(i)] = to[i]
    <2>1. i \in Nat /\ i >= 1 /\ i <= a + b /\ a \in Nat /\ b \in Nat /\ a >= 1 /\ b >= 1 /\ n = a + b
      BY <1>1
    <2>2. CASE i < a
      <3>1. from[i] = (a + 1) - i /\ to[i] = a - i /\ a - i \in 1 .. n /\ (a + 1) - i \in 1 .. n
        BY <2>1, <2>2
      <3>2. to[a - i] = a - (a - i)
        BY <2>1, <2>2
      <3>3. next(a - i) = (a - i) + 1 /\ next(i) = i + 1 /\ i + 1 \in 1 .. n
        BY <2>1, <2>2
      <3>4. from[i + 1] = (a + 1) - (i + 1)
        BY <2>1, <2>2
      <3> HIDE DEF from, to, next, n
      <3>5. QED
        BY <2>1, <3>1, <3>2, <3>3, <3>4
    <2>3. CASE i = a
      <3>1. from[i] = 1 /\ to[i] = n /\ 1 \in 1 .. n /\ n \in 1 .. n
        BY <2>1, <2>3
      <3>2. to[n] = a /\ next(n) = 1
        BY <2>1
      <3>3. next(i) = i + 1 /\ i + 1 \in 1 .. n
        BY <2>1, <2>3
      <3>4. from[i + 1] = (n + a + 1) - (i + 1)
        BY <2>1, <2>3
      <3>5. n \in Nat
        BY <2>1
      <3> HIDE DEF from, to, next, n
      <3>6. QED
        BY <2>1, <2>3, <3>1, <3>2, <3>3, <3>4, <3>5
    <2>4. CASE i > a
      <3>1. /\ from[i] = (n + a + 1) - i /\ to[i] = (n + a) - i
            /\ (n + a + 1) - i \in 1 .. n /\ (n + a) - i \in 1 .. n
        BY <2>1, <2>4
      <3>2. to[(n + a) - i] = (n + a) - ((n + a) - i)
        BY <2>1, <2>4
      <3>3. next((n + a) - i) = ((n + a) - i) + 1
        BY <2>1, <2>4
      <3>4. next(i) = (IF i = n THEN 1 ELSE i + 1) /\ next(i) \in 1 .. n
        BY <2>1, <2>4
      <3>5. from[next(i)] = IF i = n THEN a ELSE (n + a + 1) - (i + 1)
        <4>1. CASE i = n
          BY <2>1, <4>1
        <4>2. CASE i # n
          BY <2>1, <2>4, <4>2
        <4>3. QED
          BY <4>1, <4>2
      <3>6. n \in Nat
        BY <2>1
      <3> HIDE DEF from, to, next, n
      <3>7. QED
        BY <2>1, <2>4, <3>1, <3>2, <3>3, <3>4, <3>5, <3>6
    <2>5. QED
      BY <2>1, <2>2, <2>3, <2>4
  <1>6. ASSUME NEW i \in 1 .. n PROVE Q[i] = P[from[i]]
    <2>1. CASE i <= a
      <3>1. i \in 1 .. a /\ from[i] = (a + 1) - i /\ (a + 1) - i \in 1 .. a /\ (a - i) + 1 = (a + 1) - i
        BY <1>1, <2>1
      <3>2. QED
        BY <1>2, <1>3, <3>1
    <2>2. CASE ~(i <= a)
      <3> DEFINE j == i - a
                 k == (b + 1) - j
      <3>1. /\ j \in 1 .. b /\ i = a + j /\ k \in 1 .. b /\ from[i] = a + k /\ (b - k) + 1 = j
        BY <1>1, <2>2
      <3> HIDE DEF j, k, from
      <3>2. Q[a + j] = right[j] /\ P[a + k] = right[j]
        BY <1>2, <1>3, <3>1
      <3>3. QED
        BY <3>1, <3>2
    <2>3. QED
      BY <2>1, <2>2
  <1> HIDE DEF from, to
  <1>7. \A i \in 1 .. n : After(P, i) = P[next(i)] /\ After(Q, i) = Q[next(i)]
    <2>1. n \in Nat
      BY <1>1
    <2> HIDE DEF n
    <2>2. SUFFICES ASSUME NEW i \in 1 .. n
                   PROVE  After(P, i) = P[next(i)] /\ After(Q, i) = Q[next(i)]
      OBVIOUS
    <2>3. After(P, i) = P[(i % n) + 1] /\ After(Q, i) = Q[(i % n) + 1]
      BY <1>2, <1>3 DEF After
    <2>4. (i % n) + 1 = next(i)
      BY <2>1, AroundIs
    <2> HIDE DEF next
    <2>5. QED
      BY <2>3, <2>4
  <1>8. ASSUME NEW i \in 1 .. n PROVE Edges(Q)[i] = 0 - Edges(P)[to[i]]
    <2> DEFINE p == P[to[i]]
               q == P[from[i]]
    <2>1. Q[i] = q /\ After(Q, i) = p
      <3>1. After(Q, i) = Q[next(i)]
        BY <1>7
      <3>2. Q[next(i)] = P[from[next(i)]] /\ from[next(i)] = to[i]
        BY <1>5, <1>6
      <3>3. QED
        BY <1>6, <3>1, <3>2
    <2>2. After(P, to[i]) = q
      <3>1. to[i] \in 1 .. n /\ from[i] = next(to[i])
        BY <1>5
      <3>2. After(P, to[i]) = P[next(to[i])]
        BY <1>7, <3>1
      <3>3. QED
        BY <3>1, <3>2
    <2>3. p \in Int \X Int /\ q \in Int \X Int
      <3>1. P \in Seq(Int \X Int) /\ Len(P) = n
        BY <1>2 DEF Points
      <3>2. to[i] \in 1 .. n /\ from[i] \in 1 .. n
        BY <1>5
      <3> HIDE DEF n
      <3>3. DOMAIN P = 1 .. n /\ \A j \in 1 .. n : P[j] \in Int \X Int
        BY <3>1
      <3>4. QED
        BY <3>2, <3>3
    <2>4. /\ Edges(Q)[i] = q[1] * p[2] - p[1] * q[2]
          /\ Edges(P)[to[i]] = p[1] * q[2] - q[1] * p[2]
      <3>1. Edges(Q)[i] = Edge(Q, i) /\ Edges(P)[to[i]] = Edge(P, to[i])
        BY <1>2, <1>3, <1>4, <1>5
      <3> HIDE DEF p, q, to
      <3>2. QED
        BY <2>1, <2>2, <3>1 DEF Edge, p
    <2> HIDE DEF p, q, to
    <2>5. p[1] \in Int /\ p[2] \in Int /\ q[1] \in Int /\ q[2] \in Int
      BY <2>3
    <2> DEFINE x == q[1] * p[2]
               y == p[1] * q[2]
    <2>6. x \in Int /\ y \in Int
      BY <2>5
    <2>7. Edges(Q)[i] = x - y /\ Edges(P)[to[i]] = y - x
      BY <2>4
    <2> HIDE DEF x, y
    <2>8. QED
      BY <2>6, <2>7
  <1>9. Opposite(n, Edges(P), Edges(Q), to)
    <2>1. ASSUME NEW i \in 1 .. n
          PROVE  /\ to[i] \in 1 .. n /\ to[to[i]] = i
                 /\ Edges(P)[i] \in Int /\ Edges(Q)[i] = 0 - Edges(P)[to[i]]
      BY <1>2, <1>4, <1>5, <1>8
    <2> HIDE DEF to, n
    <2>2. QED
      BY <2>1 DEF Opposite
  <1>10. PICK it : Summing(n, Edges(P), AnyOf(n), it) /\ SignedArea(P) = it[1 .. n]
    BY <1>2, AreaSums
  <1>11. PICK ot : Summing(n, Edges(Q), AnyOf(n), ot) /\ SignedArea(Q) = ot[1 .. n]
    BY <1>3, AreaSums
  <1>12. Adding(n, Edges(P), it) /\ Adding(n, Edges(Q), ot)
    <2>1. n \in Nat
      BY <1>1
    <2>2. \A i \in 1 .. n : Edges(P)[i] \in Int /\ Edges(Q)[i] \in Int
      BY <1>2, <1>3, <1>4
    <2> HIDE DEF n, to
    <2>3. \A t \in SUBSET (1 .. n) : t # {} => AnyOf(n)[t] \in t
      BY DEF AnyOf
    <2>4. QED
      BY <1>10, <1>11, <2>1, <2>2, <2>3, AnyTaken
  <1>13. n \in Nat
    BY <1>1
  <1> HIDE DEF n, to
  <1>14. ot[1 .. n] = 0 - it[1 .. n]
    BY <1>9, <1>12, <1>13, OppositeSums
  <1>15. QED
    BY <1>10, <1>11, <1>14 DEF P, Q

\* An area is a whole number.
LEMMA AreaIs ==
  ASSUME NEW s \in Points
  PROVE  SignedArea(s) \in Int
  <1>1. /\ \A i \in 1 .. Len(s) : Edges(s)[i] \in Int
        /\ \E it : Summing(Len(s), Edges(s), AnyOf(Len(s)), it) /\ SignedArea(s) = it[1 .. Len(s)]
    BY AreaSums
  <1>2. PICK it : Summing(Len(s), Edges(s), AnyOf(Len(s)), it) /\ SignedArea(s) = it[1 .. Len(s)]
    BY <1>1
  <1>3. Len(s) \in Nat
    BY DEF Points
  <1>4. \A t \in SUBSET (1 .. Len(s)) : t # {} => AnyOf(Len(s))[t] \in t
    BY DEF AnyOf
  <1>5. Adding(Len(s), Edges(s), it)
    BY <1>1, <1>2, <1>3, <1>4, AnyTaken
  <1>6. QED
    BY <1>2, <1>5 DEF Adding

\* However its two ways are written, a lanelet's bounds are those it is drawn between.
LEMMA BoundsFound ==
  ASSUME NEW a \in Points, NEW b \in Points,
         Distance(Head(a), Head(b)) + Distance(Last(a), Last(b))
           < Distance(Head(a), Last(b)) + Distance(Last(a), Head(b)),
         SignedArea(a \o Reverse(b)) < 0,
         NEW w \in {a, Reverse(a)}, NEW v \in {b, Reverse(b)}
  PROVE  Bounds(w, v) = [left |-> a, right |-> b]
  <1> DEFINE x == Reverse(a)
             y == Reverse(b)
             near == Distance(Head(a), Head(b))
             far == Distance(Last(a), Last(b))
             one == Distance(Head(a), Last(b))
             other == Distance(Last(a), Head(b))
  <1>1. /\ x \in Points /\ y \in Points /\ Reverse(x) = a /\ Reverse(y) = b
        /\ Head(x) = Last(a) /\ Last(x) = Head(a) /\ Head(y) = Last(b) /\ Last(y) = Head(b)
    BY ReverseIs
  <1>2. near \in Int /\ far \in Int /\ one \in Int /\ other \in Int /\ near + far < one + other
    <2>1. /\ Head(a) \in Int \X Int /\ Last(a) \in Int \X Int
          /\ Head(b) \in Int \X Int /\ Last(b) \in Int \X Int
      BY EndsDrawn
    <2>2. near \in Nat /\ far \in Nat /\ one \in Nat /\ other \in Nat
      BY <2>1, DistanceIs
    <2>3. QED
      BY <2>2
  <1>3. near + far = far + near /\ one + other = other + one
        /\ ~(one + other < near + far)
    <2> HIDE DEF near, far, one, other
    <2>1. QED
      BY <1>2
  <1>4. SignedArea(a \o y) < 0 /\ ~(SignedArea(a \o y) > 0) /\ SignedArea(x \o b) > 0
    <2>1. SignedArea(x \o b) = 0 - SignedArea(a \o y)
      BY TurnedArea
    <2>2. a \o y \in Points
      BY <1>1, JoinedIs
    <2> HIDE DEF x, y
    <2>3. SignedArea(a \o y) \in Int
      BY <2>2, AreaIs
    <2>4. SignedArea(a \o y) < 0
      BY DEF y
    <2> DEFINE area == SignedArea(a \o y)
    <2> HIDE DEF area
    <2>5. area \in Int /\ area < 0 => ~(area > 0) /\ 0 - area > 0
      OBVIOUS
    <2>6. QED
      BY <2>1, <2>3, <2>4, <2>5 DEF area
  <1>5. AlongLeft(a, b) = b
    BY <1>3 DEF AlongLeft
  <1> HIDE DEF x, y
  <1>6. AlongLeft(a, y) = b
    BY <1>1, <1>2 DEF AlongLeft
  <1>7. AlongLeft(x, b) = y
    BY <1>1, <1>2, <1>3 DEF AlongLeft, y
  <1>8. AlongLeft(x, y) = y
    BY <1>1, <1>3 DEF AlongLeft
  <1>9. w = a \/ w = x
    BY DEF x
  <1>10. v = b \/ v = y
    BY DEF y
  <1> HIDE DEF near, far, one, other
  <1>11. CASE w = a
    <2>1. AlongLeft(w, v) = b
      BY <1>5, <1>6, <1>10, <1>11
    <2>2. QED
      BY <1>4, <1>11, <2>1 DEF Bounds, y
  <1>12. CASE w = x
    <2>1. AlongLeft(w, v) = y
      BY <1>7, <1>8, <1>10, <1>12
    <2>2. QED
      BY <1>1, <1>4, <1>12, <2>1 DEF Bounds
  <1>13. QED
    BY <1>9, <1>11, <1>12

\* A lanelet that is drawn as it is driven is read so.
LEMMA ReadDriven ==
  ASSUME NEW f, FileOf(f), NEW l \in Range(Read(f).ids), DrawnAsDriven(f, l)
  PROVE  Start(Read(f).outline[l]) = f.from[l] /\ Read(f).end[l] = f.to[l]
  <1> DEFINE n == Read(f)
             ids == Only(f.ids, {k \in Range(f.ids) : Readable(f, k)})
             bounds == [k \in Range(ids) |-> Bounds(f.ways[f.left[k]], f.ways[f.right[k]])]
             outline == [k \in Range(ids) |-> bounds[k].left \o Reverse(bounds[k].right)]
             end == [k \in Range(ids) |-> Middle(Last(bounds[k].left), Last(bounds[k].right))]
  <1>1. n.ids = ids /\ n.outline = outline /\ n.end = end
    BY DEF Read
  <1>2. l \in Range(ids) /\ Range(ids) = {k \in Range(f.ids) : Readable(f, k)}
    <2> DEFINE S == {k \in Range(f.ids) : Readable(f, k)}
    <2>1. Range(Only(f.ids, S)) = S
      BY OnlySeq DEF FileOf
    <2>2. n.ids = Only(f.ids, S)
      BY <1>1
    <2> HIDE DEF n
    <2>3. l \in Range(n.ids)
      BY DEF n
    <2>4. QED
      BY <1>1, <2>1, <2>2, <2>3
  <1> DEFINE left == f.ways[f.left[l]]
             right == f.ways[f.right[l]]
  <1>3. left \in Points /\ right \in Points
    BY <1>2 DEF FileOf, Readable
  <1> HIDE DEF n, ids
  <1>4. /\ n.outline[l] = Bounds(left, right).left \o Reverse(Bounds(left, right).right)
        /\ n.end[l] = Middle(Last(Bounds(left, right).left), Last(Bounds(left, right).right))
    BY <1>1, <1>2
  <1> HIDE DEF left, right, bounds, outline, end
  <1>5. PICK a \in {left, Reverse(left)}, b \in {right, Reverse(right)} :
           /\ Middle(Head(a), Head(b)) = f.from[l] /\ Middle(Last(a), Last(b)) = f.to[l]
           /\ Distance(Head(a), Head(b)) + Distance(Last(a), Last(b))
                < Distance(Head(a), Last(b)) + Distance(Last(a), Head(b))
           /\ SignedArea(a \o Reverse(b)) < 0
    BY DEF DrawnAsDriven, left, right
  <1>6. /\ a \in Points /\ b \in Points
        /\ left \in {a, Reverse(a)} /\ right \in {b, Reverse(b)}
    BY <1>3, <1>5, ReverseIs
  <1>7. Bounds(left, right) = [left |-> a, right |-> b]
    BY <1>5, <1>6, BoundsFound
  <1>8. n.outline[l] = a \o Reverse(b) /\ n.end[l] = Middle(Last(a), Last(b))
    BY <1>4, <1>7
  <1>9. Head(a \o Reverse(b)) = Head(a) /\ Last(a \o Reverse(b)) = Head(b)
    <2> DEFINE r == Reverse(b)
    <2>1. r \in Points /\ Last(r) = Head(b)
      BY <1>6, ReverseIs
    <2> HIDE DEF r
    <2>2. /\ a \o r \in Points /\ Len(a \o r) = Len(a) + Len(r)
          /\ \A i \in 1 .. Len(a) : (a \o r)[i] = a[i]
          /\ \A i \in 1 .. Len(r) : (a \o r)[Len(a) + i] = r[i]
      BY <1>6, <2>1, JoinedIs
    <2>3. /\ Len(a) \in Nat /\ Len(a) >= 1 /\ Len(r) \in Nat /\ Len(r) >= 1
          /\ a # <<>> /\ r # <<>> /\ a \o r # <<>>
          /\ a \in Seq(Int \X Int) /\ r \in Seq(Int \X Int) /\ a \o r \in Seq(Int \X Int)
      BY <1>6, <2>1, <2>2 DEF Points
    <2> DEFINE j == a \o r
    <2>4. j[1] = a[1] /\ j[Len(a) + Len(r)] = r[Len(r)]
      BY <2>2, <2>3
    <2>5. j \in Seq(Int \X Int) /\ j # <<>> /\ Len(j) = Len(a) + Len(r)
      BY <2>2, <2>3
    <2> HIDE DEF j
    <2>6. Head(j) = j[1] /\ Head(a) = a[1] /\ Last(j) = j[Len(j)] /\ Last(r) = r[Len(r)]
      BY <2>3, <2>5 DEF Last
    <2>7. Head(j) = Head(a) /\ Last(j) = Last(r)
      BY <2>4, <2>5, <2>6
    <2>8. QED
      BY <2>1, <2>7 DEF j, r
  <1>10. QED
    BY <1>5, <1>8, <1>9 DEF Start, n

\* Whatever way its two ways are written, a lanelet is read the way it is driven: its
\* outline starts and ends where a lanelet drawn along its drive does.
THEOREM DirectionKept ==
  ASSUME \A m \in MapSets : \A l \in Range(m.file.ids) :
            Readable(m.file, l) => DrawnAsDriven(m.file, l)
  PROVE  Spec => []DirectionAsDriven
  <1>1. FileRead => DirectionAsDriven
    <2> SUFFICES ASSUME FileRead, NEW l \in Range(net.ids)
                 PROVE  Start(net.outline[l]) = file.from[l] /\ net.end[l] = file.to[l]
      BY DEF DirectionAsDriven
    <2>1. FileOf(file) /\ net = Read(file)
      BY FilesRead DEF FileRead
    <2>2. l \in Range(file.ids) /\ Readable(file, l)
      <3> DEFINE S == {k \in Range(file.ids) : Readable(file, k)}
      <3>1. net.ids = Only(file.ids, S)
        BY <2>1 DEF Read
      <3>2. Range(Only(file.ids, S)) = S
        BY <2>1, OnlySeq DEF FileOf
      <3>3. QED
        BY <3>1, <3>2
    <2>3. DrawnAsDriven(file, l)
      BY <2>2 DEF FileRead
    <2>4. QED
      BY <2>1, <2>3, ReadDriven
  <1>2. QED
    BY <1>1, FileAlways, PTL

\* Then a lanelet's successors are all lanelets that start within Join of its end, each
\* once, whatever cells of the grid the two points fall into.
THEOREM SuccessorsFound ==
  ASSUME \A m \in MapSets : \A l \in Range(m.file.ids) :
            Readable(m.file, l) => DrawnAsDriven(m.file, l)
  PROVE  Spec => []SuccessorsJoin
  BY DirectionKept, GridJoins, PTL
=============================================================================
