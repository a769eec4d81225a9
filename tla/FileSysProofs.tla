------------------------------ MODULE FileSysProofs -----------------------------
(***************************************************************************)
(* Proofs about FileSys, for volumes, directories and tables of any sizes. *)
(***************************************************************************)
EXTENDS FileSys, FiniteSetTheorems, SequenceTheorems, WellFoundedInduction, TLAPS

-----------------------------------------------------------------------------
(* Numbers. *)

\* Every nonempty set of naturals has a least element.
LEMMA NatMin ==
    ASSUME NEW T, T \subseteq Nat, T # {}
    PROVE  \E x \in T : \A y \in T : x <= y
<1>1. IsWellFoundedOn(OpToRel(<,Nat), Nat)
  BY NatLessThanWellFounded
<1>2. PICK x \in T : \A y \in T : ~(<<y, x>> \in OpToRel(<,Nat))
  BY <1>1, WFMin
<1>3. \A y \in T : ~(y < x)
  BY <1>2 DEF OpToRel
<1> QED
  BY <1>3

\* Induction, for a set of naturals.
LEMMA SetInduction ==
    ASSUME NEW S, S \subseteq Nat, 0 \in S, \A n \in S : n + 1 \in S
    PROVE  S = Nat
<1> SUFFICES ASSUME Nat \ S # {} PROVE FALSE
  OBVIOUS
<1>1. PICK x \in Nat \ S : \A y \in Nat \ S : x <= y
  BY NatMin
<1>2. x # 0 /\ x - 1 \in Nat /\ x - 1 \in S
  BY <1>1
<1> QED
  BY <1>1, <1>2

\* What is lowest in a set is in it.
LEMMA LowestIn ==
    ASSUME NEW C, C \subseteq Nat, C # {}
    PROVE  Lowest(C) \in C /\ \A d \in C : Lowest(C) <= d
BY NatMin DEF Lowest

\* Division by a number that is not a constant.
LEMMA Division ==
    ASSUME NEW a \in Nat, NEW n \in Nat \ {0}
    PROVE  /\ a \div n \in Nat /\ a % n \in 0 .. n - 1
           /\ a = n * (a \div n) + (a % n)
OBVIOUS

LEMMA Quotient ==
    ASSUME NEW n \in Nat \ {0}, NEW p \in Nat, NEW r \in 0 .. n - 1
    PROVE  (n * p + r) \div n = p
OBVIOUS

LEMMA DivMonotone ==
    ASSUME NEW n \in Nat \ {0}, NEW a \in Nat, NEW b \in Nat, a <= b
    PROVE  a \div n <= b \div n
OBVIOUS

LEMMA DivAdd ==
    ASSUME NEW n \in Nat \ {0}, NEW a \in Nat, NEW b \in Nat
    PROVE  (a + b) \div n = a \div n + ((a % n) + b) \div n
OBVIOUS

-----------------------------------------------------------------------------
(* Following the FAT. *)

Step(f, x) == IF x \in Clstr THEN f[x] ELSE x

Steps(f, c, n, g) == g = [i \in 0 .. n |-> IF i = 0 THEN c ELSE Step(f, g[i - 1])]

LEMMA StepsExist ==
    ASSUME NEW f, NEW c, NEW n \in Nat
    PROVE  \E g : Steps(f, c, n, g)
<1> DEFINE S == {m \in Nat : \E g : Steps(f, c, m, g)}
<1>1. 0 \in S
  <2>1. Steps(f, c, 0, [i \in 0 .. 0 |-> c])
    BY DEF Steps
  <2> QED
    BY <2>1
<1>2. ASSUME NEW m \in S PROVE m + 1 \in S
  <2>1. PICK g : Steps(f, c, m, g)
    OBVIOUS
  <2> DEFINE h == [i \in 0 .. m + 1 |-> IF i = m + 1 THEN Step(f, g[m]) ELSE g[i]]
  <2>2. \A i \in 0 .. m : g[i] = IF i = 0 THEN c ELSE Step(f, g[i - 1])
    BY <2>1 DEF Steps
  <2>3. \A i \in 0 .. m + 1 : h[i] = IF i = 0 THEN c ELSE Step(f, h[i - 1])
    BY <2>2
  <2>4. h = [i \in 0 .. m + 1 |-> IF i = 0 THEN c ELSE Step(f, h[i - 1])]
    BY <2>3
  <2>5. Steps(f, c, m + 1, h)
    BY <2>4 DEF Steps
  <2> QED
    BY <2>5
<1>3. S = Nat
  BY <1>1, <1>2, SetInduction
<1> QED
  BY <1>3

LEMMA StepsAgree ==
    ASSUME NEW f, NEW c, NEW n \in Nat, NEW m \in Nat, NEW g, NEW h,
           Steps(f, c, n, g), Steps(f, c, m, h)
    PROVE  \A i \in Nat : i <= n /\ i <= m => g[i] = h[i]
<1> DEFINE S == {i \in Nat : i <= n /\ i <= m => g[i] = h[i]}
<1>1. \A i \in 0 .. n : g[i] = IF i = 0 THEN c ELSE Step(f, g[i - 1])
  BY DEF Steps
<1>2. \A i \in 0 .. m : h[i] = IF i = 0 THEN c ELSE Step(f, h[i - 1])
  BY DEF Steps
<1>3. 0 \in S
  BY <1>1, <1>2
<1>4. ASSUME NEW i \in S PROVE i + 1 \in S
  BY <1>1, <1>2
<1>5. S = Nat
  BY <1>3, <1>4, SetInduction
<1> QED
  BY <1>5

\* Follow is what any function is that takes its steps.
LEMMA FollowIs ==
    ASSUME NEW f, NEW c, NEW n \in Nat, NEW g, Steps(f, c, n, g)
    PROVE  Follow(f, c, n) = g[n]
<1> DEFINE at == CHOOSE h : h = [i \in 0 .. n |->
                    IF i = 0 THEN c ELSE IF h[i - 1] \in Clstr THEN f[h[i - 1]] ELSE h[i - 1]]
<1>1. Follow(f, c, n) = at[n]
  BY DEF Follow
<1>2. \A h : Steps(f, c, n, h) <=> h = [i \in 0 .. n |->
                    IF i = 0 THEN c ELSE IF h[i - 1] \in Clstr THEN f[h[i - 1]] ELSE h[i - 1]]
  BY DEF Steps, Step
<1>3. Steps(f, c, n, at)
  BY <1>2
<1>4. at[n] = g[n]
  BY <1>3, StepsAgree
<1> QED
  BY <1>1, <1>4

\* One step more.
LEMMA FollowStep ==
    ASSUME NEW f, NEW c
    PROVE  /\ Follow(f, c, 0) = c
           /\ \A n \in Nat : Follow(f, c, n + 1) = Step(f, Follow(f, c, n))
<1>1. Follow(f, c, 0) = c
  <2>1. PICK g : Steps(f, c, 0, g)
    BY StepsExist
  <2>2. g[0] = c
    BY <2>1 DEF Steps
  <2> QED
    BY <2>1, <2>2, FollowIs
<1>2. ASSUME NEW n \in Nat PROVE Follow(f, c, n + 1) = Step(f, Follow(f, c, n))
  <2>1. PICK g : Steps(f, c, n + 1, g)
    BY StepsExist
  <2>2. PICK h : Steps(f, c, n, h)
    BY StepsExist
  <2>3. g[n + 1] = Step(f, g[n])
    BY <2>1 DEF Steps
  <2>4. g[n] = h[n]
    BY <2>1, <2>2, StepsAgree
  <2> QED
    BY <2>1, <2>2, <2>3, <2>4, FollowIs
<1> QED
  BY <1>1, <1>2

-----------------------------------------------------------------------------
(* Chains as sequences of clusters. *)

\* q are the clusters of the chain that starts at c.
Line(f, c, q) ==
    /\ q \in Seq(Clstr) /\ Len(q) \in Nat \ {0} /\ q[1] = c
    /\ \A i \in 1 .. Len(q) :
            /\ q[i] \in Clstr
            /\ f[q[i]] = IF i = Len(q) THEN EOF ELSE q[i + 1]
            /\ \A j \in 1 .. Len(q) : q[i] = q[j] => i = j

\* The clusters of a sequence, from the i-th on.
From(q, i) == {q[j] : j \in i .. Len(q)}
On(q) == From(q, 1)

LEMMA EndMark == EOF \notin Clstr /\ EOF # 0 /\ 0 \notin Clstr /\ EOF \in Nat /\ Clstr \subseteq Nat
BY FileSysAssumption DEF EOF, Clstr

\* Following a chain, one stays on it, and then at the end mark.
LEMMA LineFollow ==
    ASSUME NEW f, NEW c, NEW q, Line(f, c, q), NEW i \in 1 .. Len(q)
    PROVE  \A n \in Nat : Follow(f, q[i], n) = IF i + n <= Len(q) THEN q[i + n] ELSE EOF
<1> DEFINE S == {n \in Nat : Follow(f, q[i], n) = IF i + n <= Len(q) THEN q[i + n] ELSE EOF}
<1>1. Len(q) \in Nat /\ i \in Nat
  BY DEF Line
<1>2. 0 \in S
  BY <1>1, FollowStep
<1>3. ASSUME NEW n \in S PROVE n + 1 \in S
  <2>1. Follow(f, q[i], n + 1) = Step(f, Follow(f, q[i], n))
    BY FollowStep
  <2>2. CASE i + n > Len(q)
    BY <1>1, <2>1, <2>2, EndMark DEF Step
  <2>3. CASE i + n <= Len(q)
    <3>1. i + n \in 1 .. Len(q) /\ Follow(f, q[i], n) = q[i + n]
      BY <1>1, <2>3
    <3>2. /\ q[i + n] \in Clstr
          /\ f[q[i + n]] = IF i + n = Len(q) THEN EOF ELSE q[(i + n) + 1]
      BY <3>1 DEF Line
    <3>3. (i + n) + 1 = i + (n + 1)
      BY <1>1
    <3> QED
      BY <1>1, <2>1, <2>3, <3>1, <3>2, <3>3 DEF Step
  <2> QED
    BY <1>1, <2>2, <2>3
<1>4. S = Nat
  BY <1>2, <1>3, SetInduction
<1> QED
  BY <1>4

\* A chain is shorter than the FAT, and has as many clusters as it is long.
LEMMA LineLen ==
    ASSUME NEW f, NEW c, NEW q, Line(f, c, q)
    PROVE  Cardinality(On(q)) = Len(q) /\ Len(q) < LastClstr
<1> DEFINE b == [i \in 1 .. Len(q) |-> q[i]]
<1>1. Len(q) \in Nat /\ On(q) \subseteq Clstr
  BY DEF Line, On, From
<1>2. b \in Bijection(1 .. Len(q), On(q))
  <2>1. b \in [1 .. Len(q) -> On(q)]
    BY DEF On, From
  <2>2. \A i, j \in 1 .. Len(q) : b[i] = b[j] => i = j
    BY DEF Line
  <2>3. \A x \in On(q) : \E i \in 1 .. Len(q) : b[i] = x
    BY DEF On, From
  <2> HIDE DEF b
  <2>4. b \in Injection(1 .. Len(q), On(q))
    BY <2>1, <2>2 DEF Injection, IsInjective
  <2>5. b \in Surjection(1 .. Len(q), On(q))
    BY <2>1, <2>3 DEF Surjection
  <2> QED
    BY <2>4, <2>5 DEF Bijection
<1>3. IsFiniteSet(1 .. Len(q)) /\ Cardinality(1 .. Len(q)) = Len(q)
  <2>1. PICK n \in Nat : n = Len(q)
    BY <1>1
  <2>2. 1 \in Int /\ n \in Int
    BY <2>1
  <2>3. IsFiniteSet(1 .. n) /\ Cardinality(1 .. n) = IF 1 > n THEN 0 ELSE n - 1 + 1
    BY <2>2, FS_Interval
  <2>4. Cardinality(1 .. n) = n
    BY <2>2, <2>3
  <2> QED
    BY <2>1, <2>3, <2>4
<1>4. Cardinality(On(q)) = Len(q)
  BY <1>2, <1>3, FS_Bijection DEF ExistsBijection
<1>5. IsFiniteSet(Clstr) /\ Cardinality(Clstr) = LastClstr - 1
  BY FS_Interval, FileSysAssumption DEF Clstr
<1>6. Cardinality(On(q)) <= Cardinality(Clstr)
  BY <1>1, <1>5, FS_Subset
<1> QED
  BY <1>1, <1>4, <1>5, <1>6, FileSysAssumption

\* ChainOf is what is on the sequence.
LEMMA LineChain ==
    ASSUME NEW f, NEW c, NEW q, Line(f, c, q), NEW i \in 1 .. Len(q)
    PROVE  ChainOf(f, q[i]) = From(q, i)
<1>1. Len(q) \in Nat /\ i \in Nat /\ Len(q) < LastClstr /\ LastClstr \in Nat
  <2>1. Len(q) < LastClstr
    BY LineLen
  <2>2. Len(q) \in Nat /\ LastClstr \in Nat
    BY FileSysAssumption DEF Line
  <2> QED
    BY <2>1, <2>2
<1>2. ASSUME NEW x \in ChainOf(f, q[i]) PROVE x \in From(q, i)
  <2>1. PICK n \in 0 .. LastClstr : x = Follow(f, q[i], n) /\ x \in Clstr
    BY DEF ChainOf
  <2>2. \A m \in Nat : Follow(f, q[i], m) = IF i + m <= Len(q) THEN q[i + m] ELSE EOF
    BY LineFollow
  <2>3. n \in Nat
    BY <1>1
  <2>4. i + n <= Len(q) /\ x = q[i + n]
    BY <2>1, <2>2, <2>3, EndMark
  <2> QED
    BY <1>1, <2>3, <2>4 DEF From
<1>3. ASSUME NEW x \in From(q, i) PROVE x \in ChainOf(f, q[i])
  <2>1. PICK j \in i .. Len(q) : x = q[j]
    BY DEF From
  <2>2. j - i \in 0 .. LastClstr /\ i + (j - i) = j /\ j \in 1 .. Len(q)
    BY <1>1
  <2>3. Follow(f, q[i], j - i) = q[j]
    BY <1>1, <2>2, LineFollow
  <2>4. q[j] \in Clstr
    BY <2>2 DEF Line
  <2> QED
    BY <2>1, <2>2, <2>3, <2>4 DEF ChainOf
<1> QED
  BY <1>2, <1>3

\* A FAT that is the same on a chain has it too.
LEMMA LineSame ==
    ASSUME NEW f, NEW g, NEW c, NEW q, Line(f, c, q), \A x \in On(q) : g[x] = f[x]
    PROVE  Line(g, c, q)
BY DEF Line, On, From

\* Two sequences that are one chain.
LEMMA LineUnique ==
    ASSUME NEW f, NEW c, NEW q, NEW r, Line(f, c, q), Line(f, c, r)
    PROVE  q = r
<1>1. /\ Len(q) \in Nat \ {0} /\ Len(r) \in Nat \ {0}
      /\ q \in Seq(Clstr) /\ r \in Seq(Clstr) /\ q[1] = c /\ r[1] = c
  BY DEF Line
<1>2. On(q) = ChainOf(f, c) /\ On(r) = ChainOf(f, c)
  BY <1>1, LineChain DEF On
<1>3. Len(q) = Len(r)
  BY <1>2, LineLen
<1>4. ASSUME NEW i \in 1 .. Len(q) PROVE q[i] = r[i]
  <2>1. i - 1 \in Nat /\ 1 + (i - 1) = i /\ 1 \in 1 .. Len(q) /\ 1 \in 1 .. Len(r)
    BY <1>1
  <2>2. \A n \in Nat : Follow(f, q[1], n) = IF 1 + n <= Len(q) THEN q[1 + n] ELSE EOF
    BY <2>1, LineFollow
  <2>3. \A n \in Nat : Follow(f, r[1], n) = IF 1 + n <= Len(r) THEN r[1 + n] ELSE EOF
    BY <2>1, LineFollow
  <2>4. PICK n \in Nat : 1 + n = i
    BY <2>1
  <2>5. 1 + n <= Len(q) /\ 1 + n <= Len(r)
    BY <1>1, <1>3, <2>4
  <2>6. Follow(f, q[1], n) = q[1 + n]
    BY <2>2, <2>5
  <2>7. Follow(f, r[1], n) = r[1 + n]
    BY <2>3, <2>5
  <2> QED
    BY <1>1, <2>4, <2>6, <2>7
<1> QED
  BY <1>1, <1>3, <1>4, SeqEqual

-----------------------------------------------------------------------------
(* Chains that are extended and cut. *)

Fats == [Clstr -> Clstr \cup {0, EOF}]

\* The chain q of the FAT f has become the chain r of the FAT g: it was extended by
\* clusters that were free, or cut and its last clusters freed.
Reshaped(f, q, g, r) ==
    /\ g \in Fats
    /\ \A x \in Clstr : x \notin On(q) /\ x \notin On(r) => g[x] = f[x]
    /\ \A x \in On(q) : x \notin On(r) => g[x] = 0
    /\ \A x \in On(r) : x \notin On(q) => f[x] = 0
    /\ \A i \in 1 .. Len(q) : i <= Len(r) => r[i] = q[i]

LEMMA ReshapedNot == ASSUME NEW f \in Fats, NEW q PROVE Reshaped(f, q, f, q)
BY DEF Reshaped

\* What the positions of a sequence say of the set of its clusters.
LEMMA OnPrefix ==
    ASSUME NEW q, NEW r, Len(q) \in Nat, Len(r) \in Nat, Len(q) <= Len(r),
           \A i \in 1 .. Len(q) : r[i] = q[i]
    PROVE  On(q) \subseteq On(r)
<1> SUFFICES ASSUME NEW x \in On(q) PROVE x \in On(r)
  OBVIOUS
<1>1. PICK i \in 1 .. Len(q) : x = q[i]
  BY DEF On, From
<1>2. i \in 1 .. Len(r) /\ x = r[i]
  BY <1>1
<1> QED
  BY <1>2 DEF On, From

\* ExtendClstrChain at the i-th cluster of a chain: the next, which may be new.
LEMMA ExtendStep ==
    ASSUME NEW f \in Fats, NEW c, NEW q, Line(f, c, q), NEW i \in 1 .. Len(q), NEW e,
           e = ExtendClstrChain(f, q[i])
    PROVE  \E r : /\ Line(e.fat, c, r) /\ Reshaped(f, q, e.fat, r) /\ Len(q) <= Len(r)
                  /\ e.erc = "ok" => i + 1 <= Len(r) /\ e.Clstr = r[i + 1]
<1> DEFINE free == {d \in Clstr : d > q[i] /\ f[d] = 0}
<1>1. /\ q \in Seq(Clstr) /\ Len(q) \in Nat \ {0} /\ i \in Nat /\ q[1] = c
      /\ q[i] \in Clstr /\ f[q[i]] = IF i = Len(q) THEN EOF ELSE q[i + 1]
  BY DEF Line
<1>2. CASE f[q[i]] # EOF
  <2>1. e = [erc |-> "ok", fat |-> f, Clstr |-> f[q[i]]]
    BY <1>1, <1>2 DEF ExtendClstrChain
  <2>2. i + 1 <= Len(q) /\ e.Clstr = q[i + 1] /\ e.fat = f
    BY <1>1, <1>2, <2>1
  <2> QED
    BY <1>1, <2>2, ReshapedNot
<1>3. CASE f[q[i]] = EOF /\ free = {}
  <2>1. e = [erc |-> "ErcBadFATClstr", fat |-> f, Clstr |-> 0]
    BY <1>1, <1>3 DEF ExtendClstrChain
  <2> QED
    BY <1>1, <2>1, ReshapedNot
<1>4. CASE f[q[i]] = EOF /\ free # {}
  <2> DEFINE n == Lowest(free)
             g == [f EXCEPT ![q[i]] = n, ![n] = EOF]
             r == Append(q, n)
  <2>1. n \in free
    BY LowestIn, EndMark, <1>4
  <2>2. n \in Clstr /\ f[n] = 0 /\ n # q[i]
    BY <1>1, <2>1, EndMark
  <2> HIDE DEF n
  <2>3. e.fat = g /\ e.Clstr = n
    BY <1>1, <1>4 DEF ExtendClstrChain, n
  <2>4. i = Len(q)
    <3>1. i # Len(q) => q[i + 1] \in Clstr
      BY <1>1 DEF Line
    <3> QED
      BY <1>1, <1>4, <3>1, EndMark
  <2>5. \A j \in 1 .. Len(q) : q[j] # n
    <3> SUFFICES ASSUME NEW j \in 1 .. Len(q) PROVE f[q[j]] # 0
      BY <2>2
    <3>1. q[j + 1] \in Clstr \/ j = Len(q)
      BY <1>1 DEF Line
    <3> QED
      BY <3>1, EndMark DEF Line
  <2>6. g \in Fats /\ g[q[i]] = n /\ g[n] = EOF /\ \A x \in Clstr \ {n, q[i]} : g[x] = f[x]
    BY <1>1, <2>2 DEF Fats
  <2>7. /\ r \in Seq(Clstr) /\ Len(r) = Len(q) + 1 /\ r[Len(q) + 1] = n
        /\ \A j \in 1 .. Len(q) : r[j] = q[j]
    BY <1>1, <2>2, AppendProperties
  <2> HIDE DEF g, r
  <2>8. ASSUME NEW j \in 1 .. Len(r)
        PROVE  /\ r[j] \in Clstr
               /\ g[r[j]] = IF j = Len(r) THEN EOF ELSE r[j + 1]
               /\ \A k \in 1 .. Len(r) : r[j] = r[k] => j = k
    <3>1. CASE j = Len(q) + 1
      BY <1>1, <2>2, <2>5, <2>6, <2>7, <3>1
    <3>2. CASE j = Len(q)
      <4>1. r[j] = q[i] /\ g[r[j]] = r[j + 1]
        BY <1>1, <2>4, <2>6, <2>7, <3>2
      <4>2. \A k \in 1 .. Len(q) : q[j] = q[k] => j = k
        BY <2>4, <3>2 DEF Line
      <4> QED
        BY <1>1, <2>4, <2>5, <2>7, <3>2, <4>1, <4>2
    <3>3. CASE j \in 1 .. Len(q) /\ j # Len(q)
      <4>1. /\ q[j] \in Clstr /\ f[q[j]] = q[j + 1] /\ \A k \in 1 .. Len(q) : q[j] = q[k] => j = k
        BY <3>3 DEF Line
      <4>2. q[j] # q[i] /\ q[j] # n
        BY <2>4, <2>5, <3>3, <4>1
      <4>3. g[q[j]] = q[j + 1] /\ r[j] = q[j] /\ r[j + 1] = q[j + 1]
        BY <1>1, <2>6, <2>7, <3>3, <4>1, <4>2
      <4> QED
        BY <1>1, <2>7, <3>3, <4>1, <4>2, <4>3
    <3> QED
      BY <1>1, <2>7, <3>1, <3>2, <3>3
  <2>9. Line(g, c, r)
    BY <1>1, <2>7, <2>8 DEF Line
  <2>10. On(r) = On(q) \cup {n}
    <3>1. On(q) \subseteq On(r)
      BY <1>1, <2>7, OnPrefix
    <3>2. n \in On(r)
      BY <1>1, <2>7 DEF On, From
    <3>3. ASSUME NEW x \in On(r) PROVE x \in On(q) \cup {n}
      <4>1. PICK j \in 1 .. Len(r) : x = r[j]
        BY DEF On, From
      <4> QED
        BY <1>1, <2>7, <4>1 DEF On, From
    <3> QED
      BY <3>1, <3>2, <3>3
  <2>11. q[i] \in On(q)
    BY <1>1 DEF On, From
  <2>12. Reshaped(f, q, g, r)
    BY <1>1, <2>2, <2>6, <2>7, <2>10, <2>11 DEF Reshaped
  <2>13. i + 1 <= Len(r) /\ n = r[i + 1] /\ Len(q) <= Len(r)
    BY <1>1, <2>4, <2>7
  <2> QED
    BY <2>3, <2>9, <2>12, <2>13
<1> QED
  BY <1>2, <1>3, <1>4

\* A chain that is extended twice is extended.
LEMMA ReshapedTwice ==
    ASSUME NEW f, NEW g, NEW h, NEW c, NEW q, NEW r, NEW s,
           Line(f, c, q), Line(g, c, r), Line(h, c, s), Len(q) <= Len(r), Len(r) <= Len(s),
           Reshaped(f, q, g, r), Reshaped(g, r, h, s)
    PROVE  Reshaped(f, q, h, s)
<1>1. Len(q) \in Nat /\ Len(r) \in Nat /\ Len(s) \in Nat
  BY DEF Line
<1>2. \A i \in 1 .. Len(q) : r[i] = q[i] /\ i \in 1 .. Len(r)
  BY <1>1 DEF Reshaped
<1>3. \A i \in 1 .. Len(r) : s[i] = r[i] /\ i \in 1 .. Len(s)
  BY <1>1 DEF Reshaped
<1>4. On(q) \subseteq On(r) /\ On(r) \subseteq On(s) /\ On(s) \subseteq Clstr
  <2>1. On(q) \subseteq On(r)
    BY <1>1, <1>2, OnPrefix
  <2>2. On(r) \subseteq On(s)
    BY <1>1, <1>3, OnPrefix
  <2>3. On(s) \subseteq Clstr
    BY DEF Line, On, From
  <2> QED
    BY <2>1, <2>2, <2>3
<1>5. h \in Fats
  BY DEF Reshaped
<1>6. ASSUME NEW x \in Clstr, x \notin On(q), x \notin On(s) PROVE h[x] = f[x]
  BY <1>4, <1>6 DEF Reshaped
<1>7. \A x \in On(q) : x \in On(s)
  BY <1>4
<1>8. ASSUME NEW x \in On(s), x \notin On(q) PROVE f[x] = 0
  BY <1>4, <1>8 DEF Reshaped
<1>9. \A i \in 1 .. Len(q) : s[i] = q[i]
  BY <1>2, <1>3
<1> QED
  BY <1>5, <1>6, <1>7, <1>8, <1>9 DEF Reshaped

\* ExtendClstrChain only goes on while there is no error.
Extended(e) == IF e.erc # "ok" THEN e ELSE ExtendClstrChain(e.fat, e.Clstr)

Extends(f, last, n, g) ==
    g = [i \in 0 .. n |-> IF i = 0 THEN [erc |-> "ok", fat |-> f, Clstr |-> last]
                          ELSE Extended(g[i - 1])]

LEMMA ExtendsExist ==
    ASSUME NEW f, NEW c, NEW n \in Nat
    PROVE  \E g : Extends(f, c, n, g)
<1> DEFINE z == [erc |-> "ok", fat |-> f, Clstr |-> c]
           S == {m \in Nat : \E g : Extends(f, c, m, g)}
<1> HIDE DEF z
<1>1. 0 \in S
  <2>1. Extends(f, c, 0, [i \in 0 .. 0 |-> z])
    BY DEF Extends, z
  <2> QED
    BY <2>1
<1>2. ASSUME NEW m \in S PROVE m + 1 \in S
  <2>1. PICK g : Extends(f, c, m, g)
    OBVIOUS
  <2> DEFINE h == [i \in 0 .. m + 1 |-> IF i = m + 1 THEN Extended(g[m]) ELSE g[i]]
  <2>2. \A i \in 0 .. m : g[i] = IF i = 0 THEN z ELSE Extended(g[i - 1])
    BY <2>1 DEF Extends, z
  <2>3. \A i \in 0 .. m + 1 : h[i] = IF i = 0 THEN z ELSE Extended(h[i - 1])
    BY <2>2
  <2>4. h = [i \in 0 .. m + 1 |-> IF i = 0 THEN z ELSE Extended(h[i - 1])]
    BY <2>3
  <2>5. Extends(f, c, m + 1, h)
    BY <2>4 DEF Extends, z
  <2> QED
    BY <2>5
<1>3. S = Nat
  BY <1>1, <1>2, SetInduction
<1> QED
  BY <1>3

\* The loop of SetFileSize: the chain is extended, and, without an error, by n clusters
\* after the p-th.
LEMMA ExtendByEffect ==
    ASSUME NEW f \in Fats, NEW c, NEW q, Line(f, c, q), NEW p \in 1 .. Len(q), NEW n \in Nat,
           NEW e, e = ExtendBy(f, q[p], n)
    PROVE  \E r : /\ Line(e.fat, c, r) /\ Reshaped(f, q, e.fat, r) /\ Len(q) <= Len(r)
                  /\ e.erc = "ok" => p + n <= Len(r)
<1> DEFINE z == [erc |-> "ok", fat |-> f, Clstr |-> q[p]]
           ext == CHOOSE g : g = [i \in 0 .. n |->
                    IF i = 0 THEN [erc |-> "ok", fat |-> f, Clstr |-> q[p]]
                    ELSE IF g[i - 1].erc # "ok" THEN g[i - 1]
                    ELSE ExtendClstrChain(g[i - 1].fat, g[i - 1].Clstr)]
<1>1. e = ext[n]
  BY DEF ExtendBy
<1>2. \A g : Extends(f, q[p], n, g) <=> g = [i \in 0 .. n |->
                    IF i = 0 THEN [erc |-> "ok", fat |-> f, Clstr |-> q[p]]
                    ELSE IF g[i - 1].erc # "ok" THEN g[i - 1]
                    ELSE ExtendClstrChain(g[i - 1].fat, g[i - 1].Clstr)]
  BY DEF Extends, Extended
<1>3. Extends(f, q[p], n, ext)
  BY <1>2, ExtendsExist
<1>4. \A i \in 0 .. n : ext[i] = IF i = 0 THEN z ELSE Extended(ext[i - 1])
  BY <1>3 DEF Extends
<1> HIDE DEF ext
<1> DEFINE P(i) == \E r : /\ Line(ext[i].fat, c, r) /\ Reshaped(f, q, ext[i].fat, r)
                          /\ Len(q) <= Len(r)
                          /\ ext[i].erc = "ok" => p + i <= Len(r) /\ ext[i].Clstr = r[p + i]
           S == {i \in Nat : i <= n => P(i)}
<1>5. Len(q) \in Nat /\ p \in Nat
  BY DEF Line
<1>6. 0 \in S
  <2>1. ext[0] = z /\ z.fat = f /\ z.Clstr = q[p] /\ p + 0 = p
    BY <1>4, <1>5
  <2>2. P(0)
    BY <1>5, <2>1, ReshapedNot
  <2> QED
    BY <2>2
<1>7. ASSUME NEW i \in S, i + 1 <= n PROVE P(i + 1)
  <2>1. P(i) /\ i \in Nat /\ (i + 1) - 1 = i /\ i + 1 # 0 /\ i + 1 \in 0 .. n
    BY <1>7
  <2>2. ext[i + 1] = Extended(ext[i])
    BY <1>4, <2>1
  <2>3. CASE ext[i].erc # "ok"
    <3>1. ext[i + 1] = ext[i]
      BY <2>2, <2>3 DEF Extended
    <3> QED
      BY <2>1, <2>3, <3>1
  <2>4. CASE ext[i].erc = "ok"
    <3>1. PICK r : /\ Line(ext[i].fat, c, r) /\ Reshaped(f, q, ext[i].fat, r)
                   /\ Len(q) <= Len(r)
                   /\ p + i <= Len(r) /\ ext[i].Clstr = r[p + i]
      BY <2>1, <2>4
    <3>2. ext[i + 1] = ExtendClstrChain(ext[i].fat, r[p + i])
      BY <2>2, <2>4, <3>1 DEF Extended
    <3>3. ext[i].fat \in Fats /\ Len(r) \in Nat /\ p + i \in 1 .. Len(r)
      <4>1. ext[i].fat \in Fats
        BY <3>1 DEF Reshaped
      <4>2. Len(r) \in Nat
        BY <3>1 DEF Line
      <4> QED
        BY <1>5, <2>1, <3>1, <4>1, <4>2
    <3>4. PICK s : /\ Line(ext[i + 1].fat, c, s) /\ Reshaped(ext[i].fat, r, ext[i + 1].fat, s)
                   /\ Len(r) <= Len(s)
                   /\ ext[i + 1].erc = "ok" =>
                        (p + i) + 1 <= Len(s) /\ ext[i + 1].Clstr = s[(p + i) + 1]
      <4> DEFINE x == ext[i].fat
                 y == ext[i + 1]
                 k == p + i
      <4>1. x \in Fats /\ Line(x, c, r) /\ k \in 1 .. Len(r) /\ y = ExtendClstrChain(x, r[k])
        BY <3>1, <3>2, <3>3
      <4> HIDE DEF x, y, k
      <4>2. \E s : /\ Line(y.fat, c, s) /\ Reshaped(x, r, y.fat, s) /\ Len(r) <= Len(s)
                   /\ y.erc = "ok" => k + 1 <= Len(s) /\ y.Clstr = s[k + 1]
        BY <4>1, ExtendStep
      <4> QED
        BY <4>2 DEF x, y, k
    <3>5. Reshaped(f, q, ext[i + 1].fat, s)
      BY <3>1, <3>4, ReshapedTwice
    <3>6. Len(q) <= Len(s) /\ (p + i) + 1 = p + (i + 1)
      <4>1. Len(s) \in Nat
        BY <3>4 DEF Line
      <4>2. Len(q) <= Len(r) /\ Len(r) <= Len(s)
        BY <3>1, <3>4
      <4>3. Len(q) <= Len(s)
        BY <1>5, <3>3, <4>1, <4>2
      <4> QED
        BY <1>5, <2>1, <4>3
    <3> QED
      BY <3>4, <3>5, <3>6
  <2> QED
    BY <2>3, <2>4
<1>8. \A i \in S : i + 1 \in S
  BY <1>7
<1> HIDE DEF P
<1>9. S = Nat
  BY <1>6, <1>8, SetInduction
<1>10. P(n)
  BY <1>9
<1> QED
  BY <1>1, <1>10 DEF P

\* A chain is cut behind its p-th cluster.
LEMMA TruncEffect ==
    ASSUME NEW f \in Fats, NEW c, NEW q, Line(f, c, q), NEW p \in 1 .. Len(q),
           NEW t, t = TruncClstrChain(f, q[p])
    PROVE  /\ t.erc = "ok"
           /\ \E r : Line(t.fat, c, r) /\ Reshaped(f, q, t.fat, r) /\ Len(r) = p
<1>1. /\ q \in Seq(Clstr) /\ Len(q) \in Nat \ {0} /\ p \in Nat /\ q[1] = c
      /\ q[p] \in Clstr /\ f[q[p]] = IF p = Len(q) THEN EOF ELSE q[p + 1]
  BY DEF Line
<1>2. CASE f[q[p]] = EOF
  <2>1. t.erc = "ok" /\ t.fat = f
    BY <1>1, <1>2 DEF TruncClstrChain
  <2>2. p = Len(q)
    <3>1. p # Len(q) => q[p + 1] \in Clstr
      BY <1>1 DEF Line
    <3> QED
      BY <1>1, <1>2, <3>1, EndMark
  <2> QED
    BY <2>1, <2>2, ReshapedNot
<1>3. CASE f[q[p]] # EOF
  <2> DEFINE g == [d \in Clstr |-> IF d \in From(q, p + 1) THEN 0
                                   ELSE IF d = q[p] THEN EOF ELSE f[d]]
             r == [i \in 1 .. p |-> q[i]]
  <2>1. p < Len(q) /\ p + 1 \in 1 .. Len(q) /\ f[q[p]] = q[p + 1]
    BY <1>1, <1>3
  <2>2. ChainOf(f, f[q[p]]) = From(q, p + 1)
    BY <2>1, LineChain
  <2>3. q[p] \notin From(q, p + 1)
    <3>1. \A j \in p + 1 .. Len(q) : j \in 1 .. Len(q) /\ j # p
      BY <1>1
    <3> QED
      BY <3>1 DEF From, Line
  <2>4. t.erc = "ok" /\ t.fat = g
    BY <1>1, <1>3, <2>2, <2>3 DEF TruncClstrChain
  <2>5. r \in Seq(Clstr) /\ Len(r) = p /\ \A i \in 1 .. p : r[i] = q[i] /\ i \in 1 .. Len(q)
    <3>1. \A i \in 1 .. p : i \in 1 .. Len(q)
      BY <1>1
    <3>2. r \in [1 .. p -> Clstr]
      BY <3>1 DEF Line
    <3>3. r \in Seq(Clstr)
      BY <1>1, <3>2
    <3> QED
      BY <1>1, <3>1, <3>2, <3>3, LenProperties
  <2> HIDE DEF r
  <2>6. g \in Fats /\ g[q[p]] = EOF /\ \A x \in From(q, p + 1) : g[x] = 0
    <3>1. From(q, p + 1) \subseteq Clstr
      <4>1. \A j \in p + 1 .. Len(q) : j \in 1 .. Len(q)
        BY <1>1
      <4> QED
        BY <4>1 DEF From, Line
    <3> QED
      BY <1>1, <2>3, <3>1 DEF Fats
  <2>7. \A x \in Clstr : x \notin From(q, p + 1) /\ x # q[p] => g[x] = f[x]
    OBVIOUS
  <2> HIDE DEF g
  <2>8. ASSUME NEW i \in 1 .. p, NEW j \in p + 1 .. Len(q) PROVE q[i] # q[j]
    <3>1. i \in 1 .. Len(q) /\ j \in 1 .. Len(q) /\ i # j
      BY <1>1
    <3> QED
      BY <3>1 DEF Line
  <2>9. ASSUME NEW i \in 1 .. Len(r)
        PROVE  /\ r[i] \in Clstr
               /\ g[r[i]] = IF i = Len(r) THEN EOF ELSE r[i + 1]
               /\ \A j \in 1 .. Len(r) : r[i] = r[j] => i = j
    <3>1. i \in 1 .. Len(q) /\ i \in 1 .. p /\ r[i] = q[i]
      BY <2>5
    <3>2. /\ q[i] \in Clstr /\ f[q[i]] = IF i = Len(q) THEN EOF ELSE q[i + 1]
          /\ \A j \in 1 .. Len(q) : q[i] = q[j] => i = j
      BY <3>1 DEF Line
    <3>3. q[i] \notin From(q, p + 1)
      BY <2>8, <3>1 DEF From
    <3>4. CASE i = p
      BY <2>5, <2>6, <3>1, <3>2, <3>4
    <3>5. CASE i # p
      <4>1. q[i] # q[p] /\ i # Len(q) /\ i + 1 \in 1 .. p
        BY <1>1, <2>1, <3>1, <3>2, <3>5
      <4>2. g[q[i]] = q[i + 1] /\ r[i + 1] = q[i + 1]
        BY <2>5, <2>7, <3>2, <3>3, <4>1
      <4> QED
        BY <2>5, <3>1, <3>2, <3>5, <4>2
    <3> QED
      BY <3>4, <3>5
  <2>10. Line(g, c, r)
    BY <1>1, <2>5, <2>9 DEF Line
  <2>11. On(q) = On(r) \cup From(q, p + 1) /\ On(r) \cap From(q, p + 1) = {} /\ q[p] \in On(r)
    <3>1. \A j \in 1 .. Len(q) : j \in 1 .. p \/ j \in p + 1 .. Len(q)
      BY <1>1
    <3>2. \A j \in p + 1 .. Len(q) : j \in 1 .. Len(q)
      BY <1>1
    <3>3. On(r) = {q[i] : i \in 1 .. p}
      BY <2>5 DEF On, From
    <3> QED
      BY <1>1, <2>5, <2>8, <3>1, <3>2, <3>3 DEF On, From
  <2>12. Reshaped(f, q, g, r)
    BY <1>1, <2>5, <2>6, <2>7, <2>11 DEF Reshaped
  <2> QED
    BY <2>4, <2>5, <2>10, <2>12
<1> QED
  BY <1>2, <1>3

-----------------------------------------------------------------------------
(* The invariant, of a directory D, a FAT f with dk on the disk, blocks b, *)
(* FCBs F and FUBs U.                                                      *)

EntRec == [Name : Name \cup {"none"}, ReadOnly : BOOLEAN, StartClstr : Clstr \cup {0},
           FileSize : Sizes \cup {0}]
FCBRec == [ent : EntRec, slot : Slot, Mode : {0, 1}, nUsers : Nat]
FUBRec == [Job : Job \cup {"free"}, iFCB : FCBs, Clstr : Clstr \cup {0, EOF}, relClstr : Nat]

Tables(D, f, dk, b, F, U) ==
    /\ D \in [Slot -> EntRec]
    /\ f \in Fats /\ dk \in Fats
    /\ b \in [Clstr -> [0 .. SecPerClstr - 1 -> Val]]
    /\ F \in [FCBs -> FCBRec]
    /\ U \in [Handle -> FUBRec]

Files(D) == {s \in Slot : D[s].Name # "none"}

\* An FCB in use is that of one file, and has what its entry has; what it may have
\* more is the new size of a file that is open to be modified, by one user.
Opened(D, F) ==
    \A i \in FCBs : F[i].nUsers > 0 =>
        /\ F[i].slot \in Files(D)
        /\ F[i].ent.Name = D[F[i].slot].Name
        /\ F[i].ent.StartClstr = D[F[i].slot].StartClstr
        /\ F[i].Mode = 0 => F[i].ent = D[F[i].slot]
        /\ F[i].Mode = 1 => F[i].nUsers = 1
        /\ \A j \in FCBs : F[j].nUsers > 0 /\ F[j].slot = F[i].slot => i = j

Users(U, i) == {h \in Handle : U[h].Job # "free" /\ U[h].iFCB = i}
Counted(F, U) == \A i \in FCBs : F[i].nUsers = Cardinality(Users(U, i))

\* Q[s] is the chain of the file s; what is on no chain is free.
Chains(D, f, Q) ==
    /\ \A s \in Files(D) : Line(f, D[s].StartClstr, Q[s])
    /\ \A s, t \in Files(D) : s # t => On(Q[s]) \cap On(Q[t]) = {}
    /\ \A c \in Clstr : f[c] # 0 => \E s \in Files(D) : c \in On(Q[s])

Busy(F, s) == \E i \in FCBs : F[i].nUsers > 0 /\ F[i].slot = s /\ F[i].Mode = 1

\* The chains are long enough.
Long(D, F, Q) ==
    /\ \A s \in Files(D) : ~Busy(F, s) => nClstrs(D[s].FileSize) <= Len(Q[s])
    /\ \A i \in FCBs : F[i].nUsers > 0 => nClstrs(F[i].ent.FileSize) <= Len(Q[F[i].slot])

\* A handle keeps a cluster of the chain q.
InFile(H, q) == H.relClstr < Len(q) /\ H.Clstr = q[H.relClstr + 1]
Helpers(F, U, Q) ==
    \A h \in Handle : U[h].Job # "free" => InFile(U[h], Q[F[U[h].iFCB].slot])

\* The chains that nobody may change are on the disk.
Saved(D, f, dk, F, Q) ==
    \A s \in Files(D) : ~Busy(F, s) => \A c \in On(Q[s]) : dk[c] = f[c]

Sound(D, f, dk, F, U, Q) ==
    /\ Chains(D, f, Q)
    /\ Long(D, F, Q)
    /\ Helpers(F, U, Q)
    /\ Saved(D, f, dk, F, Q)

IInv ==
    /\ Tables(Dir, fat, disk, data, FCB, FUB)
    /\ Opened(Dir, FCB)
    /\ Counted(FCB, FUB)
    /\ \E Q \in [Slot -> Seq(Clstr)] : Sound(Dir, fat, disk, FCB, FUB, Q)

-----------------------------------------------------------------------------
(* What the invariant says. *)

LEMMA UsersFinite ==
    ASSUME NEW U, NEW i
    PROVE  IsFiniteSet(Users(U, i)) /\ Cardinality(Users(U, i)) \in Nat
<1>1. 4 \in Int /\ nFUBs - 1 \in Int
  BY FileSysAssumption
<1>2. IsFiniteSet(Handle)
  BY <1>1, FS_Interval DEF Handle
<1>3. Users(U, i) \subseteq Handle
  BY DEF Users
<1> QED
  BY <1>2, <1>3, FS_Subset, FS_CardinalityType

\* The FCB of a handle in use counts it.
LEMMA UsedCounts ==
    ASSUME NEW F, NEW U, Counted(F, U), NEW h \in Handle, U[h].Job # "free", U[h].iFCB \in FCBs
    PROVE  F[U[h].iFCB].nUsers > 0
<1>1. h \in Users(U, U[h].iFCB)
  BY DEF Users
<1>2. Cardinality(Users(U, U[h].iFCB)) # 0
  BY <1>1, UsersFinite, FS_EmptySet
<1> QED
  BY <1>2, UsersFinite DEF Counted

\* The only user of a file that is open to be modified.
LEMMA OnlyUser ==
    ASSUME NEW F, NEW U, Counted(F, U), NEW h \in Handle, U[h].Job # "free", U[h].iFCB \in FCBs,
           F[U[h].iFCB].nUsers = 1
    PROVE  Users(U, U[h].iFCB) = {h}
<1>1. h \in Users(U, U[h].iFCB)
  BY DEF Users
<1>2. Cardinality(Users(U, U[h].iFCB)) = 1
  BY DEF Counted
<1>3. PICK x : Users(U, U[h].iFCB) = {x}
  BY <1>2, UsersFinite, FS_Singleton
<1> QED
  BY <1>1, <1>3

\* Files with one first cluster are one file.
LEMMA OneStart ==
    ASSUME NEW D, NEW f, NEW Q, Chains(D, f, Q), NEW s \in Files(D), NEW t \in Files(D),
           D[s].StartClstr = D[t].StartClstr
    PROVE  s = t
<1>1. \A u \in Files(D) : D[u].StartClstr \in On(Q[u])
  BY DEF Chains, Line, On, From
<1> QED
  BY <1>1 DEF Chains

\* A cluster on a chain is not free.
LEMMA OnNotFree ==
    ASSUME NEW f, NEW c, NEW q, Line(f, c, q), NEW x \in On(q)
    PROVE  x \in Clstr /\ f[x] # 0
<1>1. PICK i \in 1 .. Len(q) : x = q[i]
  BY DEF On, From
<1>2. x \in Clstr /\ Len(q) \in Nat /\ f[x] = IF i = Len(q) THEN EOF ELSE q[i + 1]
  BY <1>1 DEF Line
<1>3. i # Len(q) => i + 1 \in 1 .. Len(q)
  BY <1>2
<1>4. i # Len(q) => q[i + 1] \in Clstr
  BY <1>3 DEF Line
<1> QED
  BY <1>2, <1>4, EndMark

\* R are the chains after that of s, in Q, has become r.
Recut(D, f, Q, s, g, r, R) ==
    /\ f \in Fats /\ Q \in [Slot -> Seq(Clstr)] /\ s \in Files(D) /\ Chains(D, f, Q)
    /\ Line(g, D[s].StartClstr, r) /\ Reshaped(f, Q[s], g, r)
    /\ R = [Q EXCEPT ![s] = r]

\* A chain is changed, and no other.
LEMMA ChainsReshaped ==
    ASSUME NEW D, NEW f, NEW Q, NEW s, NEW g, NEW r, NEW R, Recut(D, f, Q, s, g, r, R)
    PROVE  /\ Chains(D, g, R) /\ R \in [Slot -> Seq(Clstr)]
           /\ R[s] = r /\ \A t \in Slot \ {s} : R[t] = Q[t]
           /\ \A t \in Files(D) \ {s} : \A x \in On(Q[t]) : g[x] = f[x]
<1> USE DEF Recut
<1>1. s \in Slot /\ r \in Seq(Clstr) /\ Files(D) \subseteq Slot
  BY DEF Files, Line
<1>2. R \in [Slot -> Seq(Clstr)] /\ R[s] = r /\ \A t \in Slot \ {s} : R[t] = Q[t]
  BY <1>1
<1>3. \A t \in Files(D) : \A x \in On(Q[t]) : x \in Clstr /\ f[x] # 0
  BY OnNotFree DEF Chains
<1>4. ASSUME NEW t \in Files(D) \ {s}, NEW x \in On(Q[t]) PROVE x \notin On(r) /\ g[x] = f[x]
  <2>1. x \in Clstr /\ f[x] # 0 /\ x \notin On(Q[s])
    BY <1>3, <1>4 DEF Chains
  <2>2. x \notin On(r)
    BY <2>1 DEF Reshaped
  <2> QED
    BY <2>1, <2>2 DEF Reshaped
<1>5. \A t \in Files(D) : Line(g, D[t].StartClstr, R[t])
  <2>1. ASSUME NEW t \in Files(D), t # s PROVE Line(g, D[t].StartClstr, Q[t])
    BY <1>4, <2>1, LineSame DEF Chains
  <2> QED
    BY <1>1, <1>2, <2>1
<1>6. \A t, u \in Files(D) : t # u => On(R[t]) \cap On(R[u]) = {}
  <2>1. ASSUME NEW t \in Files(D), NEW u \in Files(D), t # u, t # s, u # s
        PROVE  On(R[t]) \cap On(R[u]) = {}
    BY <1>1, <1>2, <2>1 DEF Chains
  <2>2. ASSUME NEW t \in Files(D), t # s
        PROVE  On(R[t]) \cap On(R[s]) = {}
    BY <1>1, <1>2, <1>4, <2>2
  <2> QED
    BY <2>1, <2>2
<1>7. ASSUME NEW c \in Clstr, g[c] # 0 PROVE \E t \in Files(D) : c \in On(R[t])
  <2>1. CASE c \in On(r)
    BY <1>2, <2>1
  <2>2. CASE c \notin On(r) /\ c \notin On(Q[s])
    <3>1. f[c] # 0
      BY <1>7, <2>2 DEF Reshaped
    <3>2. PICK t \in Files(D) : c \in On(Q[t])
      BY <3>1 DEF Chains
    <3>3. t # s /\ R[t] = Q[t]
      BY <1>1, <1>2, <2>2, <3>2
    <3> QED
      BY <3>2, <3>3
  <2>3. CASE c \notin On(r) /\ c \in On(Q[s])
    BY <1>7, <2>3 DEF Reshaped
  <2> QED
    BY <2>1, <2>2, <2>3
<1>8. Chains(D, g, R)
  BY <1>5, <1>6, <1>7 DEF Chains
<1> QED
  BY <1>2, <1>4, <1>8

\* The chain of a file is a sequence.
LEMMA ChainIs ==
    ASSUME NEW D, NEW f, NEW Q, Chains(D, f, Q), NEW s \in Files(D)
    PROVE  /\ ChainOf(f, D[s].StartClstr) = On(Q[s])
           /\ Len(Q[s]) \in Nat \ {0} /\ Q[s][1] = D[s].StartClstr
<1>1. Line(f, D[s].StartClstr, Q[s])
  BY DEF Chains
<1>2. Len(Q[s]) \in Nat \ {0} /\ Q[s][1] = D[s].StartClstr /\ 1 \in 1 .. Len(Q[s])
  BY <1>1 DEF Line
<1> QED
  BY <1>1, <1>2, LineChain DEF On

\* The entry that counts, and its chain.
LEMMA EntryIs ==
    ASSUME NEW Q, Tables(Dir, fat, disk, data, FCB, FUB), Opened(Dir, FCB),
           Sound(Dir, fat, disk, FCB, FUB, Q), NEW s \in Live
    PROVE  /\ s \in Files(Dir) /\ Entry(s).StartClstr = Dir[s].StartClstr
           /\ Chain(s) = On(Q[s]) /\ Cardinality(Chain(s)) = Len(Q[s])
           /\ nClstrs(Entry(s).FileSize) <= Len(Q[s])
           /\ ~Changing(s) => Dir[s] = Entry(s)
<1>2. s \in Files(Dir)
  BY DEF Live, Files
<1>3. /\ Entry(s).StartClstr = Dir[s].StartClstr
      /\ nClstrs(Entry(s).FileSize) <= Len(Q[s])
      /\ ~Changing(s) => Dir[s] = Entry(s)
  <2>1. CASE Open(s) = {}
    <3>1. Entry(s) = Dir[s] /\ ~Busy(FCB, s)
      BY <2>1 DEF Entry, Open, Busy
    <3> QED
      BY <1>2, <3>1 DEF Sound, Long
  <2>2. CASE Open(s) # {}
    <3>1. Open(s) \subseteq FCBs /\ FCBs \subseteq Nat
      BY DEF Open, FCBs
    <3>2. PICK i \in Open(s) : i = Lowest(Open(s))
      BY <2>2, <3>1, LowestIn
    <3>3. i \in FCBs /\ FCB[i].nUsers > 0 /\ FCB[i].slot = s /\ FCB[i].Mode \in {0, 1}
      BY <3>2 DEF Open, Tables, FCBRec
    <3>4. Entry(s) = FCB[i].ent
      BY <2>2, <3>2 DEF Entry
    <3>5. ~Changing(s) => FCB[i].Mode = 0
      BY <3>2, <3>3 DEF Changing
    <3> QED
      BY <3>3, <3>4, <3>5 DEF Opened, Sound, Long
  <2> QED
    BY <2>1, <2>2
<1>4. Chain(s) = On(Q[s])
  BY <1>2, <1>3, ChainIs DEF Chain, Sound
<1>5. Cardinality(Chain(s)) = Len(Q[s])
  BY <1>2, <1>4, LineLen DEF Sound, Chains
<1> QED
  BY <1>2, <1>3, <1>4, <1>5

LEMMA IInvTypeOK == ASSUME IInv PROVE TypeOK
<1>1. \A i \in FCBs : FCB[i].nUsers <= nFUBs
  <2> SUFFICES ASSUME NEW i \in FCBs PROVE FCB[i].nUsers <= nFUBs
    OBVIOUS
  <2>1. 4 \in Int /\ nFUBs - 1 \in Int /\ nFUBs \in Nat
    BY FileSysAssumption
  <2>2. IsFiniteSet(Handle) /\ Cardinality(Handle) <= nFUBs
    BY <2>1, FS_Interval DEF Handle
  <2>3. Users(FUB, i) \subseteq Handle /\ Cardinality(Users(FUB, i)) \in Nat
    BY UsersFinite DEF Users
  <2>4. Cardinality(Users(FUB, i)) <= Cardinality(Handle) /\ Cardinality(Handle) \in Nat
    BY <2>2, <2>3, FS_Subset, FS_CardinalityType
  <2> QED
    BY <2>1, <2>2, <2>3, <2>4 DEF IInv, Counted
<1>2. Tables(Dir, fat, disk, data, FCB, FUB) /\ nFUBs \in Nat
  BY FileSysAssumption DEF IInv
<1>3. \A i \in FCBs : FCB[i].nUsers \in Nat /\ FCB[i].slot \in Slot
  BY <1>2 DEF Tables, FCBRec
<1>4. \A h \in Handle : FUB[h].iFCB \in FCBs /\ FUB[h].Clstr \in Clstr \cup {0, EOF}
  BY <1>2 DEF Tables, FUBRec
<1>5. \A i \in FCBs : FCB[i].nUsers \in 0 .. nFUBs
  BY <1>1, <1>2, <1>3
<1> QED
  BY <1>2, <1>3, <1>4, <1>5 DEF Tables, Fats, TypeOK, EntRec

LEMMA IInvVolume == ASSUME IInv PROVE VolumeSound
<1>1. PICK Q : Sound(Dir, fat, disk, FCB, FUB, Q)
  BY DEF IInv
<1>2. Chains(Dir, fat, Q)
  BY <1>1 DEF Sound
<1>3. \A s \in Live : /\ s \in Files(Dir) /\ Entry(s).StartClstr = Dir[s].StartClstr
                      /\ Chain(s) = On(Q[s]) /\ Cardinality(Chain(s)) = Len(Q[s])
                      /\ nClstrs(Entry(s).FileSize) <= Len(Q[s])
  BY <1>1, EntryIs DEF IInv
<1>4. Live = Files(Dir)
  BY DEF Live, Files
<1>5. \A s, t \in Live : s # t => Chain(s) \cap Chain(t) = {}
  BY <1>2, <1>3 DEF Chains
<1>6. {c \in Clstr : fat[c] # 0} = UNION {Chain(s) : s \in Live}
  <2>1. ASSUME NEW c \in Clstr, fat[c] # 0 PROVE \E s \in Live : c \in Chain(s)
    BY <1>2, <1>3, <1>4, <2>1 DEF Chains
  <2>2. ASSUME NEW s \in Live, NEW c \in Chain(s) PROVE c \in Clstr /\ fat[c] # 0
    BY <1>2, <1>3, <2>2, OnNotFree DEF Chains
  <2> QED
    BY <2>1, <2>2
<1>7. ASSUME NEW s \in Live
      PROVE  Follow(fat, Entry(s).StartClstr, Cardinality(Chain(s))) = EOF
  <2>1. s \in Files(Dir) /\ Line(fat, Dir[s].StartClstr, Q[s])
    BY <1>2, <1>3 DEF Chains
  <2>2. Len(Q[s]) \in Nat /\ 1 \in 1 .. Len(Q[s]) /\ Q[s][1] = Dir[s].StartClstr
    BY <2>1 DEF Line
  <2>3. \A n \in Nat : Follow(fat, Q[s][1], n) = IF 1 + n <= Len(Q[s]) THEN Q[s][1 + n] ELSE EOF
    BY <2>1, <2>2, LineFollow
  <2>4. Follow(fat, Q[s][1], Len(Q[s])) = EOF
    BY <2>2, <2>3
  <2> QED
    BY <1>3, <2>2, <2>4
<1>8. \A s \in Live : Cardinality(Chain(s)) >= nClstrs(Entry(s).FileSize)
  <2> SUFFICES ASSUME NEW s \in Live PROVE Cardinality(Chain(s)) >= nClstrs(Entry(s).FileSize)
    OBVIOUS
  <2>1. nClstrs(Entry(s).FileSize) <= Len(Q[s]) /\ Cardinality(Chain(s)) = Len(Q[s])
    BY <1>3
  <2> QED
    BY <2>1
<1> QED
  BY <1>5, <1>6, <1>7, <1>8 DEF VolumeSound, ClustersOwned, ChainsWhole

LEMMA IInvHelper == ASSUME IInv PROVE HelperInFile
<1>1. PICK Q : Sound(Dir, fat, disk, FCB, FUB, Q)
  BY DEF IInv
<1> SUFFICES ASSUME NEW h \in Handle, Used(h)
             PROVE  /\ FUB[h].Clstr \in Chain(FileOf(h).slot)
                    /\ FUB[h].Clstr = Follow(fat, FileOf(h).ent.StartClstr, FUB[h].relClstr)
  BY DEF HelperInFile
<1> DEFINE i == FUB[h].iFCB
           s == FCB[i].slot
           q == Q[s]
<1>2. i \in FCBs /\ FUB[h].relClstr \in Nat
  BY DEF IInv, Tables, FUBRec
<1>3. FCB[i].nUsers > 0
  BY <1>2, UsedCounts DEF IInv, Used
<1>4. s \in Files(Dir) /\ FCB[i].ent.StartClstr = Dir[s].StartClstr
  BY <1>2, <1>3 DEF IInv, Opened
<1>5. Line(fat, Dir[s].StartClstr, q) /\ InFile(FUB[h], q)
  BY <1>1, <1>4 DEF Sound, Chains, Helpers, Used
<1>6. Chain(s) = On(q)
  BY <1>1, <1>4, EntryIs DEF IInv, Live, Files
<1> HIDE DEF q
<1> DEFINE n == FUB[h].relClstr
<1>7. Len(q) \in Nat /\ 1 \in 1 .. Len(q) /\ q[1] = Dir[s].StartClstr
  BY <1>5 DEF Line
<1>8. n \in Nat /\ n < Len(q) /\ FUB[h].Clstr = q[n + 1]
  BY <1>2, <1>5 DEF InFile
<1> HIDE DEF n
<1>9. n + 1 \in 1 .. Len(q) /\ 1 + n = n + 1 /\ 1 + n <= Len(q)
  BY <1>7, <1>8
<1>10. \A m \in Nat : Follow(fat, q[1], m) = IF 1 + m <= Len(q) THEN q[1 + m] ELSE EOF
  BY <1>5, <1>7, LineFollow
<1>11. Follow(fat, q[1], n) = q[n + 1]
  BY <1>8, <1>9, <1>10
<1>12. q[n + 1] \in On(q)
  BY <1>9 DEF On, From
<1> QED
  BY <1>4, <1>6, <1>7, <1>8, <1>11, <1>12 DEF FileOf, n

LEMMA IInvUsers == ASSUME IInv PROVE UsersCounted
<1>1. \A i \in FCBs : Users(FUB, i) = {h \in Handle : Used(h) /\ FUB[h].iFCB = i}
  BY DEF Users, Used
<1>2. \A i \in FCBs : FCB[i].nUsers = Cardinality({h \in Handle : Used(h) /\ FUB[h].iFCB = i})
  BY <1>1 DEF IInv, Counted
<1>3. \A i \in FCBs : FCB[i].nUsers > 0 => FCB[i].slot \in Live
  BY DEF IInv, Opened, Live, Files
<1>4. \A i \in FCBs : FCB[i].nUsers > 0 /\ FCB[i].Mode = 1 => FCB[i].nUsers = 1
  BY DEF IInv, Opened
<1>5. ASSUME NEW s \in Slot PROVE Cardinality(Open(s)) <= 1
  <2>1. CASE Open(s) = {}
    BY <2>1, FS_EmptySet
  <2>2. CASE Open(s) # {}
    <3>1. PICK i : i \in Open(s)
      BY <2>2
    <3>2. Open(s) = {i}
      BY <3>1 DEF Open, IInv, Opened
    <3>3. Cardinality(Open(s)) = 1
      BY <3>2, FS_Singleton
    <3> QED
      BY <3>3
  <2> QED
    BY <2>1, <2>2
<1> QED
  BY <1>2, <1>3, <1>4, <1>5 DEF UsersCounted

LEMMA IInvOnDisk == ASSUME IInv PROVE ClosedIsOnDisk
<1>1. PICK Q : Sound(Dir, fat, disk, FCB, FUB, Q)
  BY DEF IInv
<1> SUFFICES ASSUME NEW s \in Live, ~Changing(s)
             PROVE  Dir[s] = Entry(s) /\ \A c \in Chain(s) : disk[c] = fat[c]
  BY DEF ClosedIsOnDisk
<1>2. s \in Files(Dir) /\ Chain(s) = On(Q[s]) /\ Dir[s] = Entry(s)
  BY <1>1, EntryIs DEF IInv
<1>3. ~Busy(FCB, s)
  BY DEF Changing, Busy, Open
<1> QED
  BY <1>1, <1>2, <1>3 DEF Sound, Saved

-----------------------------------------------------------------------------
(* The steps.  First those that change one table. *)

LEMMA InitIInv == Init => IInv
<1> SUFFICES ASSUME Init PROVE IInv
  OBVIOUS
<1>1. 1 \in Slot /\ 0 \in FCBs /\ "none" \notin Name /\ "free" \notin Job /\ 0 \in Val
  BY FileSysAssumption DEF Slot, FCBs
<1>2. NoFile \in EntRec /\ FreeFCB \in FCBRec /\ FreeFUB \in FUBRec
  BY <1>1 DEF NoFile, FreeFCB, FreeFUB, EntRec, FCBRec, FUBRec
<1>3. Tables(Dir, fat, disk, data, FCB, FUB)
  BY <1>1, <1>2 DEF Init, Tables, Fats
<1>4. Files(Dir) = {} /\ \A i \in FCBs : FCB[i].nUsers = 0
  BY DEF Init, Files, NoFile, FreeFCB
<1>5. \A i \in FCBs : ~(FCB[i].nUsers > 0)
  BY <1>4
<1>6. Opened(Dir, FCB)
  BY <1>5 DEF Opened
<1>7. \A h \in Handle : FUB[h].Job = "free"
  BY DEF Init, FreeFUB
<1>8. Counted(FCB, FUB)
  <2>1. \A i \in FCBs : Users(FUB, i) = {}
    BY <1>7 DEF Users
  <2> QED
    BY <1>4, <2>1, FS_EmptySet DEF Counted
<1> DEFINE Q == [s \in Slot |-> << >>]
<1>9. Q \in [Slot -> Seq(Clstr)]
  BY EmptySeq
<1>10. \A c \in Clstr : fat[c] = 0
  BY DEF Init
<1> HIDE DEF Q
<1>11. Sound(Dir, fat, disk, FCB, FUB, Q)
  BY <1>4, <1>5, <1>7, <1>10 DEF Sound, Chains, Long, Helpers, Saved
<1> QED
  BY <1>3, <1>6, <1>8, <1>9, <1>11 DEF IInv

\* A call that fails.
LEMMA FailedIInv == ASSUME IInv, NEW erc, Failed(erc) PROVE IInv'
BY DEF Failed, IInv

\* The FAT is written, in part or as a whole.
LEMMA DiskIInv ==
    ASSUME IInv, UNCHANGED <<Dir, fat, data, FCB, FUB>>, disk' \in Fats,
           \A c \in Clstr : disk'[c] = disk[c] \/ disk'[c] = fat[c]
    PROVE  IInv'
<1>1. PICK Q \in [Slot -> Seq(Clstr)] : Sound(Dir, fat, disk, FCB, FUB, Q)
  BY DEF IInv
<1>2. \A s \in Files(Dir) : On(Q[s]) \subseteq Clstr
  BY <1>1, OnNotFree DEF Sound, Chains
<1>3. Saved(Dir, fat, disk', FCB, Q)
  BY <1>1, <1>2 DEF Sound, Saved
<1>4. Sound(Dir, fat, disk', FCB, FUB, Q)
  BY <1>1, <1>3 DEF Sound
<1>5. Tables(Dir, fat, disk', data, FCB, FUB)
  BY DEF IInv, Tables
<1> QED
  BY <1>1, <1>4, <1>5 DEF IInv

LEMMA UpdateFATIInv ==
    ASSUME IInv, NEW s \in 0 .. LastClstr \div PerSect, UpdateFAT(s)
    PROVE  IInv'
<1>1. disk \in Fats /\ fat \in Fats
  BY DEF IInv, Tables
<1>2. disk' \in Fats /\ \A c \in Clstr : disk'[c] = disk[c] \/ disk'[c] = fat[c]
  BY <1>1 DEF UpdateFAT, Fats
<1> QED
  BY <1>2, DiskIInv DEF UpdateFAT

\* The chain that a handle is in.
LEMMA HandleChain ==
    ASSUME IInv, NEW h \in Handle, Used(h)
    PROVE  \E q : /\ Line(fat, FileOf(h).ent.StartClstr, q) /\ InFile(FUB[h], q)
                  /\ nClstrs(FileOf(h).ent.FileSize) <= Len(q)
<1>1. PICK Q \in [Slot -> Seq(Clstr)] : Sound(Dir, fat, disk, FCB, FUB, Q)
  BY DEF IInv
<1> DEFINE i == FUB[h].iFCB
<1>2. i \in FCBs /\ FCB[i].nUsers > 0
  BY UsedCounts DEF FUBRec, IInv, Tables, Used
<1>3. FCB[i].slot \in Files(Dir) /\ FCB[i].ent.StartClstr = Dir[FCB[i].slot].StartClstr
  BY <1>2 DEF IInv, Opened
<1>4. /\ Line(fat, FCB[i].ent.StartClstr, Q[FCB[i].slot])
      /\ InFile(FUB[h], Q[FCB[i].slot])
      /\ nClstrs(FCB[i].ent.FileSize) <= Len(Q[FCB[i].slot])
  BY <1>1, <1>2, <1>3 DEF Sound, Chains, Helpers, Long, Used
<1> QED
  BY <1>4 DEF FileOf

\* A handle gets another cluster of its file, or blocks other contents.
LEMMA MovedIInv ==
    ASSUME IInv, UNCHANGED <<Dir, fat, disk, FCB>>,
           data' \in [Clstr -> [0 .. SecPerClstr - 1 -> Val]],
           NEW h \in Handle, Used(h), NEW G \in FUBRec, FUB' = [FUB EXCEPT ![h] = G],
           G.Job = FUB[h].Job, G.iFCB = FUB[h].iFCB,
           \A q : Line(fat, FileOf(h).ent.StartClstr, q) /\ InFile(FUB[h], q)
                    /\ nClstrs(FileOf(h).ent.FileSize) <= Len(q) => InFile(G, q)
    PROVE  IInv'
<1>1. PICK Q \in [Slot -> Seq(Clstr)] : Sound(Dir, fat, disk, FCB, FUB, Q)
  BY DEF IInv
<1>2. FUB \in [Handle -> FUBRec] /\ FUB' \in [Handle -> FUBRec]
  BY DEF IInv, Tables
<1>3. /\ \A g \in Handle : FUB'[g].Job = FUB[g].Job /\ FUB'[g].iFCB = FUB[g].iFCB
      /\ FUB'[h] = G /\ \A g \in Handle \ {h} : FUB'[g] = FUB[g]
  BY <1>2
<1>4. \A i : Users(FUB', i) = Users(FUB, i)
  BY <1>3 DEF Users
<1>5. Counted(FCB, FUB')
  BY <1>4 DEF IInv, Counted
<1> DEFINE i == FUB[h].iFCB
<1>6. InFile(G, Q[FCB[i].slot])
  <2>1. i \in FCBs /\ FCB[i].nUsers > 0
    BY <1>2, UsedCounts DEF FUBRec, IInv, Used
  <2>2. FCB[i].slot \in Files(Dir) /\ FCB[i].ent.StartClstr = Dir[FCB[i].slot].StartClstr
    BY <2>1 DEF IInv, Opened
  <2>3. /\ Line(fat, FCB[i].ent.StartClstr, Q[FCB[i].slot])
        /\ InFile(FUB[h], Q[FCB[i].slot])
        /\ nClstrs(FCB[i].ent.FileSize) <= Len(Q[FCB[i].slot])
    BY <1>1, <2>1, <2>2 DEF Sound, Chains, Helpers, Long, Used
  <2> QED
    BY <2>3 DEF FileOf
<1>7. Helpers(FCB, FUB', Q)
  BY <1>1, <1>3, <1>6 DEF Sound, Helpers
<1>8. Sound(Dir, fat, disk, FCB, FUB', Q)
  BY <1>1, <1>7 DEF Sound
<1>9. Tables(Dir, fat, disk, data', FCB, FUB')
  BY <1>2 DEF IInv, Tables
<1> QED
  BY <1>1, <1>5, <1>8, <1>9 DEF IInv

\* Blocks of a file are in clusters of its chain.
LEMMA ClstrsOfBlocks ==
    ASSUME NEW b \in Nat, NEW n \in Nat, b < n
    PROVE  b \div SecPerClstr < nClstrs(n) /\ b \div SecPerClstr \in Nat
<1> DEFINE S == SecPerClstr
<1>1. S \in Nat \ {0}
  BY FileSysAssumption
<1> HIDE DEF S
<1>2. (b + S) \div S <= (n + S - 1) \div S /\ n # 0 /\ b + S \in Nat /\ n + S - 1 \in Nat
  BY <1>1, DivMonotone
<1>3. (b + S) \div S = b \div S + 1 /\ b \div S \in Nat
  <2>1. (S + b) \div S = S \div S + ((S % S) + b) \div S
    BY <1>1, DivAdd
  <2>2. S \div S = 1 /\ S % S = 0
    BY <1>1
  <2>3. S + b = b + S /\ 0 + b = b
    BY <1>1
  <2> QED
    BY <1>1, <2>1, <2>2, <2>3, Division
<1>4. nClstrs(n) = (n + S - 1) \div S
  BY <1>2 DEF nClstrs, S
<1>5. (n + S - 1) \div S \in Nat
  BY <1>1, <1>2, Division
<1> QED
  BY <1>2, <1>3, <1>4, <1>5 DEF S

LEMMA nClstrsType ==
    ASSUME NEW n \in Nat
    PROVE  nClstrs(n) \in Nat \ {0}
<1>1. CASE n = 0
  BY <1>1 DEF nClstrs
<1>2. CASE n # 0
  <2>1. SecPerClstr \in Nat \ {0} /\ n + SecPerClstr - 1 \in Nat
    BY FileSysAssumption, <1>2
  <2>2. (n + SecPerClstr - 1) \div SecPerClstr \in Nat
    BY <2>1, Division
  <2>3. 0 \div SecPerClstr < nClstrs(n) /\ 0 \div SecPerClstr \in Nat
    BY <1>2, ClstrsOfBlocks
  <2> QED
    BY <1>2, <2>2, <2>3 DEF nClstrs
<1> QED
  BY <1>1, <1>2

LEMMA nClstrsMonotone ==
    ASSUME NEW n \in Nat, NEW m \in Nat, n <= m
    PROVE  nClstrs(n) <= nClstrs(m)
<1>1. CASE n = 0
  BY <1>1, nClstrsType DEF nClstrs
<1>2. CASE n # 0
  <2>1. SecPerClstr \in Nat \ {0} /\ m # 0
    BY FileSysAssumption, <1>2
  <2>2. n + SecPerClstr - 1 \in Nat /\ m + SecPerClstr - 1 \in Nat
        /\ n + SecPerClstr - 1 <= m + SecPerClstr - 1
    BY <2>1, <1>2
  <2>3. (n + SecPerClstr - 1) \div SecPerClstr <= (m + SecPerClstr - 1) \div SecPerClstr
    BY <2>1, <2>2, DivMonotone
  <2> QED
    BY <1>2, <2>1, <2>3 DEF nClstrs
<1> QED
  BY <1>1, <1>2

-----------------------------------------------------------------------------
(* Reading and writing. *)

\* GetAbsoluteClstr finds the cluster, whatever the handle has.
LEMMA AbsoluteIs ==
    ASSUME NEW h \in Handle, FUB[h] \in FUBRec, NEW q, Line(fat, FileOf(h).ent.StartClstr, q),
           InFile(FUB[h], q), NEW w \in Nat, w < Len(q)
    PROVE  GetAbsoluteClstr(h, w) = [erc |-> "ok", Clstr |-> q[w + 1]]
<1> DEFINE rel == FUB[h].relClstr
           back == w < rel
           n == IF back THEN w ELSE w - rel
           i == IF back THEN 1 ELSE rel + 1
           start == IF back THEN FCB[FUB[h].iFCB].ent.StartClstr ELSE FUB[h].Clstr
<1>1. rel \in Nat /\ rel < Len(q) /\ FUB[h].Clstr = q[rel + 1]
  BY DEF InFile, FUBRec
<1>2. Len(q) \in Nat /\ FCB[FUB[h].iFCB].ent.StartClstr = q[1]
  BY DEF Line, FileOf
<1>3. n \in Nat /\ i \in 1 .. Len(q) /\ start = q[i] /\ i + n = w + 1 /\ i + n <= Len(q)
  BY <1>1, <1>2
<1>4. GetAbsoluteClstr(h, w) =
        IF n > 0 /\ Follow(fat, start, n - 1) \notin Clstr
        THEN [erc |-> "ErcBrokenFile", Clstr |-> 0]
        ELSE [erc |-> "ok", Clstr |-> Follow(fat, start, n)]
  BY DEF GetAbsoluteClstr
<1> HIDE DEF n, i, start
<1>5. \A m \in Nat : Follow(fat, q[i], m) = IF i + m <= Len(q) THEN q[i + m] ELSE EOF
  BY <1>3, LineFollow
<1>6. Follow(fat, start, n) = q[w + 1]
  BY <1>3, <1>5
<1>7. ASSUME n > 0 PROVE Follow(fat, start, n - 1) \in Clstr
  <2>1. PICK m \in Nat : m = n - 1 /\ i + m <= Len(q) /\ i + m \in 1 .. Len(q)
    BY <1>2, <1>3, <1>7
  <2>2. Follow(fat, q[i], m) = q[i + m]
    BY <1>5, <2>1
  <2>3. q[i + m] \in Clstr
    BY <2>1 DEF Line
  <2> QED
    BY <1>3, <2>1, <2>2, <2>3
<1> QED
  BY <1>4, <1>6, <1>7

\* The i-th block from block b on, of a file whose chain is long enough.
LEMMA PlaceIs ==
    ASSUME NEW c, NEW q, Line(fat, c, q),
           NEW b \in Nat, NEW i \in Nat, NEW n \in Nat, b + i < n, nClstrs(n) <= Len(q)
    PROVE  LET p == (b + i) \div SecPerClstr
               w == b \div SecPerClstr
               step == ((b % SecPerClstr) + i) \div SecPerClstr
           IN  /\ p \in Nat /\ p < Len(q) /\ w \in Nat /\ w < Len(q)
               /\ Follow(fat, q[w + 1], step) = q[p + 1] /\ q[p + 1] \in Clstr
<1> DEFINE p == (b + i) \div SecPerClstr
           w == b \div SecPerClstr
           step == ((b % SecPerClstr) + i) \div SecPerClstr
<1>1. SecPerClstr \in Nat \ {0} /\ Len(q) \in Nat /\ nClstrs(n) \in Nat
  BY nClstrsType, FileSysAssumption DEF Line
<1>2. p < nClstrs(n) /\ p \in Nat /\ w < nClstrs(n) /\ w \in Nat
  BY ClstrsOfBlocks
<1>3. p = w + step
  BY <1>1, DivAdd
<1>4. step \in Nat
  <2>1. b % SecPerClstr \in Nat
    BY <1>1, Division
  <2>2. (b % SecPerClstr) + i \in Nat
    BY <2>1
  <2> QED
    BY <1>1, <2>2, Division
<1> HIDE DEF p, w, step
<1>5. w + 1 \in 1 .. Len(q) /\ (w + 1) + step = p + 1 /\ p + 1 \in 1 .. Len(q) /\ p + 1 <= Len(q)
      /\ p < Len(q) /\ w < Len(q)
  BY <1>1, <1>2, <1>3, <1>4
<1>6. \A m \in Nat : Follow(fat, q[w + 1], m) =
                        IF (w + 1) + m <= Len(q) THEN q[(w + 1) + m] ELSE EOF
  BY <1>5, LineFollow
<1>7. Follow(fat, q[w + 1], step) = q[p + 1]
  BY <1>4, <1>5, <1>6
<1>8. q[p + 1] \in Clstr
  BY <1>5 DEF Line
<1> QED
  BY <1>2, <1>5, <1>7, <1>8 DEF p, w, step

\* All blocks inside the file are reached, and the handle keeps the cluster of the last.
LEMMA MoveIs ==
    ASSUME NEW h \in Handle, FUB[h] \in FUBRec, NEW q, Line(fat, FileOf(h).ent.StartClstr, q),
           NEW b \in Nat, NEW k \in Nat \ {0}, NEW n \in Nat, b + k <= n, nClstrs(n) <= Len(q),
           NEW c, c = q[(b \div SecPerClstr) + 1]
    PROVE  /\ Reach(c, b, k) = k
           /\ Moved(h, c, b, k - 1) \in FUBRec /\ InFile(Moved(h, c, b, k - 1), q)
           /\ Moved(h, c, b, k - 1).Job = FUB[h].Job /\ Moved(h, c, b, k - 1).iFCB = FUB[h].iFCB
<1>1. \A i \in 0 .. k - 1 : i \in Nat /\ b + i < n
  OBVIOUS
<1>2. \A i \in 0 .. k - 1 : Follow(fat, c, ((b % SecPerClstr) + i) \div SecPerClstr) \in Clstr
  <2> SUFFICES ASSUME NEW i \in 0 .. k - 1
               PROVE  Follow(fat, c, ((b % SecPerClstr) + i) \div SecPerClstr) \in Clstr
    OBVIOUS
  <2>1. i \in Nat /\ b + i < n
    BY <1>1
  <2>2. /\ Follow(fat, q[(b \div SecPerClstr) + 1], ((b % SecPerClstr) + i) \div SecPerClstr)
              = q[((b + i) \div SecPerClstr) + 1]
        /\ q[((b + i) \div SecPerClstr) + 1] \in Clstr
    BY <2>1, PlaceIs
  <2> QED
    BY <2>2
<1>3. Reach(c, b, k) = Cardinality(0 .. k - 1)
  <2>1. {i \in 0 .. k - 1 :
            LET step == ((b % SecPerClstr) + i) \div SecPerClstr
            IN  step = 0 \/ Follow(fat, c, step) \in Clstr} = 0 .. k - 1
    BY <1>2
  <2> QED
    BY <2>1 DEF Reach
<1>4. Cardinality(0 .. k - 1) = k
  <2>1. 0 \in Int /\ k - 1 \in Int /\ ~(0 > k - 1) /\ k - 1 - 0 + 1 = k
    OBVIOUS
  <2> QED
    BY <2>1, FS_Interval
<1>5. PICK i \in Nat : i = k - 1 /\ b + i < n
  BY <1>1
<1> DEFINE p == (b + i) \div SecPerClstr
<1>6. /\ p \in Nat /\ p < Len(q) /\ q[p + 1] \in Clstr
      /\ Follow(fat, c, ((b % SecPerClstr) + i) \div SecPerClstr) = q[p + 1]
  BY <1>5, PlaceIs
<1>7. Moved(h, c, b, i) = [FUB[h] EXCEPT !.Clstr = q[p + 1], !.relClstr = p]
  BY <1>6 DEF Moved, Place
<1> HIDE DEF p
<1>8. /\ Moved(h, c, b, i) \in FUBRec /\ InFile(Moved(h, c, b, i), q)
      /\ Moved(h, c, b, i).Job = FUB[h].Job /\ Moved(h, c, b, i).iFCB = FUB[h].iFCB
  BY <1>6, <1>7 DEF FUBRec, InFile
<1> QED
  BY <1>3, <1>4, <1>5, <1>8

LEMMA SizeType ==
    ASSUME Tables(Dir, fat, disk, data, FCB, FUB), NEW h \in Handle
    PROVE  FileOf(h).ent.FileSize \in Nat /\ FileOf(h).ent.FileSize \in Sizes \cup {0}
<1>1. FUB[h].iFCB \in FCBs
  BY DEF Tables, FUBRec
<1>2. FCB[FUB[h].iFCB] \in FCBRec
  BY <1>1 DEF Tables
<1>3. FileOf(h).ent.FileSize \in Sizes \cup {0}
  BY <1>2 DEF FCBRec, EntRec, FileOf
<1>4. Sizes \cup {0} \subseteq Nat
  BY FileSysAssumption
<1> QED
  BY <1>3, <1>4

\* A transfer inside the file leaves the handle in it.
LEMMA TransferIs ==
    ASSUME NEW h \in Handle, FUB[h] \in FUBRec, NEW n \in Nat,
           NEW b \in Nat, NEW k \in Nat \ {0}, b + k <= n
    PROVE  LET abs == GetAbsoluteClstr(h, b \div SecPerClstr)
               G == Moved(h, abs.Clstr, b, Reach(abs.Clstr, b, k) - 1)
           IN  \A q : Line(fat, FileOf(h).ent.StartClstr, q) /\ InFile(FUB[h], q)
                        /\ nClstrs(n) <= Len(q)
                    => InFile(G, q) /\ G \in FUBRec /\ G.Job = FUB[h].Job /\ G.iFCB = FUB[h].iFCB
<1> DEFINE abs == GetAbsoluteClstr(h, b \div SecPerClstr)
           G == Moved(h, abs.Clstr, b, Reach(abs.Clstr, b, k) - 1)
           w == b \div SecPerClstr
<1> SUFFICES ASSUME NEW q, Line(fat, FileOf(h).ent.StartClstr, q), InFile(FUB[h], q),
                    nClstrs(n) <= Len(q)
             PROVE  InFile(G, q) /\ G \in FUBRec /\ G.Job = FUB[h].Job /\ G.iFCB = FUB[h].iFCB
  OBVIOUS
<1>1. 0 \in Nat /\ b + 0 < n
  OBVIOUS
<1>2. w \in Nat /\ w < Len(q)
  BY <1>1, PlaceIs
<1>3. abs = [erc |-> "ok", Clstr |-> q[w + 1]]
  BY <1>2, AbsoluteIs
<1>4. abs.Clstr = q[w + 1]
  BY <1>3
<1> HIDE DEF abs
<1>5. /\ Reach(abs.Clstr, b, k) = k
      /\ Moved(h, abs.Clstr, b, k - 1) \in FUBRec /\ InFile(Moved(h, abs.Clstr, b, k - 1), q)
      /\ Moved(h, abs.Clstr, b, k - 1).Job = FUB[h].Job
      /\ Moved(h, abs.Clstr, b, k - 1).iFCB = FUB[h].iFCB
  BY <1>4, MoveIs
<1> QED
  BY <1>5

\* ReadBlock inside the file.
LEMMA ReadBlockIInv ==
    ASSUME IInv, NEW h \in Handle, NEW b \in Nat, NEW k \in Nat \ {0}, ReadBlock(h, b, k),
           Used(h) => b + k <= FileOf(h).ent.FileSize
    PROVE  IInv'
<1>1. CASE ~Used(h) \/ GetAbsoluteClstr(h, b \div SecPerClstr).erc # "ok"
  BY <1>1, FailedIInv DEF ReadBlock
<1>2. CASE Used(h) /\ GetAbsoluteClstr(h, b \div SecPerClstr).erc = "ok"
  <2> DEFINE abs == GetAbsoluteClstr(h, b \div SecPerClstr)
             G == Moved(h, abs.Clstr, b, Reach(abs.Clstr, b, k) - 1)
             n == FileOf(h).ent.FileSize
  <2>1. FUB' = [FUB EXCEPT ![h] = G] /\ UNCHANGED <<Dir, fat, disk, data, FCB>>
    BY <1>2 DEF ReadBlock
  <2>2. FUB[h] \in FUBRec /\ n \in Nat /\ b + k <= n
    BY <1>2, SizeType DEF IInv, Tables
  <2>3. \A q : Line(fat, FileOf(h).ent.StartClstr, q) /\ InFile(FUB[h], q) /\ nClstrs(n) <= Len(q)
                => InFile(G, q) /\ G \in FUBRec /\ G.Job = FUB[h].Job /\ G.iFCB = FUB[h].iFCB
    BY <2>2, TransferIs
  <2> HIDE DEF G
  <2>4. \E q : Line(fat, FileOf(h).ent.StartClstr, q) /\ InFile(FUB[h], q) /\ nClstrs(n) <= Len(q)
    BY <1>2, HandleChain
  <2>5. G \in FUBRec /\ G.Job = FUB[h].Job /\ G.iFCB = FUB[h].iFCB
    BY <2>3, <2>4
  <2>6. data' \in [Clstr -> [0 .. SecPerClstr - 1 -> Val]]
    BY <2>1 DEF IInv, Tables
  <2> QED
    BY <1>2, <2>1, <2>3, <2>5, <2>6, MovedIInv
<1> QED
  BY <1>1, <1>2

LEMMA WriteBlockIInv ==
    ASSUME IInv, NEW h \in Handle, NEW b \in Nat, NEW k \in Nat \ {0}, NEW v \in Val,
           WriteBlock(h, b, k, v)
    PROVE  IInv'
<1>1. CASE \/ ~Used(h) \/ FileOf(h).Mode = 0 \/ b + k > FileOf(h).ent.FileSize
           \/ GetAbsoluteClstr(h, b \div SecPerClstr).erc # "ok"
  BY <1>1, FailedIInv DEF WriteBlock
<1>2. CASE /\ Used(h) /\ FileOf(h).Mode # 0 /\ ~(b + k > FileOf(h).ent.FileSize)
           /\ GetAbsoluteClstr(h, b \div SecPerClstr).erc = "ok"
  <2> DEFINE abs == GetAbsoluteClstr(h, b \div SecPerClstr)
             G == Moved(h, abs.Clstr, b, Reach(abs.Clstr, b, k) - 1)
             n == FileOf(h).ent.FileSize
             at == {Place(abs.Clstr, b, i) : i \in 0 .. Reach(abs.Clstr, b, k) - 1}
  <2>1. /\ FUB' = [FUB EXCEPT ![h] = G] /\ UNCHANGED <<Dir, fat, disk, FCB>>
        /\ data' = [c \in Clstr |-> [i \in 0 .. SecPerClstr - 1 |->
                            IF [Clstr |-> c, blk |-> i] \in at THEN v ELSE data[c][i]]]
    BY <1>2 DEF WriteBlock
  <2> HIDE DEF at
  <2>2. data' \in [Clstr -> [0 .. SecPerClstr - 1 -> Val]]
    BY <2>1 DEF IInv, Tables
  <2>3. FUB[h] \in FUBRec /\ n \in Nat
    BY SizeType DEF IInv, Tables
  <2>4. b + k <= n
    BY <1>2, <2>3
  <2>5. \A q : Line(fat, FileOf(h).ent.StartClstr, q) /\ InFile(FUB[h], q) /\ nClstrs(n) <= Len(q)
                => InFile(G, q) /\ G \in FUBRec /\ G.Job = FUB[h].Job /\ G.iFCB = FUB[h].iFCB
    BY <2>3, <2>4, TransferIs
  <2> HIDE DEF G
  <2>6. \E q : Line(fat, FileOf(h).ent.StartClstr, q) /\ InFile(FUB[h], q) /\ nClstrs(n) <= Len(q)
    BY <1>2, HandleChain
  <2>7. G \in FUBRec /\ G.Job = FUB[h].Job /\ G.iFCB = FUB[h].iFCB
    BY <2>5, <2>6
  <2> QED
    BY <1>2, <2>1, <2>2, <2>5, <2>7, MovedIInv
<1> QED
  BY <1>1, <1>2

-----------------------------------------------------------------------------
(* SetFileSize. *)

\* The only user of a file that is open to be modified.
LEMMA ModifierIs ==
    ASSUME IInv, NEW h \in Handle, Used(h), FileOf(h).Mode # 0
    PROVE  /\ FUB[h].iFCB \in FCBs /\ FCB[FUB[h].iFCB].nUsers = 1 /\ FCB[FUB[h].iFCB].Mode = 1
           /\ FCB[FUB[h].iFCB].slot \in Files(Dir) /\ Users(FUB, FUB[h].iFCB) = {h}
           /\ FCB[FUB[h].iFCB].ent.StartClstr = Dir[FCB[FUB[h].iFCB].slot].StartClstr
<1> DEFINE i == FUB[h].iFCB
<1>1. FUB \in [Handle -> FUBRec] /\ FCB \in [FCBs -> FCBRec] /\ Counted(FCB, FUB)
  BY DEF IInv, Tables
<1>2. i \in FCBs /\ FUB[h].Job # "free" /\ FCB[i] \in FCBRec
  BY <1>1 DEF FUBRec, Used
<1>3. FCB[i].nUsers > 0
  BY <1>1, <1>2, UsedCounts
<1>4. FCB[i].Mode = 1
  BY <1>2 DEF FCBRec, FileOf
<1>5. /\ FCB[i].nUsers = 1 /\ FCB[i].slot \in Files(Dir)
      /\ FCB[i].ent.StartClstr = Dir[FCB[i].slot].StartClstr
  BY <1>2, <1>3, <1>4 DEF IInv, Opened
<1>6. Users(FUB, i) = {h}
  BY <1>1, <1>2, <1>5, OnlyUser
<1> QED
  BY <1>2, <1>4, <1>5, <1>6

\* A chain q that has the cluster of a handle H, and is long enough for m blocks, becomes
\* one that has the cluster of G and is long enough for n blocks.
Resizes(f, c, H, m, g, G, n) ==
    \A q : Line(f, c, q) /\ InFile(H, q) /\ nClstrs(m) <= Len(q)
        => \E r : Line(g, c, r) /\ Reshaped(f, q, g, r) /\ InFile(G, r) /\ nClstrs(n) <= Len(r)

\* The size of the file of a handle becomes n, and the handle G.
Resized(h, G, n) ==
    /\ FUB' = [FUB EXCEPT ![h] = G]
    /\ FCB' = [FCB EXCEPT ![FUB[h].iFCB].ent.FileSize = n]
    /\ UNCHANGED <<Dir, disk, data>>

\* The file of the handle h gets the size n, and h becomes G: the chain of the file fits.
Resizing(h, G, n) ==
    /\ IInv /\ h \in Handle /\ Used(h) /\ FileOf(h).Mode # 0
    /\ G \in FUBRec /\ G.Job = FUB[h].Job /\ G.iFCB = FUB[h].iFCB
    /\ n \in Sizes \cup {0} /\ Resized(h, G, n)
    /\ Resizes(fat, FileOf(h).ent.StartClstr, FUB[h], FileOf(h).ent.FileSize, fat', G, n)

\* The file is s, its FCB i, and r is its chain now: the other files keep theirs.
ResizedTo(h, G, n, i, s, Q, r) ==
    /\ Q \in [Slot -> Seq(Clstr)] /\ Sound(Dir, fat, disk, FCB, FUB, Q)
    /\ i = FUB[h].iFCB /\ s = FCB[i].slot
    /\ i \in FCBs /\ FCB[i].nUsers = 1 /\ FCB[i].nUsers > 0 /\ FCB[i].Mode = 1
    /\ s \in Files(Dir) /\ FCB[i].ent.StartClstr = Dir[s].StartClstr
    /\ Users(FUB, i) = {h} /\ nClstrs(FCB[i].ent.FileSize) <= Len(Q[s])
    /\ Line(fat, Dir[s].StartClstr, Q[s])
    /\ Line(fat', Dir[s].StartClstr, r) /\ Reshaped(fat, Q[s], fat', r)
    /\ InFile(G, r) /\ nClstrs(n) <= Len(r)
    /\ Chains(Dir, fat', [Q EXCEPT ![s] = r]) /\ [Q EXCEPT ![s] = r] \in [Slot -> Seq(Clstr)]
    /\ \A t \in Files(Dir) \ {s} : \A x \in On(Q[t]) : fat'[x] = fat[x]
    /\ FCB' \in [FCBs -> FCBRec]
    /\ \A j \in FCBs \ {i} : FCB'[j] = FCB[j]
    /\ FCB'[i].nUsers = FCB[i].nUsers /\ FCB'[i].slot = s /\ FCB'[i].Mode = FCB[i].Mode
    /\ FCB'[i].ent.Name = FCB[i].ent.Name /\ FCB'[i].ent.StartClstr = FCB[i].ent.StartClstr
    /\ FCB'[i].ent.FileSize = n
    /\ \A g \in Handle : FUB'[g].Job = FUB[g].Job /\ FUB'[g].iFCB = FUB[g].iFCB
    /\ FUB'[h] = G /\ \A g \in Handle \ {h} : FUB'[g] = FUB[g]

LEMMA ResizedIs ==
    ASSUME NEW h, NEW G, NEW n, Resizing(h, G, n)
    PROVE  \E i, s, Q, r : ResizedTo(h, G, n, i, s, Q, r)
<1> USE DEF Resizing
<1>1. PICK Q \in [Slot -> Seq(Clstr)] : Sound(Dir, fat, disk, FCB, FUB, Q)
  BY DEF IInv
<1>2. PICK i, s : i = FUB[h].iFCB /\ s = FCB[i].slot /\ FileOf(h) = FCB[i]
  BY DEF FileOf
<1>3. /\ i \in FCBs /\ FCB[i].nUsers = 1 /\ FCB[i].nUsers > 0 /\ FCB[i].Mode = 1
      /\ s \in Files(Dir) /\ FCB[i].ent.StartClstr = Dir[s].StartClstr
      /\ Users(FUB, i) = {h}
  <2>1. /\ FUB[h].iFCB \in FCBs /\ FCB[FUB[h].iFCB].nUsers = 1 /\ FCB[FUB[h].iFCB].Mode = 1
        /\ FCB[FUB[h].iFCB].slot \in Files(Dir) /\ Users(FUB, FUB[h].iFCB) = {h}
        /\ FCB[FUB[h].iFCB].ent.StartClstr = Dir[FCB[FUB[h].iFCB].slot].StartClstr
    BY ModifierIs
  <2> QED
    BY <1>2, <2>1
<1>4. /\ FUB \in [Handle -> FUBRec] /\ FUB' \in [Handle -> FUBRec]
      /\ FCB \in [FCBs -> FCBRec] /\ fat \in Fats /\ Files(Dir) \subseteq Slot
  BY DEF IInv, Tables, Resized, Files
<1>5. FUB[h].Job # "free"
  BY DEF Used
<1>6. /\ Line(fat, Dir[s].StartClstr, Q[s]) /\ InFile(FUB[h], Q[s])
      /\ nClstrs(FCB[i].ent.FileSize) <= Len(Q[s])
  <2>1. Chains(Dir, fat, Q) /\ Helpers(FCB, FUB, Q) /\ Long(Dir, FCB, Q)
    BY <1>1 DEF Sound
  <2>2. Line(fat, Dir[s].StartClstr, Q[s])
    BY <1>3, <2>1 DEF Chains
  <2>3. InFile(FUB[h], Q[FCB[FUB[h].iFCB].slot])
    BY <1>5, <2>1 DEF Helpers
  <2>4. nClstrs(FCB[i].ent.FileSize) <= Len(Q[FCB[i].slot])
    BY <1>3, <2>1 DEF Long
  <2> QED
    BY <1>2, <2>2, <2>3, <2>4
<1>7. PICK r : /\ Line(fat', Dir[s].StartClstr, r) /\ Reshaped(fat, Q[s], fat', r)
               /\ InFile(G, r) /\ nClstrs(n) <= Len(r)
  BY <1>2, <1>3, <1>6 DEF Resizes
<1> DEFINE R == [Q EXCEPT ![s] = r]
<1>8. /\ Chains(Dir, fat', R) /\ R \in [Slot -> Seq(Clstr)]
      /\ R[s] = r /\ \A t \in Slot \ {s} : R[t] = Q[t]
      /\ \A t \in Files(Dir) \ {s} : \A x \in On(Q[t]) : fat'[x] = fat[x]
  <2>1. Recut(Dir, fat, Q, s, fat', r, R)
    BY <1>1, <1>3, <1>4, <1>7 DEF Sound, Recut
  <2> DEFINE g == fat'
  <2> HIDE DEF g, R
  <2>2. /\ Chains(Dir, g, R) /\ R \in [Slot -> Seq(Clstr)]
        /\ R[s] = r /\ \A t \in Slot \ {s} : R[t] = Q[t]
        /\ \A t \in Files(Dir) \ {s} : \A x \in On(Q[t]) : g[x] = fat[x]
    BY <2>1, ChainsReshaped DEF g
  <2> QED
    BY <2>2 DEF g
<1> HIDE DEF R
<1>10. /\ FCB' \in [FCBs -> FCBRec]
       /\ \A j \in FCBs \ {i} : FCB'[j] = FCB[j]
       /\ FCB'[i].nUsers = FCB[i].nUsers /\ FCB'[i].slot = s /\ FCB'[i].Mode = FCB[i].Mode
       /\ FCB'[i].ent.Name = FCB[i].ent.Name /\ FCB'[i].ent.StartClstr = FCB[i].ent.StartClstr
       /\ FCB'[i].ent.FileSize = n
  <2>1. FCB[i] \in FCBRec /\ FCB[i].ent \in EntRec
    BY <1>3, <1>4 DEF FCBRec
  <2>2. FCB' = [FCB EXCEPT ![i] = [FCB[i] EXCEPT !.ent = [FCB[i].ent EXCEPT !.FileSize = n]]]
    BY <1>2, <1>3, <1>4 DEF Resized
  <2>3. [FCB[i].ent EXCEPT !.FileSize = n] \in EntRec
    BY <2>1 DEF EntRec
  <2>4. [FCB[i] EXCEPT !.ent = [FCB[i].ent EXCEPT !.FileSize = n]] \in FCBRec
    BY <2>1, <2>3 DEF FCBRec
  <2>5. FCB'[i] = [FCB[i] EXCEPT !.ent = [FCB[i].ent EXCEPT !.FileSize = n]]
        /\ \A j \in FCBs \ {i} : FCB'[j] = FCB[j]
    BY <1>3, <1>4, <2>2
  <2>6. FCB' \in [FCBs -> FCBRec]
    BY <1>3, <1>4, <2>2, <2>4
  <2>7. FCB'[i].ent = [FCB[i].ent EXCEPT !.FileSize = n]
        /\ FCB'[i].nUsers = FCB[i].nUsers /\ FCB'[i].slot = FCB[i].slot
        /\ FCB'[i].Mode = FCB[i].Mode
    BY <2>1, <2>5 DEF FCBRec
  <2>8. /\ FCB'[i].ent.Name = FCB[i].ent.Name
        /\ FCB'[i].ent.StartClstr = FCB[i].ent.StartClstr
        /\ FCB'[i].ent.FileSize = n
    BY <2>1, <2>7 DEF EntRec
  <2> QED
    BY <1>2, <2>5, <2>6, <2>7, <2>8
<1>11. /\ \A g \in Handle : FUB'[g].Job = FUB[g].Job /\ FUB'[g].iFCB = FUB[g].iFCB
       /\ FUB'[h] = G /\ \A g \in Handle \ {h} : FUB'[g] = FUB[g]
  BY <1>4 DEF Resized
<1> QED
  <2>1. ResizedTo(h, G, n, i, s, Q, r)
    BY <1>1, <1>2, <1>3, <1>6, <1>7, <1>8, <1>10, <1>11 DEF ResizedTo, R
  <2> QED
    BY <2>1

\* The FAT, the sizes and the handle of a file that is open to be modified, after its
\* chain was changed.
LEMMA ResizedIInv == ASSUME NEW h, NEW G, NEW n, Resizing(h, G, n) PROVE IInv'
<1>1. PICK i, s, Q, r : ResizedTo(h, G, n, i, s, Q, r)
  BY ResizedIs
<1>2. i = FUB[h].iFCB /\ s = FCB[i].slot /\ Sound(Dir, fat, disk, FCB, FUB, Q)
  BY <1>1 DEF ResizedTo
<1>3. /\ i \in FCBs /\ FCB[i].nUsers = 1 /\ FCB[i].nUsers > 0 /\ FCB[i].Mode = 1
      /\ s \in Files(Dir) /\ FCB[i].ent.StartClstr = Dir[s].StartClstr
      /\ Users(FUB, i) = {h}
  BY <1>1 DEF ResizedTo
<1>4. /\ FUB \in [Handle -> FUBRec] /\ FUB' \in [Handle -> FUBRec] /\ IInv
      /\ FCB \in [FCBs -> FCBRec] /\ Files(Dir) \subseteq Slot /\ Resized(h, G, n)
      /\ h \in Handle /\ G.iFCB = FUB[h].iFCB
  BY DEF IInv, Tables, Resized, Files, Resizing
<1>5. Q \in [Slot -> Seq(Clstr)] /\ Reshaped(fat, Q[s], fat', r)
  BY <1>1 DEF ResizedTo
<1>7. InFile(G, r) /\ nClstrs(n) <= Len(r)
  BY <1>1 DEF ResizedTo
<1> DEFINE R == [Q EXCEPT ![s] = r]
<1>8. /\ Chains(Dir, fat', R) /\ R \in [Slot -> Seq(Clstr)]
      /\ \A t \in Files(Dir) \ {s} : \A x \in On(Q[t]) : fat'[x] = fat[x]
  BY <1>1 DEF ResizedTo
<1>9. R[s] = r /\ \A t \in Slot \ {s} : R[t] = Q[t]
  BY <1>3, <1>4, <1>5
<1> HIDE DEF R
<1>10. /\ FCB' \in [FCBs -> FCBRec]
       /\ \A j \in FCBs \ {i} : FCB'[j] = FCB[j]
       /\ FCB'[i].nUsers = FCB[i].nUsers /\ FCB'[i].slot = s /\ FCB'[i].Mode = FCB[i].Mode
       /\ FCB'[i].ent.Name = FCB[i].ent.Name /\ FCB'[i].ent.StartClstr = FCB[i].ent.StartClstr
       /\ FCB'[i].ent.FileSize = n
  BY <1>1 DEF ResizedTo
<1>11. /\ \A g \in Handle : FUB'[g].Job = FUB[g].Job /\ FUB'[g].iFCB = FUB[g].iFCB
       /\ FUB'[h] = G /\ \A g \in Handle \ {h} : FUB'[g] = FUB[g]
  BY <1>1 DEF ResizedTo
<1>12. Tables(Dir, fat', disk, data, FCB', FUB')
  BY <1>4, <1>5, <1>10 DEF IInv, Tables, Reshaped
<1>13. Opened(Dir, FCB')
  <2>1. Opened(Dir, FCB)
    BY <1>4 DEF IInv
  <2>2. ASSUME NEW j \in FCBs, FCB'[j].nUsers > 0
        PROVE  /\ FCB[j].nUsers > 0 /\ FCB'[j].nUsers = FCB[j].nUsers
               /\ FCB'[j].slot = FCB[j].slot /\ FCB'[j].Mode = FCB[j].Mode
               /\ FCB'[j].ent.Name = FCB[j].ent.Name
               /\ FCB'[j].ent.StartClstr = FCB[j].ent.StartClstr
               /\ FCB'[j].Mode = 0 => FCB'[j].ent = FCB[j].ent
    <3>1. CASE j = i
      BY <1>2, <1>3, <1>10, <2>2, <3>1
    <3>2. CASE j # i
      BY <1>10, <2>2, <3>2
    <3> QED
      BY <3>1, <3>2
  <2> QED
    BY <2>1, <2>2 DEF Opened
<1>14. Counted(FCB', FUB')
  <2>1. \A j : Users(FUB', j) = Users(FUB, j)
    BY <1>11 DEF Users
  <2>2. \A j \in FCBs : FCB'[j].nUsers = FCB[j].nUsers
    BY <1>10
  <2> QED
    BY <1>4, <2>1, <2>2 DEF IInv, Counted
<1>15. \A t : Busy(FCB', t) <=> Busy(FCB, t)
  <2>1. ASSUME NEW j \in FCBs
        PROVE  /\ FCB'[j].nUsers = FCB[j].nUsers /\ FCB'[j].slot = FCB[j].slot
               /\ FCB'[j].Mode = FCB[j].Mode
    <3>1. CASE j = i
      BY <1>2, <1>10, <3>1
    <3>2. CASE j # i
      BY <1>10, <3>2
    <3> QED
      BY <3>1, <3>2
  <2> QED
    BY <2>1 DEF Busy
<1>16. Busy(FCB, s)
  BY <1>2, <1>3 DEF Busy
<1>17. Long(Dir, FCB', R)
  <2>1. ASSUME NEW t \in Files(Dir), ~Busy(FCB', t) PROVE nClstrs(Dir[t].FileSize) <= Len(R[t])
    <3>1. t # s /\ R[t] = Q[t] /\ ~Busy(FCB, t)
      BY <1>4, <1>9, <1>15, <1>16, <2>1
    <3> QED
      BY <1>2, <3>1 DEF Sound, Long
  <2>2. ASSUME NEW j \in FCBs, FCB'[j].nUsers > 0
        PROVE  nClstrs(FCB'[j].ent.FileSize) <= Len(R[FCB'[j].slot])
    <3>1. CASE j = i
      BY <1>7, <1>9, <1>10, <3>1
    <3>2. CASE j # i
      <4>1. FCB'[j] = FCB[j] /\ FCB[j].nUsers > 0
        BY <1>10, <2>2, <3>2
      <4>2. FCB[j].slot \in Files(Dir) /\ FCB[j].slot # s
        BY <1>2, <1>3, <1>4, <3>2, <4>1 DEF IInv, Opened
      <4>3. R[FCB[j].slot] = Q[FCB[j].slot]
        BY <1>4, <1>9, <4>2
      <4> QED
        BY <1>2, <4>1, <4>3 DEF Sound, Long
    <3> QED
      BY <3>1, <3>2
  <2> QED
    BY <2>1, <2>2 DEF Long
<1>18. Helpers(FCB', FUB', R)
  <2> SUFFICES ASSUME NEW g \in Handle, FUB'[g].Job # "free"
               PROVE  InFile(FUB'[g], R[FCB'[FUB'[g].iFCB].slot])
    BY DEF Helpers
  <2>1. CASE g = h
    <3>1. FUB'[g] = G /\ G.iFCB = i
      BY <1>2, <1>11, <2>1
    <3>2. FCB'[FUB'[g].iFCB].slot = s
      BY <1>10, <3>1
    <3> QED
      BY <1>7, <1>9, <3>1, <3>2
  <2>2. CASE g # h
    <3>1. FUB'[g] = FUB[g] /\ FUB[g].Job # "free" /\ FUB[g].iFCB \in FCBs
      BY <1>4, <1>11, <2>2 DEF FUBRec
    <3>2. FUB[g].iFCB # i
      BY <1>3, <2>2, <3>1 DEF Users
    <3>3. FCB[FUB[g].iFCB].nUsers > 0
      BY <1>4, <3>1, UsedCounts DEF IInv
    <3>4. FCB[FUB[g].iFCB].slot \in Files(Dir) /\ FCB[FUB[g].iFCB].slot # s
      BY <1>2, <1>3, <1>4, <3>1, <3>2, <3>3 DEF IInv, Opened
    <3>5. R[FCB[FUB[g].iFCB].slot] = Q[FCB[FUB[g].iFCB].slot]
      BY <1>4, <1>9, <3>4
    <3>6. FCB'[FUB[g].iFCB] = FCB[FUB[g].iFCB]
      BY <1>10, <3>1, <3>2
    <3> QED
      BY <1>2, <3>1, <3>5, <3>6 DEF Sound, Helpers
  <2> QED
    BY <2>1, <2>2
<1>19. Saved(Dir, fat', disk, FCB', R)
  <2> SUFFICES ASSUME NEW t \in Files(Dir), ~Busy(FCB', t), NEW c \in On(R[t])
               PROVE  disk[c] = fat'[c]
    BY DEF Saved
  <2>1. t # s /\ R[t] = Q[t] /\ ~Busy(FCB, t)
    BY <1>4, <1>9, <1>15, <1>16
  <2>2. disk[c] = fat[c]
    BY <1>2, <2>1 DEF Sound, Saved
  <2> QED
    BY <1>8, <2>1, <2>2
<1>20. Sound(Dir, fat', disk, FCB', FUB', R)
  BY <1>8, <1>17, <1>18, <1>19 DEF Sound
<1> QED
  BY <1>4, <1>8, <1>12, <1>13, <1>14, <1>20 DEF IInv, Resized

\* What SetFileSize does to a chain q of old blocks.
LEMMA NewChain ==
    ASSUME NEW f \in Fats, NEW c, NEW q, Line(f, c, q), NEW old \in Nat, NEW n \in Nat,
           nClstrs(old) <= Len(q), nClstrs(n) # nClstrs(old),
           NEW p, p = q[(LastRel(IF n > old THEN old ELSE n)) + 1],
           NEW t, t = IF n > old THEN ExtendBy(f, p, nClstrs(n) - nClstrs(old))
                      ELSE TruncClstrChain(f, p)
    PROVE  \E r : /\ Line(t.fat, c, r) /\ Reshaped(f, q, t.fat, r)
                  /\ nClstrs(IF t.erc = "ok" THEN n ELSE old) <= Len(r)
                  /\ \/ Len(q) <= Len(r) /\ nClstrs(old) < nClstrs(n)
                     \/ Len(r) = nClstrs(n)
<1>1. nClstrs(old) \in Nat \ {0} /\ nClstrs(n) \in Nat \ {0} /\ Len(q) \in Nat
  BY nClstrsType DEF Line
<1>2. CASE n > old
  <2>1. nClstrs(old) < nClstrs(n) /\ nClstrs(n) - nClstrs(old) \in Nat
    BY <1>1, <1>2, nClstrsMonotone
  <2>2. p = q[nClstrs(old)] /\ nClstrs(old) \in 1 .. Len(q)
    BY <1>1, <1>2 DEF LastRel
  <2> DEFINE k == nClstrs(old)
             m == nClstrs(n) - nClstrs(old)
  <2>3. k \in 1 .. Len(q) /\ m \in Nat /\ k + m = nClstrs(n) /\ t = ExtendBy(f, q[k], m)
    BY <1>1, <1>2, <2>1, <2>2
  <2> HIDE DEF k, m
  <2>4. PICK r : /\ Line(t.fat, c, r) /\ Reshaped(f, q, t.fat, r) /\ Len(q) <= Len(r)
                 /\ t.erc = "ok" => k + m <= Len(r)
    BY <2>3, ExtendByEffect
  <2>5. Len(r) \in Nat
    BY <2>4 DEF Line
  <2>6. nClstrs(IF t.erc = "ok" THEN n ELSE old) <= Len(r)
    <3>1. CASE t.erc = "ok"
      BY <1>1, <2>3, <2>4, <2>5, <3>1
    <3>2. CASE t.erc # "ok"
      BY <1>1, <2>4, <2>5, <3>2
    <3> QED
      BY <3>1, <3>2
  <2> QED
    BY <2>1, <2>4, <2>6
<1>3. CASE ~(n > old)
  <2>1. nClstrs(n) <= nClstrs(old) /\ n < old
    BY <1>1, <1>3, nClstrsMonotone
  <2>2. p = q[nClstrs(n)] /\ nClstrs(n) \in 1 .. Len(q)
    BY <1>1, <1>3, <2>1 DEF LastRel
  <2>3. t = TruncClstrChain(f, q[nClstrs(n)])
    BY <1>3, <2>2
  <2>4. t.erc = "ok" /\ \E r : Line(t.fat, c, r) /\ Reshaped(f, q, t.fat, r) /\ Len(r) = nClstrs(n)
    BY <2>2, <2>3, TruncEffect
  <2> QED
    BY <1>1, <2>1, <2>4
<1> QED
  BY <1>2, <1>3

\* SetFileSize makes the file n blocks long, or leaves its size, with an error.
LEMMA SetFileSizeIs ==
    ASSUME IInv, NEW h \in Handle, NEW n \in Sizes, SetFileSize(h, n),
           FUB[h].relClstr < nClstrs(n), Used(h), FileOf(h).Mode # 0
    PROVE  \E G, m : /\ Resizing(h, G, m)
                     /\ \/ m = n /\ ret' = Done(<<"SetFileSize", h, n>>)
                        \/ m = FileOf(h).ent.FileSize /\ ret'.erc # "ok"
<1> DEFINE F == FileOf(h)
           old == F.ent.FileSize
           w == LastRel(IF n > old THEN old ELSE n)
           abs == GetAbsoluteClstr(h, w)
           new == IF abs.erc # "ok" \/ nClstrs(n) = nClstrs(old) THEN [erc |-> abs.erc, fat |-> fat]
                  ELSE IF n > old THEN ExtendBy(fat, abs.Clstr, nClstrs(n) - nClstrs(old))
                  ELSE TruncClstrChain(fat, abs.Clstr)
           erc == IF nClstrs(n) = nClstrs(old) THEN "ok" ELSE new.erc
           m == IF erc = "ok" THEN n ELSE old
           G == IF nClstrs(n) < nClstrs(old) THEN Rewound(h, n) ELSE FUB[h]
<1>1. /\ UNCHANGED <<Dir, disk, data>> /\ fat' = new.fat
      /\ FUB' = IF nClstrs(n) < nClstrs(old) THEN [FUB EXCEPT ![h] = Rewound(h, n)] ELSE FUB
      /\ FCB' = IF erc = "ok" THEN [FCB EXCEPT ![FUB[h].iFCB].ent.FileSize = n] ELSE FCB
  BY DEF SetFileSize
<1>2. /\ FUB \in [Handle -> FUBRec] /\ FCB \in [FCBs -> FCBRec] /\ FUB[h] \in FUBRec
      /\ FUB[h].iFCB \in FCBs /\ FCB[FUB[h].iFCB] \in FCBRec /\ fat \in Fats
      /\ FCB[FUB[h].iFCB].ent \in EntRec
  BY DEF IInv, Tables, FUBRec, FCBRec
<1>3. old \in Nat /\ old \in Sizes \cup {0} /\ n \in Nat /\ n \in Sizes \cup {0}
  BY SizeType, FileSysAssumption DEF IInv
<1>4. nClstrs(old) \in Nat \ {0} /\ nClstrs(n) \in Nat \ {0} /\ FUB[h].relClstr \in Nat
  BY <1>2, <1>3, nClstrsType DEF FUBRec
<1>5. FUB' = [FUB EXCEPT ![h] = G]
  BY <1>1, <1>2
<1>6. FCB' = [FCB EXCEPT ![FUB[h].iFCB].ent.FileSize = m]
  <2>1. FCB = [FCB EXCEPT ![FUB[h].iFCB].ent.FileSize = old]
    BY <1>2 DEF FCBRec, EntRec, FileOf
  <2> QED
    BY <1>1, <2>1
<1>7. \E q : /\ Line(fat, F.ent.StartClstr, q) /\ InFile(FUB[h], q) /\ nClstrs(old) <= Len(q)
  BY HandleChain
<1>8. F.ent.StartClstr \in Clstr
  BY <1>7 DEF Line
<1>9. G \in FUBRec /\ G.Job = FUB[h].Job /\ G.iFCB = FUB[h].iFCB
      /\ G.relClstr = FUB[h].relClstr
      /\ G.Clstr = IF nClstrs(n) < nClstrs(old) /\ 0 >= n THEN F.ent.StartClstr
                   ELSE FUB[h].Clstr
  BY <1>2, <1>8 DEF Rewound, FUBRec
<1>10. ASSUME NEW q, Line(fat, F.ent.StartClstr, q), InFile(FUB[h], q), nClstrs(old) <= Len(q)
       PROVE  \E r : /\ Line(fat', F.ent.StartClstr, r) /\ Reshaped(fat, q, fat', r)
                     /\ InFile(G, r) /\ nClstrs(m) <= Len(r)
  <2>1. /\ Len(q) \in Nat /\ q[1] = F.ent.StartClstr
        /\ FUB[h].relClstr < Len(q) /\ FUB[h].Clstr = q[FUB[h].relClstr + 1]
    BY <1>10 DEF Line, InFile
  <2>2. w \in Nat /\ w < Len(q)
    <3>1. ~(n > old) => nClstrs(n) <= nClstrs(old)
      BY <1>3, nClstrsMonotone
    <3> QED
      BY <1>3, <1>4, <1>10, <2>1, <3>1 DEF LastRel
  <2>3. abs = [erc |-> "ok", Clstr |-> q[w + 1]]
    BY <1>2, <1>10, <2>2, AbsoluteIs
  <2>4. abs.erc = "ok" /\ abs.Clstr = q[w + 1]
    BY <2>3
  <2> HIDE DEF abs
  <2>5. CASE nClstrs(n) = nClstrs(old)
    <3>1. new.fat = fat /\ erc = "ok" /\ G = FUB[h] /\ m = n
      BY <1>4, <2>4, <2>5
    <3>2. fat' = fat
      BY <1>1, <3>1
    <3> QED
      BY <1>2, <1>10, <2>5, <3>1, <3>2, ReshapedNot
  <2>6. CASE nClstrs(n) # nClstrs(old)
    <3> DEFINE p == q[w + 1]
    <3>1. new = IF n > old THEN ExtendBy(fat, abs.Clstr, nClstrs(n) - nClstrs(old))
                ELSE TruncClstrChain(fat, abs.Clstr)
      BY <2>4, <2>6
    <3>2. erc = new.erc
      BY <2>6
    <3> HIDE DEF new, erc
    <3>3. PICK r : /\ Line(new.fat, F.ent.StartClstr, r) /\ Reshaped(fat, q, new.fat, r)
                   /\ nClstrs(IF new.erc = "ok" THEN n ELSE old) <= Len(r)
                   /\ \/ Len(q) <= Len(r) /\ nClstrs(old) < nClstrs(n)
                      \/ Len(r) = nClstrs(n)
      <4> DEFINE o == old
      <4>1. /\ fat \in Fats /\ Line(fat, F.ent.StartClstr, q) /\ o \in Nat /\ n \in Nat
            /\ nClstrs(o) <= Len(q) /\ nClstrs(n) # nClstrs(o)
            /\ p = q[(LastRel(IF n > o THEN o ELSE n)) + 1]
            /\ new = IF n > o THEN ExtendBy(fat, p, nClstrs(n) - nClstrs(o))
                     ELSE TruncClstrChain(fat, p)
        BY <1>2, <1>3, <1>10, <2>4, <2>6, <3>1
      <4> HIDE DEF p, o
      <4>2. \E r : /\ Line(new.fat, F.ent.StartClstr, r) /\ Reshaped(fat, q, new.fat, r)
                   /\ nClstrs(IF new.erc = "ok" THEN n ELSE o) <= Len(r)
                   /\ \/ Len(q) <= Len(r) /\ nClstrs(o) < nClstrs(n)
                      \/ Len(r) = nClstrs(n)
        BY <4>1, NewChain
      <4> QED
        BY <4>2 DEF o
    <3>4. Len(r) \in Nat /\ r[1] = F.ent.StartClstr
      BY <3>3 DEF Line
    <3>5. FUB[h].relClstr < Len(r)
      <4>1. CASE Len(q) <= Len(r)
        BY <1>4, <2>1, <3>4, <4>1
      <4>2. CASE Len(r) = nClstrs(n)
        BY <4>2
      <4> QED
        BY <3>3, <4>1, <4>2
    <3>6. r[FUB[h].relClstr + 1] = q[FUB[h].relClstr + 1]
      <4>1. FUB[h].relClstr + 1 \in 1 .. Len(q) /\ FUB[h].relClstr + 1 <= Len(r)
        BY <1>4, <2>1, <3>4, <3>5
      <4> QED
        BY <3>3, <4>1 DEF Reshaped
    <3>7. InFile(G, r)
      <4>1. CASE nClstrs(n) < nClstrs(old) /\ 0 >= n
        <5>1. n = 0 /\ nClstrs(n) = 1
          BY <1>3, <4>1 DEF nClstrs
        <5>2. G.relClstr = 0 /\ G.Clstr = r[1]
          BY <1>4, <1>9, <3>4, <4>1, <5>1
        <5> QED
          BY <1>9, <3>5, <5>2 DEF InFile
      <4>2. CASE ~(nClstrs(n) < nClstrs(old) /\ 0 >= n)
        BY <1>9, <2>1, <3>5, <3>6, <4>2 DEF InFile
      <4> QED
        BY <4>1, <4>2
    <3> QED
      BY <1>1, <3>2, <3>3, <3>7
  <2> QED
    BY <2>5, <2>6
<1>11. m \in Sizes \cup {0}
  BY <1>3
<1>12. Resizes(fat, F.ent.StartClstr, FUB[h], old, fat', G, m)
  BY <1>10 DEF Resizes
<1>13. \/ m = n /\ ret' = Done(<<"SetFileSize", h, n>>)
       \/ m = old /\ ret'.erc # "ok"
  BY DEF SetFileSize, Returned
<1> HIDE DEF m, G, new, erc, abs, w
<1>14. Resized(h, G, m)
  BY <1>1, <1>5, <1>6 DEF Resized
<1>15. Resizing(h, G, m)
  BY <1>9, <1>11, <1>12, <1>14 DEF Resizing
<1> QED
  BY <1>13, <1>15

LEMMA SetFileSizeIInv ==
    ASSUME IInv, NEW h \in Handle, NEW n \in Sizes, SetFileSize(h, n),
           Used(h) => FUB[h].relClstr < nClstrs(n)
    PROVE  IInv'
<1>1. CASE ~Used(h) \/ FileOf(h).Mode = 0
  BY <1>1, FailedIInv DEF SetFileSize
<1>2. CASE Used(h) /\ FileOf(h).Mode # 0
  BY <1>2, SetFileSizeIs, ResizedIInv
<1> QED
  BY <1>1, <1>2

-----------------------------------------------------------------------------
(* Opening, closing and renaming. *)

\* An open finds the FCB of the file, if it has one: a free one otherwise.
LEMMA OpenIs ==
    ASSUME IInv, NEW n \in Name, NEW mode \in {0, 1}, OpenErc(n, mode) = "ok",
           NEW s, s = Lowest(Entries(n)), NEW i, i = OpenFCB(s),
           NEW J, J = OpenedFCB(s, mode)
    PROVE  /\ s \in Files(Dir) /\ i \in FCBs
           /\ J \in FCBRec /\ J.slot = s /\ J.ent = Dir[s] /\ J.nUsers = FCB[i].nUsers + 1
           /\ J.Mode = 1 => FCB[i].nUsers = 0
           /\ FCB[i].nUsers > 0 => /\ FCB[i].slot = s /\ FCB[i].Mode = 0
                                   /\ J = [FCB[i] EXCEPT !.nUsers = @ + 1]
           /\ \A j \in FCBs : FCB[j].nUsers > 0 /\ FCB[j].slot = s => j = i
           /\ ~Busy(FCB, s)
<1>1. /\ Dir \in [Slot -> EntRec] /\ FCB \in [FCBs -> FCBRec]
      /\ Slot \subseteq Nat /\ FCBs \subseteq Nat
  BY DEF IInv, Tables, Slot, FCBs
<1>2. Entries(n) # {} /\ Entries(n) \subseteq Slot
  BY DEF OpenErc, Entries
<1>3. s \in Slot /\ Dir[s].Name = n
  BY <1>1, <1>2, LowestIn DEF Entries
<1>4. s \in Files(Dir)
  BY <1>3, FileSysAssumption DEF Files
<1>5. Found(s) = {j \in FCBs : FCB[j].nUsers > 0 /\ FCB[j].slot = s}
  <2>1. PICK Q : Chains(Dir, fat, Q)
    BY DEF IInv, Sound
  <2>2. ASSUME NEW j \in Found(s) PROVE FCB[j].slot = s
    <3>1. j \in FCBs /\ FCB[j].nUsers > 0 /\ FCB[j].ent.StartClstr = Dir[s].StartClstr
      BY <2>2 DEF Found
    <3>2. FCB[j].slot \in Files(Dir) /\ FCB[j].ent.StartClstr = Dir[FCB[j].slot].StartClstr
      BY <3>1 DEF IInv, Opened
    <3> QED
      BY <1>4, <2>1, <3>1, <3>2, OneStart
  <2>3. ASSUME NEW j \in FCBs, FCB[j].nUsers > 0, FCB[j].slot = s PROVE j \in Found(s)
    BY <2>3 DEF IInv, Opened, Found
  <2> QED
    BY <2>2, <2>3 DEF Found
<1>6. CASE Found(s) # {}
  <2>1. i \in Found(s)
    BY <1>1, <1>6, LowestIn DEF OpenFCB, Found
  <2>2. i \in FCBs /\ FCB[i].nUsers > 0 /\ FCB[i].slot = s /\ FCB[i] \in FCBRec
    BY <1>1, <1>5, <2>1
  <2>3. FCB[i].Mode # 1
    BY <1>2, <1>6, <2>1 DEF OpenErc, OpenFCB
  <2>4. FCB[i].Mode = 0 /\ FCB[i].nUsers \in Nat
    BY <2>2, <2>3 DEF FCBRec
  <2>5. FCB[i].ent = Dir[s] /\ \A j \in FCBs : FCB[j].nUsers > 0 /\ FCB[j].slot = s => i = j
    BY <2>2, <2>4 DEF IInv, Opened
  <2>6. J = [FCB[i] EXCEPT !.nUsers = @ + 1]
    BY <1>6 DEF OpenedFCB
  <2>7. J \in FCBRec /\ J.slot = s /\ J.ent = Dir[s] /\ J.nUsers = FCB[i].nUsers + 1 /\ J.Mode = 0
    BY <2>2, <2>4, <2>5, <2>6 DEF FCBRec
  <2>8. ~Busy(FCB, s)
    BY <2>4, <2>5 DEF Busy
  <2> QED
    BY <1>4, <2>2, <2>4, <2>5, <2>6, <2>7, <2>8
<1>7. CASE Found(s) = {}
  <2> DEFINE free == {j \in FCBs : FCB[j].nUsers = 0}
  <2>1. \E j \in FCBs : ~(FCB[j].nUsers > 0)
    BY <1>2, <1>7 DEF OpenErc
  <2>2. free # {}
    BY <1>1, <2>1 DEF FCBRec
  <2>3. i \in free
    BY <1>1, <1>7, <2>2, LowestIn DEF OpenFCB
  <2>4. J = [ent |-> Dir[s], slot |-> s, Mode |-> mode, nUsers |-> 1]
    BY <1>7 DEF OpenedFCB
  <2>5. J \in FCBRec
    BY <1>1, <1>3, <2>4 DEF FCBRec
  <2>6. \A j \in FCBs : ~(FCB[j].nUsers > 0 /\ FCB[j].slot = s)
    BY <1>5, <1>7
  <2>7. ~Busy(FCB, s)
    BY <2>6 DEF Busy
  <2> QED
    BY <1>4, <2>3, <2>4, <2>5, <2>6, <2>7
<1> QED
  BY <1>6, <1>7

LEMMA OpenFileIInv ==
    ASSUME IInv, NEW job \in Job, NEW n \in Name, NEW mode \in {0, 1}, OpenFile(job, n, mode)
    PROVE  IInv'
<1>1. CASE OpenErc(n, mode) # "ok"
  BY <1>1, FailedIInv DEF OpenFile
<1>2. CASE OpenErc(n, mode) = "ok"
  <2>1. PICK s, i, J : s = Lowest(Entries(n)) /\ i = OpenFCB(s) /\ J = OpenedFCB(s, mode)
    OBVIOUS
  <2> DEFINE free == {g \in Handle : ~Used(g)}
  <2>2. PICK h : h = Lowest(free)
    OBVIOUS
  <2> DEFINE H == [Job |-> job, iFCB |-> i, Clstr |-> Dir[s].StartClstr, relClstr |-> 0]
  <2>3. /\ FCB' = [FCB EXCEPT ![i] = J] /\ FUB' = [FUB EXCEPT ![h] = H]
        /\ UNCHANGED <<Dir, fat, disk, data>>
    BY <1>2, <2>1, <2>2 DEF OpenFile
  <2>4. /\ s \in Files(Dir) /\ i \in FCBs
        /\ J \in FCBRec /\ J.slot = s /\ J.ent = Dir[s] /\ J.nUsers = FCB[i].nUsers + 1
        /\ J.Mode = 1 => FCB[i].nUsers = 0
        /\ FCB[i].nUsers > 0 => FCB[i].slot = s /\ FCB[i].Mode = 0
        /\ \A j \in FCBs : FCB[j].nUsers > 0 /\ FCB[j].slot = s => j = i
        /\ ~Busy(FCB, s)
    BY <1>2, <2>1, OpenIs
  <2>5. h \in Handle /\ FUB[h].Job = "free"
    <3>1. free # {} /\ free \subseteq Nat
      BY <1>2, FileSysAssumption DEF OpenErc, Handle
    <3> QED
      BY <2>2, <3>1, LowestIn DEF Used
  <2>6. PICK Q \in [Slot -> Seq(Clstr)] : Sound(Dir, fat, disk, FCB, FUB, Q)
    BY DEF IInv
  <2>7. /\ Line(fat, Dir[s].StartClstr, Q[s]) /\ Len(Q[s]) \in Nat \ {0}
        /\ Q[s][1] = Dir[s].StartClstr /\ Dir[s].StartClstr \in Clstr
    <3>1. Line(fat, Dir[s].StartClstr, Q[s])
      BY <2>4, <2>6 DEF Sound, Chains
    <3> QED
      BY <3>1 DEF Line
  <2>8. /\ FCB \in [FCBs -> FCBRec] /\ FUB \in [Handle -> FUBRec]
        /\ FCB[i] \in FCBRec /\ FCB[i].nUsers \in Nat
    BY <2>4 DEF IInv, Tables, FCBRec
  <2>9. H \in FUBRec /\ job # "free"
    BY <2>4, <2>7, FileSysAssumption DEF FUBRec
  <2>10. /\ H.Job = job /\ H.iFCB = i /\ InFile(H, Q[s])
    BY <2>7 DEF InFile
  <2> HIDE DEF H
  <2>11. /\ FCB' \in [FCBs -> FCBRec] /\ FUB' \in [Handle -> FUBRec]
         /\ FCB'[i] = J /\ \A j \in FCBs \ {i} : FCB'[j] = FCB[j]
         /\ FUB'[h] = H /\ \A g \in Handle \ {h} : FUB'[g] = FUB[g]
    BY <2>3, <2>4, <2>5, <2>8, <2>9
  <2>12. Tables(Dir, fat, disk, data, FCB', FUB')
    BY <2>11 DEF IInv, Tables
  <2>13. Opened(Dir, FCB')
    <3>1. ASSUME NEW j \in FCBs, FCB'[j].nUsers > 0, j # i
          PROVE  /\ FCB'[j] = FCB[j] /\ FCB'[j].slot # s
      BY <2>4, <2>11, <3>1
    <3>2. J.Mode = 1 => J.nUsers = 1
      BY <2>4, <2>8
    <3> DEFINE Right(F, j) ==
                 /\ F[j].slot \in Files(Dir)
                 /\ F[j].ent.Name = Dir[F[j].slot].Name
                 /\ F[j].ent.StartClstr = Dir[F[j].slot].StartClstr
                 /\ F[j].Mode = 0 => F[j].ent = Dir[F[j].slot]
                 /\ F[j].Mode = 1 => F[j].nUsers = 1
    <3>3. ASSUME NEW j \in FCBs, FCB'[j].nUsers > 0 PROVE Right(FCB', j)
      <4>1. CASE j = i
        BY <2>4, <2>11, <3>2, <4>1
      <4>2. CASE j # i
        BY <3>1, <3>3, <4>2 DEF IInv, Opened
      <4> QED
        BY <4>1, <4>2
    <3>4. ASSUME NEW j \in FCBs, NEW k \in FCBs, FCB'[j].nUsers > 0, FCB'[k].nUsers > 0,
                 FCB'[k].slot = FCB'[j].slot
          PROVE  j = k
      <4>1. CASE j = i \/ k = i
        BY <2>4, <2>11, <3>1, <3>4, <4>1
      <4>2. CASE j # i /\ k # i
        BY <3>1, <3>4, <4>2 DEF IInv, Opened
      <4> QED
        BY <4>1, <4>2
    <3> QED
      BY <3>3, <3>4 DEF Opened
  <2>14. Counted(FCB', FUB')
    <3>1. ASSUME NEW j \in FCBs, j # i PROVE Users(FUB', j) = Users(FUB, j)
      BY <2>5, <2>10, <2>11, <3>1 DEF Users
    <3>2. Users(FUB', i) = Users(FUB, i) \cup {h} /\ h \notin Users(FUB, i)
      BY <2>5, <2>9, <2>10, <2>11 DEF Users
    <3>3. Cardinality(Users(FUB', i)) = Cardinality(Users(FUB, i)) + 1
      BY <3>2, UsersFinite, FS_AddElement
    <3>4. FCB'[i].nUsers = Cardinality(Users(FUB', i))
      BY <2>4, <2>11, <3>3 DEF IInv, Counted
    <3>5. ASSUME NEW j \in FCBs, j # i PROVE FCB'[j].nUsers = Cardinality(Users(FUB', j))
      BY <2>11, <3>1, <3>5 DEF IInv, Counted
    <3> QED
      BY <3>4, <3>5 DEF Counted
  <2>15. ASSUME NEW t \in Files(Dir), ~Busy(FCB', t) PROVE ~Busy(FCB, t)
    <3> SUFFICES ASSUME NEW j \in FCBs, FCB[j].nUsers > 0, FCB[j].slot = t, FCB[j].Mode = 1
                 PROVE  FALSE
      BY DEF Busy
    <3>1. j # i
      BY <2>4
    <3>2. FCB'[j] = FCB[j]
      BY <2>11, <3>1
    <3> QED
      BY <2>15, <3>2 DEF Busy
  <2>16. Long(Dir, FCB', Q)
    <3>1. ASSUME NEW t \in Files(Dir), ~Busy(FCB', t) PROVE nClstrs(Dir[t].FileSize) <= Len(Q[t])
      BY <2>6, <2>15, <3>1 DEF Sound, Long
    <3>2. ASSUME NEW j \in FCBs, FCB'[j].nUsers > 0
          PROVE  nClstrs(FCB'[j].ent.FileSize) <= Len(Q[FCB'[j].slot])
      <4>1. CASE j = i
        BY <2>4, <2>6, <2>11, <4>1 DEF Sound, Long
      <4>2. CASE j # i
        BY <2>6, <2>11, <3>2, <4>2 DEF Sound, Long
      <4> QED
        BY <4>1, <4>2
    <3> QED
      BY <3>1, <3>2 DEF Long
  <2>17. Helpers(FCB', FUB', Q)
    <3> SUFFICES ASSUME NEW g \in Handle, FUB'[g].Job # "free"
                 PROVE  InFile(FUB'[g], Q[FCB'[FUB'[g].iFCB].slot])
      BY DEF Helpers
    <3>1. CASE g = h
      BY <2>4, <2>10, <2>11, <3>1
    <3>2. CASE g # h
      <4>1. FUB'[g] = FUB[g] /\ FUB[g].Job # "free" /\ FUB[g].iFCB \in FCBs
        BY <2>8, <2>11, <3>2 DEF FUBRec
      <4>2. FCB[FUB[g].iFCB].nUsers > 0
        BY <4>1, UsedCounts DEF IInv
      <4>3. FCB'[FUB[g].iFCB].slot = FCB[FUB[g].iFCB].slot
        BY <2>4, <2>11, <4>1, <4>2
      <4>4. InFile(FUB[g], Q[FCB[FUB[g].iFCB].slot])
        BY <2>6, <4>1 DEF Sound, Helpers
      <4> QED
        BY <4>1, <4>3, <4>4
    <3> QED
      BY <3>1, <3>2
  <2>18. Saved(Dir, fat, disk, FCB', Q)
    BY <2>6, <2>15 DEF Sound, Saved
  <2>19. Sound(Dir, fat, disk, FCB', FUB', Q)
    BY <2>6, <2>16, <2>17, <2>18 DEF Sound
  <2> QED
    BY <2>3, <2>12, <2>13, <2>14, <2>19 DEF IInv
<1> QED
  BY <1>1, <1>2

\* The file s, whose FCB is or would be i, gets the name new.
Renaming(n, new, s, i) ==
    /\ IInv /\ n \in Name /\ new \in Name /\ RenameFile(n, new) /\ OpenErc(n, 1) = "ok"
    /\ s = Lowest(Entries(n)) /\ i = OpenFCB(s)

\* ... in its entry and in its FCB, if it has one.
Renamed(new, s, i) ==
    /\ s \in Files(Dir) /\ s \in Slot /\ i \in FCBs
    /\ disk' = fat /\ UNCHANGED <<fat, data, FUB>>
    /\ Dir' \in [Slot -> EntRec] /\ Dir'[s] = [Dir[s] EXCEPT !.Name = new]
    /\ \A t \in Slot \ {s} : Dir'[t] = Dir[t]
    /\ Files(Dir') = Files(Dir)
    /\ FCB' \in [FCBs -> FCBRec] /\ \A j \in FCBs \ {i} : FCB'[j] = FCB[j]
    /\ FCB'[i].nUsers = FCB[i].nUsers
    /\ FCB[i].nUsers > 0 => /\ FCB[i].slot = s /\ FCB[i].Mode = 0
                            /\ FCB'[i].slot = s /\ FCB'[i].Mode = 0
                            /\ FCB'[i].ent = Dir'[s]
    /\ \A j \in FCBs : FCB[j].nUsers > 0 /\ FCB[j].slot = s => j = i

LEMMA RenamingIs ==
    ASSUME NEW n, NEW new, NEW s, NEW i, Renaming(n, new, s, i)
    PROVE  Renamed(new, s, i) /\ ret' = Done(<<"RenameFile", n, new>>)
<1> USE DEF Renaming
<1>1. PICK J : J = OpenedFCB(s, 1)
  OBVIOUS
<1> DEFINE F == [J EXCEPT !.ent.Name = new, !.nUsers = @ - 1]
<1>2. /\ FCB' = [FCB EXCEPT ![i] = Cleared(F)] /\ Dir' = UpdateDirEnt(Dir, F)
      /\ disk' = fat /\ UNCHANGED <<fat, data, FUB>>
      /\ ret' = Done(<<"RenameFile", n, new>>)
  BY <1>1 DEF RenameFile
<1>3. /\ s \in Files(Dir) /\ i \in FCBs
      /\ J \in FCBRec /\ J.slot = s /\ J.ent = Dir[s] /\ J.nUsers = FCB[i].nUsers + 1
      /\ FCB[i].nUsers > 0 => /\ FCB[i].slot = s /\ FCB[i].Mode = 0
                              /\ J = [FCB[i] EXCEPT !.nUsers = @ + 1]
      /\ \A j \in FCBs : FCB[j].nUsers > 0 /\ FCB[j].slot = s => j = i
  <2>1. 1 \in {0, 1}
    OBVIOUS
  <2> QED
    BY <1>1, <2>1, OpenIs
<1>4. /\ Dir \in [Slot -> EntRec] /\ FCB \in [FCBs -> FCBRec] /\ s \in Slot
      /\ FCB[i] \in FCBRec /\ FCB[i].nUsers \in Nat /\ Dir[s] \in EntRec
  BY <1>3 DEF IInv, Tables, FCBRec, Files
<1> DEFINE E == [Dir[s] EXCEPT !.Name = new]
<1>5. /\ E \in EntRec /\ E.Name = new /\ E.StartClstr = Dir[s].StartClstr
      /\ E.FileSize = Dir[s].FileSize
  BY <1>4 DEF EntRec
<1>6. /\ F \in FCBRec /\ F.ent = E /\ F.slot = s /\ F.nUsers = FCB[i].nUsers
      /\ FCB[i].nUsers > 0 => F.Mode = 0
  <2>1. F = [J EXCEPT !.ent = [J.ent EXCEPT !.Name = new], !.nUsers = J.nUsers - 1]
    BY <1>3 DEF FCBRec
  <2> HIDE DEF F
  <2>2. F = [J EXCEPT !.ent = E, !.nUsers = FCB[i].nUsers]
    <3>1. J.nUsers - 1 = FCB[i].nUsers /\ [J.ent EXCEPT !.Name = new] = E
      BY <1>3, <1>4
    <3> HIDE DEF E
    <3> QED
      BY <2>1, <3>1
  <2> HIDE DEF E
  <2>3. /\ F \in FCBRec /\ F.ent = E /\ F.slot = s /\ F.nUsers = FCB[i].nUsers
        /\ F.Mode = J.Mode
    BY <1>3, <1>4, <1>5, <2>2 DEF FCBRec
  <2>4. FCB[i].nUsers > 0 => J.Mode = 0
    BY <1>3, <1>4 DEF FCBRec
  <2> QED
    BY <2>3, <2>4
<1> HIDE DEF F, E
<1>7. /\ Dir' \in [Slot -> EntRec] /\ Dir'[s] = E /\ \A t \in Slot \ {s} : Dir'[t] = Dir[t]
  BY <1>2, <1>4, <1>5, <1>6 DEF UpdateDirEnt
<1>8. FreeFCB \in FCBRec
  <2>1. 1 \in Slot /\ NoFile \in EntRec
    BY FileSysAssumption DEF Slot, NoFile, EntRec
  <2> QED
    BY <2>1 DEF FreeFCB, FCBRec
<1>9. /\ FCB' \in [FCBs -> FCBRec] /\ \A j \in FCBs \ {i} : FCB'[j] = FCB[j]
      /\ FCB'[i].nUsers = FCB[i].nUsers
      /\ FCB[i].nUsers > 0 => FCB'[i] = F
  <2>1. Cleared(F) \in FCBRec
    BY <1>6, <1>8 DEF Cleared
  <2>2. Cleared(F).nUsers = FCB[i].nUsers /\ (FCB[i].nUsers > 0 => Cleared(F) = F)
    BY <1>4, <1>6 DEF Cleared, FreeFCB
  <2> QED
    BY <1>2, <1>3, <1>4, <2>1, <2>2
<1>10. Files(Dir') = Files(Dir) /\ Files(Dir) \subseteq Slot
  <2>1. new # "none"
    BY FileSysAssumption
  <2> QED
    BY <1>3, <1>4, <1>5, <1>7, <2>1 DEF Files
<1> QED
  BY <1>2, <1>3, <1>4, <1>6, <1>7, <1>9, <1>10 DEF Renamed, E

LEMMA RenameFileIInv ==
    ASSUME IInv, NEW n \in Name, NEW new \in Name, RenameFile(n, new)
    PROVE  IInv'
<1>1. CASE OpenErc(n, 1) # "ok"
  BY <1>1, FailedIInv DEF RenameFile
<1>2. CASE OpenErc(n, 1) = "ok"
  <2>1. PICK s, i : s = Lowest(Entries(n)) /\ i = OpenFCB(s)
    OBVIOUS
  <2>2. Renamed(new, s, i)
    <3>1. Renaming(n, new, s, i)
      BY <1>2, <2>1 DEF Renaming
    <3> QED
      BY <3>1, RenamingIs
  <2>3. /\ s \in Files(Dir) /\ s \in Slot /\ i \in FCBs
        /\ disk' = fat /\ UNCHANGED <<fat, data, FUB>>
        /\ Dir' \in [Slot -> EntRec] /\ Dir'[s] = [Dir[s] EXCEPT !.Name = new]
        /\ Files(Dir') = Files(Dir) /\ FCB' \in [FCBs -> FCBRec]
    BY <2>2 DEF Renamed
  <2>4. \A t \in Slot \ {s} : Dir'[t] = Dir[t]
    BY <2>2 DEF Renamed
  <2>5. /\ FCB'[i].nUsers = FCB[i].nUsers
        /\ FCB[i].nUsers > 0 => /\ FCB[i].slot = s /\ FCB[i].Mode = 0
                                /\ FCB'[i].slot = s /\ FCB'[i].Mode = 0
                                /\ FCB'[i].ent = Dir'[s]
    BY <2>2 DEF Renamed
  <2>6. /\ \A j \in FCBs \ {i} : FCB'[j] = FCB[j]
        /\ \A j \in FCBs : FCB[j].nUsers > 0 /\ FCB[j].slot = s => j = i
    BY <2>2 DEF Renamed
  <2>10. Files(Dir) \subseteq Slot /\ Dir \in [Slot -> EntRec] /\ FCB \in [FCBs -> FCBRec]
    BY DEF Files, IInv, Tables
  <2>11. \A t \in Files(Dir) : /\ Dir'[t].StartClstr = Dir[t].StartClstr
                               /\ Dir'[t].FileSize = Dir[t].FileSize
    <3>1. Dir[s] \in EntRec
      BY <2>3, <2>10
    <3>2. Dir'[s].StartClstr = Dir[s].StartClstr /\ Dir'[s].FileSize = Dir[s].FileSize
      BY <2>3, <3>1 DEF EntRec
    <3> QED
      BY <2>4, <2>10, <3>2
  <2>12. Tables(Dir', fat, disk', data, FCB', FUB)
    BY <2>3 DEF IInv, Tables
  <2>13. \A j \in FCBs : FCB'[j].nUsers = FCB[j].nUsers
    BY <2>5, <2>6
  <2>14. ASSUME NEW j \in FCBs, FCB[j].nUsers > 0
         PROVE  FCB'[j].slot = FCB[j].slot /\ FCB'[j].Mode = FCB[j].Mode
    BY <2>5, <2>6, <2>14
  <2>15. Opened(Dir', FCB')
    <3>1. ASSUME NEW j \in FCBs, FCB[j].nUsers > 0
          PROVE  /\ FCB'[j].slot \in Files(Dir')
                 /\ FCB'[j].ent.Name = Dir'[FCB'[j].slot].Name
                 /\ FCB'[j].ent.StartClstr = Dir'[FCB'[j].slot].StartClstr
                 /\ FCB'[j].Mode = 0 => FCB'[j].ent = Dir'[FCB'[j].slot]
                 /\ FCB'[j].Mode = 1 => FCB'[j].nUsers = 1
      <4>1. CASE j = i
        BY <2>3, <2>5, <3>1, <4>1
      <4>2. CASE j # i
        <5>1. FCB'[j] = FCB[j] /\ FCB[j].slot # s /\ FCB[j].slot \in Files(Dir)
          BY <2>6, <3>1, <4>2 DEF IInv, Opened
        <5>2. Dir'[FCB[j].slot] = Dir[FCB[j].slot]
          BY <2>4, <2>10, <5>1
        <5> QED
          BY <2>3, <3>1, <5>1, <5>2 DEF IInv, Opened
      <4> QED
        BY <4>1, <4>2
    <3>2. ASSUME NEW j \in FCBs, NEW k \in FCBs, FCB[j].nUsers > 0, FCB[k].nUsers > 0,
                 FCB'[k].slot = FCB'[j].slot
          PROVE  j = k
      <4>1. FCB[k].slot = FCB[j].slot
        BY <2>14, <3>2
      <4> QED
        BY <3>2, <4>1 DEF IInv, Opened
    <3> QED
      BY <2>13, <3>1, <3>2 DEF Opened
  <2>16. Counted(FCB', FUB)
    BY <2>13 DEF IInv, Counted
  <2>17. PICK Q \in [Slot -> Seq(Clstr)] : Sound(Dir, fat, disk, FCB, FUB, Q)
    BY DEF IInv
  <2>18. Chains(Dir', fat, Q)
    BY <2>3, <2>11, <2>17 DEF Sound, Chains
  <2>19. \A t : Busy(FCB', t) <=> Busy(FCB, t)
    BY <2>13, <2>14 DEF Busy
  <2>20. Long(Dir', FCB', Q)
    <3>1. ASSUME NEW t \in Files(Dir'), ~Busy(FCB', t)
          PROVE  nClstrs(Dir'[t].FileSize) <= Len(Q[t])
      BY <2>3, <2>11, <2>17, <2>19, <3>1 DEF Sound, Long
    <3>2. ASSUME NEW j \in FCBs, FCB'[j].nUsers > 0
          PROVE  nClstrs(FCB'[j].ent.FileSize) <= Len(Q[FCB'[j].slot])
      <4>1. CASE j = i
        <5>1. FCB[i].nUsers > 0 /\ FCB[i].ent = Dir[s]
          BY <2>3, <2>5, <2>13, <3>2, <4>1 DEF IInv, Opened
        <5>2. FCB'[i].ent.FileSize = FCB[i].ent.FileSize
          BY <2>3, <2>5, <2>11, <5>1
        <5>3. nClstrs(FCB[i].ent.FileSize) <= Len(Q[FCB[i].slot])
          BY <2>3, <2>17, <5>1 DEF Sound, Long
        <5> QED
          BY <2>5, <4>1, <5>1, <5>2, <5>3
      <4>2. CASE j # i
        BY <2>6, <2>17, <3>2, <4>2 DEF Sound, Long
      <4> QED
        BY <4>1, <4>2
    <3> QED
      BY <3>1, <3>2 DEF Long
  <2>21. Helpers(FCB', FUB, Q)
    <3> SUFFICES ASSUME NEW g \in Handle, FUB[g].Job # "free"
                 PROVE  InFile(FUB[g], Q[FCB'[FUB[g].iFCB].slot])
      BY DEF Helpers
    <3>1. FUB[g].iFCB \in FCBs
      BY DEF IInv, Tables, FUBRec
    <3>2. FCB[FUB[g].iFCB].nUsers > 0
      BY <3>1, UsedCounts DEF IInv
    <3> QED
      BY <2>14, <2>17, <3>1, <3>2 DEF Sound, Helpers
  <2>22. Saved(Dir', fat, disk', FCB', Q)
    BY <2>3 DEF Saved
  <2>23. Sound(Dir', fat, disk', FCB', FUB, Q)
    BY <2>18, <2>20, <2>21, <2>22 DEF Sound
  <2> QED
    BY <2>3, <2>12, <2>15, <2>16, <2>17, <2>23 DEF IInv
<1> QED
  BY <1>1, <1>2

\* Handles are closed: no FCB that is still in use had changes, and the entries get those
\* of the FCBs that are not.
LEMMA ClosingIs ==
    ASSUME IInv, NEW H, \A h \in H : h \in Handle /\ Used(h), Closing(H), UNCHANGED <<fat, data>>
    PROVE  /\ FUB' \in [Handle -> FUBRec] /\ Counted(FCB', FUB')
           /\ \A h \in Handle \ H : FUB'[h] = FUB[h]
           /\ \A h \in H : FUB'[h].Job = "free"
           /\ FCB' \in [FCBs -> FCBRec]
           /\ \A i \in FCBs :
                /\ FCB'[i].nUsers <= FCB[i].nUsers
                /\ FCB'[i].nUsers > 0 => /\ FCB[i].nUsers > 0
                                         /\ FCB'[i].slot = FCB[i].slot /\ FCB'[i].ent = FCB[i].ent
                                         /\ FCB'[i].Mode = FCB[i].Mode
           /\ \A s \in Slot :
                \/ /\ Dir'[s] = Dir[s]
                   /\ \A i \in FCBs : FCB[i].nUsers > 0 /\ FCB[i].slot = s /\ FCB[i].Mode = 1
                                        => FCB'[i].nUsers > 0
                \/ \E i \in FCBs : /\ FCB[i].nUsers > 0 /\ FCB[i].slot = s /\ FCB[i].Mode = 1
                                   /\ ~(FCB'[i].nUsers > 0) /\ Dir'[s] = FCB[i].ent
           /\ H = {} => \A s : Busy(FCB, s) => Busy(FCB', s)
           /\ Dir' \in [Slot -> EntRec] /\ Files(Dir') = Files(Dir) /\ Files(Dir) \subseteq Slot
           /\ \A s \in Slot : Dir'[s].StartClstr = Dir[s].StartClstr
<1> DEFINE Of(i) == {h \in H : FUB[h].iFCB = i}
           mod(s) == {h \in H : FileOf(h).Mode = 1 /\ FileOf(h).slot = s}
<1>1. /\ Dir \in [Slot -> EntRec] /\ FCB \in [FCBs -> FCBRec] /\ FUB \in [Handle -> FUBRec]
      /\ Counted(FCB, FUB) /\ Opened(Dir, FCB) /\ fat \in Fats /\ disk \in Fats
      /\ data \in [Clstr -> [0 .. SecPerClstr - 1 -> Val]]
  BY DEF IInv, Tables
<1>2. ASSUME NEW h \in H
      PROVE  /\ h \in Handle /\ FUB[h].Job # "free" /\ FUB[h].iFCB \in FCBs
             /\ FCB[FUB[h].iFCB].nUsers > 0
  <2>1. h \in Handle /\ FUB[h].Job # "free" /\ FUB[h].iFCB \in FCBs
    BY <1>1 DEF Used, FUBRec
  <2> QED
    BY <1>1, <2>1, UsedCounts
<1>3. /\ FUB' \in [Handle -> FUBRec]
      /\ \A h \in Handle \ H : FUB'[h] = FUB[h]
      /\ \A h \in H : FUB'[h].Job = "free"
  <2>1. FUB' = [h \in Handle |-> IF h \in H THEN FreeFUB ELSE FUB[h]]
    BY DEF Closing
  <2>2. FreeFUB \in FUBRec /\ FreeFUB.Job = "free"
    BY FileSysAssumption DEF FreeFUB, FUBRec, FCBs
  <2> QED
    BY <1>1, <1>2, <2>1, <2>2
<1>4. ASSUME NEW i \in FCBs
      PROVE  /\ Cardinality(Of(i)) \in Nat
             /\ Cardinality(Users(FUB', i)) = FCB[i].nUsers - Cardinality(Of(i))
             /\ Of(i) # {} => Cardinality(Of(i)) # 0
             /\ Of(i) = {} => Cardinality(Of(i)) = 0
  <2>1. Of(i) \subseteq Users(FUB, i) /\ Users(FUB', i) = Users(FUB, i) \ Of(i)
    BY <1>2, <1>3 DEF Users
  <2> HIDE DEF Of
  <2>2. Of(i) = Users(FUB, i) \cap Of(i)
    BY <2>1
  <2>3. IsFiniteSet(Users(FUB, i))
    BY UsersFinite
  <2>4. Cardinality(Users(FUB', i)) = Cardinality(Users(FUB, i)) - Cardinality(Of(i))
    BY <2>1, <2>2, <2>3, FS_Difference
  <2>5. IsFiniteSet(Of(i))
    BY <2>1, <2>3, FS_Subset
  <2> QED
    BY <1>1, <2>4, <2>5, FS_CardinalityType, FS_EmptySet DEF Counted
<1>5. FreeFCB \in FCBRec
  <2>1. 1 \in Slot /\ NoFile \in EntRec
    BY FileSysAssumption DEF Slot, NoFile, EntRec
  <2> QED
    BY <2>1 DEF FreeFCB, FCBRec
<1>6. ASSUME NEW i \in FCBs
      PROVE  /\ FCB'[i] \in FCBRec
             /\ FCB'[i].nUsers = FCB[i].nUsers - Cardinality(Of(i))
             /\ FCB'[i].nUsers > 0 => /\ FCB[i].nUsers > 0
                                      /\ FCB'[i].slot = FCB[i].slot /\ FCB'[i].ent = FCB[i].ent
                                      /\ FCB'[i].Mode = FCB[i].Mode
  <2> DEFINE k == Cardinality(Of(i))
             G == [FCB[i] EXCEPT !.nUsers = FCB[i].nUsers - k]
  <2>1. FCB'[i] = Cleared(G)
    BY DEF Closing
  <2>2. k \in Nat /\ FCB[i].nUsers - k \in Nat /\ FCB[i].nUsers \in Nat /\ FCB[i] \in FCBRec
    BY <1>1, <1>4, UsersFinite DEF FCBRec
  <2> HIDE DEF k
  <2>3. /\ G \in FCBRec /\ G.nUsers = FCB[i].nUsers - k /\ G.slot = FCB[i].slot
        /\ G.ent = FCB[i].ent /\ G.Mode = FCB[i].Mode
    BY <2>2 DEF FCBRec
  <2> HIDE DEF G
  <2>4. CASE G.nUsers = 0
    BY <1>5, <2>1, <2>2, <2>3, <2>4 DEF Cleared, FreeFCB, k
  <2>5. CASE G.nUsers # 0
    BY <2>1, <2>2, <2>3, <2>5 DEF Cleared, k
  <2> QED
    BY <2>4, <2>5
<1>7. FCB' \in [FCBs -> FCBRec]
  BY <1>6 DEF Closing
<1>8. Counted(FCB', FUB')
  BY <1>4, <1>6 DEF Counted
\* A file that was open to be modified and is closed has no FCB any more.
<1>9. ASSUME NEW s \in Slot, NEW i \in FCBs, FCB[i].nUsers > 0, FCB[i].slot = s, FCB[i].Mode = 1
      PROVE  mod(s) = Of(i) /\ FCB[i].nUsers = 1 /\ (Of(i) # {} => ~(FCB'[i].nUsers > 0))
  <2>1. ASSUME NEW h \in H, FileOf(h).slot = s PROVE FUB[h].iFCB = i
    BY <1>1, <1>2, <1>9, <2>1 DEF Opened, FileOf
  <2>2. mod(s) = Of(i)
    BY <1>9, <2>1 DEF FileOf
  <2>3. FCB[i].nUsers = 1
    BY <1>1, <1>9 DEF Opened
  <2> HIDE DEF Of
  <2>4. Of(i) # {} => ~(FCB'[i].nUsers > 0)
    BY <1>4, <1>6, <2>3
  <2> QED
    BY <2>2, <2>3, <2>4
<1>10. ASSUME NEW s \in Slot
       PROVE  \/ mod(s) = {} /\ Dir'[s] = Dir[s]
              \/ \E i \in FCBs : /\ FCB[i].nUsers > 0 /\ FCB[i].slot = s /\ FCB[i].Mode = 1
                                 /\ Of(i) # {} /\ Dir'[s] = FCB[i].ent
  <2>1. Dir'[s] = IF mod(s) = {} THEN Dir[s]
                  ELSE UpdateDirEnt(Dir, FileOf(CHOOSE h \in mod(s) : TRUE))[s]
    BY DEF Closing
  <2>2. CASE mod(s) # {}
    <3>1. PICK h : h = CHOOSE g \in mod(s) : TRUE
      OBVIOUS
    <3>2. h \in mod(s)
      BY <2>2, <3>1
    <3>3. h \in H /\ FileOf(h).Mode = 1 /\ FileOf(h).slot = s
      BY <3>2
    <3>4. Dir'[s] = FileOf(h).ent
      BY <1>1, <2>1, <2>2, <3>1, <3>3 DEF UpdateDirEnt
    <3> QED
      BY <1>2, <3>3, <3>4 DEF FileOf
  <2> QED
    BY <2>1, <2>2
<1>11. ASSUME NEW s \in Slot
       PROVE  /\ Dir'[s] \in EntRec
              /\ s \in Files(Dir') <=> s \in Files(Dir)
              /\ Dir'[s].StartClstr = Dir[s].StartClstr
  <2>1. ASSUME NEW i \in FCBs, FCB[i].nUsers > 0, FCB[i].slot = s, Dir'[s] = FCB[i].ent
        PROVE  /\ Dir'[s] \in EntRec /\ Dir'[s].Name = Dir[s].Name
               /\ Dir'[s].StartClstr = Dir[s].StartClstr
    BY <1>1, <2>1 DEF Opened, FCBRec
  <2> QED
    BY <1>1, <1>10, <2>1 DEF Files
<1>12. Dir' \in [Slot -> EntRec] /\ Files(Dir') = Files(Dir) /\ Files(Dir) \subseteq Slot
  <2>1. Files(Dir') \subseteq Slot /\ Files(Dir) \subseteq Slot
    BY DEF Files
  <2> QED
    BY <1>11, <2>1 DEF Closing
<1>13. ASSUME NEW i \in FCBs
       PROVE  /\ FCB'[i].nUsers <= FCB[i].nUsers
              /\ FCB'[i].nUsers > 0 => /\ FCB[i].nUsers > 0
                                       /\ FCB'[i].slot = FCB[i].slot /\ FCB'[i].ent = FCB[i].ent
                                       /\ FCB'[i].Mode = FCB[i].Mode
  <2> HIDE DEF Of
  <2>1. FCB[i].nUsers \in Nat /\ Cardinality(Of(i)) \in Nat
    BY <1>1, <1>4 DEF FCBRec
  <2>2. FCB'[i].nUsers <= FCB[i].nUsers
    BY <1>6, <2>1
  <2> QED
    BY <1>6, <2>2
<1>14. ASSUME NEW s \in Slot, mod(s) = {}, NEW i \in FCBs, FCB[i].nUsers > 0, FCB[i].slot = s,
              FCB[i].Mode = 1
       PROVE  FCB'[i].nUsers > 0
  <2>1. Of(i) = {} /\ FCB[i].nUsers = 1
    BY <1>9, <1>14
  <2> HIDE DEF Of, mod
  <2> QED
    BY <1>4, <1>6, <2>1
<1>15. ASSUME NEW s \in Slot
       PROVE  \/ /\ Dir'[s] = Dir[s]
                 /\ \A i \in FCBs : FCB[i].nUsers > 0 /\ FCB[i].slot = s /\ FCB[i].Mode = 1
                                      => FCB'[i].nUsers > 0
              \/ \E i \in FCBs : /\ FCB[i].nUsers > 0 /\ FCB[i].slot = s /\ FCB[i].Mode = 1
                                 /\ ~(FCB'[i].nUsers > 0) /\ Dir'[s] = FCB[i].ent
  <2> HIDE DEF Of, mod
  <2>1. CASE mod(s) = {} /\ Dir'[s] = Dir[s]
    BY <1>14, <2>1
  <2>2. CASE \E i \in FCBs : /\ FCB[i].nUsers > 0 /\ FCB[i].slot = s /\ FCB[i].Mode = 1
                             /\ Of(i) # {} /\ Dir'[s] = FCB[i].ent
    BY <1>9, <2>2
  <2> QED
    BY <1>10, <2>1, <2>2
<1>16. ASSUME H = {}, NEW s, Busy(FCB, s) PROVE Busy(FCB', s)
  <2>1. PICK i \in FCBs : FCB[i].nUsers > 0 /\ FCB[i].slot = s /\ FCB[i].Mode = 1
    BY <1>16 DEF Busy
  <2>2. s \in Slot /\ mod(s) = {}
    BY <1>1, <1>16, <2>1 DEF FCBRec
  <2>3. FCB'[i].nUsers > 0
    BY <1>14, <2>1, <2>2
  <2> QED
    BY <1>13, <2>1, <2>3 DEF Busy
<1> HIDE DEF Of, mod
<1> QED
  BY <1>3, <1>7, <1>8, <1>11, <1>12, <1>13, <1>15, <1>16

LEMMA ClosingIInv ==
    ASSUME IInv, NEW H, \A h \in H : h \in Handle /\ Used(h), Closing(H), UNCHANGED <<fat, data>>
    PROVE  IInv'
<1>1. /\ Dir \in [Slot -> EntRec] /\ FCB \in [FCBs -> FCBRec] /\ FUB \in [Handle -> FUBRec]
      /\ Counted(FCB, FUB) /\ Opened(Dir, FCB) /\ fat \in Fats /\ disk \in Fats
      /\ data \in [Clstr -> [0 .. SecPerClstr - 1 -> Val]]
  BY DEF IInv, Tables
<1>2. /\ FUB' \in [Handle -> FUBRec] /\ Counted(FCB', FUB') /\ FCB' \in [FCBs -> FCBRec]
      /\ Dir' \in [Slot -> EntRec] /\ Files(Dir') = Files(Dir) /\ Files(Dir) \subseteq Slot
  BY ClosingIs
<1>3. ASSUME NEW h \in Handle, FUB'[h].Job # "free" PROVE FUB'[h] = FUB[h]
  <2>1. \A g \in H : FUB'[g].Job = "free"
    BY ClosingIs
  <2>2. \A g \in Handle \ H : FUB'[g] = FUB[g]
    BY ClosingIs
  <2> QED
    BY <1>3, <2>1, <2>2
<1>4. ASSUME NEW i \in FCBs
      PROVE  /\ FCB'[i].nUsers <= FCB[i].nUsers
             /\ FCB'[i].nUsers > 0 => /\ FCB[i].nUsers > 0
                                      /\ FCB'[i].slot = FCB[i].slot /\ FCB'[i].ent = FCB[i].ent
                                      /\ FCB'[i].Mode = FCB[i].Mode
  BY ClosingIs
<1>5. ASSUME NEW s \in Slot
      PROVE  \/ /\ Dir'[s] = Dir[s]
                /\ \A i \in FCBs : FCB[i].nUsers > 0 /\ FCB[i].slot = s /\ FCB[i].Mode = 1
                                     => FCB'[i].nUsers > 0
             \/ \E i \in FCBs : /\ FCB[i].nUsers > 0 /\ FCB[i].slot = s /\ FCB[i].Mode = 1
                                /\ ~(FCB'[i].nUsers > 0) /\ Dir'[s] = FCB[i].ent
  BY ClosingIs
<1>6. \A s \in Slot : Dir'[s].StartClstr = Dir[s].StartClstr
  BY ClosingIs
<1>7. disk' \in Fats /\ (disk' = fat \/ (H = {} /\ disk' = disk))
  <2>1. disk' = IF H = {} THEN disk ELSE fat
    BY DEF Closing
  <2> QED
    BY <1>1, <2>1
<1>8. Tables(Dir', fat, disk', data, FCB', FUB')
  BY <1>1, <1>2, <1>7 DEF Tables
<1>9. ASSUME NEW i \in FCBs, FCB'[i].nUsers > 0 PROVE Dir'[FCB[i].slot] = Dir[FCB[i].slot]
  <2> SUFFICES ASSUME NEW j \in FCBs, FCB[j].nUsers > 0, FCB[j].slot = FCB[i].slot,
                      ~(FCB'[j].nUsers > 0)
               PROVE  FALSE
    <3>1. FCB[i].slot \in Slot
      BY <1>1 DEF FCBRec
    <3> QED
      BY <1>5, <3>1
  <2> QED
    BY <1>1, <1>4, <1>9 DEF Opened
<1>10. Opened(Dir', FCB')
  <2>1. ASSUME NEW j \in FCBs, FCB'[j].nUsers > 0
        PROVE  /\ FCB'[j].slot \in Files(Dir')
               /\ FCB'[j].ent.Name = Dir'[FCB'[j].slot].Name
               /\ FCB'[j].ent.StartClstr = Dir'[FCB'[j].slot].StartClstr
               /\ FCB'[j].Mode = 0 => FCB'[j].ent = Dir'[FCB'[j].slot]
    <3>1. /\ FCB[j].nUsers > 0 /\ FCB'[j].slot = FCB[j].slot /\ FCB'[j].ent = FCB[j].ent
          /\ FCB'[j].Mode = FCB[j].Mode
      BY <1>4, <2>1
    <3>2. Dir'[FCB[j].slot] = Dir[FCB[j].slot]
      BY <1>9, <2>1
    <3> QED
      BY <1>1, <1>2, <3>1, <3>2 DEF Opened
  <2>2. ASSUME NEW j \in FCBs, FCB'[j].nUsers > 0, FCB'[j].Mode = 1
        PROVE  FCB'[j].nUsers = 1
    <3>1. FCB[j].nUsers = 1
      BY <1>1, <1>4, <2>2 DEF Opened
    <3>2. FCB'[j].nUsers \in Nat
      BY <1>2 DEF FCBRec
    <3> QED
      BY <1>4, <2>2, <3>1, <3>2
  <2>3. ASSUME NEW j \in FCBs, NEW k \in FCBs, FCB'[j].nUsers > 0, FCB'[k].nUsers > 0,
               FCB'[k].slot = FCB'[j].slot
        PROVE  j = k
    BY <1>1, <1>4, <2>3 DEF Opened
  <2> QED
    BY <2>1, <2>2, <2>3 DEF Opened
<1>11. PICK Q \in [Slot -> Seq(Clstr)] : Sound(Dir, fat, disk, FCB, FUB, Q)
  BY DEF IInv
<1>12. Chains(Dir', fat, Q)
  BY <1>2, <1>6, <1>11 DEF Sound, Chains
<1>13. ASSUME NEW s \in Files(Dir), ~Busy(FCB', s), Busy(FCB, s)
       PROVE  \E i \in FCBs : FCB[i].nUsers > 0 /\ FCB[i].slot = s /\ Dir'[s] = FCB[i].ent
  <2>1. PICK i \in FCBs : FCB[i].nUsers > 0 /\ FCB[i].slot = s /\ FCB[i].Mode = 1
    BY <1>13 DEF Busy
  <2>2. ~(FCB'[i].nUsers > 0)
    BY <1>4, <1>13, <2>1 DEF Busy
  <2> QED
    BY <1>2, <1>5, <2>1, <2>2
<1>14. ASSUME NEW s \in Files(Dir), ~Busy(FCB, s) PROVE Dir'[s] = Dir[s]
  BY <1>2, <1>5, <1>14 DEF Busy
<1>15. Long(Dir', FCB', Q)
  <2>1. ASSUME NEW s \in Files(Dir'), ~Busy(FCB', s) PROVE nClstrs(Dir'[s].FileSize) <= Len(Q[s])
    <3>1. s \in Files(Dir)
      BY <1>2
    <3>2. CASE ~Busy(FCB, s)
      BY <1>11, <1>14, <3>1, <3>2 DEF Sound, Long
    <3>3. CASE Busy(FCB, s)
      BY <1>11, <1>13, <2>1, <3>1, <3>3 DEF Sound, Long
    <3> QED
      BY <3>2, <3>3
  <2>2. ASSUME NEW i \in FCBs, FCB'[i].nUsers > 0
        PROVE  nClstrs(FCB'[i].ent.FileSize) <= Len(Q[FCB'[i].slot])
    BY <1>4, <1>11, <2>2 DEF Sound, Long
  <2> QED
    BY <2>1, <2>2 DEF Long
<1>16. Helpers(FCB', FUB', Q)
  <2> SUFFICES ASSUME NEW g \in Handle, FUB'[g].Job # "free"
               PROVE  InFile(FUB'[g], Q[FCB'[FUB'[g].iFCB].slot])
    BY DEF Helpers
  <2>1. FUB'[g] = FUB[g]
    BY <1>3
  <2>2. FUB[g].iFCB \in FCBs /\ FUB[g].Job # "free"
    BY <1>1, <2>1 DEF FUBRec
  <2>3. FCB'[FUB[g].iFCB].nUsers > 0
    <3> DEFINE U == FUB'
               F == FCB'
    <3>1. Counted(F, U) /\ U[g].Job # "free" /\ U[g].iFCB \in FCBs
      BY <1>2, <2>1, <2>2
    <3> HIDE DEF U, F
    <3>2. F[U[g].iFCB].nUsers > 0
      BY <3>1, UsedCounts
    <3> QED
      BY <2>1, <3>2 DEF U, F
  <2>4. FCB'[FUB[g].iFCB].slot = FCB[FUB[g].iFCB].slot
    BY <1>4, <2>2, <2>3
  <2>5. InFile(FUB[g], Q[FCB[FUB[g].iFCB].slot])
    BY <1>11, <2>2 DEF Sound, Helpers
  <2> QED
    BY <2>1, <2>4, <2>5
<1>17. Saved(Dir', fat, disk', FCB', Q)
  <2>1. CASE disk' = fat
    BY <2>1 DEF Saved
  <2>2. CASE H = {} /\ disk' = disk
    <3> SUFFICES ASSUME NEW s \in Files(Dir'), ~Busy(FCB', s) PROVE \A c \in On(Q[s]) : disk'[c] = fat[c]
      BY DEF Saved
    <3>1. s \in Files(Dir)
      BY <1>2
    <3>2. H = {} => (Busy(FCB, s) => Busy(FCB', s))
      BY ClosingIs
    <3> QED
      BY <1>11, <2>2, <3>1, <3>2 DEF Sound, Saved
  <2> QED
    BY <1>7, <2>1, <2>2
<1>18. Sound(Dir', fat, disk', FCB', FUB', Q)
  BY <1>12, <1>15, <1>16, <1>17 DEF Sound
<1> QED
  BY <1>2, <1>8, <1>10, <1>11, <1>18 DEF IInv

LEMMA CloseFileIInv == ASSUME IInv, NEW h \in Handle, CloseFile(h) PROVE IInv'
<1>1. CASE ~Used(h)
  BY <1>1, FailedIInv DEF CloseFile
<1>2. CASE Used(h)
  <2>1. Closing({h}) /\ UNCHANGED <<fat, data>> /\ \A g \in {h} : g \in Handle /\ Used(g)
    BY <1>2 DEF CloseFile
  <2> QED
    BY <2>1, ClosingIInv
<1> QED
  BY <1>1, <1>2

LEMMA JobAbortIInv == ASSUME IInv, NEW job \in Job, JobAbort(job) PROVE IInv'
<1> DEFINE H == {h \in Handle : FUB[h].Job = job}
<1>1. Closing(H) /\ UNCHANGED <<fat, data>> /\ \A g \in H : g \in Handle /\ Used(g)
  BY FileSysAssumption DEF JobAbort, Used
<1> HIDE DEF H
<1> QED
  BY <1>1, ClosingIInv

-----------------------------------------------------------------------------
(* Deleting and creating. *)

\* The handle h, whose FCB is i, deletes the file s of the chains Q.
Deletes(h, i, s, Q) ==
    /\ IInv /\ h \in Handle /\ Used(h) /\ FileOf(h).Mode # 0 /\ DeleteFile(h)
    /\ i = FUB[h].iFCB /\ s = FCB[i].slot
    /\ Q \in [Slot -> Seq(Clstr)] /\ Sound(Dir, fat, disk, FCB, FUB, Q)

\* The FAT f has become g: the clusters C are free, and the others are as they were.
Freed(f, g, C) == (\A c \in C : g[c] = 0) /\ \A c \in Clstr \ C : g[c] = f[c]

\* What deleting a file does: its chain is freed, and no other is touched.
LEMMA DeletingFAT ==
    ASSUME NEW h, NEW i, NEW s, NEW Q, Deletes(h, i, s, Q)
    PROVE  /\ fat' \in Fats /\ disk' = fat' /\ data' = data
           /\ ret' = Done(<<"DeleteFile", h>>) /\ Freed(fat, fat', On(Q[s]))
<1> USE DEF Deletes
<1>3. PICK start : FileOf(h) = FCB[i] /\ start = FCB[i].ent.StartClstr
  BY DEF FileOf
<1>1. /\ i \in FCBs /\ FCB[i].nUsers = 1 /\ FCB[i].Mode = 1
      /\ s \in Files(Dir) /\ Users(FUB, i) = {h} /\ start = Dir[s].StartClstr
  BY <1>3, ModifierIs
<1>2. /\ Dir \in [Slot -> EntRec] /\ FCB \in [FCBs -> FCBRec] /\ FUB \in [Handle -> FUBRec]
      /\ Counted(FCB, FUB) /\ Opened(Dir, FCB) /\ fat \in Fats
      /\ data \in [Clstr -> [0 .. SecPerClstr - 1 -> Val]]
      /\ s \in Slot /\ Files(Dir) \subseteq Slot
  BY <1>1 DEF IInv, Tables, Files
<1>4. PICK t : t = TruncClstrChain(fat, start)
  OBVIOUS
<1>5. /\ fat' = IF t.erc = "ok" THEN [t.fat EXCEPT ![start] = 0] ELSE t.fat
      /\ disk' = fat' /\ UNCHANGED data
  BY <1>4, <1>3 DEF DeleteFile
<1>6. /\ t.erc = "ok" /\ t.fat \in Fats /\ start \in On(Q[s])
      /\ \A c \in On(Q[s]) \ {start} : t.fat[c] = 0
      /\ \A c \in Clstr \ On(Q[s]) : t.fat[c] = fat[c]
  <2> DEFINE q == Q[s]
             f == fat
  <2>1. Line(f, start, q) /\ f \in Fats
    BY <1>1, <1>2 DEF Sound, Chains
  <2>2. Len(q) \in Nat \ {0} /\ q[1] = start
    BY <2>1 DEF Line
  <2>3. PICK p \in 1 .. Len(q) : p = 1
    BY <2>2
  <2>4. t = TruncClstrChain(f, q[p])
    BY <1>4, <2>2, <2>3
  <2> HIDE DEF q, f
  <2>9. t.erc = "ok" /\ \E r : Line(t.fat, start, r) /\ Reshaped(f, q, t.fat, r) /\ Len(r) = p
    BY <2>1, <2>4, TruncEffect
  <2>5. PICK r : Line(t.fat, start, r) /\ Reshaped(f, q, t.fat, r) /\ Len(r) = 1
    BY <2>3, <2>9
  <2>6. On(r) = {start} /\ start \in On(q)
    BY <2>2, <2>3, <2>5 DEF Line, On, From
  <2>7. \A c \in Clstr \ On(q) : c \notin On(r)
    BY <2>6
  <2> QED
    BY <2>5, <2>6, <2>7, <2>9 DEF Reshaped, q, f
<1>7. /\ fat' \in Fats
      /\ \A c \in On(Q[s]) : fat'[c] = 0
      /\ \A c \in Clstr \ On(Q[s]) : fat'[c] = fat[c]
  <2>1. fat' = [t.fat EXCEPT ![start] = 0]
    BY <1>5, <1>6
  <2>2. Line(fat, start, Q[s])
    BY <1>1 DEF Sound, Chains
  <2>3. start \in Clstr
    BY <1>6, <2>2, OnNotFree
  <2> QED
    BY <1>6, <2>1, <2>3 DEF Fats
<1>8. ret' = Done(<<"DeleteFile", h>>)
  BY <1>3, <1>4, <1>6 DEF DeleteFile
<1> QED
  BY <1>5, <1>7, <1>8 DEF Freed

\* Its entry, its FCB and its handle are cleared, and no other.
LEMMA DeletingIs ==
    ASSUME NEW h, NEW i, NEW s, NEW Q, Deletes(h, i, s, Q)
    PROVE  /\ i \in FCBs /\ s \in Slot /\ s \in Files(Dir) /\ Users(FUB, i) = {h}
           /\ Dir' \in [Slot -> EntRec] /\ Dir'[s] = NoFile
           /\ \A u \in Slot \ {s} : Dir'[u] = Dir[u]
           /\ Files(Dir') = Files(Dir) \ {s}
           /\ FCB' \in [FCBs -> FCBRec] /\ FCB'[i] = FreeFCB
           /\ \A j \in FCBs \ {i} : FCB'[j] = FCB[j]
           /\ FUB' \in [Handle -> FUBRec] /\ FUB'[h] = FreeFUB
           /\ \A g \in Handle \ {h} : FUB'[g] = FUB[g]
           /\ \A j \in FCBs : FCB'[j].nUsers > 0 =>
                    /\ FCB'[j] = FCB[j] /\ FCB[j].slot \in Files(Dir) /\ FCB[j].slot # s
                    /\ Dir'[FCB[j].slot] = Dir[FCB[j].slot]
           /\ \A u \in Files(Dir') : /\ u \in Files(Dir) /\ u # s /\ Dir'[u] = Dir[u]
                                     /\ \A c \in On(Q[u]) : c \in Clstr /\ fat'[c] = fat[c]
<1>7. Freed(fat, fat', On(Q[s]))
  BY DeletingFAT
<1> USE DEF Deletes
<1>3. PICK start : FileOf(h) = FCB[i] /\ start = FCB[i].ent.StartClstr
  BY DEF FileOf
<1>1. /\ i \in FCBs /\ FCB[i].nUsers = 1 /\ FCB[i].Mode = 1
      /\ s \in Files(Dir) /\ Users(FUB, i) = {h} /\ start = Dir[s].StartClstr
  BY <1>3, ModifierIs
<1>2. /\ Dir \in [Slot -> EntRec] /\ FCB \in [FCBs -> FCBRec] /\ FUB \in [Handle -> FUBRec]
      /\ Counted(FCB, FUB) /\ Opened(Dir, FCB) /\ fat \in Fats
      /\ data \in [Clstr -> [0 .. SecPerClstr - 1 -> Val]]
      /\ s \in Slot /\ Files(Dir) \subseteq Slot
  BY <1>1 DEF IInv, Tables, Files
<1>5. /\ Dir' = UpdateDirEnt(Dir, [FCB[i] EXCEPT !.ent = NoFile])
      /\ FCB' = [FCB EXCEPT ![i] = Cleared([FCB[i] EXCEPT !.nUsers = @ - 1])]
      /\ FUB' = [FUB EXCEPT ![h] = FreeFUB]
  BY <1>3 DEF DeleteFile
<1>8. NoFile \in EntRec /\ FreeFCB \in FCBRec /\ FreeFUB \in FUBRec
  <2>1. 1 \in Slot /\ 0 \in FCBs
    BY FileSysAssumption DEF Slot, FCBs
  <2>2. NoFile \in EntRec
    BY FileSysAssumption DEF NoFile, EntRec
  <2> QED
    BY <2>1, <2>2 DEF FreeFCB, FCBRec, FreeFUB, FUBRec
<1>9. /\ Dir' \in [Slot -> EntRec] /\ Dir'[s] = NoFile
      /\ \A u \in Slot \ {s} : Dir'[u] = Dir[u]
  <2>1. [FCB[i] EXCEPT !.ent = NoFile].ent = NoFile
        /\ [FCB[i] EXCEPT !.ent = NoFile].slot = s
    BY <1>1, <1>2, <1>3 DEF FCBRec
  <2>2. Dir' = [Dir EXCEPT ![s] = NoFile]
    BY <1>5, <2>1 DEF UpdateDirEnt
  <2> QED
    BY <1>2, <1>8, <2>2
<1>10. Files(Dir') = Files(Dir) \ {s}
  BY <1>2, <1>9 DEF Files, NoFile
<1>11. /\ FCB' \in [FCBs -> FCBRec] /\ FCB'[i] = FreeFCB
       /\ \A j \in FCBs \ {i} : FCB'[j] = FCB[j]
  <2>1. [FCB[i] EXCEPT !.nUsers = @ - 1].nUsers = 0
    BY <1>1, <1>2 DEF FCBRec
  <2>2. Cleared([FCB[i] EXCEPT !.nUsers = @ - 1]) = FreeFCB
    BY <2>1 DEF Cleared
  <2>3. FCB' = [FCB EXCEPT ![i] = FreeFCB]
    BY <1>5, <2>2
  <2> QED
    BY <1>1, <1>2, <1>8, <2>3
<1>12. /\ FUB' \in [Handle -> FUBRec] /\ FUB'[h] = FreeFUB
       /\ \A g \in Handle \ {h} : FUB'[g] = FUB[g]
  BY <1>2, <1>5, <1>8
\* What is still open is another file.
<1>14. ASSUME NEW j \in FCBs, FCB'[j].nUsers > 0
       PROVE  /\ FCB'[j] = FCB[j] /\ FCB[j].slot \in Files(Dir) /\ FCB[j].slot # s
              /\ Dir'[FCB[j].slot] = Dir[FCB[j].slot]
  <2>1. j # i
    BY <1>11, <1>14 DEF FreeFCB
  <2>2. FCB'[j] = FCB[j] /\ FCB[j].nUsers > 0
    BY <1>11, <1>14, <2>1
  <2>3. FCB[j].slot \in Files(Dir) /\ FCB[j].slot # s
    BY <1>1, <1>2, <1>3, <2>1, <2>2 DEF Opened
  <2> QED
    BY <1>2, <1>9, <2>2, <2>3
<1>13. \A u \in Files(Dir') : /\ u \in Files(Dir) /\ u # s /\ Dir'[u] = Dir[u]
                              /\ \A c \in On(Q[u]) : c \in Clstr /\ fat'[c] = fat[c]
  <2> SUFFICES ASSUME NEW u \in Files(Dir')
               PROVE  /\ u \in Files(Dir) /\ u # s /\ Dir'[u] = Dir[u]
                      /\ \A c \in On(Q[u]) : c \in Clstr /\ fat'[c] = fat[c]
    OBVIOUS
  <2>1. u \in Files(Dir) /\ u # s /\ Dir'[u] = Dir[u]
    BY <1>2, <1>9, <1>10
  <2>2. Line(fat, Dir[u].StartClstr, Q[u]) /\ On(Q[u]) \cap On(Q[s]) = {}
    BY <1>1, <1>3, <2>1 DEF Sound, Chains
  <2>3. \A c \in On(Q[u]) : c \in Clstr
    BY <2>2, OnNotFree
  <2> QED
    BY <1>7, <2>1, <2>2, <2>3 DEF Freed
<1> QED
  BY <1>1, <1>2, <1>9, <1>10, <1>11, <1>12, <1>13, <1>14

LEMMA DeleteFileIInv == ASSUME IInv, NEW h \in Handle, DeleteFile(h) PROVE IInv'
<1>1. CASE ~Used(h)
  BY <1>1, FailedIInv DEF DeleteFile
<1>2. CASE Used(h) /\ FileOf(h).Mode = 0
  <2>1. Closing({h}) /\ UNCHANGED <<fat, data>> /\ \A g \in {h} : g \in Handle /\ Used(g)
    BY <1>2 DEF DeleteFile
  <2> QED
    BY <2>1, ClosingIInv
<1>3. CASE Used(h) /\ FileOf(h).Mode # 0
  <2>4. PICK i, s : i = FUB[h].iFCB /\ s = FCB[i].slot
    OBVIOUS
  <2>3. PICK Q \in [Slot -> Seq(Clstr)] : Sound(Dir, fat, disk, FCB, FUB, Q)
    BY DEF IInv
  <2>5. Deletes(h, i, s, Q)
    BY <1>3, <2>3, <2>4 DEF Deletes
  <2>1. /\ i \in FCBs /\ s \in Slot /\ s \in Files(Dir) /\ Users(FUB, i) = {h}
        /\ disk' = fat' /\ data' = data
        /\ fat' \in Fats /\ \A c \in On(Q[s]) : fat'[c] = 0
        /\ Dir' \in [Slot -> EntRec] /\ Files(Dir') = Files(Dir) \ {s}
        /\ FCB' \in [FCBs -> FCBRec] /\ FCB'[i] = FreeFCB
        /\ \A j \in FCBs \ {i} : FCB'[j] = FCB[j]
        /\ FUB' \in [Handle -> FUBRec] /\ FUB'[h] = FreeFUB
        /\ \A g \in Handle \ {h} : FUB'[g] = FUB[g]
        /\ \A c \in Clstr \ On(Q[s]) : fat'[c] = fat[c]
    <3>1. /\ i \in FCBs /\ s \in Slot /\ s \in Files(Dir) /\ Users(FUB, i) = {h}
          /\ Dir' \in [Slot -> EntRec] /\ Files(Dir') = Files(Dir) \ {s}
          /\ FCB' \in [FCBs -> FCBRec] /\ FCB'[i] = FreeFCB
          /\ FUB' \in [Handle -> FUBRec] /\ FUB'[h] = FreeFUB
      BY <2>5, DeletingIs
    <3>2. /\ \A j \in FCBs \ {i} : FCB'[j] = FCB[j]
          /\ \A g \in Handle \ {h} : FUB'[g] = FUB[g]
      BY <2>5, DeletingIs
    <3>3. /\ fat' \in Fats /\ disk' = fat' /\ data' = data
          /\ Freed(fat, fat', On(Q[s]))
      BY <2>5, DeletingFAT
    <3> QED
      BY <3>1, <3>2, <3>3 DEF Freed
  <2>2. /\ Dir \in [Slot -> EntRec] /\ FCB \in [FCBs -> FCBRec] /\ FUB \in [Handle -> FUBRec]
        /\ Counted(FCB, FUB) /\ Opened(Dir, FCB)
        /\ data \in [Clstr -> [0 .. SecPerClstr - 1 -> Val]]
    BY DEF IInv, Tables
  <2>13. Tables(Dir', fat', disk', data, FCB', FUB')
    BY <2>1, <2>2 DEF Tables
  \* What is still open is another file.
  <2>14. \A j \in FCBs : FCB'[j].nUsers > 0 =>
                /\ FCB'[j] = FCB[j] /\ FCB[j].slot \in Files(Dir) /\ FCB[j].slot # s
                /\ Dir'[FCB[j].slot] = Dir[FCB[j].slot]
    BY <2>5, DeletingIs
  <2>17. \A u \in Files(Dir') : /\ u \in Files(Dir) /\ u # s /\ Dir'[u] = Dir[u]
                                /\ \A c \in On(Q[u]) : c \in Clstr /\ fat'[c] = fat[c]
    BY <2>5, DeletingIs
  <2>15. Opened(Dir', FCB')
    <3>1. ASSUME NEW j \in FCBs, FCB'[j].nUsers > 0
          PROVE  /\ FCB'[j].slot \in Files(Dir')
                 /\ FCB'[j].ent.Name = Dir'[FCB'[j].slot].Name
                 /\ FCB'[j].ent.StartClstr = Dir'[FCB'[j].slot].StartClstr
                 /\ FCB'[j].Mode = 0 => FCB'[j].ent = Dir'[FCB'[j].slot]
                 /\ FCB'[j].Mode = 1 => FCB'[j].nUsers = 1
      BY <2>1, <2>2, <2>14, <3>1 DEF Opened
    <3>2. ASSUME NEW j \in FCBs, NEW k \in FCBs, FCB'[j].nUsers > 0, FCB'[k].nUsers > 0,
                 FCB'[k].slot = FCB'[j].slot
          PROVE  j = k
      BY <2>2, <2>14, <3>2 DEF Opened
    <3> QED
      BY <3>1, <3>2 DEF Opened
  <2>16. Counted(FCB', FUB')
    <3>1. Users(FUB', i) = {}
      BY <2>1 DEF Users, FreeFUB
    <3>2. ASSUME NEW j \in FCBs, j # i PROVE Users(FUB', j) = Users(FUB, j)
      <4>1. h \notin Users(FUB, j)
        BY <2>4, <3>2 DEF Users
      <4> QED
        BY <2>1, <4>1 DEF Users, FreeFUB
    <3> QED
      <4>1. FCB'[i].nUsers = Cardinality(Users(FUB', i))
        BY <2>1, <3>1, FS_EmptySet DEF FreeFCB
      <4>2. ASSUME NEW j \in FCBs, j # i PROVE FCB'[j].nUsers = Cardinality(Users(FUB', j))
        BY <2>1, <2>2, <3>2, <4>2 DEF Counted
      <4> QED
        BY <4>1, <4>2 DEF Counted
  <2>18. Chains(Dir', fat', Q)
    <3>1. ASSUME NEW u \in Files(Dir') PROVE Line(fat', Dir'[u].StartClstr, Q[u])
      <4>1. Line(fat, Dir[u].StartClstr, Q[u])
        BY <2>3, <2>17 DEF Sound, Chains
      <4> QED
        BY <2>17, <4>1, LineSame
    <3>2. \A u, v \in Files(Dir') : u # v => On(Q[u]) \cap On(Q[v]) = {}
      BY <2>3, <2>17 DEF Sound, Chains
    <3>3. ASSUME NEW c \in Clstr, fat'[c] # 0 PROVE \E u \in Files(Dir') : c \in On(Q[u])
      <4>1. c \notin On(Q[s]) /\ fat[c] # 0
        BY <2>1, <3>3
      <4> QED
        BY <2>1, <2>3, <4>1 DEF Sound, Chains
    <3> QED
      BY <3>1, <3>2, <3>3 DEF Chains
  <2>19. ASSUME NEW u \in Files(Dir'), ~Busy(FCB', u) PROVE ~Busy(FCB, u)
    <3> SUFFICES ASSUME NEW j \in FCBs, FCB[j].nUsers > 0, FCB[j].slot = u, FCB[j].Mode = 1
                 PROVE  FALSE
      BY DEF Busy
    <3>1. j # i
      BY <2>17, <2>4
    <3>2. FCB'[j] = FCB[j]
      BY <2>1, <3>1
    <3> QED
      BY <2>19, <3>2 DEF Busy
  <2>20. Long(Dir', FCB', Q)
    <3>1. ASSUME NEW u \in Files(Dir'), ~Busy(FCB', u)
          PROVE  nClstrs(Dir'[u].FileSize) <= Len(Q[u])
      BY <2>3, <2>17, <2>19, <3>1 DEF Sound, Long
    <3>2. ASSUME NEW j \in FCBs, FCB'[j].nUsers > 0
          PROVE  nClstrs(FCB'[j].ent.FileSize) <= Len(Q[FCB'[j].slot])
      BY <2>3, <2>14, <3>2 DEF Sound, Long
    <3> QED
      BY <3>1, <3>2 DEF Long
  <2>21. Helpers(FCB', FUB', Q)
    <3> SUFFICES ASSUME NEW g \in Handle, FUB'[g].Job # "free"
                 PROVE  InFile(FUB'[g], Q[FCB'[FUB'[g].iFCB].slot])
      BY DEF Helpers
    <3>1. g # h
      BY <2>1 DEF FreeFUB
    <3>2. FUB'[g] = FUB[g] /\ FUB[g].Job # "free" /\ FUB[g].iFCB \in FCBs
      BY <2>1, <2>2, <3>1 DEF FUBRec
    <3>3. FUB[g].iFCB # i
      BY <2>1, <3>1, <3>2 DEF Users
    <3>4. FCB'[FUB[g].iFCB] = FCB[FUB[g].iFCB]
      BY <2>1, <3>2, <3>3
    <3>5. InFile(FUB[g], Q[FCB[FUB[g].iFCB].slot])
      BY <2>3, <3>2 DEF Sound, Helpers
    <3> QED
      BY <3>2, <3>4, <3>5
  <2>22. Saved(Dir', fat', disk', FCB', Q)
    BY <2>1 DEF Saved
  <2>23. Sound(Dir', fat', disk', FCB', FUB', Q)
    BY <2>18, <2>20, <2>21, <2>22 DEF Sound
  <2> QED
    BY <2>1, <2>13, <2>15, <2>16, <2>23 DEF IInv
<1> QED
  BY <1>1, <1>2, <1>3

\* What creating a file does: a cluster that was free becomes the chain of the file at
\* an entry that had none.
Creating(n, ro, s, c) ==
    /\ Entries("none") # {} /\ s = Lowest(Entries("none"))
    /\ \E start \in Starts : Tried(start) # {} /\ c = Lowest(Tried(start))
    /\ Dir' = [Dir EXCEPT ![s] = [Name |-> n, ReadOnly |-> ro, StartClstr |-> c, FileSize |-> 0]]
    /\ fat' = [fat EXCEPT ![c] = EOF]
    /\ disk' = fat' /\ ret' = Done(<<"CreateFile", n>>) /\ UNCHANGED <<data, FCB, FUB>>

LEMMA CreateFileIs ==
    ASSUME NEW n \in Name, NEW ro \in Attrs, CreateFile(n, ro)
    PROVE  \/ /\ disk' = fat /\ ret' = Returned("ErcDupName")
              /\ UNCHANGED <<Dir, fat, data, FCB, FUB>>
           \/ \E e : e # "ok" /\ Failed(e)
           \/ OpenErc(n, 0) = "ErcNoSuchFile" /\ \E s, c : Creating(n, ro, s, c)
<1> DEFINE erc == OpenErc(n, 0)
<1>1. CASE erc = "ErcNoSuchFile" /\ Entries("none") # {}
  <2>1. PICK start \in Starts :
          IF Tried(start) = {} THEN Failed("ErcDiskFull")
          ELSE LET c == Lowest(Tried(start))
               IN  /\ Dir' = [Dir EXCEPT ![Lowest(Entries("none"))] =
                          [Name |-> n, ReadOnly |-> ro, StartClstr |-> c, FileSize |-> 0]]
                   /\ fat' = [fat EXCEPT ![c] = EOF]
                   /\ disk' = fat'
                   /\ ret' = Done(<<"CreateFile", n>>)
                   /\ UNCHANGED <<data, FCB, FUB>>
    BY <1>1 DEF CreateFile
  <2>2. CASE Tried(start) = {}
    BY <2>1, <2>2
  <2>3. CASE Tried(start) # {}
    <3>1. Creating(n, ro, Lowest(Entries("none")), Lowest(Tried(start)))
      BY <1>1, <2>1, <2>3 DEF Creating
    <3> QED
      BY <1>1, <3>1
  <2> QED
    BY <2>2, <2>3
<1>2. CASE ~(erc = "ErcNoSuchFile" /\ Entries("none") # {})
  BY <1>2 DEF CreateFile
<1> QED
  BY <1>1, <1>2

LEMMA CreatingIs ==
    ASSUME IInv, NEW n \in Name, NEW ro \in Attrs, NEW s, NEW c, Creating(n, ro, s, c),
           NEW Q \in [Slot -> Seq(Clstr)], Sound(Dir, fat, disk, FCB, FUB, Q)
    PROVE  /\ s \in Slot /\ c \in Clstr /\ fat[c] = 0 /\ fat' \in Fats /\ fat'[c] = EOF
           /\ \A d \in Clstr \ {c} : fat'[d] = fat[d]
           /\ Dir' \in [Slot -> EntRec] /\ \A u \in Slot \ {s} : Dir'[u] = Dir[u]
           /\ Dir'[s].Name = n /\ Dir'[s].StartClstr = c /\ Dir'[s].FileSize = 0
           /\ Files(Dir') = Files(Dir) \cup {s} /\ s \notin Files(Dir)
           /\ \A u \in Files(Dir) : /\ u # s /\ u \in Slot /\ Dir'[u] = Dir[u]
                                    /\ c \notin On(Q[u]) /\ \A d \in On(Q[u]) : fat'[d] = fat[d]
<1>1. Dir \in [Slot -> EntRec] /\ fat \in Fats
  BY DEF IInv, Tables
<1>2. PICK start \in Starts : Tried(start) # {} /\ c = Lowest(Tried(start))
  BY DEF Creating
<1>3. PICK E : E = [Name |-> n, ReadOnly |-> ro, StartClstr |-> c, FileSize |-> 0]
  OBVIOUS
<1>4. s \in Slot /\ Dir[s].Name = "none"
  <2>1. Entries("none") \subseteq Nat
    BY DEF Entries, Slot
  <2> QED
    BY <2>1, LowestIn DEF Entries, Creating
<1>5. c \in Clstr /\ fat[c] = 0
  <2>1. ASSUME NEW d \in Tried(start) PROVE d \in Clstr /\ fat[d] = 0
    <3>1. start \in Clstr /\ LastClstr \in Nat
      BY FileSysAssumption DEF Starts, Clstr
    <3> QED
      BY <2>1, <3>1 DEF Tried, Clstr
  <2>2. Tried(start) \subseteq Nat
    BY <2>1, EndMark
  <2> QED
    BY <1>2, <2>1, <2>2, LowestIn
<1>6. E \in EntRec /\ n # "none"
  BY <1>3, <1>5, FileSysAssumption DEF EntRec
<1>7. /\ Dir' \in [Slot -> EntRec] /\ Dir'[s] = E /\ \A u \in Slot \ {s} : Dir'[u] = Dir[u]
  BY <1>1, <1>3, <1>4, <1>6 DEF Creating
<1>8. E.Name = n /\ E.StartClstr = c /\ E.FileSize = 0
  BY <1>3
<1>9. /\ fat' \in Fats /\ fat'[c] = EOF /\ \A d \in Clstr \ {c} : fat'[d] = fat[d]
  BY <1>1, <1>5 DEF Fats, Creating
<1>10. /\ Files(Dir') = Files(Dir) \cup {s} /\ s \notin Files(Dir)
       /\ Files(Dir) \subseteq Slot
  BY <1>4, <1>6, <1>7, <1>8 DEF Files
<1>11. ASSUME NEW u \in Files(Dir)
       PROVE  /\ u # s /\ u \in Slot /\ Dir'[u] = Dir[u]
              /\ c \notin On(Q[u]) /\ \A d \in On(Q[u]) : fat'[d] = fat[d]
  <2>1. u # s /\ u \in Slot /\ Dir'[u] = Dir[u]
    BY <1>7, <1>10
  <2>2. \A d \in On(Q[u]) : d \in Clstr /\ fat[d] # 0
    BY OnNotFree DEF Sound, Chains
  <2> QED
    BY <1>5, <1>9, <2>1, <2>2
<1> QED
  BY <1>4, <1>5, <1>7, <1>8, <1>9, <1>10, <1>11

LEMMA CreateFileIInv ==
    ASSUME IInv, NEW n \in Name, NEW ro \in Attrs, CreateFile(n, ro)
    PROVE  IInv'
<1>1. CASE disk' = fat /\ UNCHANGED <<Dir, fat, data, FCB, FUB>>
  <2>1. fat \in Fats
    BY DEF IInv, Tables
  <2> QED
    BY <1>1, <2>1, DiskIInv
<1>2. CASE \E e : Failed(e)
  BY <1>2, FailedIInv
<1>3. ASSUME NEW s, NEW c, Creating(n, ro, s, c) PROVE IInv'
  <2>1. /\ Dir \in [Slot -> EntRec] /\ FCB \in [FCBs -> FCBRec] /\ FUB \in [Handle -> FUBRec]
        /\ Counted(FCB, FUB) /\ Opened(Dir, FCB) /\ fat \in Fats
        /\ data \in [Clstr -> [0 .. SecPerClstr - 1 -> Val]]
    BY DEF IInv, Tables
  <2>2. disk' = fat' /\ UNCHANGED <<data, FCB, FUB>>
    BY <1>3 DEF Creating
  <2>13. PICK Q \in [Slot -> Seq(Clstr)] : Sound(Dir, fat, disk, FCB, FUB, Q)
    BY DEF IInv
  <2>7. /\ s \in Slot /\ c \in Clstr /\ fat' \in Fats /\ fat'[c] = EOF
        /\ \A d \in Clstr \ {c} : fat'[d] = fat[d]
        /\ Dir' \in [Slot -> EntRec] /\ \A u \in Slot \ {s} : Dir'[u] = Dir[u]
        /\ Dir'[s].StartClstr = c /\ Dir'[s].FileSize = 0
        /\ Files(Dir') = Files(Dir) \cup {s} /\ s \notin Files(Dir) /\ Files(Dir) \subseteq Slot
    BY <1>3, <2>13, CreatingIs DEF Files
  <2>8. \A u \in Files(Dir) : /\ u # s /\ u \in Slot /\ Dir'[u] = Dir[u]
                             /\ c \notin On(Q[u]) /\ \A d \in On(Q[u]) : fat'[d] = fat[d]
    BY <1>3, <2>13, CreatingIs
  <2>11. Tables(Dir', fat', disk', data, FCB, FUB)
    BY <2>1, <2>2, <2>7 DEF Tables
  <2>12. Opened(Dir', FCB)
    <3>1. \A j \in FCBs : FCB[j].nUsers > 0 =>
                /\ FCB[j].slot \in Files(Dir') /\ Dir'[FCB[j].slot] = Dir[FCB[j].slot]
      BY <2>1, <2>7 DEF Opened
    <3> QED
      BY <2>1, <3>1 DEF Opened
  <2> DEFINE r == <<c>>
             R == [Q EXCEPT ![s] = r]
  <2>14. /\ r \in Seq(Clstr) /\ Len(r) = 1 /\ r[1] = c /\ On(r) = {c}
    BY <2>7 DEF On, From
  <2> HIDE DEF r
  <2>15. /\ R \in [Slot -> Seq(Clstr)] /\ R[s] = r /\ \A u \in Slot \ {s} : R[u] = Q[u]
    BY <2>7, <2>14
  <2> HIDE DEF R
  <2>16. Line(fat', c, r)
    BY <2>7, <2>14 DEF Line
  <2>17. ASSUME NEW u \in Files(Dir)
         PROVE  /\ u # s /\ u \in Slot /\ R[u] = Q[u] /\ Dir'[u] = Dir[u]
                /\ c \notin On(Q[u]) /\ \A d \in On(Q[u]) : fat'[d] = fat[d]
    BY <2>8, <2>15
  <2>18. Chains(Dir', fat', R)
    <3>1. ASSUME NEW u \in Files(Dir') PROVE Line(fat', Dir'[u].StartClstr, R[u])
      <4>1. CASE u = s
        BY <2>7, <2>15, <2>16, <4>1
      <4>2. CASE u # s
        <5>1. u \in Files(Dir)
          BY <2>7, <4>2
        <5>2. Line(fat, Dir[u].StartClstr, Q[u])
          BY <2>13, <5>1 DEF Sound, Chains
        <5>3. Line(fat', Dir[u].StartClstr, Q[u])
          BY <2>17, <5>1, <5>2, LineSame
        <5> QED
          BY <2>17, <5>1, <5>3
      <4> QED
        BY <4>1, <4>2
    <3>2. ASSUME NEW u \in Files(Dir'), NEW v \in Files(Dir'), u # v
          PROVE  On(R[u]) \cap On(R[v]) = {}
      <4>1. CASE u = s
        BY <2>7, <2>14, <2>15, <2>17, <3>2, <4>1
      <4>2. CASE v = s
        BY <2>7, <2>14, <2>15, <2>17, <3>2, <4>2
      <4>3. CASE u # s /\ v # s
        BY <2>7, <2>13, <2>17, <3>2, <4>3 DEF Sound, Chains
      <4> QED
        BY <4>1, <4>2, <4>3
    <3>3. ASSUME NEW d \in Clstr, fat'[d] # 0 PROVE \E u \in Files(Dir') : d \in On(R[u])
      <4>1. CASE d = c
        BY <2>7, <2>14, <2>15, <4>1
      <4>2. CASE d # c
        <5>1. fat[d] # 0
          BY <2>7, <3>3, <4>2
        <5>2. PICK u \in Files(Dir) : d \in On(Q[u])
          BY <2>13, <5>1 DEF Sound, Chains
        <5> QED
          BY <2>7, <2>17, <5>2
      <4> QED
        BY <4>1, <4>2
    <3> QED
      BY <3>1, <3>2, <3>3 DEF Chains
  <2>19. Long(Dir', FCB, R)
    <3>1. ASSUME NEW u \in Files(Dir'), ~Busy(FCB, u)
          PROVE  nClstrs(Dir'[u].FileSize) <= Len(R[u])
      <4>1. CASE u = s
        <5>1. nClstrs(0) = 1
          BY DEF nClstrs
        <5>2. Dir'[u].FileSize = 0 /\ Len(R[u]) = 1
          BY <2>7, <2>14, <2>15, <4>1
        <5> QED
          BY <5>1, <5>2
      <4>2. CASE u # s
        <5>1. u \in Files(Dir)
          BY <2>7, <4>2
        <5>2. nClstrs(Dir[u].FileSize) <= Len(Q[u])
          BY <2>13, <3>1, <5>1 DEF Sound, Long
        <5> QED
          BY <2>17, <5>1, <5>2
      <4> QED
        BY <4>1, <4>2
    <3>2. ASSUME NEW j \in FCBs, FCB[j].nUsers > 0
          PROVE  nClstrs(FCB[j].ent.FileSize) <= Len(R[FCB[j].slot])
      <4>1. FCB[j].slot \in Files(Dir)
        BY <2>1, <3>2 DEF Opened
      <4>2. nClstrs(FCB[j].ent.FileSize) <= Len(Q[FCB[j].slot])
        BY <2>13, <3>2 DEF Sound, Long
      <4> QED
        BY <2>17, <4>1, <4>2
    <3> QED
      BY <3>1, <3>2 DEF Long
  <2>20. Helpers(FCB, FUB, R)
    <3> SUFFICES ASSUME NEW g \in Handle, FUB[g].Job # "free"
                 PROVE  InFile(FUB[g], R[FCB[FUB[g].iFCB].slot])
      BY DEF Helpers
    <3>1. FUB[g].iFCB \in FCBs
      BY <2>1 DEF FUBRec
    <3>2. FCB[FUB[g].iFCB].nUsers > 0
      BY <2>1, <3>1, UsedCounts
    <3>3. FCB[FUB[g].iFCB].slot \in Files(Dir)
      BY <2>1, <3>1, <3>2 DEF Opened
    <3>4. InFile(FUB[g], Q[FCB[FUB[g].iFCB].slot])
      BY <2>13 DEF Sound, Helpers
    <3> QED
      BY <2>17, <3>3, <3>4
  <2>21. Saved(Dir', fat', disk', FCB, R)
    BY <2>2 DEF Saved
  <2>22. Sound(Dir', fat', disk', FCB, FUB, R)
    BY <2>18, <2>19, <2>20, <2>21 DEF Sound
  <2> QED
    BY <2>1, <2>2, <2>11, <2>12, <2>15, <2>22 DEF IInv
<1> QED
  BY <1>1, <1>2, <1>3, CreateFileIs

-----------------------------------------------------------------------------
(* The theorems, about programs that read inside of the size of a file and *)
(* make no file shorter than where their handle is.                        *)

AsAddressed == ~ReadsPast /\ ~CutsBehind

LEMMA NextIInv == ASSUME AsAddressed, IInv, [Next]_vars PROVE IInv'
<1>1. CASE UNCHANGED vars
  BY <1>1 DEF vars, IInv
<1>2. ASSUME NEW s \in 0 .. LastClstr \div PerSect, UpdateFAT(s) PROVE IInv'
  BY <1>2, UpdateFATIInv
<1>3. ASSUME NEW j \in Job, JobAbort(j) PROVE IInv'
  BY <1>3, JobAbortIInv
<1>4. ASSUME NEW j \in Job, NEW n \in Name, NEW mode \in {0, 1}, OpenFile(j, n, mode) PROVE IInv'
  BY <1>4, OpenFileIInv
<1>5. ASSUME NEW n \in Name, NEW ro \in Attrs, CreateFile(n, ro) PROVE IInv'
  BY <1>5, CreateFileIInv
<1>6. ASSUME NEW n \in Name, NEW new \in Name, RenameFile(n, new) PROVE IInv'
  BY <1>6, RenameFileIInv
<1>7. ASSUME NEW h \in Handle, CloseFile(h) PROVE IInv'
  BY <1>7, CloseFileIInv
<1>8. ASSUME NEW h \in Handle, DeleteFile(h) PROVE IInv'
  BY <1>8, DeleteFileIInv
<1>9. ASSUME NEW h \in Handle, NEW n \in Sizes, MaySetSize(h, n), SetFileSize(h, n) PROVE IInv'
  <2>1. Used(h) => FUB[h].relClstr < nClstrs(n)
    BY <1>9 DEF MaySetSize, AsAddressed
  <2> QED
    BY <1>9, <2>1, SetFileSizeIInv
<1>10. MaxSize \in Nat /\ \A b \in 0 .. MaxSize : b \in Nat
  <2>1. MaxSize \in Sizes \cup {0} /\ Sizes \subseteq Nat
    BY FileSysAssumption DEF MaxSize
  <2> QED
    BY <2>1
<1>11. ASSUME NEW h \in Handle, NEW b \in 0 .. MaxSize, NEW k \in 1 .. MaxBlks,
              MayRead(h, b, k), ReadBlock(h, b, k)
       PROVE  IInv'
  <2>1. Used(h) => b + k <= FileOf(h).ent.FileSize
    BY <1>11 DEF MayRead, AsAddressed
  <2>2. b \in Nat /\ k \in Nat \ {0}
    BY <1>10, FileSysAssumption
  <2> QED
    BY <1>11, <2>1, <2>2, ReadBlockIInv
<1>12. ASSUME NEW h \in Handle, NEW b \in 0 .. MaxSize, NEW k \in 1 .. MaxBlks, NEW v \in Val,
              WriteBlock(h, b, k, v)
       PROVE  IInv'
  <2>1. b \in Nat /\ k \in Nat \ {0}
    BY <1>10, FileSysAssumption
  <2> QED
    BY <1>12, <2>1, WriteBlockIInv
<1> QED
  BY <1>1, <1>2, <1>3, <1>4, <1>5, <1>6, <1>7, <1>8, <1>9, <1>11, <1>12 DEF Next

LEMMA IInvHolds == AsAddressed /\ Spec => []IInv
<1> SUFFICES ASSUME AsAddressed PROVE Spec => []IInv
  BY DEF AsAddressed
<1>1. Init => IInv
  BY InitIInv
<1>2. IInv /\ [Next]_vars => IInv'
  BY NextIInv
<1> QED
  BY <1>1, <1>2, PTL DEF Spec

\* The tables of the file system keep their types.
THEOREM TypeCorrect == AsAddressed /\ Spec => []TypeOK
BY IInvHolds, IInvTypeOK, PTL

\* Whatever was created, extended, cut and deleted (CreateFile, SetFileSize, DeleteFile),
\* in any order, no cluster is lost or in two files, and every file has all of its own.
THEOREM VolumesSound == AsAddressed /\ Spec => []VolumeSound
BY IInvHolds, IInvVolume, PTL

\* The cluster that a handle keeps, from which GetAbsoluteClstr starts without looking,
\* is the one of its file at the address kept with it.
THEOREM HelpersInFiles == AsAddressed /\ Spec => []HelperInFile
BY IInvHolds, IInvHelper, PTL

\* An FCB counts its FUBs, no file has two FCBs, and a file that is open to be modified has
\* one user: OpenFile, CloseFile, DeleteFile, RenameFile and JobAbort keep the counts.
THEOREM UsersAreCounted == AsAddressed /\ Spec => []UsersCounted
BY IInvHolds, IInvUsers, PTL

\* When the machine stops, nothing is lost of the files that are not open to be modified:
\* their entries and chains are on the disk.
THEOREM ClosedFilesOnDisk == AsAddressed /\ Spec => []ClosedIsOnDisk
BY IInvHolds, IInvOnDisk, PTL

-----------------------------------------------------------------------------
(* The files as FileStore sees them. *)

\* Entry, as a function of the directory D and the FCBs F.
Entered(D, F, s) ==
    LET users == {i \in FCBs : F[i].nUsers > 0 /\ F[i].slot = s}
    IN  IF users = {} THEN D[s] ELSE F[Lowest(users)].ent

\* The file with the entry E, in the FAT f and the blocks b.
BlockIn(E, f, b, k) ==
    LET c == Follow(f, E.StartClstr, k \div SecPerClstr)
    IN  IF c \in Clstr THEN b[c][k % SecPerClstr] ELSE 0
Stored(E, f, b) ==
    [Name |-> E.Name, blocks |-> [k \in 1 .. E.FileSize |-> BlockIn(E, f, b, k - 1)]]
Empty == [Name |-> "none", blocks |-> <<>>]

View(D, F, f, b) ==
    [s \in Slot |-> IF s \in Files(D) THEN Stored(Entered(D, F, s), f, b) ELSE Empty]
Places(F, U) == [h \in Handle |-> IF U[h].Job # "free" THEN F[U[h].iFCB].slot ELSE 0]

LEMMA ViewIs ==
    /\ StoredDir = View(Dir, FCB, fat, data) /\ StoredDir' = View(Dir', FCB', fat', data')
    /\ OpenedAt = Places(FCB, FUB) /\ OpenedAt' = Places(FCB', FUB')
<1>1. Live = Files(Dir) /\ Live' = Files(Dir')
  BY DEF Live, Files
<1>2. \A s : Entry(s) = Entered(Dir, FCB, s) /\ Entry(s)' = Entered(Dir', FCB', s)
  BY DEF Entry, Entered, Open
<1>3. StoredDir = View(Dir, FCB, fat, data)
  BY <1>1, <1>2 DEF StoredDir, Block, View, Stored, BlockIn, Empty
<1>4. StoredDir' = View(Dir', FCB', fat', data')
  BY <1>1, <1>2 DEF StoredDir, Block, View, Stored, BlockIn, Empty
<1>5. OpenedAt = Places(FCB, FUB) /\ OpenedAt' = Places(FCB', FUB')
  BY DEF OpenedAt, Places, Used, FileOf
<1> QED
  BY <1>3, <1>4, <1>5

\* The entry of a file is that of the FCB it has, if it has one.
LEMMA EnteredIs ==
    ASSUME NEW D, NEW F, Opened(D, F), NEW s
    PROVE  /\ \A i \in FCBs : F[i].nUsers > 0 /\ F[i].slot = s => Entered(D, F, s) = F[i].ent
           /\ (\A i \in FCBs : ~(F[i].nUsers > 0 /\ F[i].slot = s)) => Entered(D, F, s) = D[s]
<1> DEFINE users == {i \in FCBs : F[i].nUsers > 0 /\ F[i].slot = s}
<1>1. Entered(D, F, s) = IF users = {} THEN D[s] ELSE F[Lowest(users)].ent
  BY DEF Entered
<1>2. ASSUME NEW i \in FCBs, F[i].nUsers > 0 /\ F[i].slot = s PROVE Lowest(users) = i
  <2>1. users = {i}
    BY <1>2 DEF Opened
  <2>2. users # {} /\ users \subseteq Nat
    BY <2>1 DEF FCBs
  <2> QED
    BY <2>1, <2>2, LowestIn
<1> QED
  BY <1>1, <1>2

\* The blocks of a file are where its chain q leads.
LEMMA BlockAt ==
    ASSUME NEW f, NEW c, NEW q, Line(f, c, q),
           NEW n \in Nat, nClstrs(n) <= Len(q), NEW k \in Nat, k < n
    PROVE  /\ Follow(f, c, k \div SecPerClstr) = q[(k \div SecPerClstr) + 1]
           /\ q[(k \div SecPerClstr) + 1] \in On(q) /\ q[(k \div SecPerClstr) + 1] \in Clstr
           /\ k % SecPerClstr \in 0 .. SecPerClstr - 1
<1>1. SecPerClstr \in Nat \ {0} /\ nClstrs(n) \in Nat /\ Len(q) \in Nat /\ q[1] = c
  BY nClstrsType, FileSysAssumption DEF Line
<1>2. PICK w \in Nat : w = k \div SecPerClstr /\ w < nClstrs(n)
  BY ClstrsOfBlocks
<1>3. w + 1 \in 1 .. Len(q) /\ 1 + w <= Len(q) /\ 1 \in 1 .. Len(q) /\ 1 + w = w + 1
  BY <1>1, <1>2
<1>4. \A m \in Nat : Follow(f, q[1], m) = IF 1 + m <= Len(q) THEN q[1 + m] ELSE EOF
  BY <1>3, LineFollow
<1>5. Follow(f, c, w) = q[w + 1]
  BY <1>1, <1>3, <1>4
<1>6. q[w + 1] \in Clstr /\ q[w + 1] \in On(q)
  BY <1>3 DEF Line, On, From
<1>7. k % SecPerClstr \in 0 .. SecPerClstr - 1
  BY <1>1, Division
<1> QED
  BY <1>2, <1>5, <1>6, <1>7

Volume == [Clstr -> [0 .. SecPerClstr - 1 -> Val]]

LEMMA StoredIs ==
    ASSUME NEW E, NEW f, NEW b \in Volume, NEW q, Line(f, E.StartClstr, q),
           E.FileSize \in Nat, nClstrs(E.FileSize) <= Len(q)
    PROVE  /\ Stored(E, f, b).Name = E.Name
           /\ Stored(E, f, b).blocks \in [1 .. E.FileSize -> Val]
           /\ Len(Stored(E, f, b).blocks) = E.FileSize
           /\ \A k \in 1 .. E.FileSize :
                Stored(E, f, b).blocks[k]
                    = b[q[((k - 1) \div SecPerClstr) + 1]][(k - 1) % SecPerClstr]
<1>1. PICK n \in Nat : n = E.FileSize /\ nClstrs(n) <= Len(q)
  OBVIOUS
<1>2. ASSUME NEW k \in 1 .. E.FileSize
      PROVE  /\ BlockIn(E, f, b, k - 1)
                    = b[q[((k - 1) \div SecPerClstr) + 1]][(k - 1) % SecPerClstr]
             /\ BlockIn(E, f, b, k - 1) \in Val
  <2>1. PICK m \in Nat : m = k - 1 /\ m < n
    BY <1>1
  <2>2. /\ Follow(f, E.StartClstr, m \div SecPerClstr) = q[(m \div SecPerClstr) + 1]
        /\ q[(m \div SecPerClstr) + 1] \in Clstr /\ m % SecPerClstr \in 0 .. SecPerClstr - 1
    BY <1>1, <2>1, BlockAt
  <2>3. b[q[(m \div SecPerClstr) + 1]][m % SecPerClstr] \in Val
    BY <2>2 DEF Volume
  <2> QED
    BY <2>1, <2>2, <2>3 DEF BlockIn
<1>3. Stored(E, f, b).Name = E.Name
      /\ Stored(E, f, b).blocks = [k \in 1 .. E.FileSize |-> BlockIn(E, f, b, k - 1)]
  BY DEF Stored
<1>4. Stored(E, f, b).blocks \in [1 .. E.FileSize -> Val]
  BY <1>2, <1>3
<1>5. Len(Stored(E, f, b).blocks) = E.FileSize
  BY <1>4, LenProperties
<1> QED
  BY <1>2, <1>3, <1>4, <1>5

\* The FATs f and g, and the blocks b and d, are the same on the chain q.
Agree(q, f, g, b, d) == \A x \in On(q) : g[x] = f[x] /\ d[x] = b[x]

\* What is on a chain says what the file is.
LEMMA StoredSame ==
    ASSUME NEW E, NEW f, NEW b, NEW g, NEW d, NEW q, Line(f, E.StartClstr, q),
           E.FileSize \in Nat, nClstrs(E.FileSize) <= Len(q),
           Agree(q, f, g, b, d)
    PROVE  Stored(E, g, d) = Stored(E, f, b)
<1>1. PICK n \in Nat : n = E.FileSize /\ nClstrs(n) <= Len(q)
  OBVIOUS
<1>2. Line(g, E.StartClstr, q)
  BY LineSame DEF Agree
<1>3. ASSUME NEW k \in 1 .. E.FileSize
      PROVE  BlockIn(E, g, d, k - 1) = BlockIn(E, f, b, k - 1)
  <2>1. PICK m \in Nat : m = k - 1 /\ m < n
    BY <1>1
  <2>2. /\ Follow(f, E.StartClstr, m \div SecPerClstr) = q[(m \div SecPerClstr) + 1]
        /\ q[(m \div SecPerClstr) + 1] \in On(q)
    BY <1>1, <2>1, BlockAt
  <2>3. Follow(g, E.StartClstr, m \div SecPerClstr) = q[(m \div SecPerClstr) + 1]
    BY <1>1, <1>2, <2>1, BlockAt
  <2> QED
    BY <2>1, <2>2, <2>3 DEF Agree, BlockIn
<1> QED
  BY <1>3 DEF Stored

\* Every file has an entry and a chain.
LEMMA FileIs ==
    ASSUME NEW D, NEW f, NEW dk, NEW b, NEW F, NEW U, NEW Q, Tables(D, f, dk, b, F, U),
           Opened(D, F), Sound(D, f, dk, F, U, Q), NEW s \in Files(D), NEW E, E = Entered(D, F, s)
    PROVE  /\ E \in EntRec /\ E.StartClstr = D[s].StartClstr /\ E.Name = D[s].Name
           /\ E.FileSize \in Nat /\ Line(f, E.StartClstr, Q[s])
           /\ nClstrs(E.FileSize) <= Len(Q[s])
           /\ ~Busy(F, s) => E = D[s]
<1>1. /\ E \in EntRec /\ E.StartClstr = D[s].StartClstr /\ E.Name = D[s].Name
      /\ nClstrs(E.FileSize) <= Len(Q[s])
      /\ ~Busy(F, s) => E = D[s]
  <2> DEFINE Right == /\ E \in EntRec /\ E.StartClstr = D[s].StartClstr /\ E.Name = D[s].Name
                      /\ nClstrs(E.FileSize) <= Len(Q[s])
                      /\ ~Busy(F, s) => E = D[s]
  <2>1. CASE \A i \in FCBs : ~(F[i].nUsers > 0 /\ F[i].slot = s)
    <3>1. E = D[s] /\ s \in Slot /\ ~Busy(F, s)
      BY <2>1, EnteredIs DEF Files, Busy
    <3> QED
      BY <3>1 DEF Tables, Sound, Long
  <2>2. ASSUME NEW i \in FCBs, F[i].nUsers > 0 /\ F[i].slot = s
        PROVE  Right
    <3>1. E = F[i].ent /\ F[i] \in FCBRec
      BY <2>2, EnteredIs DEF Tables
    <3>2. F[i].Mode = 0 \/ F[i].Mode = 1
      BY <3>1 DEF FCBRec
    <3> QED
      BY <2>2, <3>1, <3>2 DEF FCBRec, Opened, Sound, Long, Busy
  <2> QED
    BY <2>1, <2>2
<1>2. Line(f, E.StartClstr, Q[s])
  BY <1>1 DEF Sound, Chains
<1>3. E.FileSize \in Nat
  <2>1. E.FileSize \in Sizes \cup {0}
    BY <1>1 DEF EntRec
  <2>2. Sizes \cup {0} \subseteq Nat
    BY FileSysAssumption
  <2> QED
    BY <2>1, <2>2
<1> QED
  BY <1>1, <1>2, <1>3

-----------------------------------------------------------------------------
(* Every step is a step of FileStore. *)

\* A file whose entry and chain stay is the same file.
LEMMA FileKept ==
    ASSUME NEW D, NEW f, NEW dk, NEW b, NEW F, NEW U, NEW Q, Tables(D, f, dk, b, F, U),
           Opened(D, F), Sound(D, f, dk, F, U, Q), NEW s \in Files(D),
           NEW D2, NEW F2, NEW g, NEW d, s \in Files(D2),
           Entered(D2, F2, s) = Entered(D, F, s), Agree(Q[s], f, g, b, d)
    PROVE  View(D2, F2, g, d)[s] = View(D, F, f, b)[s]
<1>1. PICK E : E = Entered(D, F, s)
  OBVIOUS
<1>2. /\ E.FileSize \in Nat /\ Line(f, E.StartClstr, Q[s])
      /\ nClstrs(E.FileSize) <= Len(Q[s])
  BY <1>1, FileIs
<1>3. Stored(E, g, d) = Stored(E, f, b)
  BY <1>2, StoredSame
<1>4. s \in Slot
  BY DEF Files
<1> QED
  BY <1>1, <1>3, <1>4 DEF View

LEMMA FailStep == ASSUME NEW erc, erc # "ok", Failed(erc) PROVE FS!Next
<1>1. ret'.erc # "ok"
  BY DEF Failed, Returned
<1>2. StoredDir' = StoredDir /\ OpenedAt' = OpenedAt
  BY ViewIs DEF Failed
<1> QED
  BY <1>1, <1>2 DEF FS!Next, FS!Fail

\* Handles are closed, and no file is changed.
LEMMA CloseAllStep ==
    ASSUME NEW H \in SUBSET Handle, ret'.call = <<>>, StoredDir' = StoredDir,
           OpenedAt' = [h \in Handle |-> IF h \in H THEN 0 ELSE OpenedAt[h]]
    PROVE  FS!Next
<1>1. FS!CloseAll(H)
  BY DEF FS!CloseAll, FS!Closed
<1> QED
  BY <1>1 DEF FS!Next

LEMMA UpdateFATStep == ASSUME NEW s, UpdateFAT(s) PROVE FS!Next
<1>1. ret'.call = <<>> /\ UNCHANGED <<Dir, fat, data, FCB, FUB>>
  BY DEF UpdateFAT, Returned
<1>2. StoredDir' = StoredDir /\ OpenedAt' = OpenedAt
  BY <1>1, ViewIs
<1>3. OpenedAt = [h \in Handle |-> IF h \in {} THEN 0 ELSE OpenedAt[h]]
  BY DEF OpenedAt
<1> QED
  BY <1>1, <1>2, <1>3, CloseAllStep

LEMMA ClosingStep ==
    ASSUME IInv, IInv', NEW H \in SUBSET Handle, \A h \in H : Used(h), Closing(H),
           UNCHANGED <<fat, data>>
    PROVE  /\ StoredDir' = StoredDir
           /\ OpenedAt' = [h \in Handle |-> IF h \in H THEN 0 ELSE OpenedAt[h]]
<1>1. \A h \in H : h \in Handle /\ Used(h)
  OBVIOUS
<1>2. /\ FUB' \in [Handle -> FUBRec] /\ Counted(FCB', FUB')
      /\ Files(Dir') = Files(Dir) /\ Files(Dir) \subseteq Slot
      /\ \A h \in Handle \ H : FUB'[h] = FUB[h]
      /\ \A h \in H : FUB'[h].Job = "free"
  BY <1>1, ClosingIs
<1>3. ASSUME NEW i \in FCBs
      PROVE  /\ FCB'[i].nUsers <= FCB[i].nUsers
             /\ FCB'[i].nUsers > 0 => /\ FCB[i].nUsers > 0
                                      /\ FCB'[i].slot = FCB[i].slot /\ FCB'[i].ent = FCB[i].ent
                                      /\ FCB'[i].Mode = FCB[i].Mode
  BY <1>1, ClosingIs
<1>4. ASSUME NEW s \in Slot
      PROVE  \/ /\ Dir'[s] = Dir[s]
                /\ \A i \in FCBs : FCB[i].nUsers > 0 /\ FCB[i].slot = s /\ FCB[i].Mode = 1
                                     => FCB'[i].nUsers > 0
             \/ \E i \in FCBs : /\ FCB[i].nUsers > 0 /\ FCB[i].slot = s /\ FCB[i].Mode = 1
                                /\ ~(FCB'[i].nUsers > 0) /\ Dir'[s] = FCB[i].ent
  BY <1>1, ClosingIs
<1>5. /\ FUB \in [Handle -> FUBRec] /\ FCB \in [FCBs -> FCBRec]
      /\ Opened(Dir, FCB) /\ Opened(Dir', FCB')
  BY DEF IInv, Tables
<1>6. ASSUME NEW s \in Files(Dir) PROVE Entered(Dir', FCB', s) = Entered(Dir, FCB, s)
  <2>1. CASE \A i \in FCBs : ~(FCB[i].nUsers > 0 /\ FCB[i].slot = s)
    <3>1. \A i \in FCBs : ~(FCB'[i].nUsers > 0 /\ FCB'[i].slot = s)
      BY <1>3, <2>1
    <3>2. Dir'[s] = Dir[s]
      BY <1>2, <1>4, <2>1
    <3> QED
      BY <1>5, <2>1, <3>1, <3>2, EnteredIs
  <2>2. ASSUME NEW i \in FCBs, FCB[i].nUsers > 0, FCB[i].slot = s
        PROVE  Entered(Dir', FCB', s) = Entered(Dir, FCB, s)
    <3>1. Entered(Dir, FCB, s) = FCB[i].ent
      BY <1>5, <2>2, EnteredIs
    <3>2. \A j \in FCBs : FCB[j].nUsers > 0 /\ FCB[j].slot = s => j = i
      BY <1>5, <2>2 DEF Opened
    <3>3. CASE FCB'[i].nUsers > 0
      <4>1. FCB'[i].slot = s /\ FCB'[i].ent = FCB[i].ent
        BY <1>3, <2>2, <3>3
      <4>2. Entered(Dir', FCB', s) = FCB'[i].ent
        BY <1>5, <3>3, <4>1, EnteredIs
      <4> QED
        BY <3>1, <4>1, <4>2
    <3>4. CASE ~(FCB'[i].nUsers > 0)
      <4>1. \A j \in FCBs : ~(FCB'[j].nUsers > 0 /\ FCB'[j].slot = s)
        BY <1>3, <3>2, <3>4
      <4>2. Entered(Dir', FCB', s) = Dir'[s]
        BY <1>5, <4>1, EnteredIs
      <4>3. Dir'[s] = FCB[i].ent
        <5>1. CASE FCB[i].Mode = 1
          BY <1>2, <1>4, <2>2, <3>2, <3>4, <5>1
        <5>2. CASE FCB[i].Mode # 1
          <6>1. FCB[i].Mode = 0
            BY <1>5, <5>2 DEF FCBRec
          <6>2. FCB[i].ent = Dir[s]
            BY <1>5, <2>2, <6>1 DEF Opened
          <6>3. Dir'[s] = Dir[s]
            BY <1>2, <1>4, <3>2, <5>2
          <6> QED
            BY <6>2, <6>3
        <5> QED
          BY <5>1, <5>2
      <4> QED
        BY <3>1, <4>2, <4>3
    <3> QED
      BY <3>3, <3>4
  <2> QED
    BY <2>1, <2>2
<1>7. View(Dir', FCB', fat', data') = View(Dir, FCB, fat, data)
  BY <1>2, <1>6 DEF View
<1>8. ASSUME NEW h \in Handle
      PROVE  Places(FCB', FUB')[h] = IF h \in H THEN 0 ELSE Places(FCB, FUB)[h]
  <2>1. CASE h \in H \/ FUB[h].Job = "free"
    BY <1>2, <2>1 DEF Places
  <2>2. CASE h \notin H /\ FUB[h].Job # "free"
    <3> DEFINE U == FUB'
               F == FCB'
    <3>1. Counted(F, U) /\ U[h].Job # "free" /\ U[h].iFCB \in FCBs
      BY <1>2, <1>5, <2>2 DEF FUBRec
    <3> HIDE DEF U, F
    <3>2. F[U[h].iFCB].nUsers > 0
      BY <3>1, UsedCounts
    <3>3. FUB'[h] = FUB[h] /\ FUB[h].iFCB \in FCBs /\ FCB'[FUB[h].iFCB].nUsers > 0
      BY <1>2, <2>2, <3>1, <3>2 DEF U, F
    <3>4. FCB'[FUB[h].iFCB].slot = FCB[FUB[h].iFCB].slot
      BY <1>3, <3>3
    <3> QED
      BY <2>2, <3>3, <3>4 DEF Places
  <2> QED
    BY <2>1, <2>2
<1>9. OpenedAt' = [h \in Handle |-> IF h \in H THEN 0 ELSE OpenedAt[h]]
  BY <1>8, ViewIs DEF Places
<1> QED
  BY <1>7, <1>9, ViewIs

\* The file of a handle.
LEMMA HandleFile ==
    ASSUME IInv, NEW h \in Handle, Used(h), NEW i, i = FUB[h].iFCB,
           NEW s, s = FCB[i].slot, NEW E, E = FCB[i].ent
    PROVE  /\ i \in FCBs /\ FCB[i].nUsers > 0 /\ FileOf(h) = FCB[i]
           /\ s \in Files(Dir) /\ s \in Slot /\ s # 0 /\ OpenedAt[h] = s
           /\ Entered(Dir, FCB, s) = E /\ StoredDir[s] = Stored(E, fat, data)
<1>1. FUB \in [Handle -> FUBRec] /\ Counted(FCB, FUB) /\ Opened(Dir, FCB)
  BY DEF IInv, Tables
<1>2. i \in FCBs /\ FUB[h].Job # "free"
  BY <1>1 DEF FUBRec, Used
<1>3. FCB[i].nUsers > 0
  BY <1>1, <1>2, UsedCounts
<1>4. s \in Files(Dir) /\ s \in Slot /\ s # 0
  BY <1>1, <1>2, <1>3 DEF Opened, Files, Slot
<1>5. Entered(Dir, FCB, s) = E
  BY <1>1, <1>2, <1>3, EnteredIs
<1>6. StoredDir[s] = Stored(E, fat, data)
  BY <1>4, <1>5, ViewIs DEF View
<1>7. OpenedAt[h] = s
  BY <1>2, ViewIs DEF Places
<1> QED
  BY <1>2, <1>3, <1>4, <1>5, <1>6, <1>7 DEF FileOf

LEMMA ClosedIs == ASSUME NEW h \in Handle, ~Used(h) PROVE OpenedAt[h] = 0
BY DEF OpenedAt

\* The entry of a file that has the same FCB, or none, as before.
LEMMA EnteredSame ==
    ASSUME NEW D, NEW F, NEW D2, NEW F2, NEW s, D2[s] = D[s],
           \A i \in FCBs : /\ (F2[i].nUsers > 0 /\ F2[i].slot = s) <=> (F[i].nUsers > 0 /\ F[i].slot = s)
                           /\ F[i].nUsers > 0 /\ F[i].slot = s => F2[i].ent = F[i].ent
    PROVE  Entered(D2, F2, s) = Entered(D, F, s)
<1> DEFINE users == {i \in FCBs : F[i].nUsers > 0 /\ F[i].slot = s}
<1>1. users = {i \in FCBs : F2[i].nUsers > 0 /\ F2[i].slot = s}
  OBVIOUS
<1>2. /\ Entered(D, F, s) = IF users = {} THEN D[s] ELSE F[Lowest(users)].ent
      /\ Entered(D2, F2, s) = IF users = {} THEN D2[s] ELSE F2[Lowest(users)].ent
  BY <1>1 DEF Entered
<1>3. CASE users = {}
  BY <1>2, <1>3
<1>4. CASE users # {}
  <2>1. users \subseteq Nat
    BY DEF FCBs
  <2>2. PICK i \in users : i = Lowest(users)
    BY <1>4, <2>1, LowestIn
  <2>3. F2[i].ent = F[i].ent
    BY <2>2
  <2> QED
    BY <1>2, <1>4, <2>2, <2>3
<1> QED
  BY <1>3, <1>4

LEMMA CloseFileStep == ASSUME IInv, IInv', NEW h \in Handle, CloseFile(h) PROVE FS!Next
<1>1. CASE ~Used(h)
  BY <1>1, FailStep DEF CloseFile
<1>2. CASE Used(h)
  <2>1. /\ Closing({h}) /\ UNCHANGED <<fat, data>> /\ {h} \in SUBSET Handle
        /\ \A g \in {h} : Used(g)
        /\ ret' = [erc |-> "ok", call |-> <<"CloseFile", h>>]
    BY <1>2 DEF CloseFile, Done
  <2>2. /\ StoredDir' = StoredDir
        /\ OpenedAt' = [g \in Handle |-> IF g \in {h} THEN 0 ELSE OpenedAt[g]]
    BY <2>1, ClosingStep
  <2>3. OpenedAt[h] # 0
    BY <1>2, HandleFile
  <2>4. OpenedAt' = [OpenedAt EXCEPT ![h] = 0]
    BY <2>2 DEF OpenedAt
  <2>5. FS!CloseFile(h)
    BY <2>1, <2>2, <2>3, <2>4 DEF FS!CloseFile, FS!Closed, FS!Done
  <2> QED
    BY <2>5 DEF FS!Next
<1> QED
  BY <1>1, <1>2

LEMMA JobAbortStep == ASSUME IInv, IInv', NEW job \in Job, JobAbort(job) PROVE FS!Next
<1> DEFINE H == {h \in Handle : FUB[h].Job = job}
<1>1. /\ Closing(H) /\ UNCHANGED <<fat, data>> /\ H \in SUBSET Handle /\ \A g \in H : Used(g)
      /\ ret'.call = <<>>
  BY FileSysAssumption DEF JobAbort, Used, Returned
<1> HIDE DEF H
<1>2. StoredDir' = StoredDir /\ OpenedAt' = [h \in Handle |-> IF h \in H THEN 0 ELSE OpenedAt[h]]
  BY <1>1, ClosingStep
<1> QED
  BY <1>1, <1>2, CloseAllStep

LEMMA OpenFileStep ==
    ASSUME IInv, IInv', NEW job \in Job, NEW n \in Name, NEW mode \in {0, 1}, OpenFile(job, n, mode)
    PROVE  FS!Next
<1>1. CASE OpenErc(n, mode) # "ok"
  BY <1>1, FailStep DEF OpenFile
<1>2. CASE OpenErc(n, mode) = "ok"
  <2>1. PICK s, i, J : s = Lowest(Entries(n)) /\ i = OpenFCB(s) /\ J = OpenedFCB(s, mode)
    OBVIOUS
  <2> DEFINE free == {g \in Handle : ~Used(g)}
  <2>2. PICK h : h = Lowest(free)
    OBVIOUS
  <2> DEFINE H == [Job |-> job, iFCB |-> i, Clstr |-> Dir[s].StartClstr, relClstr |-> 0]
  <2>3. /\ FCB' = [FCB EXCEPT ![i] = J] /\ FUB' = [FUB EXCEPT ![h] = H]
        /\ UNCHANGED <<Dir, fat, disk, data>>
        /\ ret' = [erc |-> "ok", call |-> <<"OpenFile", n, mode, h>>]
    BY <1>2, <2>1, <2>2 DEF OpenFile, Done
  <2>4. /\ s \in Files(Dir) /\ i \in FCBs
        /\ J \in FCBRec /\ J.slot = s /\ J.ent = Dir[s] /\ J.nUsers = FCB[i].nUsers + 1
        /\ FCB[i].nUsers > 0 => FCB[i].slot = s
        /\ \A j \in FCBs : FCB[j].nUsers > 0 /\ FCB[j].slot = s => j = i
        /\ ~Busy(FCB, s)
    BY <1>2, <2>1, OpenIs
  <2>5. h \in Handle /\ ~Used(h)
    <3>1. free # {} /\ free \subseteq Nat
      BY <1>2, FileSysAssumption DEF OpenErc, Handle
    <3> QED
      BY <2>2, <3>1, LowestIn
  <2>6. s \in Slot /\ Dir[s].Name = n
    <3>1. Entries(n) # {} /\ Entries(n) \subseteq Nat
      BY <1>2 DEF OpenErc, Entries, Slot
    <3> QED
      BY <2>1, <3>1, LowestIn DEF Entries
  <2>7. /\ FCB \in [FCBs -> FCBRec] /\ FUB \in [Handle -> FUBRec] /\ FCB[i].nUsers \in Nat
        /\ Opened(Dir, FCB) /\ Opened(Dir', FCB') /\ Counted(FCB, FUB) /\ job # "free"
    BY <2>4, FileSysAssumption DEF IInv, Tables, FCBRec
  <2>8. H.Job = job /\ H.iFCB = i
    OBVIOUS
  <2> HIDE DEF H
  <2>9. /\ FCB'[i] = J /\ \A j \in FCBs \ {i} : FCB'[j] = FCB[j]
        /\ FUB'[h] = H /\ \A g \in Handle \ {h} : FUB'[g] = FUB[g]
    BY <2>3, <2>4, <2>5, <2>7
  <2>10. Entered(Dir, FCB, s) = Dir[s]
    <3>1. PICK Q : Sound(Dir, fat, disk, FCB, FUB, Q)
      BY DEF IInv
    <3> QED
      BY <2>4, <3>1, FileIs DEF IInv
  <2>11. ASSUME NEW t \in Files(Dir) PROVE Entered(Dir', FCB', t) = Entered(Dir, FCB, t)
    <3>1. CASE t = s
      <4>1. FCB'[i].nUsers > 0 /\ FCB'[i].slot = s /\ FCB'[i].ent = Dir[s]
        BY <2>4, <2>7, <2>9
      <4>2. Entered(Dir', FCB', s) = FCB'[i].ent
        BY <2>4, <2>7, <4>1, EnteredIs
      <4> QED
        BY <2>10, <3>1, <4>1, <4>2
    <3>2. CASE t # s
      <4>1. \A j \in FCBs : /\ (FCB'[j].nUsers > 0 /\ FCB'[j].slot = t)
                                  <=> (FCB[j].nUsers > 0 /\ FCB[j].slot = t)
                            /\ FCB[j].nUsers > 0 /\ FCB[j].slot = t => FCB'[j].ent = FCB[j].ent
        BY <2>4, <2>9, <3>2
      <4>2. Dir'[t] = Dir[t]
        BY <2>3
      <4> QED
        BY <4>1, <4>2, EnteredSame
    <3> QED
      BY <3>1, <3>2
  <2>12. View(Dir', FCB', fat', data') = View(Dir, FCB, fat, data)
    BY <2>3, <2>11 DEF View
  <2>13. ASSUME NEW g \in Handle
         PROVE  Places(FCB', FUB')[g] = IF g = h THEN s ELSE Places(FCB, FUB)[g]
    <3>1. CASE g = h
      BY <2>4, <2>7, <2>8, <2>9, <3>1 DEF Places
    <3>2. CASE g # h /\ FUB[g].Job = "free"
      BY <2>9, <3>2 DEF Places
    <3>3. CASE g # h /\ FUB[g].Job # "free"
      <4>1. FUB'[g] = FUB[g] /\ FUB[g].iFCB \in FCBs
        BY <2>7, <2>9, <3>3 DEF FUBRec
      <4>2. FCB[FUB[g].iFCB].nUsers > 0
        BY <2>7, <3>3, <4>1, UsedCounts
      <4>3. FCB'[FUB[g].iFCB].slot = FCB[FUB[g].iFCB].slot
        BY <2>4, <2>9, <4>1, <4>2
      <4> QED
        BY <3>3, <4>1, <4>3 DEF Places
    <3> QED
      BY <3>1, <3>2, <3>3
  <2>14. OpenedAt' = [OpenedAt EXCEPT ![h] = s]
    BY <2>13, ViewIs DEF Places
  <2>15. StoredDir[s].Name = n
    BY <2>4, <2>6, <2>10, ViewIs DEF View, Stored
  <2>16. FS!OpenFile(h, n, mode)
    BY <2>3, <2>5, <2>6, <2>12, <2>14, <2>15, ViewIs, ClosedIs DEF FS!OpenFile, FS!Closed, FS!Done
  <2> QED
    BY <2>5, <2>16 DEF FS!Next
<1> QED
  BY <1>1, <1>2

\* Nobody else has a file that is open to be modified.
LEMMA AloneIs ==
    ASSUME IInv, NEW h \in Handle, Used(h), FileOf(h).Mode # 0
    PROVE  FS!Alone(h)
<1>1. PICK i, s : i = FUB[h].iFCB /\ s = FCB[i].slot
  OBVIOUS
<1>2. i \in FCBs /\ FCB[i].nUsers > 0 /\ s \in Slot /\ s # 0 /\ OpenedAt[h] = s
  BY <1>1, HandleFile
<1>3. Users(FUB, i) = {h}
  BY <1>1, ModifierIs
<1>4. FUB \in [Handle -> FUBRec] /\ Counted(FCB, FUB) /\ Opened(Dir, FCB)
  BY DEF IInv, Tables
<1>5. ASSUME NEW g \in Handle, g # h, OpenedAt[g] = s PROVE FALSE
  <2>1. FUB[g].Job # "free" /\ FUB[g].iFCB \in FCBs /\ FCB[FUB[g].iFCB].slot = s
    BY <1>2, <1>4, <1>5 DEF OpenedAt, Used, FileOf, FUBRec
  <2>2. FCB[FUB[g].iFCB].nUsers > 0
    BY <1>4, <2>1, UsedCounts
  <2>3. FUB[g].iFCB = i
    BY <1>1, <1>2, <1>4, <2>1, <2>2 DEF Opened
  <2> QED
    BY <1>3, <1>5, <2>1, <2>3 DEF Users
<1> QED
  BY <1>2, <1>5 DEF FS!Alone, FS!Closed

\* A step that changes the file at s only.
LEMMA OneFile ==
    ASSUME NEW s \in Slot, \A t \in Slot \ {s} : StoredDir'[t] = StoredDir[t]
    PROVE  StoredDir' = [StoredDir EXCEPT ![s] = StoredDir'[s]]
BY ViewIs DEF View

LEMMA DeleteFileStep == ASSUME IInv, IInv', NEW h \in Handle, DeleteFile(h) PROVE FS!Next
<1>1. CASE ~Used(h)
  BY <1>1, FailStep DEF DeleteFile
<1>2. CASE Used(h) /\ FileOf(h).Mode = 0
  <2>1. /\ Closing({h}) /\ UNCHANGED <<fat, data>> /\ {h} \in SUBSET Handle
        /\ \A g \in {h} : Used(g)
        /\ ret' = [erc |-> "ErcReadOnly", call |-> <<>>]
    BY <1>2 DEF DeleteFile, Returned
  <2>2. /\ StoredDir' = StoredDir
        /\ OpenedAt' = [g \in Handle |-> IF g \in {h} THEN 0 ELSE OpenedAt[g]]
    BY <2>1, ClosingStep
  <2> QED
    BY <2>1, <2>2, CloseAllStep
<1>3. CASE Used(h) /\ FileOf(h).Mode # 0
  <2>1. PICK i, s : i = FUB[h].iFCB /\ s = FCB[i].slot
    OBVIOUS
  <2>2. PICK Q \in [Slot -> Seq(Clstr)] : Sound(Dir, fat, disk, FCB, FUB, Q)
    BY DEF IInv
  <2>3. Deletes(h, i, s, Q)
    BY <1>3, <2>1, <2>2 DEF Deletes
  <2>4. /\ i \in FCBs /\ s \in Slot /\ s \in Files(Dir) /\ Users(FUB, i) = {h}
        /\ Files(Dir') = Files(Dir) \ {s} /\ FUB'[h] = FreeFUB /\ FCB'[i] = FreeFCB
    BY <2>3, DeletingIs
  <2>5. data' = data /\ ret' = Done(<<"DeleteFile", h>>)
    BY <2>3, DeletingFAT
  <2>6. /\ FUB \in [Handle -> FUBRec] /\ Counted(FCB, FUB) /\ Opened(Dir, FCB)
        /\ Tables(Dir, fat, disk, data, FCB, FUB) /\ Files(Dir) \subseteq Slot
    BY DEF IInv, Tables, Files
  <2>7. \A j \in FCBs \ {i} : FCB'[j] = FCB[j]
    BY <2>3, DeletingIs
  <2>8. \A g \in Handle \ {h} : FUB'[g] = FUB[g]
    BY <2>3, DeletingIs
  <2>9. ASSUME NEW t \in Slot \ {s} PROVE StoredDir'[t] = StoredDir[t]
    <3>1. CASE t \notin Files(Dir)
      BY <2>4, <3>1, ViewIs DEF View
    <3>2. CASE t \in Files(Dir)
      <4>1. t \in Files(Dir')
        BY <2>4, <3>2
      <4>2. Dir'[t] = Dir[t] /\ \A c \in On(Q[t]) : fat'[c] = fat[c]
        BY <2>3, <4>1, DeletingIs
      <4>3. \A j \in FCBs : /\ (FCB'[j].nUsers > 0 /\ FCB'[j].slot = t)
                                  <=> (FCB[j].nUsers > 0 /\ FCB[j].slot = t)
                            /\ FCB[j].nUsers > 0 /\ FCB[j].slot = t => FCB'[j].ent = FCB[j].ent
        <5>1. FCB'[i].nUsers = 0 /\ FCB[i].slot # t
          BY <2>1, <2>4 DEF FreeFCB
        <5> QED
          BY <2>7, <5>1
      <4>4. Entered(Dir', FCB', t) = Entered(Dir, FCB, t)
        BY <4>2, <4>3, EnteredSame
      <4>5. Agree(Q[t], fat, fat', data, data')
        BY <2>5, <4>2 DEF Agree
      <4> QED
        BY <2>2, <2>6, <3>2, <4>1, <4>4, <4>5, FileKept, ViewIs
    <3> QED
      BY <3>1, <3>2
  <2>10. StoredDir'[s] = Empty
    BY <2>4, ViewIs DEF View
  <2>11. StoredDir' = [StoredDir EXCEPT ![s] = Empty]
    BY <2>4, <2>9, <2>10, OneFile
  <2>12. ASSUME NEW g \in Handle
         PROVE  Places(FCB', FUB')[g] = IF g = h THEN 0 ELSE Places(FCB, FUB)[g]
    <3>1. CASE g = h
      BY <2>4, <3>1 DEF Places, FreeFUB
    <3>2. CASE g # h
      <4>1. FUB'[g] = FUB[g] /\ (FUB[g].Job # "free" => FUB[g].iFCB \in FCBs \ {i})
        BY <2>4, <2>6, <2>8, <3>2 DEF FUBRec, Users
      <4> QED
        BY <2>7, <3>2, <4>1 DEF Places
    <3> QED
      BY <3>1, <3>2
  <2>13. OpenedAt' = [OpenedAt EXCEPT ![h] = 0]
    BY <2>12, ViewIs DEF Places
  <2>14. FS!Alone(h) /\ OpenedAt[h] = s
    BY <1>3, <2>1, AloneIs, HandleFile
  <2>15. FS!DeleteFile(h)
    BY <2>5, <2>11, <2>13, <2>14 DEF FS!DeleteFile, FS!Closed, FS!Done, Done, FS!NoFile, Empty
  <2> QED
    BY <2>15 DEF FS!Next
<1> QED
  BY <1>1, <1>2, <1>3

\* The names of the files are those of their entries.
LEMMA NameIs ==
    ASSUME IInv, NEW t \in Slot
    PROVE  /\ StoredDir[t].Name = Dir[t].Name
           /\ t \notin Files(Dir) => StoredDir[t] = Empty
<1>1. /\ Tables(Dir, fat, disk, data, FCB, FUB) /\ Opened(Dir, FCB)
      /\ \E Q : Sound(Dir, fat, disk, FCB, FUB, Q)
  BY DEF IInv
<1>2. PICK Q : Sound(Dir, fat, disk, FCB, FUB, Q)
  BY <1>1
<1>3. CASE t \in Files(Dir)
  <2>1. Entered(Dir, FCB, t).Name = Dir[t].Name
    BY <1>1, <1>2, <1>3, FileIs
  <2> QED
    BY <1>3, <2>1, ViewIs DEF View, Stored
<1>4. CASE t \notin Files(Dir)
  <2>1. Dir[t].Name = "none"
    BY <1>4 DEF Files
  <2> QED
    BY <1>4, <2>1, ViewIs DEF View, Empty
<1> QED
  BY <1>3, <1>4

LEMMA NoBlocks == ASSUME NEW e(_) PROVE [k \in 1 .. 0 |-> e(k)] = <<>>
<1>1. \A k \in 1 .. 0 : e(k) \in {}
  OBVIOUS
<1>2. [k \in 1 .. 0 |-> e(k)] \in Seq({})
  BY <1>1, IsASeq
<1>3. Len([k \in 1 .. 0 |-> e(k)]) = 0
  BY <1>2, LenProperties
<1> QED
  BY <1>2, <1>3, EmptySeq

LEMMA CreateFileStep ==
    ASSUME IInv, IInv', NEW n \in Name, NEW ro \in Attrs, CreateFile(n, ro)
    PROVE  FS!Next
<1>1. CASE ret' = Returned("ErcDupName") /\ UNCHANGED <<Dir, fat, data, FCB, FUB>>
  <2>1. StoredDir' = StoredDir /\ OpenedAt' = OpenedAt /\ ret'.erc # "ok"
    BY <1>1, ViewIs DEF Returned
  <2> QED
    BY <2>1 DEF FS!Next, FS!Fail
<1>2. CASE \E e : e # "ok" /\ Failed(e)
  BY <1>2, FailStep
<1>3. ASSUME OpenErc(n, 0) = "ErcNoSuchFile", NEW s, NEW c, Creating(n, ro, s, c)
      PROVE  FS!Next
  <2>1. PICK Q \in [Slot -> Seq(Clstr)] : Sound(Dir, fat, disk, FCB, FUB, Q)
    BY DEF IInv
  <2>2. /\ s \in Slot /\ Dir'[s].Name = n /\ Dir'[s].FileSize = 0
        /\ Files(Dir') = Files(Dir) \cup {s} /\ s \notin Files(Dir) /\ Files(Dir) \subseteq Slot
    BY <1>3, <2>1, CreatingIs DEF Files
  <2>3. ASSUME NEW t \in Files(Dir)
        PROVE  Dir'[t] = Dir[t] /\ \A d \in On(Q[t]) : fat'[d] = fat[d]
    BY <1>3, <2>1, CreatingIs
  <2>4. ret' = Done(<<"CreateFile", n>>) /\ UNCHANGED <<data, FCB, FUB>>
    BY <1>3 DEF Creating
  <2>5. Tables(Dir, fat, disk, data, FCB, FUB) /\ Opened(Dir, FCB)
    BY DEF IInv
  <2>6. ASSUME NEW t \in Slot \ {s} PROVE StoredDir'[t] = StoredDir[t]
    <3>1. CASE t \notin Files(Dir)
      BY <2>2, <3>1, ViewIs DEF View
    <3>2. CASE t \in Files(Dir)
      <4>1. t \in Files(Dir') /\ Agree(Q[t], fat, fat', data, data')
        BY <2>2, <2>3, <2>4, <3>2 DEF Agree
      <4>2. Entered(Dir', FCB', t) = Entered(Dir, FCB, t)
        BY <2>3, <2>4, <3>2, EnteredSame
      <4> QED
        BY <2>1, <2>5, <3>2, <4>1, <4>2, FileKept, ViewIs
    <3> QED
      BY <3>1, <3>2
  <2>7. StoredDir'[s] = [Name |-> n, blocks |-> <<>>]
    <3>1. \A i \in FCBs : ~(FCB'[i].nUsers > 0 /\ FCB'[i].slot = s)
      BY <2>2, <2>4, <2>5 DEF Opened
    <3>2. Opened(Dir', FCB')
      BY DEF IInv
    <3>3. PICK E : E = Entered(Dir', FCB', s)
      OBVIOUS
    <3>4. E.Name = n /\ E.FileSize = 0
      BY <2>2, <3>1, <3>2, <3>3, EnteredIs
    <3>5. [k \in 1 .. 0 |-> BlockIn(E, fat', data', k - 1)] = <<>>
      BY NoBlocks
    <3>6. Stored(E, fat', data') = [Name |-> n, blocks |-> <<>>]
      BY <3>4, <3>5 DEF Stored
    <3> QED
      BY <2>2, <3>3, <3>6, ViewIs DEF View
  <2>8. StoredDir[s] = Empty
    BY <2>2, NameIs
  <2>9. StoredDir' = [StoredDir EXCEPT ![s] = [Name |-> n, blocks |-> <<>>]]
    BY <2>2, <2>6, <2>7, OneFile
  <2>10. \A t \in Slot : StoredDir[t].Name # n
    <3>1. Entries(n) = {}
      BY <1>3 DEF OpenErc
    <3> QED
      BY <3>1, NameIs DEF Entries
  <2>11. OpenedAt' = OpenedAt
    BY <2>4, ViewIs
  <2>12. FS!CreateFile(n)
    BY <2>2, <2>4, <2>8, <2>9, <2>10, <2>11
       DEF FS!CreateFile, FS!Done, Done, FS!NoFile, Empty
  <2> QED
    BY <2>12 DEF FS!Next
<1> QED
  BY <1>1, <1>2, <1>3, CreateFileIs

LEMMA RenameFileStep ==
    ASSUME IInv, IInv', NEW n \in Name, NEW new \in Name, RenameFile(n, new)
    PROVE  FS!Next
<1>1. CASE OpenErc(n, 1) # "ok"
  BY <1>1, FailStep DEF RenameFile
<1>2. CASE OpenErc(n, 1) = "ok"
  <2>1. PICK s, i : s = Lowest(Entries(n)) /\ i = OpenFCB(s)
    OBVIOUS
  <2>2. Renamed(new, s, i) /\ ret' = Done(<<"RenameFile", n, new>>)
    <3>1. Renaming(n, new, s, i)
      BY <1>2, <2>1 DEF Renaming
    <3> QED
      BY <3>1, RenamingIs
  <2>3. Dir[s].Name = n
    <3>1. Entries(n) # {} /\ Entries(n) \subseteq Nat
      BY <1>2 DEF OpenErc, Entries, Slot
    <3> QED
      BY <2>1, <3>1, LowestIn DEF Entries
  <2>4. PICK Q \in [Slot -> Seq(Clstr)] : Sound(Dir, fat, disk, FCB, FUB, Q)
    BY DEF IInv
  <2>5. /\ Tables(Dir, fat, disk, data, FCB, FUB) /\ Opened(Dir, FCB)
        /\ Opened(Dir', FCB') /\ Dir \in [Slot -> EntRec] /\ Counted(FCB, FUB)
        /\ FUB \in [Handle -> FUBRec]
    BY DEF IInv, Tables
  <2>6. /\ s \in Files(Dir) /\ s \in Slot /\ i \in FCBs /\ Files(Dir) \subseteq Slot
        /\ UNCHANGED <<fat, data, FUB>> /\ Files(Dir') = Files(Dir)
        /\ Dir'[s] = [Dir[s] EXCEPT !.Name = new]
    BY <2>2 DEF Renamed, Files
  <2>7. \A j \in FCBs : FCB[j].nUsers > 0 /\ FCB[j].slot = s => j = i
    BY <2>2 DEF Renamed
  <2>8. ASSUME NEW j \in FCBs
        PROVE  /\ (FCB'[j].nUsers > 0) <=> (FCB[j].nUsers > 0)
               /\ FCB[j].nUsers > 0 => FCB'[j].slot = FCB[j].slot
               /\ FCB[j].nUsers > 0 /\ FCB[j].slot # s => FCB'[j].ent = FCB[j].ent
               /\ FCB[j].nUsers > 0 /\ FCB[j].slot = s => FCB'[j].ent = Dir'[s]
                                                          /\ FCB[j].ent = Dir[s]
    <3>1. CASE j = i
      BY <2>2, <2>5, <3>1 DEF Renamed, Opened
    <3>2. CASE j # i
      BY <2>2, <3>2 DEF Renamed
    <3> QED
      BY <3>1, <3>2
  <2>9. ASSUME NEW t \in Slot \ {s} PROVE StoredDir'[t] = StoredDir[t]
    <3>1. CASE t \notin Files(Dir)
      BY <2>6, <3>1, ViewIs DEF View
    <3>2. CASE t \in Files(Dir)
      <4>1. t \in Files(Dir') /\ Agree(Q[t], fat, fat', data, data')
        BY <2>6, <3>2 DEF Agree
      <4>2. Dir'[t] = Dir[t]
        BY <2>2 DEF Renamed
      <4>3. Entered(Dir', FCB', t) = Entered(Dir, FCB, t)
        BY <2>8, <4>2, EnteredSame
      <4> QED
        BY <2>4, <2>5, <3>2, <4>1, <4>3, FileKept, ViewIs
    <3> QED
      BY <3>1, <3>2
  <2>10. Entered(Dir, FCB, s) = Dir[s] /\ Entered(Dir', FCB', s) = Dir'[s]
    <3>1. CASE \A j \in FCBs : ~(FCB[j].nUsers > 0 /\ FCB[j].slot = s)
      <4>1. \A j \in FCBs : ~(FCB'[j].nUsers > 0 /\ FCB'[j].slot = s)
        BY <2>8, <3>1
      <4> QED
        BY <2>5, <3>1, <4>1, EnteredIs
    <3>2. ASSUME NEW j \in FCBs, FCB[j].nUsers > 0, FCB[j].slot = s
          PROVE  Entered(Dir, FCB, s) = Dir[s] /\ Entered(Dir', FCB', s) = Dir'[s]
      <4>1. /\ FCB'[j].nUsers > 0 /\ FCB'[j].slot = s /\ FCB'[j].ent = Dir'[s]
            /\ FCB[j].ent = Dir[s]
        BY <2>8, <3>2
      <4>2. Entered(Dir, FCB, s) = FCB[j].ent
        BY <2>5, <3>2, EnteredIs
      <4>3. Entered(Dir', FCB', s) = FCB'[j].ent
        BY <2>5, <4>1, EnteredIs
      <4> QED
        BY <4>1, <4>2, <4>3
    <3> QED
      BY <3>1, <3>2
  <2>11. StoredDir'[s] = [StoredDir[s] EXCEPT !.Name = new]
    <3>1. PICK E, G : E = Dir[s] /\ G = Dir'[s]
      OBVIOUS
    <3>2. /\ G.Name = new /\ G.StartClstr = E.StartClstr /\ G.FileSize = E.FileSize
      BY <2>5, <2>6, <3>1 DEF EntRec
    <3>3. \A k : BlockIn(G, fat, data, k) = BlockIn(E, fat, data, k)
      BY <3>2 DEF BlockIn
    <3>4. Stored(G, fat, data) = [Stored(E, fat, data) EXCEPT !.Name = new]
      <4>1. PICK m : m = E.FileSize
        OBVIOUS
      <4>2. PICK w : w = [k \in 1 .. m |-> BlockIn(E, fat, data, k - 1)]
        OBVIOUS
      <4>3. w = [k \in 1 .. m |-> BlockIn(G, fat, data, k - 1)]
        BY <3>3, <4>2
      <4>4. /\ Stored(E, fat, data) = [Name |-> E.Name, blocks |-> w]
            /\ Stored(G, fat, data) = [Name |-> new, blocks |-> w]
        BY <3>2, <4>1, <4>2, <4>3 DEF Stored
      <4> QED
        BY <4>4
    <3>5. StoredDir[s] = Stored(E, fat, data) /\ StoredDir'[s] = Stored(G, fat, data)
      BY <2>6, <2>10, <3>1, ViewIs DEF View
    <3> QED
      BY <3>4, <3>5
  <2>12. StoredDir' = [StoredDir EXCEPT ![s] = [StoredDir[s] EXCEPT !.Name = new]]
    BY <2>6, <2>9, <2>11, OneFile
  <2>13. ASSUME NEW g \in Handle PROVE Places(FCB', FUB')[g] = Places(FCB, FUB)[g]
    <3>1. CASE FUB[g].Job = "free"
      BY <2>6, <3>1 DEF Places
    <3>2. CASE FUB[g].Job # "free"
      <4>1. FUB[g].iFCB \in FCBs
        BY <2>5 DEF FUBRec
      <4>2. FCB[FUB[g].iFCB].nUsers > 0
        BY <2>5, <3>2, <4>1, UsedCounts
      <4> QED
        BY <2>6, <2>8, <4>1, <4>2 DEF Places
    <3> QED
      BY <3>1, <3>2
  <2>14. OpenedAt' = OpenedAt
    BY <2>13, ViewIs DEF Places
  <2>15. StoredDir[s].Name = n /\ n # "none"
    BY <2>3, <2>6, NameIs, FileSysAssumption
  <2>16. FS!RenameFile(s, new)
    BY <2>2, <2>6, <2>12, <2>14, <2>15 DEF FS!RenameFile, FS!Done, Done, FS!NoFile
  <2> QED
    BY <2>6, <2>16 DEF FS!Next
<1> QED
  BY <1>1, <1>2

LEMMA MaxSizeIs ==
    /\ MaxSize \in Nat /\ \A n \in Sizes : n \in 0 .. MaxSize
    /\ \A n \in Sizes \cup {0} : n <= MaxSize
<1>1. PICK x \in Sizes \cup {0} : \A m \in Sizes : m <= x
  BY FileSysAssumption
<1>2. MaxSize \in Sizes \cup {0} /\ \A m \in Sizes : m <= MaxSize
  BY <1>1 DEF MaxSize
<1>3. Sizes \cup {0} \subseteq Nat
  BY FileSysAssumption
<1> QED
  BY <1>2, <1>3

\* The file at s has n blocks.
Blocks(s, n) ==
    \E N, v : /\ StoredDir[s] = [Name |-> N, blocks |-> v]
              /\ v \in [1 .. n -> Val] /\ Len(v) = n

\* The file at s, with the blocks v, gets n blocks: those that stay are as they were.
Reblocked(s, v, n) ==
    /\ OpenedAt' = OpenedAt /\ s \in Slot /\ v = StoredDir[s].blocks
    /\ \E w \in [1 .. n -> Val] :
        /\ StoredDir' = [StoredDir EXCEPT ![s] = [Name |-> StoredDir[s].Name, blocks |-> w]]
        /\ \A k \in 1 .. n : k <= Len(v) => w[k] = v[k]

LEMMA ResizedFiles ==
    ASSUME NEW h, NEW G, NEW n, Resizing(h, G, n), IInv', NEW s, s = OpenedAt[h]
    PROVE  /\ Reblocked(s, StoredDir[s].blocks, n)
           /\ Blocks(s, FileOf(h).ent.FileSize)
<1>1. PICK i, u, Q, r : ResizedTo(h, G, n, i, u, Q, r)
  BY ResizedIs
<1>2. /\ IInv /\ h \in Handle /\ Used(h) /\ n \in Nat /\ UNCHANGED <<Dir, data>>
  <2>1. Sizes \cup {0} \subseteq Nat
    BY FileSysAssumption
  <2> QED
    BY <2>1 DEF Resizing, Resized
<1>3. PICK E, F : E = FCB[i].ent /\ F = FCB'[i].ent
  OBVIOUS
<1>4. /\ i \in FCBs /\ u = s /\ s \in Files(Dir) /\ s \in Slot /\ FileOf(h) = FCB[i]
      /\ Entered(Dir, FCB, s) = E /\ StoredDir[s] = Stored(E, fat, data)
  <2>1. i = FUB[h].iFCB /\ u = FCB[i].slot
    BY <1>1 DEF ResizedTo
  <2> QED
    BY <1>2, <1>3, <2>1, HandleFile
<1>5. /\ Tables(Dir, fat, disk, data, FCB, FUB) /\ Opened(Dir, FCB) /\ Opened(Dir', FCB')
      /\ data \in Volume /\ FUB \in [Handle -> FUBRec] /\ Files(Dir) \subseteq Slot
  BY <1>2 DEF IInv, Tables, Volume, Files
<1>6. /\ FCB[i].nUsers > 0 /\ FCB'[i].nUsers = FCB[i].nUsers /\ FCB[i].slot = s /\ FCB'[i].slot = s
      /\ F.Name = E.Name /\ F.StartClstr = E.StartClstr /\ F.FileSize = n
      /\ Line(fat, E.StartClstr, Q[s]) /\ nClstrs(E.FileSize) <= Len(Q[s])
      /\ Line(fat', E.StartClstr, r) /\ nClstrs(n) <= Len(r) /\ Reshaped(fat, Q[s], fat', r)
      /\ Sound(Dir, fat, disk, FCB, FUB, Q)
  BY <1>1, <1>3, <1>4 DEF ResizedTo
<1>7. \A j \in FCBs \ {i} : FCB'[j] = FCB[j]
  BY <1>1 DEF ResizedTo
<1>8. Entered(Dir', FCB', s) = F
  BY <1>3, <1>4, <1>5, <1>6, EnteredIs
<1>9. ASSUME NEW t \in Slot \ {s} PROVE StoredDir'[t] = StoredDir[t]
  <2>1. CASE t \notin Files(Dir)
    BY <1>2, <2>1, ViewIs DEF View
  <2>2. CASE t \in Files(Dir)
    <3>1. \A x \in On(Q[t]) : fat'[x] = fat[x]
      BY <1>1, <1>4, <2>2 DEF ResizedTo
    <3>2. Agree(Q[t], fat, fat', data, data') /\ t \in Files(Dir')
      BY <1>2, <2>2, <3>1 DEF Agree
    <3>3. Entered(Dir', FCB', t) = Entered(Dir, FCB, t)
      <4>1. \A j \in FCBs : /\ (FCB'[j].nUsers > 0 /\ FCB'[j].slot = t)
                                  <=> (FCB[j].nUsers > 0 /\ FCB[j].slot = t)
                            /\ FCB[j].nUsers > 0 /\ FCB[j].slot = t => FCB'[j].ent = FCB[j].ent
        BY <1>6, <1>7
      <4> QED
        BY <1>2, <4>1, EnteredSame
    <3> QED
      BY <1>5, <1>6, <2>2, <3>2, <3>3, FileKept, ViewIs
  <2> QED
    BY <2>1, <2>2
<1>10. StoredDir'[s] = Stored(F, fat', data)
  <2>1. s \in Files(Dir')
    BY <1>2, <1>4
  <2> QED
    BY <1>2, <1>4, <1>8, <2>1, ViewIs DEF View
<1>11. PICK m \in Nat : m = E.FileSize /\ m = FileOf(h).ent.FileSize
  <2>1. FileOf(h).ent.FileSize \in Nat
    BY <1>2, SizeType DEF IInv
  <2> QED
    BY <1>3, <1>4, <2>1
<1>12. /\ Stored(E, fat, data).Name = E.Name /\ Stored(E, fat, data).blocks \in [1 .. m -> Val]
       /\ Len(Stored(E, fat, data).blocks) = m
       /\ \A k \in 1 .. m : Stored(E, fat, data).blocks[k]
                = data[Q[s][((k - 1) \div SecPerClstr) + 1]][(k - 1) % SecPerClstr]
  <2>1. PICK q : q = Q[s]
    OBVIOUS
  <2>2. E.FileSize \in Nat /\ Line(fat, E.StartClstr, q) /\ nClstrs(E.FileSize) <= Len(q)
    BY <1>6, <1>11, <2>1
  <2>3. /\ Stored(E, fat, data).Name = E.Name
        /\ Stored(E, fat, data).blocks \in [1 .. E.FileSize -> Val]
        /\ Len(Stored(E, fat, data).blocks) = E.FileSize
        /\ \A k \in 1 .. E.FileSize : Stored(E, fat, data).blocks[k]
                = data[q[((k - 1) \div SecPerClstr) + 1]][(k - 1) % SecPerClstr]
    BY <1>5, <2>2, StoredIs
  <2> QED
    BY <1>11, <2>1, <2>3
<1>13. /\ Stored(F, fat', data).Name = E.Name /\ Stored(F, fat', data).blocks \in [1 .. n -> Val]
       /\ \A k \in 1 .. n : Stored(F, fat', data).blocks[k]
                = data[r[((k - 1) \div SecPerClstr) + 1]][(k - 1) % SecPerClstr]
  <2> DEFINE g == fat'
  <2>1. Line(g, F.StartClstr, r) /\ F.FileSize = n /\ F.Name = E.Name
    BY <1>6
  <2> HIDE DEF g
  <2>3. F.FileSize \in Nat /\ nClstrs(F.FileSize) <= Len(r)
    BY <1>2, <1>6
  <2>2. /\ Stored(F, g, data).Name = F.Name
        /\ Stored(F, g, data).blocks \in [1 .. F.FileSize -> Val]
        /\ \A k \in 1 .. F.FileSize : Stored(F, g, data).blocks[k]
                = data[r[((k - 1) \div SecPerClstr) + 1]][(k - 1) % SecPerClstr]
    BY <1>5, <2>1, <2>3, StoredIs
  <2> QED
    BY <2>1, <2>2 DEF g
<1>14. PICK v, w : v = Stored(E, fat, data).blocks /\ w = Stored(F, fat', data).blocks
  OBVIOUS
<1>15. ASSUME NEW k \in 1 .. n, k <= m PROVE w[k] = v[k]
  <2>1. PICK b \in Nat : b = k - 1 /\ b < m /\ b < n /\ k \in 1 .. m
    BY <1>2, <1>11, <1>15
  <2>2. b \div SecPerClstr < nClstrs(m) /\ b \div SecPerClstr < nClstrs(n)
        /\ b \div SecPerClstr \in Nat
    BY <1>2, <1>11, <2>1, ClstrsOfBlocks
  <2>3. nClstrs(n) \in Nat /\ nClstrs(m) \in Nat /\ Len(r) \in Nat /\ Len(Q[s]) \in Nat
    BY <1>2, <1>6, <1>11, nClstrsType DEF Line
  <2>4. (b \div SecPerClstr) + 1 \in 1 .. Len(Q[s]) /\ (b \div SecPerClstr) + 1 <= Len(r)
    BY <1>6, <1>11, <2>2, <2>3
  <2>5. r[(b \div SecPerClstr) + 1] = Q[s][(b \div SecPerClstr) + 1]
    BY <1>6, <2>4 DEF Reshaped
  <2> QED
    BY <1>12, <1>13, <1>14, <2>1, <2>5
<1>16. /\ StoredDir[s] = [Name |-> E.Name, blocks |-> v]
       /\ StoredDir'[s] = [Name |-> E.Name, blocks |-> w]
  BY <1>4, <1>6, <1>10, <1>14 DEF Stored
<1>17. StoredDir' = [StoredDir EXCEPT ![s] = [Name |-> E.Name, blocks |-> w]]
  BY <1>4, <1>9, <1>16, OneFile
<1>18. OpenedAt' = OpenedAt
  <2>1. ASSUME NEW g \in Handle PROVE Places(FCB', FUB')[g] = Places(FCB, FUB)[g]
    <3>1. FUB'[g].Job = FUB[g].Job /\ FUB'[g].iFCB = FUB[g].iFCB
      BY <1>1, <2>1 DEF ResizedTo
    <3>2. FCB'[FUB[g].iFCB].slot = FCB[FUB[g].iFCB].slot
      BY <1>5, <1>6, <1>7 DEF FUBRec
    <3> QED
      BY <3>1, <3>2 DEF Places
  <2> QED
    BY <2>1, ViewIs DEF Places
<1>19. StoredDir[s].Name = E.Name /\ StoredDir[s].blocks = v /\ Len(v) = m
       /\ w \in [1 .. n -> Val]
  BY <1>12, <1>13, <1>14, <1>16
<1>20. Reblocked(s, v, n)
  BY <1>4, <1>15, <1>17, <1>18, <1>19 DEF Reblocked
<1>21. Blocks(s, m)
  BY <1>12, <1>14, <1>16 DEF Blocks
<1> QED
  BY <1>11, <1>19, <1>20, <1>21

LEMMA SetFileSizeStep ==
    ASSUME IInv, IInv', NEW h \in Handle, NEW n \in Sizes, SetFileSize(h, n),
           Used(h) => FUB[h].relClstr < nClstrs(n)
    PROVE  FS!Next
<1>1. CASE ~Used(h) \/ FileOf(h).Mode = 0
  BY <1>1, FailStep DEF SetFileSize
<1>2. CASE Used(h) /\ FileOf(h).Mode # 0
  <2>1. PICK G, m : /\ Resizing(h, G, m)
                    /\ \/ m = n /\ ret' = Done(<<"SetFileSize", h, n>>)
                       \/ m = FileOf(h).ent.FileSize /\ ret'.erc # "ok"
    BY <1>2, SetFileSizeIs
  <2>2. PICK s : s = OpenedAt[h]
    OBVIOUS
  <2>3. Reblocked(s, StoredDir[s].blocks, m)
    BY <2>1, <2>2, ResizedFiles
  <2>4. PICK N, v : /\ StoredDir[s] = [Name |-> N, blocks |-> v]
                    /\ v \in [1 .. FileOf(h).ent.FileSize -> Val]
                    /\ Len(v) = FileOf(h).ent.FileSize
    <3>1. Blocks(s, FileOf(h).ent.FileSize)
      BY <2>1, <2>2, ResizedFiles
    <3> QED
      BY <3>1 DEF Blocks
  <2>5. PICK w \in [1 .. m -> Val] :
            /\ StoredDir' = [StoredDir EXCEPT ![s] = [Name |-> N, blocks |-> w]]
            /\ \A k \in 1 .. m : k <= Len(v) => w[k] = v[k]
    <3>1. StoredDir[s].Name = N /\ StoredDir[s].blocks = v
      BY <2>4
    <3>2. Reblocked(s, v, m)
      BY <2>3, <3>1
    <3> QED
      BY <3>1, <3>2 DEF Reblocked
  <2>6. OpenedAt' = OpenedAt /\ s \in Slot
    BY <2>3 DEF Reblocked
  <2>7. CASE m = n /\ ret' = Done(<<"SetFileSize", h, n>>)
    <3>1. StoredDir' = [StoredDir EXCEPT ![OpenedAt[h]].blocks = w]
      <4>1. [StoredDir[s] EXCEPT !.blocks = w] = [Name |-> N, blocks |-> w]
        BY <2>4
      <4>2. StoredDir' = [StoredDir EXCEPT ![s] = [StoredDir[s] EXCEPT !.blocks = w]]
        BY <2>5, <4>1
      <4> QED
        BY <2>2, <4>2
    <3>2. \A b \in 1 .. n : b <= Len(StoredDir[OpenedAt[h]].blocks)
                                => w[b] = StoredDir[OpenedAt[h]].blocks[b]
      BY <2>2, <2>4, <2>5, <2>7
    <3>3. FS!Alone(h) /\ n \in 0 .. MaxSize
      BY <1>2, AloneIs, MaxSizeIs
    <3>4. FS!SetFileSize(h, n)
      BY <2>5, <2>6, <2>7, <3>1, <3>2, <3>3 DEF FS!SetFileSize, FS!Size, FS!Done, Done
    <3> QED
      BY <3>3, <3>4 DEF FS!Next
  <2>8. CASE m = FileOf(h).ent.FileSize /\ ret'.erc # "ok"
    <3>1. w = v
      BY <2>4, <2>5, <2>8
    <3>2. StoredDir' = StoredDir
      BY <2>4, <2>5, <3>1 DEF StoredDir
    <3> QED
      BY <2>6, <2>8, <3>2 DEF FS!Next, FS!Fail
  <2> QED
    BY <2>1, <2>7, <2>8
<1> QED
  BY <1>1, <1>2


-----------------------------------------------------------------------------
(* Reading and writing, as steps of FileStore. *)

\* A transfer of the blocks b + 1 .. b + k of the file at s, which has n of them, the entry
\* E and the chain q.  GetAbsoluteClstr finds c.
Transfer(h, b, k, s, E, n, q, c) ==
    /\ s = OpenedAt[h] /\ s \in Slot /\ s # 0
    /\ E = FileOf(h).ent /\ n = E.FileSize /\ n \in Nat /\ n <= MaxSize
    /\ b \in Nat /\ k \in Nat \ {0} /\ b + k <= n
    /\ Line(fat, E.StartClstr, q) /\ nClstrs(n) <= Len(q)
    /\ StoredDir[s] = Stored(E, fat, data)
    /\ GetAbsoluteClstr(h, b \div SecPerClstr) = [erc |-> "ok", Clstr |-> c] /\ c \in Clstr
    /\ c = q[(b \div SecPerClstr) + 1]
    /\ Reach(c, b, k) = k
    /\ Moved(h, c, b, k - 1).Job = FUB[h].Job /\ Moved(h, c, b, k - 1).iFCB = FUB[h].iFCB

LEMMA TransferOf ==
    ASSUME IInv, NEW h \in Handle, Used(h), NEW b \in Nat, NEW k \in Nat \ {0},
           b + k <= FileOf(h).ent.FileSize
    PROVE  \E s, E, n, q, c : Transfer(h, b, k, s, E, n, q, c)
<1>1. PICK i, s, E : i = FUB[h].iFCB /\ s = FCB[i].slot /\ E = FCB[i].ent
  OBVIOUS
<1>2. /\ FileOf(h) = FCB[i] /\ s \in Slot /\ s # 0 /\ OpenedAt[h] = s
      /\ StoredDir[s] = Stored(E, fat, data)
  BY <1>1, HandleFile
<1>3. PICK n \in Nat : n = E.FileSize /\ n = FileOf(h).ent.FileSize /\ n <= MaxSize
  <2>1. FileOf(h).ent.FileSize \in Nat /\ FileOf(h).ent.FileSize \in Sizes \cup {0}
    BY SizeType DEF IInv
  <2> QED
    BY <1>1, <1>2, <2>1, MaxSizeIs
<1>4. PICK q : /\ Line(fat, FileOf(h).ent.StartClstr, q) /\ InFile(FUB[h], q)
               /\ nClstrs(n) <= Len(q)
  BY <1>3, HandleChain
<1>5. PICK w \in Nat : w = b \div SecPerClstr /\ w < Len(q)
  <2>1. 0 \in Nat /\ b + 0 < n
    BY <1>3
  <2> QED
    BY <1>4, <2>1, PlaceIs
<1>6. PICK c : c = q[w + 1]
  OBVIOUS
<1>7. FUB[h] \in FUBRec
  BY DEF IInv, Tables
<1>8. GetAbsoluteClstr(h, w) = [erc |-> "ok", Clstr |-> c]
  BY <1>4, <1>5, <1>6, <1>7, AbsoluteIs
<1>9. c \in Clstr
  <2>1. w + 1 \in 1 .. Len(q)
    BY <1>4, <1>5 DEF Line
  <2> QED
    BY <1>4, <1>6, <2>1 DEF Line
<1>10. /\ Reach(c, b, k) = k
       /\ Moved(h, c, b, k - 1).Job = FUB[h].Job /\ Moved(h, c, b, k - 1).iFCB = FUB[h].iFCB
  <2>1. c = q[(b \div SecPerClstr) + 1] /\ b + k <= n
    BY <1>3, <1>5, <1>6
  <2> QED
    BY <1>4, <1>7, <2>1, MoveIs
<1>11. /\ GetAbsoluteClstr(h, b \div SecPerClstr) = [erc |-> "ok", Clstr |-> c]
       /\ c = q[(b \div SecPerClstr) + 1]
  BY <1>5, <1>6, <1>8
<1>12. E = FileOf(h).ent /\ Line(fat, E.StartClstr, q)
  BY <1>1, <1>2, <1>4
<1>13. Transfer(h, b, k, s, E, n, q, c)
  BY <1>2, <1>3, <1>4, <1>9, <1>10, <1>11, <1>12 DEF Transfer
<1> QED
  BY <1>13

\* The i-th block of a transfer is the block b + i + 1 of the file.
LEMMA TransferAt ==
    ASSUME NEW h, NEW b, NEW k, NEW s, NEW E, NEW n, NEW q, NEW c,
           Transfer(h, b, k, s, E, n, q, c),
           NEW i \in 0 .. k - 1
    PROVE  /\ Place(c, b, i) = [Clstr |-> q[((b + i) \div SecPerClstr) + 1],
                                blk |-> (b + i) % SecPerClstr]
           /\ (b + i) \div SecPerClstr \in Nat /\ (b + i) \div SecPerClstr < Len(q)
<1>1. i \in Nat /\ b \in Nat /\ b + i < n /\ n \in Nat
  BY DEF Transfer
<1>2. Line(fat, E.StartClstr, q) /\ nClstrs(n) <= Len(q) /\ c = q[(b \div SecPerClstr) + 1]
  BY DEF Transfer
<1>3. /\ (b + i) \div SecPerClstr \in Nat /\ (b + i) \div SecPerClstr < Len(q)
      /\ Follow(fat, q[(b \div SecPerClstr) + 1], ((b % SecPerClstr) + i) \div SecPerClstr)
            = q[((b + i) \div SecPerClstr) + 1]
  BY <1>1, <1>2, PlaceIs
<1> QED
  BY <1>2, <1>3 DEF Place

\* The handle stays with its file.
LEMMA TransferOpened ==
    ASSUME IInv, NEW h \in Handle, NEW G, G.Job = FUB[h].Job, G.iFCB = FUB[h].iFCB,
           FUB' = [FUB EXCEPT ![h] = G], FCB' = FCB
    PROVE  OpenedAt' = OpenedAt
<1>1. FUB \in [Handle -> FUBRec]
  BY DEF IInv, Tables
<1>2. ASSUME NEW g \in Handle PROVE Places(FCB', FUB')[g] = Places(FCB, FUB)[g]
  BY <1>1 DEF Places
<1> QED
  BY <1>2, ViewIs DEF Places


LEMMA TransferLen ==
    ASSUME IInv, NEW h, NEW b, NEW k, NEW s, NEW E, NEW n, NEW q, NEW c,
           Transfer(h, b, k, s, E, n, q, c)
    PROVE  /\ Len(StoredDir[s].blocks) = n /\ StoredDir[s].Name = E.Name
           /\ StoredDir[s] = [Name |-> E.Name, blocks |-> StoredDir[s].blocks]
<1>1. /\ StoredDir[s] = Stored(E, fat, data) /\ E.FileSize \in Nat /\ n = E.FileSize
      /\ Line(fat, E.StartClstr, q) /\ nClstrs(E.FileSize) <= Len(q)
  BY DEF Transfer
<1>2. data \in Volume
  BY DEF IInv, Tables, Volume
<1>3. Len(Stored(E, fat, data).blocks) = E.FileSize /\ Stored(E, fat, data).Name = E.Name
  BY <1>1, <1>2, StoredIs
<1>4. Stored(E, fat, data) = [Name |-> E.Name, blocks |-> Stored(E, fat, data).blocks]
  BY DEF Stored
<1> QED
  BY <1>1, <1>3, <1>4


\* The blocks read are those of the file.
Fetched(s, b, k, c) == Contents(c, b, k) = SubSeq(StoredDir[s].blocks, b + 1, b + k)

LEMMA ContentsAre ==
    ASSUME IInv, NEW h, NEW b, NEW k, NEW s, NEW E, NEW n, NEW q, NEW c,
           Transfer(h, b, k, s, E, n, q, c)
    PROVE  Fetched(s, b, k, c)
<1>1. PICK v : v = StoredDir[s].blocks
  OBVIOUS
<1>2. /\ v \in [1 .. n -> Val]
      /\ \A j \in 1 .. n : v[j] = data[q[((j - 1) \div SecPerClstr) + 1]][(j - 1) % SecPerClstr]
  <2>1. /\ StoredDir[s] = Stored(E, fat, data) /\ E.FileSize \in Nat /\ n = E.FileSize
        /\ Line(fat, E.StartClstr, q) /\ nClstrs(E.FileSize) <= Len(q)
    BY DEF Transfer
  <2>2. data \in Volume
    BY DEF IInv, Tables, Volume
  <2>3. /\ Stored(E, fat, data).blocks \in [1 .. E.FileSize -> Val]
        /\ \A j \in 1 .. E.FileSize : Stored(E, fat, data).blocks[j]
                = data[q[((j - 1) \div SecPerClstr) + 1]][(j - 1) % SecPerClstr]
    BY <2>1, <2>2, StoredIs
  <2> QED
    BY <1>1, <2>1, <2>3
<1>3. n \in Nat /\ b \in Nat /\ k \in Nat \ {0} /\ b + k <= n
  BY DEF Transfer
<1>4. PICK w : w = SubSeq(v, b + 1, b + k)
  OBVIOUS
<1>5. w \in [1 .. k -> Val] /\ \A i \in 1 .. k : w[i] = v[b + i]
  <2>1. PICK m, l \in Int : m = b + 1 /\ l = b + k /\ m <= l /\ l - m + 1 = k
    BY <1>3
  <2>2. \A j \in m .. l : v[j] \in Val
    BY <1>2, <1>3, <2>1
  <2>3. /\ SubSeq(v, m, l) \in Seq(Val)
        /\ Len(SubSeq(v, m, l)) = IF m <= l THEN l - m + 1 ELSE 0
        /\ \A i \in 1 .. l - m + 1 : SubSeq(v, m, l)[i] = v[m + i - 1]
    BY <2>2, SubSeqProperties
  <2>4. w \in Seq(Val) /\ Len(w) = k
    BY <1>4, <2>1, <2>3
  <2>5. \A i \in 1 .. k : w[i] = v[m + i - 1] /\ m + i - 1 = b + i
    BY <1>3, <1>4, <2>1, <2>3
  <2> QED
    BY <2>4, <2>5
<1>6. ASSUME NEW i \in 1 .. k
      PROVE  data[Place(c, b, i - 1).Clstr][Place(c, b, i - 1).blk] = w[i]
  <2>1. PICK j \in 0 .. k - 1 : j = i - 1 /\ (b + i) - 1 = b + j /\ b + i \in 1 .. n
    BY <1>3
  <2>2. Place(c, b, j) = [Clstr |-> q[((b + j) \div SecPerClstr) + 1],
                          blk |-> (b + j) % SecPerClstr]
    BY TransferAt
  <2>3. Place(c, b, j).Clstr = q[((b + j) \div SecPerClstr) + 1]
        /\ Place(c, b, j).blk = (b + j) % SecPerClstr
    BY <2>2
  <2>4. v[b + i] = data[q[((b + j) \div SecPerClstr) + 1]][(b + j) % SecPerClstr]
    BY <1>2, <2>1
  <2> QED
    BY <1>5, <2>1, <2>3, <2>4
<1>7. Contents(c, b, k) = w
  BY <1>5, <1>6 DEF Contents
<1> QED
  BY <1>1, <1>4, <1>7 DEF Fetched

LEMMA ReadBlockStep ==
    ASSUME IInv, NEW h \in Handle, NEW b \in Nat, NEW k \in Nat \ {0}, ReadBlock(h, b, k),
           Used(h) => b + k <= FileOf(h).ent.FileSize
    PROVE  FS!Next
<1>1. CASE ~Used(h)
  BY <1>1, FailStep DEF ReadBlock
<1>2. CASE Used(h)
  <2>1. PICK s, E, n, q, c : Transfer(h, b, k, s, E, n, q, c)
    BY <1>2, TransferOf
  <2>2. /\ s = OpenedAt[h] /\ s \in Slot /\ s # 0
        /\ E = FileOf(h).ent /\ n = E.FileSize /\ n \in Nat /\ n <= MaxSize
        /\ GetAbsoluteClstr(h, b \div SecPerClstr) = [erc |-> "ok", Clstr |-> c] /\ c \in Clstr
        /\ Reach(c, b, k) = k
        /\ Moved(h, c, b, k - 1).Job = FUB[h].Job /\ Moved(h, c, b, k - 1).iFCB = FUB[h].iFCB
    BY <2>1 DEF Transfer
  <2>3. PICK abs : abs = GetAbsoluteClstr(h, b \div SecPerClstr) /\ abs.erc = "ok" /\ abs.Clstr = c
    BY <2>2
  <2>4. /\ FUB' = [FUB EXCEPT ![h] = Moved(h, c, b, k - 1)]
        /\ ret' = Done(<<"ReadBlock", h, b, Contents(c, b, k)>>)
        /\ UNCHANGED <<Dir, fat, disk, data, FCB>>
    <3>1. PICK r : r = Reach(c, b, k) /\ r = k
      BY <2>2
    <3>2. /\ FUB' = [FUB EXCEPT ![h] = Moved(h, c, b, r - 1)]
          /\ ret' = IF r < k THEN Returned("ErcEOF")
                    ELSE Done(<<"ReadBlock", h, b, Contents(c, b, k)>>)
          /\ UNCHANGED <<Dir, fat, disk, data, FCB>>
      BY <1>2, <2>2, <2>3, <3>1, SMTT(30) DEF ReadBlock
    <3> QED
      BY <3>1, <3>2
  <2>5. PICK G : G = Moved(h, c, b, k - 1)
    OBVIOUS
  <2>6. OpenedAt' = OpenedAt
    BY <2>2, <2>4, <2>5, TransferOpened
  <2>7. StoredDir' = StoredDir
    BY <2>4, ViewIs
  <2>8. b + k <= n
    BY <1>2, <2>2
  <2>9. Contents(c, b, k) = SubSeq(StoredDir[s].blocks, b + 1, b + k)
    <3>1. Fetched(s, b, k, c)
      BY <2>1, ContentsAre
    <3> QED
      BY <3>1 DEF Fetched
  <2>10. Len(StoredDir[s].blocks) = n
    BY <2>1, TransferLen
  <2>11. FS!ReadBlock(h, b, k)
    BY <2>2, <2>4, <2>6, <2>7, <2>8, <2>9, <2>10
       DEF FS!ReadBlock, FS!Part, FS!Size, FS!Done, FS!Closed, Done
  <2>12. b \in 0 .. MaxSize /\ k \in 1 .. MaxSize
    BY <2>2, <2>8, MaxSizeIs
  <2> QED
    BY <2>11, <2>12 DEF FS!Next
<1> QED
  BY <1>1, <1>2


\* What WriteBlock does.
Writing(h, b, k, v, s, E, n, q, c) ==
    /\ Transfer(h, b, k, s, E, n, q, c)
    /\ UNCHANGED <<Dir, fat, disk, FCB>>
    /\ FUB' = [FUB EXCEPT ![h] = Moved(h, c, b, k - 1)]
    /\ \A x \in Clstr : \A y \in 0 .. SecPerClstr - 1 :
            data'[x][y] = IF \E i \in 0 .. k - 1 : Place(c, b, i) = [Clstr |-> x, blk |-> y]
                          THEN v ELSE data[x][y]

\* Two blocks of a file are not in one place.
LEMMA PlacesDiffer ==
    ASSUME NEW f, NEW c, NEW q, Line(f, c, q), NEW i \in Nat, NEW j \in Nat,
           i \div SecPerClstr < Len(q), j \div SecPerClstr < Len(q),
           q[(i \div SecPerClstr) + 1] = q[(j \div SecPerClstr) + 1],
           i % SecPerClstr = j % SecPerClstr
    PROVE  i = j
<1>1. SecPerClstr \in Nat \ {0} /\ Len(q) \in Nat
  BY FileSysAssumption DEF Line
<1>2. PICK x, y \in Nat : x = i \div SecPerClstr /\ y = j \div SecPerClstr
  BY <1>1, Division
<1>3. x + 1 \in 1 .. Len(q) /\ y + 1 \in 1 .. Len(q) /\ q[x + 1] = q[y + 1]
  BY <1>1, <1>2
<1>4. x + 1 = y + 1
  BY <1>3 DEF Line
<1>5. i = SecPerClstr * x + (i % SecPerClstr) /\ j = SecPerClstr * y + (j % SecPerClstr)
  BY <1>1, <1>2, Division
<1>6. x = y
  BY <1>2, <1>4
<1> QED
  BY <1>5, <1>6

\* The block m + 1 of the file that is written.
WrittenAt(b, k, v, q, m) ==
    data'[q[(m \div SecPerClstr) + 1]][m % SecPerClstr] =
        IF b < m + 1 /\ m + 1 <= b + k THEN v ELSE data[q[(m \div SecPerClstr) + 1]][m % SecPerClstr]

LEMMA WritingIs ==
    ASSUME NEW h, NEW b, NEW k, NEW v, NEW s, NEW E, NEW n, NEW q, NEW c,
           Writing(h, b, k, v, s, E, n, q, c), NEW m \in Nat, m < n
    PROVE  WrittenAt(b, k, v, q, m)
<1>1. Transfer(h, b, k, s, E, n, q, c)
  BY DEF Writing
<1>2. /\ Line(fat, E.StartClstr, q) /\ nClstrs(n) <= Len(q) /\ n \in Nat
      /\ b \in Nat /\ k \in Nat \ {0} /\ b + k <= n
  BY <1>1 DEF Transfer
<1>3. PICK x, y : x = q[(m \div SecPerClstr) + 1] /\ y = m % SecPerClstr
  OBVIOUS
<1>4. x \in Clstr /\ y \in 0 .. SecPerClstr - 1
  BY <1>2, <1>3, BlockAt
<1>5. m \div SecPerClstr \in Nat /\ m \div SecPerClstr < Len(q)
  <2>1. m \div SecPerClstr < nClstrs(n) /\ m \div SecPerClstr \in Nat
    BY <1>2, ClstrsOfBlocks
  <2>2. nClstrs(n) \in Nat /\ Len(q) \in Nat
    BY <1>2, nClstrsType DEF Line
  <2> QED
    BY <1>2, <2>1, <2>2
<1>6. ASSUME NEW i \in 0 .. k - 1
      PROVE  Place(c, b, i) = [Clstr |-> x, blk |-> y] <=> b + i = m
  <2>1. PICK j \in Nat : j = b + i
    BY <1>2
  <2>2. /\ Place(c, b, i) = [Clstr |-> q[(j \div SecPerClstr) + 1], blk |-> j % SecPerClstr]
        /\ j \div SecPerClstr < Len(q)
    BY <1>1, <2>1, TransferAt
  <2>3. Place(c, b, i) = [Clstr |-> x, blk |-> y]
            <=> q[(j \div SecPerClstr) + 1] = x /\ j % SecPerClstr = y
    BY <2>2
  <2>4. q[(j \div SecPerClstr) + 1] = x /\ j % SecPerClstr = y => j = m
    BY <1>2, <1>3, <1>5, <2>2, PlacesDiffer
  <2> QED
    BY <1>3, <2>1, <2>3, <2>4
<1>7. (\E i \in 0 .. k - 1 : b + i = m) <=> b < m + 1 /\ m + 1 <= b + k
  <2>1. b < m + 1 /\ m + 1 <= b + k => m - b \in 0 .. k - 1 /\ b + (m - b) = m
    BY <1>2
  <2> QED
    BY <1>2, <2>1
<1>8. data'[x][y] = IF b < m + 1 /\ m + 1 <= b + k THEN v ELSE data[x][y]
  BY <1>4, <1>6, <1>7 DEF Writing
<1> QED
  BY <1>3, <1>8 DEF WrittenAt

\* The other files keep their blocks.
LEMMA WritingOther ==
    ASSUME IInv, NEW h \in Handle, Used(h), NEW b, NEW k, NEW v, NEW s, NEW E, NEW n, NEW q, NEW c,
           Writing(h, b, k, v, s, E, n, q, c), data' \in Volume, NEW t \in Slot, t # s
    PROVE  StoredDir'[t] = StoredDir[t]
<1>1. UNCHANGED <<Dir, fat, disk, FCB>>
  BY DEF Writing
<1>2. CASE t \notin Files(Dir)
  BY <1>1, <1>2, ViewIs DEF View
<1>3. CASE t \in Files(Dir)
  <2>1. PICK Q \in [Slot -> Seq(Clstr)] : Sound(Dir, fat, disk, FCB, FUB, Q)
    BY DEF IInv
  <2>2. Tables(Dir, fat, disk, data, FCB, FUB) /\ Opened(Dir, FCB)
    BY DEF IInv
  <2>3. PICK i, u : i = FUB[h].iFCB /\ u = FCB[i].slot
    OBVIOUS
  <2>4. /\ i \in FCBs /\ FCB[i].nUsers > 0 /\ FileOf(h) = FCB[i] /\ u \in Files(Dir)
        /\ OpenedAt[h] = u
    BY <2>3, HandleFile
  <2>5. Transfer(h, b, k, s, E, n, q, c)
    BY DEF Writing
  <2>6. s = u /\ E = FCB[i].ent /\ Line(fat, E.StartClstr, q) /\ nClstrs(n) <= Len(q)
        /\ n \in Nat /\ b \in Nat /\ k \in Nat \ {0} /\ b + k <= n
    BY <2>4, <2>5 DEF Transfer
  <2>7. E.StartClstr = Dir[s].StartClstr
    BY <2>2, <2>3, <2>4, <2>6 DEF Opened
  <2>8. Line(fat, E.StartClstr, Q[s])
    BY <2>1, <2>4, <2>6, <2>7 DEF Sound, Chains
  <2>9. PICK r : r = Q[s]
    OBVIOUS
  <2>10. q = r
    BY <2>6, <2>8, <2>9, LineUnique
  <2>11. On(Q[t]) \cap On(q) = {} /\ On(Q[t]) \subseteq Clstr
    <3>1. On(Q[t]) \cap On(Q[s]) = {} /\ Line(fat, Dir[t].StartClstr, Q[t])
      BY <1>3, <2>1, <2>4, <2>6 DEF Sound, Chains
    <3>2. On(Q[t]) \subseteq Clstr
      BY <3>1 DEF Line, On, From
    <3> QED
      BY <2>9, <2>10, <3>1, <3>2
  <2>12. ASSUME NEW x \in On(Q[t]) PROVE data'[x] = data[x]
    <3>1. x \in Clstr /\ x \notin On(q)
      BY <2>11
    <3>2. ASSUME NEW y \in 0 .. SecPerClstr - 1 PROVE data'[x][y] = data[x][y]
      <4>1. ASSUME NEW j \in 0 .. k - 1, Place(c, b, j) = [Clstr |-> x, blk |-> y] PROVE FALSE
        <5>1. PICK m \in Nat : m = (b + j) \div SecPerClstr /\ m < Len(q)
                                /\ Place(c, b, j) = [Clstr |-> q[m + 1],
                                                     blk |-> (b + j) % SecPerClstr]
          BY <2>5, TransferAt
        <5>2. q[m + 1] = x /\ m + 1 \in 1 .. Len(q)
          BY <2>6, <4>1, <5>1 DEF Line
        <5> QED
          BY <3>1, <5>2 DEF On, From
      <4> QED
        BY <3>1, <4>1 DEF Writing
    <3>3. data[x] \in [0 .. SecPerClstr - 1 -> Val] /\ data'[x] \in [0 .. SecPerClstr - 1 -> Val]
      BY <2>2, <3>1 DEF Tables, Volume
    <3>4. PICK S, e, d : S = 0 .. SecPerClstr - 1 /\ e = data[x] /\ d = data'[x]
      OBVIOUS
    <3>5. e \in [S -> Val] /\ d \in [S -> Val] /\ \A y \in S : d[y] = e[y]
      BY <3>2, <3>3, <3>4
    <3>6. d = e
      BY <3>5
    <3> QED
      BY <3>4, <3>6
  <2>13. Agree(Q[t], fat, fat', data, data')
    BY <1>1, <2>12 DEF Agree
  <2>14. Entered(Dir', FCB', t) = Entered(Dir, FCB, t) /\ t \in Files(Dir')
    BY <1>1, <1>3
  <2> QED
    BY <1>3, <2>1, <2>2, <2>13, <2>14, FileKept, ViewIs
<1> QED
  BY <1>2, <1>3


\* The file written gets v at the blocks asked for.
Rewritten(s, b, k, v, n) ==
    StoredDir' = [StoredDir EXCEPT ![s] =
        [Name |-> StoredDir[s].Name,
         blocks |-> [m \in 1 .. n |-> IF b < m /\ m <= b + k THEN v ELSE StoredDir[s].blocks[m]]]]

LEMMA WritingFile ==
    ASSUME IInv, NEW h \in Handle, Used(h), NEW b, NEW k, NEW v, NEW s, NEW E, NEW n, NEW q, NEW c,
           Writing(h, b, k, v, s, E, n, q, c), data' \in Volume
    PROVE  Rewritten(s, b, k, v, n)
<1>1. Transfer(h, b, k, s, E, n, q, c) /\ UNCHANGED <<Dir, fat, disk, FCB>>
  BY DEF Writing
<1>2. /\ s = OpenedAt[h] /\ s \in Slot /\ E = FileOf(h).ent /\ n = E.FileSize /\ n \in Nat
      /\ Line(fat, E.StartClstr, q) /\ nClstrs(E.FileSize) <= Len(q) /\ E.FileSize \in Nat
      /\ StoredDir[s] = Stored(E, fat, data)
  BY <1>1 DEF Transfer
<1>3. PICK i, u, G : i = FUB[h].iFCB /\ u = FCB[i].slot /\ G = FCB[i].ent
  OBVIOUS
<1>4. FileOf(h) = FCB[i] /\ u \in Files(Dir) /\ OpenedAt[h] = u /\ Entered(Dir, FCB, u) = G
  BY <1>3, HandleFile
<1>5. s = u /\ E = G
  BY <1>2, <1>3, <1>4
<1>6. StoredDir'[s] = Stored(E, fat, data')
  BY <1>1, <1>2, <1>4, <1>5, ViewIs DEF View
<1>7. PICK d : d = data'
  OBVIOUS
<1>8. /\ Stored(E, fat, d).Name = E.Name /\ Stored(E, fat, d).blocks \in [1 .. E.FileSize -> Val]
      /\ \A m \in 1 .. E.FileSize : Stored(E, fat, d).blocks[m]
                = d[q[((m - 1) \div SecPerClstr) + 1]][(m - 1) % SecPerClstr]
  <2>1. d \in Volume
    BY <1>7
  <2> QED
    BY <1>2, <2>1, StoredIs
<1>9. /\ Stored(E, fat, data).Name = E.Name
      /\ \A m \in 1 .. E.FileSize : Stored(E, fat, data).blocks[m]
                = data[q[((m - 1) \div SecPerClstr) + 1]][(m - 1) % SecPerClstr]
  <2>1. data \in Volume
    BY DEF IInv, Tables, Volume
  <2> QED
    BY <1>2, <2>1, StoredIs
<1>10. PICK w, x : w = StoredDir[s].blocks /\ x = Stored(E, fat, d).blocks
  OBVIOUS
<1>11. ASSUME NEW m \in 1 .. n PROVE x[m] = IF b < m /\ m <= b + k THEN v ELSE w[m]
  <2>1. PICK j \in Nat : j = m - 1 /\ j + 1 = m /\ j < n
    BY <1>2
  <2>2. WrittenAt(b, k, v, q, j)
    BY <2>1, WritingIs
  <2>3. d[q[(j \div SecPerClstr) + 1]][j % SecPerClstr] =
            IF b < m /\ m <= b + k THEN v ELSE data[q[(j \div SecPerClstr) + 1]][j % SecPerClstr]
    BY <1>7, <2>1, <2>2 DEF WrittenAt
  <2>4. /\ x[m] = d[q[(j \div SecPerClstr) + 1]][j % SecPerClstr]
        /\ w[m] = data[q[(j \div SecPerClstr) + 1]][j % SecPerClstr]
    BY <1>2, <1>8, <1>9, <1>10, <2>1
  <2> QED
    BY <2>3, <2>4
<1>12. x = [m \in 1 .. n |-> IF b < m /\ m <= b + k THEN v ELSE w[m]]
  <2>1. x \in [1 .. n -> Val]
    BY <1>2, <1>8, <1>10
  <2> QED
    BY <1>11, <2>1
<1>13. StoredDir'[s] = [Name |-> StoredDir[s].Name, blocks |-> x]
  <2>1. StoredDir[s].Name = E.Name
    BY <1>2, <1>9
  <2> QED
    BY <1>6, <1>7, <1>8, <1>10, <2>1 DEF Stored
<1>14. StoredDir' = [StoredDir EXCEPT ![s] = StoredDir'[s]]
  <2>1. \A t \in Slot \ {s} : StoredDir'[t] = StoredDir[t]
    BY WritingOther
  <2> QED
    BY <1>2, <2>1, OneFile
<1> QED
  BY <1>10, <1>12, <1>13, <1>14 DEF Rewritten

LEMMA WriteBlockStep ==
    ASSUME IInv, IInv', NEW h \in Handle, NEW b \in Nat, NEW k \in Nat \ {0}, NEW v \in Val,
           WriteBlock(h, b, k, v)
    PROVE  FS!Next
<1>1. CASE ~Used(h) \/ FileOf(h).Mode = 0 \/ b + k > FileOf(h).ent.FileSize
  BY <1>1, FailStep DEF WriteBlock
<1>2. CASE Used(h) /\ FileOf(h).Mode # 0 /\ ~(b + k > FileOf(h).ent.FileSize)
  <2>1. b + k <= FileOf(h).ent.FileSize
    <3>1. FileOf(h).ent.FileSize \in Nat
      BY SizeType DEF IInv
    <3> QED
      BY <1>2, <3>1
  <2>2. PICK s, E, n, q, c : Transfer(h, b, k, s, E, n, q, c)
    BY <1>2, <2>1, TransferOf
  <2>3. /\ s = OpenedAt[h] /\ s \in Slot /\ s # 0
        /\ E = FileOf(h).ent /\ n = E.FileSize /\ n \in Nat /\ n <= MaxSize
        /\ GetAbsoluteClstr(h, b \div SecPerClstr) = [erc |-> "ok", Clstr |-> c] /\ c \in Clstr
        /\ Reach(c, b, k) = k
        /\ Moved(h, c, b, k - 1).Job = FUB[h].Job /\ Moved(h, c, b, k - 1).iFCB = FUB[h].iFCB
    BY <2>2 DEF Transfer
  <2>4. PICK abs : abs = GetAbsoluteClstr(h, b \div SecPerClstr) /\ abs.erc = "ok" /\ abs.Clstr = c
    BY <2>3
  <2>5. PICK at : at = {Place(c, b, i) : i \in 0 .. k - 1}
    OBVIOUS
  <2>6. PICK done : done = Reach(c, b, k) /\ done = k /\ ~(done < k)
    BY <2>3
  <2>7. /\ FUB' = [FUB EXCEPT ![h] = Moved(h, c, b, k - 1)]
        /\ data' = [x \in Clstr |-> [y \in 0 .. SecPerClstr - 1 |->
                        IF [Clstr |-> x, blk |-> y] \in at THEN v ELSE data[x][y]]]
        /\ ret' = Done(<<"WriteBlock", h, b, [i \in 1 .. k |-> v]>>)
        /\ UNCHANGED <<Dir, fat, disk, FCB>>
    <3> DEFINE A == GetAbsoluteClstr(h, b \div SecPerClstr)
               D == Reach(A.Clstr, b, k)
               At == {Place(A.Clstr, b, i) : i \in 0 .. D - 1}
    <3>1. A.erc = "ok" /\ A.Clstr = c /\ D = done /\ At = at
      BY <2>4, <2>5, <2>6
    <3>2. /\ FUB' = [FUB EXCEPT ![h] = Moved(h, A.Clstr, b, D - 1)]
          /\ data' = [x \in Clstr |-> [y \in 0 .. SecPerClstr - 1 |->
                        IF [Clstr |-> x, blk |-> y] \in At THEN v ELSE data[x][y]]]
          /\ ret' = IF D < k THEN Returned("ErcBeyondEOF")
                    ELSE Done(<<"WriteBlock", h, b, [i \in 1 .. k |-> v]>>)
          /\ UNCHANGED <<Dir, fat, disk, FCB>>
      BY <1>2, <3>1 DEF WriteBlock
    <3> HIDE DEF A, D, At
    <3> QED
      BY <2>6, <3>1, <3>2
  <2>8. Writing(h, b, k, v, s, E, n, q, c)
    <3>1. \A x \in Clstr : \A y \in 0 .. SecPerClstr - 1 :
            data'[x][y] = IF \E i \in 0 .. k - 1 : Place(c, b, i) = [Clstr |-> x, blk |-> y]
                          THEN v ELSE data[x][y]
      BY <2>7, <2>5
    <3> QED
      BY <2>2, <2>7, <3>1 DEF Writing
  <2>9. data' \in Volume
    BY DEF IInv, Tables, Volume
  <2>10. Rewritten(s, b, k, v, n)
    BY <1>2, <2>8, <2>9, WritingFile
  <2>11. PICK G : G = Moved(h, c, b, k - 1)
    OBVIOUS
  <2>12. OpenedAt' = OpenedAt
    BY <2>3, <2>7, <2>11, TransferOpened
  <2>13. Len(StoredDir[s].blocks) = n /\ StoredDir[s] = [Name |-> E.Name, blocks |-> StoredDir[s].blocks]
    BY <2>2, TransferLen
  <2>14. StoredDir' = [StoredDir EXCEPT ![OpenedAt[h]].blocks =
            [i \in 1 .. n |-> IF b < i /\ i <= b + k THEN v ELSE @[i]]]
    <3>1. PICK w : w = [i \in 1 .. n |-> IF b < i /\ i <= b + k THEN v ELSE StoredDir[s].blocks[i]]
      OBVIOUS
    <3>2. [StoredDir[s] EXCEPT !.blocks = w] = [Name |-> StoredDir[s].Name, blocks |-> w]
      BY <2>13
    <3>3. StoredDir' = [StoredDir EXCEPT ![s] = [StoredDir[s] EXCEPT !.blocks = w]]
      BY <2>10, <3>1, <3>2 DEF Rewritten
    <3> QED
      BY <2>3, <3>1, <3>3
  <2>15. FS!WriteBlock(h, b, k, v)
    <3>1. FS!Alone(h)
      BY <1>2, AloneIs
    <3>2. b + k <= n
      BY <2>1, <2>3
    <3> QED
      BY <2>3, <2>7, <2>12, <2>13, <2>14, <3>1, <3>2 DEF FS!WriteBlock, FS!Size, FS!Done, Done
  <2>16. b \in 0 .. MaxSize /\ k \in 1 .. MaxSize
    BY <2>1, <2>3, MaxSizeIs
  <2> QED
    BY <2>15, <2>16 DEF FS!Next
<1> QED
  BY <1>1, <1>2


LEMMA InitMaps == Init => FS!Init
<1> SUFFICES ASSUME Init PROVE FS!Init
  OBVIOUS
<1>1. Files(Dir) = {}
  BY DEF Init, NoFile, Files
<1>2. StoredDir = [s \in Slot |-> FS!NoFile]
  BY <1>1, ViewIs DEF View, Empty, FS!NoFile
<1>3. OpenedAt = [h \in Handle |-> 0]
  <2>1. \A h \in Handle : FUB[h].Job = "free"
    BY DEF Init, FreeFUB
  <2> QED
    BY <2>1, ViewIs DEF Places
<1> QED
  BY <1>2, <1>3 DEF Init, Returned, FS!Init, FS!Closed

LEMMA NextMaps == ASSUME AsAddressed, IInv, IInv', [Next]_vars PROVE [FS!Next]_(FS!vars)
<1>1. CASE UNCHANGED vars
  <2>1. StoredDir' = StoredDir /\ OpenedAt' = OpenedAt /\ ret' = ret
    BY <1>1, ViewIs DEF vars
  <2> QED
    BY <2>1 DEF FS!vars
<1>2. ASSUME NEW s \in 0 .. LastClstr \div PerSect, UpdateFAT(s) PROVE FS!Next
  BY <1>2, UpdateFATStep
<1>3. ASSUME NEW j \in Job, JobAbort(j) PROVE FS!Next
  BY <1>3, JobAbortStep
<1>4. ASSUME NEW j \in Job, NEW n \in Name, NEW mode \in {0, 1}, OpenFile(j, n, mode) PROVE FS!Next
  BY <1>4, OpenFileStep
<1>5. ASSUME NEW n \in Name, NEW ro \in Attrs, CreateFile(n, ro) PROVE FS!Next
  BY <1>5, CreateFileStep
<1>6. ASSUME NEW n \in Name, NEW new \in Name, RenameFile(n, new) PROVE FS!Next
  BY <1>6, RenameFileStep
<1>7. ASSUME NEW h \in Handle, CloseFile(h) PROVE FS!Next
  BY <1>7, CloseFileStep
<1>8. ASSUME NEW h \in Handle, DeleteFile(h) PROVE FS!Next
  BY <1>8, DeleteFileStep
<1>9. ASSUME NEW h \in Handle, NEW n \in Sizes, MaySetSize(h, n), SetFileSize(h, n) PROVE FS!Next
  <2>1. Used(h) => FUB[h].relClstr < nClstrs(n)
    BY <1>9 DEF MaySetSize, AsAddressed
  <2> QED
    BY <1>9, <2>1, SetFileSizeStep
<1>10. ASSUME NEW b \in 0 .. MaxSize, NEW k \in 1 .. MaxBlks PROVE b \in Nat /\ k \in Nat \ {0}
  BY MaxSizeIs, FileSysAssumption
<1>11. ASSUME NEW h \in Handle, NEW b \in 0 .. MaxSize, NEW k \in 1 .. MaxBlks,
              MayRead(h, b, k), ReadBlock(h, b, k)
       PROVE  FS!Next
  <2>1. Used(h) => b + k <= FileOf(h).ent.FileSize
    BY <1>11 DEF MayRead, AsAddressed
  <2> QED
    BY <1>10, <1>11, <2>1, ReadBlockStep
<1>12. ASSUME NEW h \in Handle, NEW b \in 0 .. MaxSize, NEW k \in 1 .. MaxBlks, NEW v \in Val,
              WriteBlock(h, b, k, v)
       PROVE  FS!Next
  BY <1>10, <1>12, WriteBlockStep
<1> QED
  BY <1>1, <1>2, <1>3, <1>4, <1>5, <1>6, <1>7, <1>8, <1>9, <1>11, <1>12 DEF Next

\* Every call changes the file it was made for, at the blocks it was made for, and no
\* other, and reads what was written there: fsys.c implements the file store.
THEOREM ImplementsStore == AsAddressed /\ Spec => ImplementsFileStore
<1> SUFFICES ASSUME AsAddressed PROVE Spec => ImplementsFileStore
  BY DEF AsAddressed
<1>1. Init => FS!Init
  BY InitMaps
<1>2. IInv /\ IInv' /\ [Next]_vars => [FS!Next]_(FS!vars)
  BY NextMaps
<1>3. Spec => []IInv
  BY IInvHolds
<1> QED
  BY <1>1, <1>2, <1>3, PTL DEF Spec, ImplementsFileStore, FS!Spec
=============================================================================
