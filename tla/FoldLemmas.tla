---------------------------- MODULE FoldLemmas ----------------------------
(***************************************************************************)
(* Induction for proofs about data.  The induction theorems of the library *)
(* are about operators; the one used here, WFMin, is about sets, and gives *)
(* every set of naturals that has a member a least one.                    *)
(*                                                                         *)
(* From it: what FoldLeft and FlattenSeq of SequencesExt compute.  Both    *)
(* define a function by recursion, FoldLeft on the sets of positions, so   *)
(* that a proof has to show that there is such a function and only one.    *)
(***************************************************************************)
EXTENDS SequencesExt, WellFoundedInduction, SequenceTheorems, TLAPS

-----------------------------------------------------------------------------
(* Sets of positions                                                       *)

\* A set of naturals with a member has a least one.
LEMMA LeastOf ==
  ASSUME NEW T, T \subseteq Nat, T # {}
  PROVE  \E n \in T : \A m \in T : n <= m
<1>1. PICK R : R = OpToRel(<, Nat)
  OBVIOUS
<1>2. IsWellFoundedOn(R, Nat)
  BY <1>1, NatLessThanWellFounded
<1>3. \E x \in T : \A y \in T : ~(<<y, x>> \in R)
  BY <1>2, WFMin
<1>4. \A x, y \in Nat : y < x => <<y, x>> \in R
  BY <1>1 DEF OpToRel
<1>5. PICK x \in T : \A y \in T : ~(y < x)
  BY <1>3, <1>4
<1>6. \A y \in T : y \in Nat /\ x \in Nat /\ ~(y < x)
  BY <1>5
<1>7. \A y \in T : x <= y
  BY <1>6
<1> QED BY <1>7

\* Induction: a set with 0, and with n + 1 for every n of it, has all naturals.
LEMMA ByInduction ==
  ASSUME NEW T, 0 \in T, \A n \in Nat : n \in T => n + 1 \in T
  PROVE  Nat \subseteq T
<1> SUFFICES ASSUME Nat \ T # {} PROVE FALSE
  OBVIOUS
<1>1. PICK n \in Nat \ T : \A m \in Nat \ T : n <= m
  BY LeastOf
<1>2. n # 0 /\ n - 1 \in Nat /\ n - 1 \in T
  BY <1>1
<1> QED BY <1>1, <1>2

\* Max finds the largest of a set of positions.
LEMMA MaxOf ==
  ASSUME NEW k \in Nat, NEW x \in SUBSET (1..k), x # {}
  PROVE  /\ Max(x) \in x /\ \A y \in x : y <= Max(x)
         /\ k \in x => Max(x) = k
<1> DEFINE T == {j \in Nat : k - j \in x}
<1>1. T # {} /\ T \subseteq Nat
  <2>1. PICK y : y \in x
    OBVIOUS
  <2>2. k - y \in Nat /\ k - (k - y) = y
    BY <2>1
  <2> QED BY <2>1, <2>2
<1> HIDE DEF T
<1>2. PICK j \in T : \A i \in T : j <= i
  BY <1>1, LeastOf
<1>3. j \in Nat /\ k - j \in x
  BY <1>2 DEF T
<1>4. \A y \in x : y <= k - j
  <2> TAKE y \in x
  <2>1. y \in 1..k /\ k - y \in Nat /\ k - (k - y) = y
    OBVIOUS
  <2>2. k - y \in T
    BY <2>1 DEF T
  <2> QED BY <1>2, <1>3, <2>1, <2>2
<1>5. \E m \in x : \A y \in x : m >= y
  BY <1>3, <1>4
<1>6. Max(x) \in x /\ \A y \in x : Max(x) >= y
  BY <1>5 DEF Max
<1>7. Max(x) \in 1..k
  BY <1>6
<1> QED BY <1>6, <1>7

\* There are no positions up to 0.
LEMMA NoneBelow == \A x \in SUBSET (1..0) : x = {}
<1>1. 1..0 = {}
  OBVIOUS
<1> QED BY <1>1

\* Without their largest, positions up to k + 1 are positions up to k.
LEMMA WithoutMax ==
  ASSUME NEW k \in Nat, NEW x \in SUBSET (1..(k + 1)), x # {}
  PROVE  Max(x) \in 1..(k + 1) /\ x \ {Max(x)} \in SUBSET (1..k)
<1>1. PICK m, l : m = Max(x) /\ l = k + 1
  OBVIOUS
<1>2. l \in Nat /\ x \in SUBSET (1..l)
  BY <1>1
<1>3. m \in x /\ \A y \in x : y <= m
  BY <1>1, <1>2, MaxOf
<1>4. ASSUME NEW y \in x, y # m PROVE y \in 1..k
  <2>1. y \in 1..l /\ m \in 1..l /\ y <= m
    BY <1>2, <1>3
  <2> QED BY <1>1, <1>4, <2>1
<1>5. x \ {m} \subseteq 1..k
  BY <1>4
<1>6. m \in 1..(k + 1)
  BY <1>3
<1> QED BY <1>1, <1>5, <1>6

\* Positions up to k are positions up to any n that is no less.
LEMMA Wider ==
  ASSUME NEW k \in Nat, NEW n \in Nat, k <= n
  PROVE  \A x \in SUBSET (1..k) : x \in SUBSET (1..n)
<1>1. 1..k \subseteq 1..n
  OBVIOUS
<1> QED BY <1>1

-----------------------------------------------------------------------------
(* Folds                                                                   *)

\* The function it gives each set of positions up to n the fold of step over it,
\* from its least to its largest.  A step is only known to be taken within V.
Iterates(it, n, V, base, step) ==
  /\ it = [x \in SUBSET (1..n) |-> it[x]]
  /\ it[{}] = base
  /\ \A x \in SUBSET (1..n) :
       x # {} /\ it[x \ {Max(x)}] \in V => it[x] = step[<<it[x \ {Max(x)}], Max(x)>>]

\* A fold stays in V.
LEMMA IteratesTyped ==
  ASSUME NEW V, NEW base \in V, NEW n \in Nat, NEW step \in [V \X (1..n) -> V],
         NEW it, Iterates(it, n, V, base, step)
  PROVE  \A x \in SUBSET (1..n) : it[x] \in V
<1> DEFINE Q(k) == \A x \in SUBSET (1..k) : it[x] \in V
           T == {k \in Nat : k <= n => Q(k)}
<1>1. Q(0)
  BY NoneBelow DEF Iterates
<1>2. ASSUME NEW k \in Nat, k + 1 <= n, Q(k) PROVE Q(k + 1)
  <2> SUFFICES ASSUME NEW x \in SUBSET (1..(k + 1)) PROVE it[x] \in V
    OBVIOUS
  <2>1. CASE x = {}
    BY <2>1 DEF Iterates
  <2>2. CASE x # {}
    <3>1. PICK m : m = Max(x)
      OBVIOUS
    <3>2. m \in 1..(k + 1) /\ x \ {m} \in SUBSET (1..k)
      BY <2>2, <3>1, WithoutMax
    <3>3. m \in 1..n /\ it[x \ {m}] \in V
      BY <1>2, <3>2
    <3>4. x \in SUBSET (1..n)
      BY <1>2, Wider
    <3>5. it[x] = step[<<it[x \ {m}], m>>]
      BY <2>2, <3>1, <3>3, <3>4 DEF Iterates
    <3> QED BY <3>3, <3>5
  <2> QED BY <2>1, <2>2
<1> HIDE DEF Q
<1>3. 0 \in T
  BY <1>1
<1>4. \A k \in Nat : k \in T => k + 1 \in T
  BY <1>2
<1> HIDE DEF T
<1>5. n \in T
  BY <1>3, <1>4, ByInduction
<1>6. Q(n)
  BY <1>5 DEF T
<1> QED BY <1>6 DEF Q

\* There is one fold at most.
LEMMA IteratesOnce ==
  ASSUME NEW V, NEW base \in V, NEW n \in Nat, NEW step \in [V \X (1..n) -> V],
         NEW it, Iterates(it, n, V, base, step), NEW jt, Iterates(jt, n, V, base, step)
  PROVE  jt = it
<1> DEFINE Q(k) == \A x \in SUBSET (1..k) : jt[x] = it[x]
           T == {k \in Nat : k <= n => Q(k)}
<1>1. Q(0)
  BY NoneBelow DEF Iterates
<1>2. ASSUME NEW k \in Nat, k + 1 <= n, Q(k) PROVE Q(k + 1)
  <2> SUFFICES ASSUME NEW x \in SUBSET (1..(k + 1)) PROVE jt[x] = it[x]
    OBVIOUS
  <2>1. CASE x = {}
    BY <2>1 DEF Iterates
  <2>2. CASE x # {}
    <3>1. PICK m : m = Max(x)
      OBVIOUS
    <3>2. m \in 1..(k + 1) /\ x \ {m} \in SUBSET (1..k)
      BY <2>2, <3>1, WithoutMax
    <3>3. x \in SUBSET (1..n) /\ x \ {m} \in SUBSET (1..n)
      BY <1>2, <3>2, Wider
    <3>4. it[x \ {m}] \in V /\ jt[x \ {m}] = it[x \ {m}]
      BY <1>2, <3>2, <3>3, IteratesTyped
    <3> QED BY <2>2, <3>1, <3>3, <3>4 DEF Iterates
  <2> QED BY <2>1, <2>2
<1> HIDE DEF Q
<1>3. 0 \in T
  BY <1>1
<1>4. \A k \in Nat : k \in T => k + 1 \in T
  BY <1>2
<1> HIDE DEF T
<1>5. n \in T
  BY <1>3, <1>4, ByInduction
<1>6. Q(n)
  BY <1>5 DEF T
<1>7. \A x \in SUBSET (1..n) : jt[x] = it[x]
  BY <1>6 DEF Q
<1> QED BY <1>7 DEF Iterates

\* There is one: what is known of the positions up to k gives the one up to k + 1.
LEMMA IteratesExists ==
  ASSUME NEW V, NEW base \in V, NEW n \in Nat, NEW step \in [V \X (1..n) -> V]
  PROVE  \E it : Iterates(it, n, V, base, step)
<1> DEFINE P(k, it) == it \in [SUBSET (1..k) -> V] /\ it[{}] = base
                       /\ \A x \in SUBSET (1..k) :
                            x # {} => it[x] = step[<<it[x \ {Max(x)}], Max(x)>>]
           Q(k) == \E it : P(k, it)
           T == {k \in Nat : k <= n => Q(k)}
<1>1. Q(0)
  <2>1. PICK it : it = [x \in SUBSET (1..0) |-> base]
    OBVIOUS
  <2>2. {} \in SUBSET (1..0)
    OBVIOUS
  <2>3. it \in [SUBSET (1..0) -> V] /\ it[{}] = base
    BY <2>1, <2>2
  <2> QED BY <2>3, NoneBelow
<1>2. ASSUME NEW k \in Nat, k + 1 <= n, Q(k) PROVE Q(k + 1)
  <2>1. PICK it : P(k, it)
    BY <1>2
  <2>2. PICK m : m = k + 1
    OBVIOUS
  <2>3. PICK jt : jt = [x \in SUBSET (1..m) |-> IF m \in x THEN step[<<it[x \ {m}], m>>]
                                               ELSE it[x]]
    OBVIOUS
  <2>4. m \in 1..n /\ m \in Nat /\ k <= m
    BY <1>2, <2>2
  <2>5. \A x \in SUBSET (1..m) : /\ x \ {m} \in SUBSET (1..k)
                                 /\ m \notin x => x \in SUBSET (1..k)
    <3>1. \A y \in 1..m : y # m => y \in 1..k
      BY <2>2, <2>4
    <3> QED BY <3>1
  <2>6. \A x \in SUBSET (1..k) : x \in SUBSET (1..m) /\ m \notin x
    <3>1. m \notin 1..k
      BY <2>2, <2>4
    <3> QED BY <2>4, <3>1, Wider
  <2>7. \A x \in SUBSET (1..k) : jt[x] = it[x]
    BY <2>3, <2>6
  <2>8. ASSUME NEW x \in SUBSET (1..m), x # {}
        PROVE  jt[x] = step[<<jt[x \ {Max(x)}], Max(x)>>]
    <3>1. CASE m \in x
      <4>1. Max(x) = m
        BY <2>4, <2>8, <3>1, MaxOf
      <4>2. jt[x] = step[<<it[x \ {m}], m>>]
        BY <2>3, <3>1
      <4>3. jt[x \ {m}] = it[x \ {m}]
        BY <2>5, <2>7
      <4> QED BY <4>1, <4>2, <4>3
    <3>2. CASE m \notin x
      <4>1. x \in SUBSET (1..k) /\ x \ {Max(x)} \in SUBSET (1..k)
        BY <2>5, <3>2
      <4>2. it[x] = step[<<it[x \ {Max(x)}], Max(x)>>]
        BY <2>1, <2>8, <4>1
      <4> QED BY <2>7, <4>1, <4>2
    <3> QED BY <3>1, <3>2
  <2>9. jt[{}] = base
    BY <2>1, <2>7
  <2>10. jt \in [SUBSET (1..m) -> V]
    <3>1. ASSUME NEW x \in SUBSET (1..m)
          PROVE  (IF m \in x THEN step[<<it[x \ {m}], m>>] ELSE it[x]) \in V
      <4>1. it[x \ {m}] \in V /\ (m \notin x => it[x] \in V)
        BY <2>1, <2>5
      <4>2. <<it[x \ {m}], m>> \in V \X (1..n)
        BY <2>4, <4>1
      <4> QED BY <4>1, <4>2
    <3> QED BY <2>3, <3>1
  <2>11. P(m, jt)
    BY <2>8, <2>9, <2>10
  <2> QED BY <2>2, <2>11
<1> HIDE DEF Q
<1>3. 0 \in T
  BY <1>1
<1>4. \A k \in Nat : k \in T => k + 1 \in T
  BY <1>2
<1> HIDE DEF T
<1>5. n \in T
  BY <1>3, <1>4, ByInduction
<1>6. Q(n)
  BY <1>5 DEF T
<1>7. PICK it : P(n, it)
  BY <1>6 DEF Q
<1>8. it = [x \in SUBSET (1..n) |-> it[x]]
  BY <1>7
<1> QED BY <1>7, <1>8 DEF Iterates

\* The fold of step, its only one, and the values g it goes through.
Folding(it, g, n, V, base, step) ==
  /\ Iterates(it, n, V, base, step)
  /\ \A x \in SUBSET (1..n) : it[x] \in V
  /\ \A jt : Iterates(jt, n, V, base, step) => jt = it
  /\ g \in [0..n -> V] /\ g[0] = base /\ g[n] = it[1..n]
  /\ \A i \in 1..n : g[i] = step[<<g[i - 1], i>>]

\* FoldLeft of a step that stays in V goes through the positions one by one.
LEMMA Folds ==
  ASSUME NEW V, NEW base \in V, NEW n \in Nat, NEW step \in [V \X (1..n) -> V]
  PROVE  \E it, g : Folding(it, g, n, V, base, step)
<1>1. PICK it : Iterates(it, n, V, base, step)
  BY IteratesExists
<1>2. \A x \in SUBSET (1..n) : it[x] \in V
  BY <1>1, IteratesTyped
<1>3. \A jt : Iterates(jt, n, V, base, step) => jt = it
  BY <1>1, IteratesOnce
<1>4. PICK g : g = [i \in 0..n |-> it[1..i]]
  OBVIOUS
<1>5. \A i \in 0..n : 1..i \in SUBSET (1..n)
  <2> TAKE i \in 0..n
  <2>1. 1..i \subseteq 1..n
    OBVIOUS
  <2> QED BY <2>1
<1>6. g[0] = base
  <2>1. 0 \in 0..n /\ 1..0 = {}
    OBVIOUS
  <2> QED BY <1>1, <1>4, <2>1 DEF Iterates
<1>7. g \in [0..n -> V]
  BY <1>2, <1>4, <1>5
<1>8. ASSUME NEW i \in 1..n PROVE g[i] = step[<<g[i - 1], i>>]
  <2>1. PICK x : x = 1..i
    OBVIOUS
  <2>2. i \in Nat /\ i \in x /\ x # {} /\ x \in SUBSET (1..i)
    BY <2>1
  <2>3. Max(x) = i
    BY <2>2, MaxOf
  <2>4. x \ {i} = 1..(i - 1)
    BY <2>1
  <2>5. i \in 0..n /\ i - 1 \in 0..n
    OBVIOUS
  <2>6. x \in SUBSET (1..n) /\ x \ {i} \in SUBSET (1..n)
    BY <1>5, <2>1, <2>4, <2>5
  <2>7. it[x] = step[<<it[x \ {i}], i>>]
    BY <1>1, <1>2, <2>2, <2>3, <2>6 DEF Iterates
  <2>8. g[i] = it[x] /\ g[i - 1] = it[x \ {i}]
    BY <1>4, <2>1, <2>4, <2>5
  <2> QED BY <2>7, <2>8
<1>9. g[n] = it[1..n]
  BY <1>4
<1> QED BY <1>1, <1>2, <1>3, <1>6, <1>7, <1>8, <1>9 DEF Folding
\* Two sequences of values with the same beginning and the same steps end alike.
LEMMA TraceOnce ==
  ASSUME NEW n \in Nat, NEW g, NEW h, g[0] = h[0],
         \A i \in 1..n : g[i - 1] = h[i - 1] => g[i] = h[i]
  PROVE  g[n] = h[n]
<1> DEFINE T == {i \in Nat : i <= n => g[i] = h[i]}
<1>1. 0 \in T
  OBVIOUS
<1>2. ASSUME NEW k \in Nat, k \in T PROVE k + 1 \in T
  <2> SUFFICES ASSUME k + 1 <= n PROVE g[k + 1] = h[k + 1]
    OBVIOUS
  <2>1. k + 1 \in 1..n /\ (k + 1) - 1 = k /\ g[k] = h[k]
    BY <1>2
  <2> QED BY <2>1
<1> HIDE DEF T
<1>3. n \in T
  BY <1>1, <1>2, ByInduction
<1> QED BY <1>3 DEF T

\* f joins a sequence of sequences up to each of its members.
Flattening(f, seqs) ==
  f = [i \in 1..Len(seqs) |-> IF i = 1 THEN seqs[i] ELSE f[i - 1] \o seqs[i]]

\* FlattenSeq goes through the members one by one, too.
LEMMA Flattens ==
  ASSUME NEW C, NEW seqs \in Seq(Seq(C)), seqs # <<>>
  PROVE  \E f \in [1..Len(seqs) -> Seq(C)] :
           Flattening(f, seqs) /\ FlattenSeq(seqs) = f[Len(seqs)]
<1>1. PICK n \in Nat : n = Len(seqs) /\ n # 0
  OBVIOUS
<1> DEFINE V == Seq(C)
<1>2. PICK step : step = [p \in V \X (1..n) |-> p[1] \o seqs[p[2]]]
  OBVIOUS
<1>3. \A i \in 1..n : seqs[i] \in V
  BY <1>1
<1>4. step \in [V \X (1..n) -> V]
  <2>1. ASSUME NEW p \in V \X (1..n) PROVE p[1] \o seqs[p[2]] \in V
    <3>1. p[1] \in V /\ seqs[p[2]] \in V
      BY <1>3
    <3> QED BY <3>1
  <2> QED BY <1>2, <2>1
<1>5. PICK base \in V : base = <<>>
  <2>1. <<>> \in V
    OBVIOUS
  <2> QED BY <2>1
<1>6. \A v \in V, i \in 1..n : step[<<v, i>>] = v \o seqs[i]
  BY <1>2
<1>7. \A i \in 1..n : base \o seqs[i] = seqs[i]
  BY <1>3, <1>5
<1> HIDE DEF V
<1>8. PICK it, g : Folding(it, g, n, V, base, step)
  BY <1>4, <1>5, Folds
<1>9. g \in [0..n -> V] /\ g[0] = base /\ \A i \in 1..n : g[i] = step[<<g[i - 1], i>>]
  BY <1>8 DEF Folding
<1>10. PICK f : f = [i \in 1..n |-> g[i]]
  OBVIOUS
<1>11. f \in [1..n -> V]
  BY <1>9, <1>10
<1>12. ASSUME NEW i \in 1..n PROVE f[i] = IF i = 1 THEN seqs[i] ELSE f[i - 1] \o seqs[i]
  <2>1. i - 1 \in 0..n /\ g[i - 1] \in V
    BY <1>9
  <2>2. g[i] = g[i - 1] \o seqs[i]
    BY <1>6, <1>9, <2>1
  <2>3. CASE i = 1
    <3>1. i - 1 = 0 /\ base \o seqs[i] = seqs[i]
      BY <1>7, <2>3
    <3>2. g[i - 1] = base
      BY <1>9, <3>1
    <3> QED BY <1>10, <2>2, <2>3, <3>1, <3>2
  <2>4. CASE i # 1
    <3>1. i - 1 \in 1..n
      BY <2>4
    <3> QED BY <1>10, <2>2, <2>4, <3>1
  <2> QED BY <2>3, <2>4
<1>13. Flattening(f, seqs)
  BY <1>1, <1>10, <1>12 DEF Flattening
<1>14. ASSUME NEW jt, Flattening(jt, seqs) PROVE jt = f
  <2>1. /\ jt = [i \in 1..n |-> jt[i]] /\ jt[1] = seqs[1]
        /\ \A i \in 1..n : i # 1 => jt[i] = jt[i - 1] \o seqs[i]
    <3>1. jt = [i \in 1..n |-> IF i = 1 THEN seqs[i] ELSE jt[i - 1] \o seqs[i]]
      BY <1>1, <1>14 DEF Flattening
    <3>2. \A i \in 1..n : jt[i] = IF i = 1 THEN seqs[i] ELSE jt[i - 1] \o seqs[i]
      BY <3>1
    <3>3. 1 \in 1..n
      BY <1>1
    <3> QED BY <3>1, <3>2, <3>3
  <2> DEFINE T == {k \in Nat : k + 1 <= n => jt[k + 1] = f[k + 1]}
  <2>2. 0 \in T
    <3>1. 1 \in 1..n /\ 0 + 1 = 1
      BY <1>1
    <3>2. f[1] = seqs[1]
      BY <1>12, <3>1
    <3> QED BY <2>1, <3>1, <3>2
  <2>3. ASSUME NEW k \in Nat, k \in T PROVE k + 1 \in T
    <3> SUFFICES ASSUME (k + 1) + 1 <= n PROVE jt[(k + 1) + 1] = f[(k + 1) + 1]
      OBVIOUS
    <3>1. PICK i : i = (k + 1) + 1
      OBVIOUS
    <3>2. i \in 1..n /\ i # 1 /\ i - 1 = k + 1 /\ jt[k + 1] = f[k + 1]
      BY <2>3, <3>1
    <3>3. jt[i] = jt[i - 1] \o seqs[i] /\ f[i] = f[i - 1] \o seqs[i]
      BY <1>12, <2>1, <3>2
    <3> QED BY <3>1, <3>2, <3>3
  <2> HIDE DEF T
  <2>4. Nat \subseteq T
    BY <2>2, <2>3, ByInduction
  <2>5. ASSUME NEW i \in 1..n PROVE jt[i] = f[i]
    <3>1. i - 1 \in Nat /\ (i - 1) + 1 = i /\ i <= n
      OBVIOUS
    <3>2. i - 1 \in T
      BY <2>4, <3>1
    <3>3. (i - 1) + 1 <= n => jt[(i - 1) + 1] = f[(i - 1) + 1]
      BY <3>2 DEF T
    <3> QED BY <3>1, <3>3
  <2> QED BY <1>10, <2>1, <2>5
<1>15. FlattenSeq(seqs) = f[Len(seqs)]
  BY <1>1, <1>13, <1>14 DEF FlattenSeq, Flattening
<1> QED BY <1>1, <1>11, <1>13, <1>15 DEF V
\* Append, position by position.
LEMMA AppendIs ==
  ASSUME NEW S, NEW v \in Seq(S), NEW x \in S, NEW l, l = Len(v) + 1
  PROVE  Append(v, x) = [i \in 1..l |-> IF i = l THEN x ELSE v[i]]
<1>1. PICK a : a = Append(v, x)
  OBVIOUS
<1>2. PICK k \in Nat : k = Len(v)
  OBVIOUS
<1>3. a \in Seq(S) /\ Len(a) = l /\ a[l] = x /\ \A i \in 1..k : a[i] = v[i]
  BY <1>1, <1>2, AppendProperties
<1>4. a = [i \in 1..l |-> a[i]]
  BY <1>3
<1>5. \A i \in 1..l : i = l \/ i \in 1..k
  BY <1>2
<1>6. \A i \in 1..l : a[i] = IF i = l THEN x ELSE v[i]
  BY <1>3, <1>5
<1> QED BY <1>1, <1>4, <1>6
=============================================================================
