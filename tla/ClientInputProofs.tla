------------------------- MODULE ClientInputProofs -------------------------
(***************************************************************************)
(* The words of the client's user, for all lines, any number of them and   *)
(* every way in which they reach cin.                                      *)
(*                                                                         *)
(* What was typed is at every moment what has been taken, what cin holds   *)
(* and what the kernel holds; and what has been taken means what has been  *)
(* carried out (InPlace).  Words and meanings are folds over sequences,    *)
(* which FoldLemmas unfolds.                                               *)
(***************************************************************************)
EXTENDS ClientInput, FoldLemmas

-----------------------------------------------------------------------------
(* Words and meanings                                                      *)

\* What cin may hold, and what the words may come to mean.
Tokens  == {Eol} \cup UNION {Range(line) : line \in Lines}
Verbs   == Tokens \cup {"none"}
Meant   == Seq(Verbs \cup {"invalid"})
Wants   == {"command", "name", "end", "nothing"}
Telling == [does : Seq(Meant), wants : Wants, verb : Verbs]

\* A sequence goes on behind another.
LEMMA Extends ==
  ASSUME NEW S, NEW a \in Seq(S), NEW r \in Seq(S), NEW x \in S
  PROVE  a \o r \in Seq(S) /\ a \o Append(r, x) = Append(a \o r, x)
<1>1. PICK q, v \in Seq(S) : q = Append(r, x) /\ v = a \o r
  <2>1. Append(r, x) \in Seq(S) /\ a \o r \in Seq(S)
    BY AppendProperties, ConcatProperties
  <2> QED BY <2>1
<1>2. PICK u, w \in Seq(S) : u = a \o q /\ w = Append(v, x)
  <2>1. Append(v, x) \in Seq(S) /\ a \o q \in Seq(S)
    BY AppendProperties, ConcatProperties
  <2> QED BY <2>1
<1>3. PICK m, n, k \in Nat : m = Len(a) /\ n = Len(r) /\ k = m + n
  <2>1. Len(a) \in Nat /\ Len(r) \in Nat
    BY LenProperties
  <2> QED BY <2>1
<1>4. Len(q) = n + 1 /\ q[n + 1] = x /\ \A i \in 1..n : q[i] = r[i]
  BY <1>1, <1>3, AppendProperties
<1>5. Len(v) = k /\ \A i \in 1..k : v[i] = IF i <= m THEN a[i] ELSE r[i - m]
  BY <1>1, <1>3, ConcatProperties
<1>6. Len(u) = k + 1 /\ \A i \in 1..(k + 1) : u[i] = IF i <= m THEN a[i] ELSE q[i - m]
  <2>1. Len(a) + Len(q) = k + 1
    BY <1>3, <1>4
  <2> QED BY <1>2, <1>3, <2>1, ConcatProperties
<1>7. Len(w) = k + 1 /\ w[k + 1] = x /\ \A i \in 1..k : w[i] = v[i]
  BY <1>2, <1>5, AppendProperties
<1>8. ASSUME NEW i \in 1..(k + 1) PROVE u[i] = w[i]
  <2>1. CASE i = k + 1
    <3>1. ~(i <= m) /\ i - m = n + 1
      BY <1>3, <2>1
    <3> QED BY <1>4, <1>6, <1>7, <2>1, <3>1
  <2>2. CASE i \in 1..k
    <3>1. ~(i <= m) => i - m \in 1..n
      BY <1>3, <2>2
    <3> QED BY <1>4, <1>5, <1>6, <1>7, <2>2, <3>1
  <2> QED BY <2>1, <2>2
<1>9. u = w
  BY <1>1, <1>2, <1>6, <1>7, <1>8, SeqEqual
<1> QED BY <1>1, <1>2, <1>9

\* A line is a sequence of words without its end.
LEMMA LineType ==
  ASSUME NEW line \in Lines
  PROVE  /\ line \in Seq(Tokens) /\ Len(line) \in Nat
         /\ \A i \in 1..Len(line) : line[i] \in Tokens /\ line[i] # Eol
<1>1. line \in Seq(Range(line)) /\ Eol \notin Range(line)
  BY LinesAssumption
<1>2. Range(line) \subseteq Tokens
  BY DEF Tokens
<1>3. line \in Seq(Tokens)
  BY <1>1, <1>2, SeqMonotonic
<1>4. \A i \in 1..Len(line) : line[i] \in Range(line)
  BY <1>1
<1> QED BY <1>1, <1>3, <1>4

\* The meaning of words goes from one telling to another.
LEMMA MeansType ==
  ASSUME NEW m \in Telling, NEW w \in Tokens
  PROVE  Means(m, w) \in Telling
<1>1. /\ m = [does |-> m.does, wants |-> m.wants, verb |-> m.verb]
      /\ m.does \in Seq(Meant) /\ m.wants \in Wants /\ m.verb \in Verbs
  BY DEF Telling
<1>2. <<w>> \in Meant /\ <<m.verb, w>> \in Meant /\ <<"invalid">> \in Meant
  BY <1>1 DEF Meant, Verbs
<1>3. /\ Append(m.does, <<w>>) \in Seq(Meant)
      /\ Append(m.does, <<m.verb, w>>) \in Seq(Meant)
      /\ Append(m.does, <<"invalid">>) \in Seq(Meant)
  BY <1>1, <1>2, AppendProperties
<1>4. w \in Verbs
  BY DEF Verbs
<1> QED BY <1>1, <1>3, <1>4 DEF Means, Telling, Wants

\* Told goes through the words one by one.
LEMMA Tells ==
  ASSUME NEW s \in Seq(Tokens)
  PROVE  \E g \in [0..Len(s) -> Telling] :
           /\ g[0] = Untold /\ \A i \in 1..Len(s) : g[i] = Means(g[i - 1], s[i])
           /\ Told(s) = g[Len(s)]
<1>1. PICK n \in Nat : n = Len(s)
  OBVIOUS
<1>2. PICK step : step = [p \in Telling \X (1..n) |-> Means(p[1], s[p[2]])]
  OBVIOUS
<1>3. \A i \in 1..n : s[i] \in Tokens
  BY <1>1
<1>4. step \in [Telling \X (1..n) -> Telling]
  <2>1. ASSUME NEW p \in Telling \X (1..n) PROVE Means(p[1], s[p[2]]) \in Telling
    <3>1. p[1] \in Telling /\ s[p[2]] \in Tokens
      BY <1>3
    <3> QED BY <3>1, MeansType
  <2> QED BY <1>2, <2>1
<1>5. PICK base \in Telling : base = Untold
  BY EmptySeq DEF Untold, Telling, Wants, Verbs
<1>6. \A v \in Telling, i \in 1..n : step[<<v, i>>] = Means(v, s[i])
  BY <1>2
<1>7. PICK it, g : Folding(it, g, n, Telling, base, step)
  BY <1>4, Folds
<1>8. /\ Iterates(it, n, Telling, base, step)
      /\ \A x \in SUBSET (1..n) : it[x] \in Telling
      /\ \A jt : Iterates(jt, n, Telling, base, step) => jt = it
      /\ g \in [0..n -> Telling] /\ g[0] = base /\ g[n] = it[1..n]
      /\ \A i \in 1..n : g[i] = step[<<g[i - 1], i>>]
  BY <1>7 DEF Folding
<1>9. DOMAIN s = 1..n
  BY <1>1
<1>10. \A x \in SUBSET (1..n) : x # {} => Max(x) \in 1..n /\ x \ {Max(x)} \in SUBSET (1..n)
  BY MaxOf
<1> DEFINE Equation(jt) ==
      jt = [x \in SUBSET (DOMAIN s) |-> IF x = {} THEN Untold
                                        ELSE Means(jt[x \ {Max(x)}], s[Max(x)])]
<1>11. Equation(it)
  <2>1. ASSUME NEW x \in SUBSET (1..n), x # {}
        PROVE  it[x] = Means(it[x \ {Max(x)}], s[Max(x)])
    <3>1. PICK m : m = Max(x)
      OBVIOUS
    <3>2. m \in 1..n /\ it[x \ {m}] \in Telling
      BY <1>8, <1>10, <2>1, <3>1
    <3>3. it[x] = step[<<it[x \ {m}], m>>]
      BY <1>8, <2>1, <3>1, <3>2 DEF Iterates
    <3> QED BY <1>6, <3>1, <3>2, <3>3
  <2>2. it = [x \in SUBSET (1..n) |-> it[x]] /\ it[{}] = base
    BY <1>8 DEF Iterates
  <2> QED BY <1>5, <1>9, <2>1, <2>2
<1>12. ASSUME NEW jt, Equation(jt) PROVE jt = it
  <2>1. jt = [x \in SUBSET (1..n) |-> IF x = {} THEN Untold
                                       ELSE Means(jt[x \ {Max(x)}], s[Max(x)])]
    BY <1>9, <1>12
  <2>2. {} \in SUBSET (1..n)
    OBVIOUS
  <2>3. jt[{}] = base /\ jt = [x \in SUBSET (1..n) |-> jt[x]]
    BY <1>5, <2>1, <2>2
  <2>4. \A x \in SUBSET (1..n) : x # {} /\ jt[x \ {Max(x)}] \in Telling =>
          jt[x] = step[<<jt[x \ {Max(x)}], Max(x)>>]
    BY <1>6, <1>10, <2>1
  <2>5. Iterates(jt, n, Telling, base, step)
    BY <2>3, <2>4 DEF Iterates
  <2> QED BY <1>8, <2>5
<1>13. Told(s) = it[DOMAIN s]
  BY <1>11, <1>12 DEF Told, FoldLeft, MapThenFoldSet
<1>14. Told(s) = g[n]
  BY <1>8, <1>9, <1>13
<1>15. \A i \in 1..n : g[i] = Means(g[i - 1], s[i])
  <2>1. \A i \in 1..n : i - 1 \in 0..n
    OBVIOUS
  <2> QED BY <1>6, <1>8, <2>1
<1> QED BY <1>1, <1>5, <1>8, <1>14, <1>15

\* What words mean, and what one word more adds.
LEMMA ToldNext ==
  ASSUME NEW s \in Seq(Tokens), NEW w \in Tokens
  PROVE  /\ Told(s) \in Telling /\ Told(<<>>) = Untold
         /\ Told(Append(s, w)) = Means(Told(s), w)
<1>1. PICK n \in Nat, t \in Seq(Tokens) : n = Len(s) /\ t = Append(s, w)
  <2>1. Len(s) \in Nat /\ Append(s, w) \in Seq(Tokens)
    BY AppendProperties, LenProperties
  <2> QED BY <2>1
<1>2. PICK m \in Nat : m = n + 1 /\ m = Len(t) /\ t[m] = w /\ \A i \in 1..n : t[i] = s[i]
  BY <1>1, AppendProperties
<1>3. PICK g \in [0..n -> Telling] :
        /\ g[0] = Untold /\ \A i \in 1..n : g[i] = Means(g[i - 1], s[i])
        /\ Told(s) = g[n]
  BY <1>1, Tells
<1>4. PICK h \in [0..m -> Telling] :
        /\ h[0] = Untold /\ \A i \in 1..m : h[i] = Means(h[i - 1], t[i])
        /\ Told(t) = h[m]
  BY <1>2, Tells
<1>5. g[n] = h[n]
  <2>1. \A i \in 1..n : g[i - 1] = h[i - 1] => g[i] = h[i]
    BY <1>2, <1>3, <1>4
  <2>2. g[0] = h[0]
    BY <1>3, <1>4
  <2> QED BY <2>1, <2>2, TraceOnce
<1>6. h[m] = Means(h[n], w)
  BY <1>2, <1>4
<1>7. Told(<<>>) = Untold
  <2>1. <<>> \in Seq(Tokens) /\ Len(<<>>) = 0
    BY EmptySeq
  <2> QED BY <2>1, Tells
<1> QED BY <1>1, <1>3, <1>4, <1>5, <1>6, <1>7

\* The words of lines, one line after the other.
LEMMA WordsOf ==
  ASSUME NEW lines \in Seq(Lines)
  PROVE  \E g \in [0..Len(lines) -> Seq(Tokens)] :
           /\ g[0] = <<>>
           /\ \A i \in 1..Len(lines) : g[i] = g[i - 1] \o Append(lines[i], Eol)
           /\ Words(lines) = g[Len(lines)]
<1>1. PICK n \in Nat : n = Len(lines) /\ DOMAIN lines = 1..n
  OBVIOUS
<1>2. PICK seqs : seqs = [i \in 1..n |-> Append(lines[i], Eol)]
  OBVIOUS
<1>3. Words(lines) = FlattenSeq(seqs)
  BY <1>1, <1>2 DEF Words
<1>4. ASSUME NEW i \in 1..n PROVE Append(lines[i], Eol) \in Seq(Tokens)
  <2>1. lines[i] \in Seq(Tokens) /\ Eol \in Tokens
    BY <1>1, LineType DEF Tokens
  <2> QED BY <2>1
<1>5. seqs \in Seq(Seq(Tokens)) /\ Len(seqs) = n
  <2>1. seqs \in [1..n -> Seq(Tokens)]
    BY <1>2, <1>4
  <2> QED BY <2>1
<1>6. CASE n = 0
  <2>1. FlattenSeq(seqs) = seqs
    BY <1>5, <1>6 DEF FlattenSeq
  <2>2. seqs = <<>>
    BY <1>5, <1>6, EmptySeq
  <2>3. PICK g : g = [i \in 0..n |-> <<>>]
    OBVIOUS
  <2>4. <<>> \in Seq(Tokens) /\ 0 \in 0..n /\ 1..n = {}
    BY <1>6, EmptySeq
  <2> QED BY <1>1, <1>3, <1>6, <2>1, <2>2, <2>3, <2>4
<1>7. CASE n # 0
  <2>1. seqs # <<>>
    BY <1>5, <1>7, EmptySeq
  <2>2. PICK f \in [1..n -> Seq(Tokens)] : Flattening(f, seqs) /\ FlattenSeq(seqs) = f[n]
    BY <1>5, <2>1, Flattens
  <2>3. \A i \in 1..n : f[i] = IF i = 1 THEN seqs[i] ELSE f[i - 1] \o seqs[i]
    <3>1. f = [i \in 1..n |-> IF i = 1 THEN seqs[i] ELSE f[i - 1] \o seqs[i]]
      BY <1>5, <2>2 DEF Flattening
    <3> QED BY <3>1
  <2>4. PICK g : g = [i \in 0..n |-> IF i = 0 THEN <<>> ELSE f[i]]
    OBVIOUS
  <2>5. g \in [0..n -> Seq(Tokens)]
    <3>1. ASSUME NEW i \in 0..n PROVE (IF i = 0 THEN <<>> ELSE f[i]) \in Seq(Tokens)
      <4>1. i = 0 \/ i \in 1..n
        BY <1>1
      <4> QED BY <2>2, <4>1, EmptySeq
    <3> QED BY <2>4, <3>1
  <2>6. g[0] = <<>> /\ g[n] = f[n]
    BY <1>7, <2>4
  <2>7. ASSUME NEW i \in 1..n PROVE g[i] = g[i - 1] \o Append(lines[i], Eol)
    <3>1. i \in 0..n /\ i - 1 \in 0..n /\ i # 0
      BY <1>1
    <3>2. g[i] = f[i] /\ seqs[i] = Append(lines[i], Eol)
      BY <1>2, <2>4, <3>1
    <3>3. CASE i = 1
      <4>1. g[i - 1] = <<>>
        BY <2>4, <3>1, <3>3
      <4>2. <<>> \o seqs[i] = seqs[i]
        BY <1>2, <1>4, ConcatEmptySeq
      <4> QED BY <2>3, <3>2, <3>3, <4>1, <4>2
    <3>4. CASE i # 1
      <4>1. i - 1 # 0
        BY <3>4
      <4>2. g[i - 1] = f[i - 1]
        BY <2>4, <3>1, <4>1
      <4> QED BY <2>3, <3>2, <3>4, <4>2
    <3> QED BY <3>3, <3>4
  <2> QED BY <1>1, <1>3, <2>2, <2>5, <2>6, <2>7
<1> QED BY <1>6, <1>7

\* The words of no line, and of one line more.
LEMMA WordsNext ==
  ASSUME NEW lines \in Seq(Lines), NEW line \in Lines
  PROVE  /\ Words(<<>>) = <<>>
         /\ Words(lines) \in Seq(Tokens) /\ Append(line, Eol) \in Seq(Tokens)
         /\ Words(Append(lines, line)) = Words(lines) \o Append(line, Eol)
<1>1. PICK n \in Nat, t \in Seq(Lines) : n = Len(lines) /\ t = Append(lines, line)
  <2>1. Len(lines) \in Nat /\ Append(lines, line) \in Seq(Lines)
    BY AppendProperties, LenProperties
  <2> QED BY <2>1
<1>2. PICK m \in Nat : m = n + 1 /\ m = Len(t) /\ t[m] = line /\ \A i \in 1..n : t[i] = lines[i]
  BY <1>1, AppendProperties
<1>3. PICK g \in [0..n -> Seq(Tokens)] :
        /\ g[0] = <<>> /\ \A i \in 1..n : g[i] = g[i - 1] \o Append(lines[i], Eol)
        /\ Words(lines) = g[n]
  BY <1>1, WordsOf
<1>4. PICK h \in [0..m -> Seq(Tokens)] :
        /\ h[0] = <<>> /\ \A i \in 1..m : h[i] = h[i - 1] \o Append(t[i], Eol)
        /\ Words(t) = h[m]
  BY <1>2, WordsOf
<1>5. g[n] = h[n]
  <2>1. ASSUME NEW i \in 1..n, g[i - 1] = h[i - 1] PROVE g[i] = h[i]
    <3>1. i \in 1..m /\ t[i] = lines[i]
      BY <1>2
    <3>2. g[i] = g[i - 1] \o Append(lines[i], Eol) /\ h[i] = h[i - 1] \o Append(t[i], Eol)
      BY <1>3, <1>4, <3>1
    <3> QED BY <2>1, <3>1, <3>2
  <2>2. g[0] = h[0]
    BY <1>3, <1>4
  <2> QED BY <2>1, <2>2, TraceOnce
<1>6. h[m] = h[n] \o Append(line, Eol)
  <2>1. m \in 1..m /\ m - 1 = n
    BY <1>2
  <2> QED BY <1>2, <1>4, <2>1
<1>7. Words(<<>>) = <<>>
  <2>1. <<>> \in Seq(Lines) /\ Len(<<>>) = 0
    BY EmptySeq
  <2> QED BY <2>1, WordsOf
<1>8. Append(line, Eol) \in Seq(Tokens)
  <2>1. line \in Seq(Tokens) /\ Eol \in Tokens
    BY LineType DEF Tokens
  <2> QED BY <2>1, AppendProperties
<1>9. Words(lines) \in Seq(Tokens)
  <2>1. n \in 0..n
    BY <1>1
  <2> QED BY <1>3, <2>1
<1> QED BY <1>1, <1>2, <1>3, <1>4, <1>5, <1>6, <1>7, <1>8, <1>9

\* The words of lines that are followed by others.
LEMMA WordsJoin ==
  ASSUME NEW a \in Seq(Lines), NEW b \in Seq(Lines)
  PROVE  Words(a \o b) = Words(a) \o Words(b)
<1> DEFINE T == {k \in Nat : \A s \in Seq(Lines) :
                               Len(s) = k => Words(a \o s) = Words(a) \o Words(s)}
<1>1. 0 \in T
  <2> SUFFICES ASSUME NEW s \in Seq(Lines), Len(s) = 0
               PROVE  Words(a \o s) = Words(a) \o Words(s)
    OBVIOUS
  <2>1. s = <<>>
    BY EmptySeq
  <2>2. Words(s) = <<>>
    <3>1. CASE Lines = {}
      BY <2>1, WordsOf, EmptySeq
    <3>2. CASE Lines # {}
      BY <2>1, <3>2, WordsNext
    <3> QED BY <3>1, <3>2
  <2>3. Words(a) \in Seq(Tokens)
    <3>1. PICK g \in [0..Len(a) -> Seq(Tokens)] : Words(a) = g[Len(a)]
      BY WordsOf
    <3>2. Len(a) \in 0..Len(a)
      OBVIOUS
    <3> QED BY <3>1, <3>2
  <2> QED BY <2>1, <2>2, <2>3, ConcatEmptySeq
<1>2. ASSUME NEW k \in Nat, k \in T PROVE k + 1 \in T
  <2> SUFFICES ASSUME NEW s \in Seq(Lines), Len(s) = k + 1
               PROVE  Words(a \o s) = Words(a) \o Words(s)
    OBVIOUS
  <2>1. PICK r \in Seq(Lines), l \in Lines : s = Append(r, l) /\ Len(r) = k
    <3>1. PICK r, l : r = SubSeq(s, 1, k) /\ l = s[k + 1]
      OBVIOUS
    <3>2. r \in Seq(Lines) /\ l \in Lines /\ Len(r) = k /\ \A i \in 1..k : r[i] = s[i]
      BY <3>1
    <3>3. s = Append(r, l)
      <4>1. PICK q \in Seq(Lines) : q = Append(r, l)
        <5>1. Append(r, l) \in Seq(Lines)
          BY <3>2, AppendProperties
        <5> QED BY <5>1
      <4>2. Len(q) = k + 1 /\ q[k + 1] = l /\ \A i \in 1..k : q[i] = r[i]
        BY <3>2, <4>1, AppendProperties
      <4>3. \A i \in 1..Len(s) : i \in 1..k \/ i = k + 1
        OBVIOUS
      <4> QED BY <3>1, <3>2, <4>1, <4>2, <4>3, SeqEqual
    <3> QED BY <3>2, <3>3
  <2>2. PICK v, w, e \in Seq(Tokens) :
          v = Words(a) /\ w = Words(r) /\ e = Append(l, Eol)
    <3>1. /\ Words(a) \in Seq(Tokens) /\ Words(r) \in Seq(Tokens)
          /\ Append(l, Eol) \in Seq(Tokens)
      BY WordsNext
    <3> QED BY <3>1
  <2>3. Words(s) = w \o e
    BY <2>1, <2>2, WordsNext
  <2>4. a \o s = Append(a \o r, l) /\ a \o r \in Seq(Lines)
    BY <2>1, Extends
  <2>5. Words(a \o s) = Words(a \o r) \o e
    BY <2>2, <2>4, WordsNext
  <2>6. Words(a \o r) = v \o w
    <3>1. \A q \in Seq(Lines) : Len(q) = k => Words(a \o q) = Words(a) \o Words(q)
      BY <1>2
    <3>2. Words(a \o r) = Words(a) \o Words(r)
      BY <2>1, <3>1
    <3> QED BY <2>2, <3>2
  <2>7. (v \o w) \o e = v \o (w \o e)
    BY ConcatAssociative
  <2>8. Words(a \o s) = (v \o w) \o e
    BY <2>5, <2>6
  <2> QED BY <2>2, <2>3, <2>7, <2>8, Zenon
<1> HIDE DEF T
<1>3. Len(b) \in T
  BY <1>1, <1>2, ByInduction
<1> QED BY <1>3 DEF T
-----------------------------------------------------------------------------
(* Taking words                                                            *)

\* Concatenation, by length.
LEMMA ConcatIs ==
  ASSUME NEW S, NEW s \in Seq(S), NEW t \in Seq(S), NEW m, NEW n, m = Len(s), n = Len(t)
  PROVE  /\ s \o t \in Seq(S) /\ Len(s \o t) = m + n
         /\ \A i \in 1..(m + n) : (s \o t)[i] = IF i <= m THEN s[i] ELSE t[i - m]
BY ConcatProperties

\* The same words, one of them taken.
LEMMA TakeOne ==
  ASSUME NEW S, NEW c \in Seq(S), NEW b \in Seq(S), NEW k \in 1..Len(b)
  PROVE  /\ SubSeq(b, 1, k - 1) \in Seq(S) /\ SubSeq(b, k + 1, Len(b)) \in Seq(S)
         /\ Len(SubSeq(b, k + 1, Len(b))) = Len(b) - k
         /\ \A i \in 1..(Len(b) - k) : SubSeq(b, k + 1, Len(b))[i] = b[k + i]
         /\ Append(c \o SubSeq(b, 1, k - 1), b[k]) \in Seq(S)
         /\ Append(c \o SubSeq(b, 1, k - 1), b[k]) \o SubSeq(b, k + 1, Len(b)) = c \o b
<1>1. PICK n, m \in Nat : n = Len(b) /\ m = Len(c)
  BY LenProperties
<1>2. PICK p, q : p = SubSeq(b, 1, k - 1) /\ q = SubSeq(b, k + 1, n)
  OBVIOUS
<1>3. /\ p \in Seq(S) /\ Len(p) = k - 1 /\ \A i \in 1..(k - 1) : p[i] = b[i]
      /\ q \in Seq(S) /\ Len(q) = n - k /\ \A i \in 1..(n - k) : q[i] = b[k + i]
  BY <1>1, <1>2
<1>4. b[k] \in S
  BY <1>1
<1>5. PICK u, x, y, z :
        u = c \o p /\ x = Append(u, b[k]) /\ y = x \o q /\ z = c \o b
  OBVIOUS
<1>6. /\ u \in Seq(S) /\ Len(u) = m + (k - 1)
      /\ \A i \in 1..(m + (k - 1)) : u[i] = IF i <= m THEN c[i] ELSE p[i - m]
  <2>1. PICK j : j = k - 1
    OBVIOUS
  <2>2. m = Len(c) /\ j = Len(p) /\ p \in Seq(S)
    BY <1>1, <1>3, <2>1
  <2>3. /\ c \o p \in Seq(S) /\ Len(c \o p) = m + j
        /\ \A i \in 1..(m + j) : (c \o p)[i] = IF i <= m THEN c[i] ELSE p[i - m]
    BY <2>2, ConcatIs
  <2> QED BY <1>5, <2>1, <2>3
<1>7. /\ x \in Seq(S) /\ Len(x) = m + k /\ x[m + k] = b[k]
      /\ \A i \in 1..(m + (k - 1)) : x[i] = u[i]
  <2>1. /\ x \in Seq(S) /\ Len(x) = Len(u) + 1 /\ x[Len(u) + 1] = b[k]
        /\ \A i \in 1..Len(u) : x[i] = u[i]
    BY <1>4, <1>5, <1>6, AppendProperties
  <2>2. Len(u) + 1 = m + k
    BY <1>1, <1>6
  <2> QED BY <1>6, <2>1, <2>2
<1>8. /\ y \in Seq(S) /\ Len(y) = (m + k) + (n - k)
      /\ \A i \in 1..((m + k) + (n - k)) : y[i] = IF i <= m + k THEN x[i] ELSE q[i - (m + k)]
  <2>1. PICK l, r : l = m + k /\ r = n - k
    OBVIOUS
  <2>2. l = Len(x) /\ r = Len(q) /\ x \in Seq(S) /\ q \in Seq(S)
    BY <1>3, <1>7, <2>1
  <2>3. /\ x \o q \in Seq(S) /\ Len(x \o q) = l + r
        /\ \A i \in 1..(l + r) : (x \o q)[i] = IF i <= l THEN x[i] ELSE q[i - l]
    BY <2>2, ConcatIs
  <2> QED BY <1>5, <2>1, <2>3
<1>9. /\ z \in Seq(S) /\ Len(z) = m + n
      /\ \A i \in 1..(m + n) : z[i] = IF i <= m THEN c[i] ELSE b[i - m]
  BY <1>1, <1>5, ConcatProperties
<1>10. ASSUME NEW i \in 1..(m + n) PROVE y[i] = z[i]
  <2>1. i \in 1..((m + k) + (n - k))
    BY <1>1
  <2>2. CASE i <= m
    <3>1. i \in 1..(m + (k - 1)) /\ i <= m + k
      BY <1>1, <2>2
    <3> QED BY <1>6, <1>7, <1>8, <1>9, <2>1, <2>2, <3>1
  <2>3. CASE i > m /\ i < m + k
    <3>1. i \in 1..(m + (k - 1)) /\ i <= m + k /\ ~(i <= m) /\ i - m \in 1..(k - 1)
      BY <1>1, <2>3
    <3>2. y[i] = p[i - m] /\ z[i] = b[i - m]
      BY <1>6, <1>7, <1>8, <1>9, <2>1, <3>1
    <3> QED BY <1>3, <3>1, <3>2
  <2>4. CASE i = m + k
    <3>1. i - m = k /\ ~(i <= m) /\ i <= m + k
      BY <1>1, <2>4
    <3> QED BY <1>7, <1>8, <1>9, <2>1, <2>4, <3>1
  <2>5. CASE i > m + k
    <3>1. PICK j \in 1..(n - k) : j = i - (m + k) /\ k + j = i - m
      <4>1. i - (m + k) \in 1..(n - k) /\ k + (i - (m + k)) = i - m
        BY <1>1, <2>5
      <4> QED BY <4>1
    <3>2. ~(i <= m) /\ ~(i <= m + k)
      BY <1>1, <2>5
    <3>3. y[i] = q[j] /\ z[i] = b[k + j]
      BY <1>8, <1>9, <2>1, <3>1, <3>2
    <3> QED BY <1>3, <3>1, <3>3
  <2> QED BY <1>1, <2>2, <2>3, <2>4, <2>5
<1>11. y = z
  <2>1. Len(y) = Len(z) /\ Len(y) = m + n
    BY <1>1, <1>8, <1>9
  <2> QED BY <1>8, <1>9, <1>10, <2>1, SeqEqual
<1> QED BY <1>1, <1>2, <1>3, <1>5, <1>7, <1>11

\* What follows an element of a sequence.
LEMMA Behind ==
  ASSUME NEW S, NEW b \in Seq(S), NEW k \in 1..Len(b)
  PROVE  /\ SubSeq(b, k + 1, Len(b)) \in Seq(S)
         /\ Len(SubSeq(b, k + 1, Len(b))) = Len(b) - k
         /\ \A i \in 1..(Len(b) - k) : SubSeq(b, k + 1, Len(b))[i] = b[k + i]
BY TakeOne

\* Words that mean nothing are passed over.
LEMMA PassedOver ==
  ASSUME NEW c \in Seq(Tokens), NEW b \in Seq(Tokens), NEW k \in 0..Len(b),
         \A i \in 1..k : Means(Told(c), b[i]) = Told(c)
  PROVE  c \o SubSeq(b, 1, k) \in Seq(Tokens) /\ Told(c \o SubSeq(b, 1, k)) = Told(c)
<1> DEFINE Passed(j) == SubSeq(b, 1, j)
           T == {j \in Nat : j <= k => c \o Passed(j) \in Seq(Tokens)
                                        /\ Told(c \o Passed(j)) = Told(c)}
<1>1. 0 \in T
  <2>1. Passed(0) = <<>>
    BY SubSeqEmpty
  <2> QED BY <2>1, ConcatEmptySeq
<1>2. ASSUME NEW j \in Nat, j \in T PROVE j + 1 \in T
  <2> SUFFICES ASSUME j + 1 <= k
               PROVE  c \o Passed(j + 1) \in Seq(Tokens) /\ Told(c \o Passed(j + 1)) = Told(c)
    OBVIOUS
  <2>1. PICK l : l = j + 1
    OBVIOUS
  <2>2. l \in 1..Len(b) /\ l \in 1..k /\ b[l] \in Tokens
    BY <2>1, LenProperties
  <2>3. PICK p : p = Passed(j)
    OBVIOUS
  <2>4. p \in Seq(Tokens) /\ c \o p \in Seq(Tokens) /\ Told(c \o p) = Told(c)
    <3>1. c \o Passed(j) \in Seq(Tokens) /\ Told(c \o Passed(j)) = Told(c)
      BY <1>2
    <3>2. Passed(j) \in Seq(Tokens)
      BY <2>1, <2>2
    <3> QED BY <2>3, <3>1, <3>2
  <2>5. Passed(l) = Append(p, b[l])
    <3>1. PICK q, r \in Seq(Tokens) : q = Append(p, b[l]) /\ r = Passed(l)
      <4>1. Append(p, b[l]) \in Seq(Tokens) /\ Passed(l) \in Seq(Tokens)
        BY <2>2, <2>4, AppendProperties
      <4> QED BY <4>1
    <3>2. Len(p) = j /\ \A i \in 1..j : p[i] = b[i]
      BY <2>1, <2>2, <2>3
    <3>3. Len(q) = l /\ q[l] = b[l] /\ \A i \in 1..j : q[i] = p[i]
      BY <2>1, <2>2, <2>4, <3>1, <3>2, AppendProperties
    <3>4. Len(r) = l /\ \A i \in 1..l : r[i] = b[i]
      BY <2>2, <3>1
    <3>5. \A i \in 1..l : i = l \/ i \in 1..j
      BY <2>1
    <3>6. \A i \in 1..l : q[i] = r[i]
      BY <3>2, <3>3, <3>4, <3>5
    <3> QED BY <3>1, <3>3, <3>4, <3>6, SeqEqual
  <2>6. /\ c \o Passed(l) = Append(c \o p, b[l])
        /\ Append(c \o p, b[l]) \in Seq(Tokens)
    <3>1. c \o Append(p, b[l]) = Append(c \o p, b[l])
      BY <2>2, <2>4, Extends
    <3>2. Append(c \o p, b[l]) \in Seq(Tokens)
      BY <2>2, <2>4, AppendProperties
    <3> QED BY <2>5, <3>1, <3>2
  <2>7. Told(c \o Passed(l)) = Means(Told(c), b[l])
    BY <2>2, <2>4, <2>6, ToldNext
  <2> QED BY <2>1, <2>2, <2>6, <2>7
<1> HIDE DEF T
<1>3. k \in T
  BY <1>1, <1>2, ByInduction
<1> QED BY <1>3 DEF T

\* A word is taken, behind words that mean nothing.
LEMMA Taken ==
  ASSUME NEW c \in Seq(Tokens), NEW b \in Seq(Tokens), NEW k \in 1..Len(b),
         \A i \in 1..(k - 1) : Means(Told(c), b[i]) = Told(c)
  PROVE  \E d \in Seq(Tokens) : /\ d \o SubSeq(b, k + 1, Len(b)) = c \o b
                               /\ Told(d) = Means(Told(c), b[k])
<1>1. PICK d : d = Append(c \o SubSeq(b, 1, k - 1), b[k])
  OBVIOUS
<1>2. d \in Seq(Tokens) /\ d \o SubSeq(b, k + 1, Len(b)) = c \o b
  BY <1>1, TakeOne
<1>3. PICK j \in 0..Len(b) : j = k - 1 /\ \A i \in 1..j : Means(Told(c), b[i]) = Told(c)
  <2>1. k - 1 \in 0..Len(b)
    BY LenProperties
  <2> QED BY <2>1
<1>4. c \o SubSeq(b, 1, j) \in Seq(Tokens) /\ Told(c \o SubSeq(b, 1, j)) = Told(c)
  BY <1>3, PassedOver
<1>5. b[k] \in Tokens
  BY LenProperties
<1>6. Told(d) = Means(Told(c), b[k])
  BY <1>1, <1>3, <1>4, <1>5, ToldNext
<1> QED BY <1>2, <1>6
\* A word that is told goes behind what was told before.
Leads(s, t) == Len(s) <= Len(t) /\ \A i \in 1..Len(s) : s[i] = t[i]

\* More words do not change what the words before them meant.
LEMMA MeantStays ==
  ASSUME NEW c \in Seq(Tokens), NEW d \in Seq(Tokens)
  PROVE  IsPrefix(Told(c).does, Told(c \o d).does)
<1> DEFINE T == {k \in Nat : k <= Len(d) =>
                   Leads(Told(c).does, Told(c \o SubSeq(d, 1, k)).does)}
<1>1. PICK n \in Nat : n = Len(d)
  BY LenProperties
<1>2. ASSUME NEW k \in 0..n
      PROVE  SubSeq(d, 1, k) \in Seq(Tokens) /\ c \o SubSeq(d, 1, k) \in Seq(Tokens)
             /\ Told(c \o SubSeq(d, 1, k)).does \in Seq(Meant)
  <2>1. SubSeq(d, 1, k) \in Seq(Tokens)
    BY <1>1
  <2>2. c \o SubSeq(d, 1, k) \in Seq(Tokens)
    BY <2>1, ConcatProperties
  <2>3. Told(c \o SubSeq(d, 1, k)) \in Telling
    <3>1. Eol \in Tokens
      BY DEF Tokens
    <3> QED BY <2>2, <3>1, ToldNext
  <2> QED BY <2>1, <2>2, <2>3 DEF Telling
<1>3. 0 \in T
  <2>1. SubSeq(d, 1, 0) = <<>>
    BY SubSeqEmpty
  <2>2. c \o SubSeq(d, 1, 0) = c
    BY <2>1, ConcatEmptySeq
  <2>3. Told(c).does \in Seq(Meant)
    <3>1. Eol \in Tokens
      BY DEF Tokens
    <3>2. Told(c) \in Telling
      BY <3>1, ToldNext
    <3> QED BY <3>2 DEF Telling
  <2>4. Leads(Told(c).does, Told(c).does)
    BY <2>3, LenProperties DEF Leads
  <2> QED BY <2>2, <2>4
<1>4. ASSUME NEW k \in Nat, k \in T PROVE k + 1 \in T
  <2> SUFFICES ASSUME k + 1 <= n
               PROVE  Leads(Told(c).does, Told(c \o SubSeq(d, 1, k + 1)).does)
    BY <1>1
  <2>1. PICK l \in 1..n : l = k + 1 /\ l - 1 = k /\ k \in 0..n
    <3>1. k + 1 \in 1..n /\ (k + 1) - 1 = k /\ k \in 0..n
      BY <1>1
    <3> QED BY <3>1
  <2>2. PICK p \in Seq(Tokens) : p = SubSeq(d, 1, k) /\ c \o p \in Seq(Tokens)
    BY <1>2, <2>1
  <2>3. d[l] \in Tokens
    BY <1>1, <2>1
  <2>4. SubSeq(d, 1, l) = Append(p, d[l])
    <3>1. SubSeq(d, 1, l) = SubSeq(d, 1, l - 1) \o <<d[l]>>
      <4>1. 1 \in 1..Len(d) /\ l \in 1..Len(d)
        BY <1>1, <2>1
      <4> QED BY <4>1, SubSeqRecursiveSecond
    <3>2. Append(p, d[l]) = p \o <<d[l]>>
      BY <2>2, <2>3, AppendIsConcat
    <3> QED BY <2>1, <2>2, <3>1, <3>2
  <2>5. c \o SubSeq(d, 1, l) = Append(c \o p, d[l])
    <3>1. c \o Append(p, d[l]) = Append(c \o p, d[l])
      BY <2>2, <2>3, Extends
    <3> QED BY <2>4, <3>1
  <2>6. PICK m \in Telling : m = Told(c \o p) /\ Told(c \o SubSeq(d, 1, l)) = Means(m, d[l])
    <3>1. Told(c \o p) \in Telling /\ Told(Append(c \o p, d[l])) = Means(Told(c \o p), d[l])
      BY <2>2, <2>3, ToldNext
    <3> QED BY <2>5, <3>1
  <2>7. m.does \in Seq(Meant)
    BY DEF Telling
  <2>8. Leads(m.does, Means(m, d[l]).does)
    <3>1. Means(m, d[l]).does = m.does \/ \E x \in Meant : Means(m, d[l]).does = Append(m.does, x)
      <4>1. m = [does |-> m.does, wants |-> m.wants, verb |-> m.verb] /\ m.verb \in Verbs
        BY DEF Telling
      <4>2. <<d[l]>> \in Meant /\ <<m.verb, d[l]>> \in Meant /\ <<"invalid">> \in Meant
        BY <2>3, <4>1 DEF Meant, Verbs
      <4> QED BY <4>1, <4>2 DEF Means
    <3>2. ASSUME NEW x \in Meant PROVE Leads(m.does, Append(m.does, x))
      BY <2>7, AppendProperties, LenProperties DEF Leads
    <3>3. Leads(m.does, m.does)
      BY <2>7, LenProperties DEF Leads
    <3> QED BY <3>1, <3>2, <3>3
  <2>9. PICK r, s, t : r = Told(c).does /\ s = m.does /\ t = Means(m, d[l]).does
    OBVIOUS
  <2>10. r \in Seq(Meant) /\ s \in Seq(Meant) /\ t \in Seq(Meant)
    <3>1. Told(c) \in Telling /\ Means(m, d[l]) \in Telling
      BY <2>3, ToldNext, MeansType
    <3> QED BY <2>7, <2>9, <3>1 DEF Telling
  <2>11. Leads(r, s)
    BY <1>1, <1>4, <2>1, <2>2, <2>6, <2>9
  <2>12. Leads(s, t)
    BY <2>8, <2>9
  <2>13. Leads(r, t)
    BY <2>10, <2>11, <2>12, LenProperties DEF Leads
  <2> QED BY <2>1, <2>6, <2>9, <2>13
<1> HIDE DEF T
<1>5. n \in T
  BY <1>3, <1>4, ByInduction
<1>6. SubSeq(d, 1, n) = d
  BY <1>1, SubSeqFull
<1>7. Leads(Told(c).does, Told(c \o d).does)
  <2>1. Leads(Told(c).does, Told(c \o SubSeq(d, 1, n)).does)
    BY <1>1, <1>5 DEF T
  <2> QED BY <1>6, <2>1
<1>8. PICK r, t : r = Told(c).does /\ t = Told(c \o d).does
  OBVIOUS
<1>9. r \in Seq(Meant) /\ t \in Seq(Meant)
  <2>1. n \in 0..n /\ 0 \in 0..n
    OBVIOUS
  <2>2. t \in Seq(Meant)
    BY <1>2, <1>6, <1>8, <2>1
  <2>3. Told(c) \in Telling
    <3>1. Eol \in Tokens
      BY DEF Tokens
    <3> QED BY <3>1, ToldNext
  <2> QED BY <1>8, <2>2, <2>3 DEF Telling
<1>10. IsPrefix(r, t)
  <2>1. PICK k \in Nat : k = Len(r) /\ k <= Len(t) /\ \A i \in 1..k : r[i] = t[i]
    BY <1>7, <1>8, <1>9, LenProperties DEF Leads
  <2>2. PICK u, v : u = SubSeq(r, 1, k) /\ v = SubSeq(t, 1, k)
    OBVIOUS
  <2>3. /\ u \in Seq(Meant) /\ Len(u) = k /\ \A i \in 1..k : u[i] = r[i]
        /\ v \in Seq(Meant) /\ Len(v) = k /\ \A i \in 1..k : v[i] = t[i]
    BY <1>9, <2>1, <2>2
  <2>4. u = v
    BY <2>1, <2>3, SeqEqual
  <2> QED BY <2>1, <2>2, <2>4 DEF IsPrefix
<1> QED BY <1>8, <1>10

-----------------------------------------------------------------------------
(* What cin takes                                                          *)

\* There is no word to be taken.
Wordless(b) == \A i \in 1..Len(b) : b[i] = Eol

\* The least of some positions.
LEMMA MinOf ==
  ASSUME NEW T, T \subseteq Nat, T # {}
  PROVE  Min(T) \in T /\ \A y \in T : Min(T) <= y
<1>1. \E x \in T : \A y \in T : x <= y
  BY LeastOf
<1> QED BY <1>1 DEF Min

\* The ends of lines before the next word mean nothing.
LEMMA EndsMeanNothing ==
  ASSUME NEW m \in Telling, m.wants \in {"command", "name"}
  PROVE  Means(m, Eol) = m
BY EolAssumption DEF Means

\* cin skips the ends of lines and takes the first word.
LEMMA TakeWord ==
  ASSUME NEW b \in Seq(Tokens), ~Wordless(b)
  PROVE  \E k \in 1..Len(b) :
           /\ b[k] \in Tokens /\ b[k] # Eol /\ \A i \in 1..(k - 1) : b[i] = Eol
           /\ k = Min({i \in DOMAIN b : b[i] # Eol})
           /\ \A c \in Seq(Tokens) : Told(c).wants \in {"command", "name"} =>
                \E d \in Seq(Tokens) : /\ d \o SubSeq(b, k + 1, Len(b)) = c \o b
                                      /\ Told(d) = Means(Told(c), b[k])
<1>1. PICK n \in Nat : n = Len(b) /\ DOMAIN b = 1..n
  BY LenProperties
<1>2. PICK W : W = {i \in DOMAIN b : b[i] # Eol}
  OBVIOUS
<1>3. W \subseteq Nat /\ W # {}
  BY <1>1, <1>2 DEF Wordless
<1>4. PICK k : k = Min(W)
  OBVIOUS
<1>5. k \in W /\ \A y \in W : k <= y
  BY <1>3, <1>4, MinOf
<1>6. k \in 1..n /\ b[k] # Eol /\ b[k] \in Tokens
  BY <1>1, <1>2, <1>5
<1>7. ASSUME NEW i \in 1..(k - 1) PROVE b[i] = Eol
  <2>1. i \in 1..n /\ ~(k <= i)
    BY <1>1, <1>6
  <2> QED BY <1>1, <1>2, <1>5, <2>1
<1>8. ASSUME NEW c \in Seq(Tokens), Told(c).wants \in {"command", "name"}
      PROVE  \E d \in Seq(Tokens) : /\ d \o SubSeq(b, k + 1, Len(b)) = c \o b
                                   /\ Told(d) = Means(Told(c), b[k])
  <2>1. Told(c) \in Telling
    BY <1>6, ToldNext
  <2>2. \A i \in 1..(k - 1) : Means(Told(c), b[i]) = Told(c)
    BY <1>7, <1>8, <2>1, EndsMeanNothing
  <2>3. k \in 1..Len(b)
    BY <1>1, <1>6
  <2> QED BY <2>2, <2>3, Taken
<1> QED BY <1>1, <1>2, <1>4, <1>6, <1>7, <1>8

\* Ends of lines that are left over mean nothing.
LEMMA LeftOver ==
  ASSUME NEW c \in Seq(Tokens), NEW b \in Seq(Tokens), Wordless(b),
         Told(c).wants \in {"command", "name"}
  PROVE  c \o b \in Seq(Tokens) /\ Told(c \o b) = Told(c)
<1>1. PICK n \in Nat : n = Len(b)
  BY LenProperties
<1>2. Told(c) \in Telling
  <2>1. Eol \in Tokens
    BY DEF Tokens
  <2> QED BY <2>1, ToldNext
<1>3. \A i \in 1..n : Means(Told(c), b[i]) = Told(c)
  BY <1>1, <1>2, EndsMeanNothing DEF Wordless
<1>4. n \in 0..Len(b) /\ SubSeq(b, 1, n) = b
  BY <1>1, SubSeqFull
<1>5. /\ c \o SubSeq(b, 1, n) \in Seq(Tokens)
      /\ Told(c \o SubSeq(b, 1, n)) = Told(c)
  BY <1>3, <1>4, PassedOver
<1> QED BY <1>4, <1>5

\* pulisci_buff takes what is ignored, up to and with the end of the line.
LEMMA TakeLine ==
  ASSUME NEW b \in Seq(Tokens), b # <<>>, b[Len(b)] = Eol
  PROVE  \E j \in 1..Len(b) :
           /\ b[j] = Eol /\ Cleared(b) = SubSeq(b, j + 1, Len(b))
           /\ \A c \in Seq(Tokens) : Told(c).wants = "end" =>
                \E d \in Seq(Tokens) : /\ d \o Cleared(b) = c \o b
                                      /\ Told(d) = [Told(c) EXCEPT !.wants = "command"]
<1>1. PICK n \in Nat : n = Len(b) /\ DOMAIN b = 1..n /\ n # 0
  BY LenProperties, EmptySeq
<1>2. PICK ends : ends = {i \in DOMAIN b : b[i] = Eol}
  OBVIOUS
<1>3. n \in ends /\ ends \subseteq Nat /\ ends # {}
  <2>1. n \in 1..n
    BY <1>1
  <2> QED BY <1>1, <1>2, <2>1
<1>4. PICK j : j = Min(ends)
  OBVIOUS
<1>5. j \in ends /\ \A y \in ends : j <= y
  BY <1>3, <1>4, MinOf
<1>6. j \in 1..n /\ b[j] = Eol
  BY <1>1, <1>2, <1>5
<1>7. Cleared(b) = SubSeq(b, j + 1, Len(b))
  BY <1>2, <1>3, <1>4 DEF Cleared
<1>8. ASSUME NEW i \in 1..(j - 1) PROVE b[i] # Eol
  <2>1. i \in 1..n /\ ~(j <= i)
    BY <1>1, <1>6
  <2> QED BY <1>1, <1>2, <1>5, <2>1
<1>9. ASSUME NEW c \in Seq(Tokens), Told(c).wants = "end"
      PROVE  \E d \in Seq(Tokens) : /\ d \o Cleared(b) = c \o b
                                   /\ Told(d) = [Told(c) EXCEPT !.wants = "command"]
  <2>1. \A w : w # Eol => Means(Told(c), w) = Told(c)
    BY <1>9 DEF Means
  <2>2. \A i \in 1..(j - 1) : Means(Told(c), b[i]) = Told(c)
    BY <1>8, <2>1
  <2>3. j \in 1..Len(b)
    BY <1>1, <1>6
  <2>4. Means(Told(c), b[j]) = [Told(c) EXCEPT !.wants = "command"]
    BY <1>6, <1>9 DEF Means
  <2>5. PICK d \in Seq(Tokens) : /\ d \o SubSeq(b, j + 1, Len(b)) = c \o b
                               /\ Told(d) = Means(Told(c), b[j])
    BY <2>2, <2>3, Taken
  <2> QED BY <1>7, <2>4, <2>5
<1> QED BY <1>1, <1>6, <1>7, <1>9
\* The words of lines are words; behind the last is the end of a line.
LEMMA WordsType ==
  ASSUME NEW lines \in Seq(Lines)
  PROVE  /\ Words(lines) \in Seq(Tokens)
         /\ lines # <<>> => /\ Words(lines) # <<>>
                            /\ Words(lines)[Len(Words(lines))] = Eol
<1>1. PICK n \in Nat : n = Len(lines)
  BY LenProperties
<1>2. PICK g \in [0..n -> Seq(Tokens)] :
        /\ \A i \in 1..n : g[i] = g[i - 1] \o Append(lines[i], Eol)
        /\ Words(lines) = g[n]
  BY <1>1, WordsOf
<1>3. Words(lines) \in Seq(Tokens)
  <2>1. n \in 0..n
    OBVIOUS
  <2> QED BY <1>2, <2>1
<1>4. ASSUME lines # <<>>
      PROVE  Words(lines) # <<>> /\ Words(lines)[Len(Words(lines))] = Eol
  <2>1. n \in 1..n /\ n - 1 \in 0..n
    BY <1>1, <1>4, EmptySeq
  <2>2. PICK a, e : a = g[n - 1] /\ e = Append(lines[n], Eol)
    OBVIOUS
  <2>3. lines[n] \in Lines
    BY <1>1, <2>1
  <2>4. lines[n] \in Seq(Tokens) /\ Eol \in Tokens
    BY <2>3, LineType DEF Tokens
  <2>5. PICK m \in Nat : m = Len(lines[n])
    BY <2>4, LenProperties
  <2>6. e \in Seq(Tokens) /\ Len(e) = m + 1 /\ e[m + 1] = Eol
    BY <2>2, <2>4, <2>5, AppendProperties
  <2>7. PICK p, q \in Nat : a \in Seq(Tokens) /\ p = Len(a) /\ q = m + 1
    <3>1. a \in Seq(Tokens)
      BY <1>2, <2>1, <2>2
    <3>2. Len(a) \in Nat /\ m + 1 \in Nat
      BY <3>1, LenProperties
    <3> QED BY <3>1, <3>2
  <2>8. q = Len(e) /\ e[q] = Eol /\ q # 0
    BY <2>6, <2>7
  <2>9. /\ Len(a \o e) = p + q
        /\ \A i \in 1..(p + q) : (a \o e)[i] = IF i <= p THEN a[i] ELSE e[i - p]
    <3>1. a \in Seq(Tokens) /\ e \in Seq(Tokens) /\ p = Len(a) /\ q = Len(e)
      BY <2>6, <2>7, <2>8
    <3> QED BY <3>1, ConcatIs
  <2>10. p + q \in 1..(p + q) /\ ~(p + q <= p) /\ (p + q) - p = q
    BY <2>8
  <2>11. Words(lines) = a \o e
    BY <1>2, <2>1, <2>2
  <2>12. (a \o e)[p + q] = Eol
    BY <2>8, <2>9, <2>10
  <2>13. Len(Words(lines)) = p + q /\ p + q # 0
    BY <2>9, <2>10, <2>11
  <2> QED BY <2>11, <2>12, <2>13, EmptySeq
<1> QED BY <1>3, <1>4

\* The words of a single line.
LEMMA WordsOne ==
  ASSUME NEW line \in Lines
  PROVE  Words(<<line>>) = Append(line, Eol)
<1>1. <<>> \in Seq(Lines) /\ Append(<<>>, line) = <<line>>
  BY EmptySeq
<1>2. Words(Append(<<>>, line)) = Words(<<>>) \o Append(line, Eol)
  BY <1>1, WordsNext
<1>3. Words(<<>>) = <<>> /\ Append(line, Eol) \in Seq(Tokens)
  BY <1>1, WordsNext
<1>4. <<>> \o Append(line, Eol) = Append(line, Eol)
  BY <1>3, ConcatEmptySeq
<1> QED BY <1>1, <1>2, <1>3, <1>4

\* What follows what was taken.
LEMMA Remains ==
  ASSUME NEW c \in Seq(Tokens), NEW b \in Seq(Tokens), NEW w \in Seq(Tokens)
  PROVE  \E d \in Seq(Tokens) : (c \o b) \o w = c \o d
<1>1. b \o w \in Seq(Tokens) /\ (c \o b) \o w = c \o (b \o w)
  BY ConcatAssociative, ConcatProperties
<1> QED BY <1>1

-----------------------------------------------------------------------------
(* The inductive invariant                                                 *)

\* The types of what the client holds.
Types == /\ typed \in Seq(Lines) /\ kernel \in Seq(Lines) /\ buffer \in Seq(Tokens)
         /\ pc \in {"select", "word", "name", "socket", "exited"} /\ verb \in Verbs

\* The input has ended and there is no word left.
Over == eof /\ kernel = <<>> /\ Wordless(buffer)

\* What was taken, what cin holds and what the kernel holds.
Divided(c, b, k, lines) == Words(lines) = (c \o b) \o Words(k)

\* The client has carried out what it has taken, and wants what it waits for.
InPlace ==
  pc # "exited" =>
    \E c \in Seq(Tokens) :
      /\ Divided(c, buffer, kernel, typed) /\ Told(c).does = executed
      /\ IF pc = "name" THEN Told(c).wants = "name" /\ Told(c).verb = verb
         ELSE Told(c).wants = "command" \/ (Told(c).wants = "name" /\ Over)

\* What it had carried out when it left is what it had taken.
Left ==
  pc = "exited" =>
    \E c, d \in Seq(Tokens) : Words(typed) = c \o d /\ Told(c).does = executed

\* cin holds whole ends of lines, of a terminal those of one line.
LineEnds == buffer # <<>> => buffer[Len(buffer)] = Eol
OneLine  == terminal => \A i \in 1..Len(buffer) : buffer[i] = Eol => i = Len(buffer)

\* No line has a word behind a !help or a !list.
Tidy(lines) == \A i \in DOMAIN lines : Len(lines[i]) > 1 => lines[i][1] \notin Unnamed

\* Then nothing is left over between two commands of a terminal.
AtLine ==
  terminal /\ Tidy(typed) =>
    /\ pc \in {"select", "socket"} => Wordless(buffer)
    /\ pc = "word" =>
         Wordless(buffer) \/ \E i \in 1..Len(typed) : buffer = Append(typed[i], Eol)

\* The kernel holds lines that were typed.
OfTyped == \A i \in 1..Len(kernel) : \E j \in 1..Len(typed) : kernel[i] = typed[j]

\* The inductive invariant.
IInv == Types /\ InPlace /\ Left /\ LineEnds /\ OneLine /\ AtLine /\ OfTyped

-----------------------------------------------------------------------------
(* The steps of the invariant                                              *)

\* At first nothing was typed and nothing is wanted but a command.
LEMMA Initially == Init => IInv
<1> SUFFICES ASSUME Init PROVE IInv
  OBVIOUS
<1>1. typed = <<>> /\ kernel = <<>> /\ buffer = <<>> /\ pc = "select" /\ executed = <<>>
      /\ verb = "none"
  BY DEF Init
<1>2. <<>> \in Seq(Lines) /\ <<>> \in Seq(Tokens) /\ Len(<<>>) = 0 /\ 1..0 = {}
  BY EmptySeq
<1>3. Types
  BY <1>1, <1>2 DEF Types, Verbs
<1>4. Words(<<>>) = <<>>
  <2>1. PICK g \in [0..Len(<<>>) -> Seq(Tokens)] : g[0] = <<>> /\ Words(<<>>) = g[Len(<<>>)]
    BY <1>2, WordsOf
  <2> QED BY <1>2, <2>1
<1>5. <<>> \o <<>> = <<>>
  BY <1>2, ConcatEmptySeq
<1>6. Told(<<>>) = Untold
  <2>1. Eol \in Tokens
    BY DEF Tokens
  <2> QED BY <1>2, <2>1, ToldNext
<1>7. InPlace
  <2>1. Divided(<<>>, buffer, kernel, typed)
    BY <1>1, <1>4, <1>5 DEF Divided
  <2>2. Told(<<>>).does = executed /\ Told(<<>>).wants = "command"
    BY <1>1, <1>6 DEF Untold
  <2> QED BY <1>1, <1>2, <2>1, <2>2 DEF InPlace
<1>8. Left /\ LineEnds
  BY <1>1 DEF Left, LineEnds
<1>9. OneLine /\ AtLine /\ OfTyped
  BY <1>1, <1>2 DEF OneLine, AtLine, OfTyped, Wordless
<1> QED BY <1>3, <1>7, <1>8, <1>9 DEF IInv

\* The client moves on without taking a word.
LEMMA Moves ==
  ASSUME IInv, UNCHANGED <<terminal, typed, kernel, buffer, verb, executed>>,
         eof' = eof \/ eof' = TRUE,
         \/ pc' = pc
         \/ pc # "exited" /\ pc' = "exited"
         \/ pc \in {"select", "socket"} /\ pc' \in {"select", "socket", "word"}
         \/ pc \in {"word", "name"} /\ Over /\ pc' = "socket"
  PROVE  IInv'
<1>1. Types'
  BY DEF IInv, Types
<1>2. Over => Over'
  BY DEF Over, Wordless
<1>3. InPlace'
  <2> SUFFICES ASSUME pc' # "exited" PROVE InPlace'
    BY DEF InPlace
  <2>1. pc # "exited"
    OBVIOUS
  <2>2. PICK c \in Seq(Tokens) :
          /\ Divided(c, buffer, kernel, typed) /\ Told(c).does = executed
          /\ IF pc = "name" THEN Told(c).wants = "name" /\ Told(c).verb = verb
             ELSE Told(c).wants = "command" \/ (Told(c).wants = "name" /\ Over)
    BY <2>1 DEF IInv, InPlace
  <2>3. Divided(c, buffer', kernel', typed') /\ Told(c).does = executed'
    BY <2>2
  <2>4. IF pc' = "name" THEN Told(c).wants = "name" /\ Told(c).verb = verb'
        ELSE Told(c).wants = "command" \/ (Told(c).wants = "name" /\ Over')
    BY <1>2, <2>2
  <2> QED BY <2>3, <2>4 DEF InPlace
<1>4. Left'
  <2> SUFFICES ASSUME pc' = "exited" PROVE Left'
    BY DEF Left
  <2>1. CASE pc = "exited"
    BY <2>1 DEF IInv, Left
  <2>2. CASE pc # "exited"
    <3>1. PICK c \in Seq(Tokens) : Divided(c, buffer, kernel, typed) /\ Told(c).does = executed
      BY <2>2 DEF IInv, InPlace
    <3>2. Words(kernel) \in Seq(Tokens)
      BY WordsType DEF IInv, Types
    <3>3. PICK d \in Seq(Tokens) : (c \o buffer) \o Words(kernel) = c \o d
      BY <3>2, Remains DEF IInv, Types
    <3>4. Words(typed') = c \o d /\ Told(c).does = executed'
      BY <3>1, <3>3 DEF Divided
    <3> QED BY <3>4 DEF Left
  <2> QED BY <2>1, <2>2
<1>5. LineEnds' /\ OneLine' /\ OfTyped'
  BY DEF IInv, LineEnds, OneLine, OfTyped
<1>6. AtLine'
  BY DEF IInv, AtLine, Over, Wordless, Tidy
<1> QED BY <1>1, <1>3, <1>4, <1>5, <1>6 DEF IInv
\* The user types a line.
LEMMA TypeStep ==
  ASSUME IInv, Type
  PROVE  IInv'
<1>1. PICK line \in Lines : typed' = Append(typed, line) /\ kernel' = Append(kernel, line)
  BY DEF Type
<1>2. ~eof /\ UNCHANGED <<terminal, eof, buffer, pc, verb, executed>>
  BY DEF Type
<1>3. /\ typed \in Seq(Lines) /\ kernel \in Seq(Lines) /\ buffer \in Seq(Tokens)
      /\ typed' \in Seq(Lines) /\ kernel' \in Seq(Lines)
  BY <1>1, AppendProperties DEF IInv, Types
<1>4. PICK m, n \in Nat : m = Len(typed) /\ n = Len(kernel)
  <2>1. Len(typed) \in Nat /\ Len(kernel) \in Nat
    BY <1>3, LenProperties
  <2> QED BY <2>1
<1>5. /\ Len(typed') = m + 1 /\ typed'[m + 1] = line /\ \A i \in 1..m : typed'[i] = typed[i]
      /\ Len(kernel') = n + 1 /\ kernel'[n + 1] = line /\ \A i \in 1..n : kernel'[i] = kernel[i]
  BY <1>1, <1>3, <1>4, AppendProperties
<1>6. PICK a, w, e \in Seq(Tokens) :
        /\ a = Words(typed) /\ w = Words(kernel) /\ e = Append(line, Eol)
        /\ Words(typed') = a \o e /\ Words(kernel') = w \o e
  <2>1. /\ Words(typed) \in Seq(Tokens) /\ Words(kernel) \in Seq(Tokens)
        /\ Append(line, Eol) \in Seq(Tokens)
        /\ Words(Append(typed, line)) = Words(typed) \o Append(line, Eol)
        /\ Words(Append(kernel, line)) = Words(kernel) \o Append(line, Eol)
    BY <1>3, WordsNext
  <2> QED BY <1>1, <2>1
<1>7. Types'
  BY <1>2, <1>3 DEF IInv, Types
<1>8. InPlace'
  <2> SUFFICES ASSUME pc # "exited" PROVE InPlace'
    BY <1>2 DEF InPlace
  <2>1. PICK c \in Seq(Tokens) :
          /\ Divided(c, buffer, kernel, typed) /\ Told(c).does = executed
          /\ IF pc = "name" THEN Told(c).wants = "name" /\ Told(c).verb = verb
             ELSE Told(c).wants = "command" \/ (Told(c).wants = "name" /\ Over)
    BY DEF IInv, InPlace
  <2>2. ~Over
    BY <1>2 DEF Over
  <2>3. PICK f \in Seq(Tokens) : f = c \o buffer
    <3>1. c \o buffer \in Seq(Tokens)
      BY <1>3, ConcatProperties
    <3> QED BY <3>1
  <2>4. a = f \o w
    BY <1>6, <2>1, <2>3 DEF Divided
  <2>5. (f \o w) \o e = f \o (w \o e)
    BY ConcatAssociative
  <2>6. Divided(c, buffer', kernel', typed')
    BY <1>2, <1>6, <2>3, <2>4, <2>5 DEF Divided
  <2>7. Told(c).does = executed'
    BY <1>2, <2>1
  <2>8. IF pc' = "name" THEN Told(c).wants = "name" /\ Told(c).verb = verb'
        ELSE Told(c).wants = "command" \/ (Told(c).wants = "name" /\ Over')
    BY <1>2, <2>1, <2>2
  <2> QED BY <2>6, <2>7, <2>8 DEF InPlace
<1>9. Left'
  <2> SUFFICES ASSUME pc = "exited" PROVE Left'
    BY <1>2 DEF Left
  <2>1. PICK c, d \in Seq(Tokens) : Words(typed) = c \o d /\ Told(c).does = executed
    BY DEF IInv, Left
  <2>2. (c \o d) \o e = c \o (d \o e) /\ d \o e \in Seq(Tokens)
    BY ConcatAssociative, ConcatProperties
  <2>3. Words(typed') = c \o (d \o e) /\ Told(c).does = executed'
    BY <1>2, <1>6, <2>1, <2>2
  <2> QED BY <2>2, <2>3 DEF Left
<1>10. LineEnds' /\ OneLine'
  BY <1>2 DEF IInv, LineEnds, OneLine
<1>11. AtLine'
  <2> SUFFICES ASSUME terminal, Tidy(typed') PROVE AtLine'
    BY <1>2 DEF AtLine
  <2>1. Tidy(typed)
    <3>1. DOMAIN typed = 1..m /\ DOMAIN typed' = 1..(m + 1)
      BY <1>3, <1>4, <1>5, LenProperties
    <3>2. \A i \in 1..m : i \in 1..(m + 1)
      OBVIOUS
    <3> QED BY <1>5, <3>1, <3>2 DEF Tidy
  <2>2. pc \in {"select", "socket"} => Wordless(buffer)
    BY <2>1 DEF IInv, AtLine
  <2>3. pc = "word" => Wordless(buffer) \/ \E i \in 1..(m + 1) : buffer = Append(typed'[i], Eol)
    <3>1. pc = "word" => Wordless(buffer) \/ \E i \in 1..m : buffer = Append(typed[i], Eol)
      BY <1>4, <2>1 DEF IInv, AtLine
    <3>2. \A i \in 1..m : i \in 1..(m + 1) /\ typed'[i] = typed[i]
      BY <1>5
    <3> QED BY <3>1, <3>2
  <2> QED BY <1>2, <1>5, <2>2, <2>3 DEF AtLine, Wordless
<1>12. OfTyped'
  <2>1. ASSUME NEW i \in 1..(n + 1) PROVE \E j \in 1..(m + 1) : kernel'[i] = typed'[j]
    <3>1. CASE i = n + 1
      <4>1. m + 1 \in 1..(m + 1)
        OBVIOUS
      <4> QED BY <1>5, <3>1, <4>1
    <3>2. CASE i \in 1..n
      <4>1. PICK j \in 1..m : kernel[i] = typed[j]
        BY <1>4, <3>2 DEF IInv, OfTyped
      <4>2. j \in 1..(m + 1)
        OBVIOUS
      <4> QED BY <1>5, <3>2, <4>1, <4>2
    <3> QED BY <3>1, <3>2
  <2> QED BY <1>5, <2>1 DEF OfTyped
<1> QED BY <1>7, <1>8, <1>9, <1>10, <1>11, <1>12 DEF IInv

\* cin reads lines: what it still held were ends of lines.
LEMMA FillStep ==
  ASSUME IInv, Fill
  PROVE  IInv'
<1>1. /\ pc \in {"word", "name"} /\ kernel # <<>>
      /\ UNCHANGED <<terminal, typed, eof, pc, verb, executed>>
  BY DEF Fill, Reading, typing
<1>2. typed \in Seq(Lines) /\ kernel \in Seq(Lines) /\ buffer \in Seq(Tokens)
  BY DEF IInv, Types
<1>3. PICK l \in Nat : l = Len(kernel) /\ l # 0
  BY <1>1, <1>2, EmptySeq
<1>4. PICK n \in 1..l : /\ terminal => n = 1
                       /\ buffer' = Words(SubSeq(kernel, 1, n))
                       /\ kernel' = SubSeq(kernel, n + 1, l)
  <2>1. PICK n \in 1..(IF terminal THEN 1 ELSE l) :
          buffer' = Words(SubSeq(kernel, 1, n)) /\ kernel' = SubSeq(kernel, n + 1, l)
    BY <1>3 DEF Fill
  <2>2. n \in 1..l /\ (terminal => n = 1)
    BY <1>3
  <2> QED BY <2>1, <2>2
<1>5. Wordless(buffer)
  <2>1. DOMAIN buffer = 1..Len(buffer)
    BY <1>2, LenProperties
  <2> QED BY <2>1 DEF Fill, HasWord, WordAt, Wordless
<1>6. PICK u, v \in Seq(Lines) :
        /\ u = SubSeq(kernel, 1, n) /\ v = SubSeq(kernel, n + 1, l)
        /\ u # <<>> /\ kernel = u \o v
        /\ Len(u) = n /\ u[1] = kernel[1]
        /\ Len(v) = l - n /\ \A i \in 1..(l - n) : v[i] = kernel[n + i]
  <2>1. PICK u, v : u = SubSeq(kernel, 1, n) /\ v = SubSeq(kernel, n + 1, l)
    OBVIOUS
  <2>2. /\ u \in Seq(Lines) /\ Len(u) = n /\ \A i \in 1..n : u[i] = kernel[i]
        /\ v \in Seq(Lines) /\ Len(v) = l - n /\ \A i \in 1..(l - n) : v[i] = kernel[n + i]
    BY <1>2, <1>3, <2>1
  <2>3. PICK r : r = l - n
    OBVIOUS
  <2>4. /\ u \o v \in Seq(Lines) /\ Len(u \o v) = n + r
        /\ \A i \in 1..(n + r) : (u \o v)[i] = IF i <= n THEN u[i] ELSE v[i - n]
    <3>1. u \in Seq(Lines) /\ v \in Seq(Lines) /\ n = Len(u) /\ r = Len(v)
      BY <2>2, <2>3
    <3> QED BY <3>1, ConcatIs
  <2>5. n + r = l
    BY <2>3
  <2>6. ASSUME NEW i \in 1..l PROVE (u \o v)[i] = kernel[i]
    <3>1. CASE i <= n
      BY <2>2, <2>4, <2>5, <3>1
    <3>2. CASE ~(i <= n)
      <4>1. i - n \in 1..(l - n) /\ n + (i - n) = i
        BY <3>2
      <4> QED BY <2>2, <2>4, <2>5, <3>2, <4>1
    <3> QED BY <3>1, <3>2
  <2>7. u \o v = kernel
    BY <1>2, <1>3, <2>4, <2>5, <2>6, SeqEqual
  <2>8. u # <<>>
    <3>1. Len(<<>>) = 0 /\ n # 0
      BY EmptySeq
    <3> QED BY <2>2, <3>1
  <2>9. u[1] = kernel[1]
    <3>1. 1 \in 1..n
      OBVIOUS
    <3> QED BY <2>2, <3>1
  <2>10. u \in Seq(Lines) /\ v \in Seq(Lines) /\ kernel = u \o v
    BY <2>2, <2>7
  <2> QED BY <2>1, <2>2, <2>8, <2>9, <2>10
<1>7. PICK x, y \in Seq(Tokens) :
        /\ x = Words(u) /\ y = Words(v) /\ Words(kernel) = x \o y
        /\ x # <<>> /\ x[Len(x)] = Eol
  <2>1. /\ Words(u) \in Seq(Tokens) /\ Words(v) \in Seq(Tokens)
        /\ Words(u) # <<>> /\ Words(u)[Len(Words(u))] = Eol
    BY <1>6, WordsType
  <2>2. Words(u \o v) = Words(u) \o Words(v)
    BY WordsJoin
  <2> QED BY <1>6, <2>1, <2>2
<1>8. buffer' = x /\ kernel' = v
  BY <1>4, <1>6, <1>7
<1>9. Types'
  BY <1>1, <1>2, <1>8 DEF IInv, Types
<1>10. InPlace' /\ Left'
  <2>1. PICK c \in Seq(Tokens) :
          /\ Divided(c, buffer, kernel, typed) /\ Told(c).does = executed
          /\ IF pc = "name" THEN Told(c).wants = "name" /\ Told(c).verb = verb
             ELSE Told(c).wants = "command" \/ (Told(c).wants = "name" /\ Over)
    BY <1>1 DEF IInv, InPlace
  <2>2. ~Over
    BY <1>1 DEF Over
  <2>3. PICK d \in Seq(Tokens) : d = c \o buffer /\ Told(d) = Told(c)
    <3>1. Told(c).wants \in {"command", "name"}
      BY <2>1
    <3>2. c \o buffer \in Seq(Tokens) /\ Told(c \o buffer) = Told(c)
      BY <1>2, <1>5, <3>1, LeftOver
    <3> QED BY <3>2
  <2>4. Words(typed) = d \o (x \o y)
    BY <1>7, <2>1, <2>3 DEF Divided
  <2>5. (d \o x) \o y = d \o (x \o y)
    BY ConcatAssociative
  <2>6. Divided(d, buffer', kernel', typed')
    BY <1>1, <1>7, <1>8, <2>4, <2>5 DEF Divided
  <2>7. Told(d).does = executed'
    BY <1>1, <2>1, <2>3
  <2>8. IF pc' = "name" THEN Told(d).wants = "name" /\ Told(d).verb = verb'
        ELSE Told(d).wants = "command" \/ (Told(d).wants = "name" /\ Over')
    BY <1>1, <2>1, <2>2, <2>3
  <2>9. InPlace'
    BY <2>6, <2>7, <2>8 DEF InPlace
  <2>10. Left'
    BY <1>1 DEF Left
  <2> QED BY <2>9, <2>10
<1>11. LineEnds'
  BY <1>7, <1>8 DEF LineEnds
<1>12. ASSUME terminal PROVE kernel[1] \in Lines /\ x = Append(kernel[1], Eol)
  <2>1. kernel[1] \in Lines
    BY <1>2, <1>3
  <2>2. u = <<kernel[1]>>
    <3>1. PICK q \in Seq(Lines) : q = <<kernel[1]>>
      <4>1. <<kernel[1]>> \in Seq(Lines)
        BY <2>1
      <4> QED BY <4>1
    <3>2. Len(q) = 1 /\ q[1] = kernel[1] /\ Len(u) = 1 /\ u[1] = kernel[1]
      BY <1>4, <1>6, <1>12, <3>1
    <3>3. \A i \in 1..1 : i = 1
      OBVIOUS
    <3> QED BY <3>1, <3>2, <3>3, SeqEqual
  <2> QED BY <1>7, <2>1, <2>2, WordsOne
<1>13. OneLine'
  <2> SUFFICES ASSUME terminal PROVE \A i \in 1..Len(x) : x[i] = Eol => i = Len(x)
    BY <1>1, <1>8 DEF OneLine
  <2>1. PICK m \in Nat : m = Len(kernel[1])
    BY <1>12, LineType
  <2>2. kernel[1] \in Seq(Tokens) /\ Eol \in Tokens /\ \A i \in 1..m : kernel[1][i] # Eol
    BY <1>12, <2>1, LineType DEF Tokens
  <2>3. Len(x) = m + 1 /\ \A i \in 1..m : x[i] = kernel[1][i]
    <3>1. PICK r \in Seq(Tokens) : r = kernel[1] /\ x = Append(r, Eol) /\ m = Len(r)
      BY <1>12, <2>1, <2>2
    <3>2. /\ Len(Append(r, Eol)) = Len(r) + 1
          /\ \A i \in 1..Len(r) : Append(r, Eol)[i] = r[i]
      BY <2>2, AppendProperties
    <3> QED BY <3>1, <3>2
  <2>4. \A i \in 1..(m + 1) : i \in 1..m \/ i = m + 1
    OBVIOUS
  <2> QED BY <2>2, <2>3, <2>4
<1>14. AtLine'
  <2> SUFFICES ASSUME terminal PROVE AtLine'
    BY <1>1 DEF AtLine
  <2>1. PICK j \in 1..Len(typed) : kernel[1] = typed[j]
    <3>1. 1 \in 1..Len(kernel)
      BY <1>3
    <3> QED BY <3>1 DEF IInv, OfTyped
  <2>2. buffer' = Append(typed'[j], Eol) /\ j \in 1..Len(typed')
    BY <1>1, <1>8, <1>12, <2>1
  <2> QED BY <1>1, <2>2 DEF AtLine
<1>15. OfTyped'
  <2>1. ASSUME NEW i \in 1..(l - n) PROVE \E j \in 1..Len(typed) : v[i] = typed[j]
    <3>1. n + i \in 1..l
      OBVIOUS
    <3>2. \E j \in 1..Len(typed) : kernel[n + i] = typed[j]
      BY <1>3, <3>1 DEF IInv, OfTyped
    <3> QED BY <1>6, <3>2
  <2> QED BY <1>1, <1>6, <1>8, <2>1 DEF OfTyped
<1> QED BY <1>9, <1>10, <1>11, <1>13, <1>14, <1>15 DEF IInv
\* When a word is taken, what is left goes on to the end of a line, of a
\* terminal the only one.
LEMMA ReadWord ==
  ASSUME IInv, pc \in {"word", "name"}, HasWord
  PROVE  \E k \in 1..Len(buffer), c, d \in Seq(Tokens) :
           /\ Word = buffer[k] /\ Word \in Tokens /\ Word # Eol
           /\ Rest = SubSeq(buffer, k + 1, Len(buffer))
           /\ \A i \in 1..(k - 1) : buffer[i] = Eol
           /\ Divided(d, Rest, kernel, typed) /\ Told(d) = Means(Told(c), Word)
           /\ Told(c) \in Telling /\ Told(c).does = executed
           /\ IF pc = "name" THEN Told(c).wants = "name" /\ Told(c).verb = verb
              ELSE Told(c).wants = "command"
           /\ Rest \in Seq(Tokens) /\ Rest # <<>> /\ Rest[Len(Rest)] = Eol
           /\ Len(Rest) = Len(buffer) - k
           /\ terminal => \A i \in 1..Len(Rest) : Rest[i] = Eol => i = Len(Rest)
<1>1. buffer \in Seq(Tokens) /\ DOMAIN buffer = 1..Len(buffer)
  BY LenProperties DEF IInv, Types
<1>2. ~Wordless(buffer)
  BY <1>1 DEF HasWord, WordAt, Wordless
<1>3. PICK k \in 1..Len(buffer) :
        /\ buffer[k] \in Tokens /\ buffer[k] # Eol /\ \A i \in 1..(k - 1) : buffer[i] = Eol
        /\ k = Min({i \in DOMAIN buffer : buffer[i] # Eol})
        /\ \A c \in Seq(Tokens) : Told(c).wants \in {"command", "name"} =>
             \E d \in Seq(Tokens) : /\ d \o SubSeq(buffer, k + 1, Len(buffer)) = c \o buffer
                                   /\ Told(d) = Means(Told(c), buffer[k])
  BY <1>1, <1>2, TakeWord
<1>4. Word = buffer[k] /\ Rest = SubSeq(buffer, k + 1, Len(buffer))
  BY <1>3 DEF Word, Rest, WordAt
<1>5. PICK c \in Seq(Tokens) :
        /\ Divided(c, buffer, kernel, typed) /\ Told(c).does = executed
        /\ IF pc = "name" THEN Told(c).wants = "name" /\ Told(c).verb = verb
           ELSE Told(c).wants = "command" \/ (Told(c).wants = "name" /\ Over)
  BY DEF IInv, InPlace
<1>6. IF pc = "name" THEN Told(c).wants = "name" /\ Told(c).verb = verb
      ELSE Told(c).wants = "command"
  BY <1>2, <1>5 DEF Over
<1>7. Told(c).wants \in {"command", "name"}
  BY <1>6
<1>8. PICK d \in Seq(Tokens) : d \o Rest = c \o buffer /\ Told(d) = Means(Told(c), Word)
  BY <1>3, <1>4, <1>7
<1>9. Divided(d, Rest, kernel, typed)
  BY <1>5, <1>8 DEF Divided
<1>10. Told(c) \in Telling
  BY <1>3, ToldNext
<1>11. PICK n \in Nat : n = Len(buffer)
  BY <1>1, LenProperties
<1>12. PICK r : r = Rest
  OBVIOUS
<1>13. r \in Seq(Tokens) /\ Len(r) = n - k /\ \A i \in 1..(n - k) : r[i] = buffer[k + i]
  <2>1. /\ SubSeq(buffer, k + 1, Len(buffer)) \in Seq(Tokens)
        /\ Len(SubSeq(buffer, k + 1, Len(buffer))) = Len(buffer) - k
        /\ \A i \in 1..(Len(buffer) - k) :
             SubSeq(buffer, k + 1, Len(buffer))[i] = buffer[k + i]
    BY <1>1, Behind
  <2> QED BY <1>4, <1>11, <1>12, <2>1
<1>14. n # 0 /\ buffer[n] = Eol /\ k # n /\ k \in 1..n
  <2>1. buffer # <<>>
    BY <1>1, <1>3, EmptySeq
  <2>2. buffer[n] = Eol
    BY <1>11, <2>1 DEF IInv, LineEnds
  <2> QED BY <1>3, <1>11, <2>2
<1>15. n - k \in 1..(n - k) /\ k + (n - k) = n /\ n - k # 0
  BY <1>14
<1>16. r[n - k] = Eol /\ r # <<>>
  BY <1>13, <1>14, <1>15, EmptySeq
<1>17. ASSUME terminal, NEW i \in 1..(n - k), r[i] = Eol PROVE i = n - k
  <2>1. k + i \in 1..n /\ buffer[k + i] = Eol
    BY <1>13, <1>14, <1>17
  <2>2. k + i = n
    BY <1>11, <1>17, <2>1 DEF IInv, OneLine
  <2> QED BY <1>14, <2>2
<1>18. /\ Rest \in Seq(Tokens) /\ Rest # <<>> /\ Rest[Len(Rest)] = Eol
       /\ Len(Rest) = Len(buffer) - k
       /\ terminal => \A i \in 1..Len(Rest) : Rest[i] = Eol => i = Len(Rest)
  BY <1>11, <1>12, <1>13, <1>16, <1>17
<1>19. Word \in Tokens /\ Word # Eol
  BY <1>3, <1>4
<1> QED BY <1>3, <1>4, <1>5, <1>6, <1>8, <1>9, <1>10, <1>18, <1>19

\* When the line is cleared, what is left ends with a line, and of a terminal
\* nothing is left.
LEMMA ClearRest ==
  ASSUME NEW r \in Seq(Tokens), r # <<>>, r[Len(r)] = Eol,
         NEW d \in Seq(Tokens), Told(d).wants = "end", Divided(d, r, kernel, typed)
  PROVE  \E e \in Seq(Tokens), q \in Seq(Tokens) :
           /\ q = Cleared(r) /\ Divided(e, q, kernel, typed)
           /\ Told(e) = [Told(d) EXCEPT !.wants = "command"]
           /\ q # <<>> => q[Len(q)] = Eol
           /\ (\A i \in 1..Len(r) : r[i] = Eol => i = Len(r)) => q = <<>>
<1>1. PICK j \in 1..Len(r) :
        /\ r[j] = Eol /\ Cleared(r) = SubSeq(r, j + 1, Len(r))
        /\ \A c \in Seq(Tokens) : Told(c).wants = "end" =>
             \E e \in Seq(Tokens) : /\ e \o Cleared(r) = c \o r
                                   /\ Told(e) = [Told(c) EXCEPT !.wants = "command"]
  BY TakeLine
<1>2. PICK e \in Seq(Tokens) : /\ e \o Cleared(r) = d \o r
                              /\ Told(e) = [Told(d) EXCEPT !.wants = "command"]
  BY <1>1
<1>3. PICK q : q = Cleared(r)
  OBVIOUS
<1>4. Divided(e, q, kernel, typed)
  BY <1>2, <1>3 DEF Divided
<1>5. PICK n \in Nat : n = Len(r)
  BY LenProperties
<1>6. q \in Seq(Tokens) /\ Len(q) = n - j /\ \A i \in 1..(n - j) : q[i] = r[j + i]
  <2>1. /\ SubSeq(r, j + 1, Len(r)) \in Seq(Tokens) /\ Len(SubSeq(r, j + 1, Len(r))) = Len(r) - j
        /\ \A i \in 1..(Len(r) - j) : SubSeq(r, j + 1, Len(r))[i] = r[j + i]
    BY TakeOne
  <2> QED BY <1>1, <1>3, <1>5, <2>1
<1>7. ASSUME q # <<>> PROVE q[Len(q)] = Eol
  <2>1. Len(q) # 0
    BY <1>6, <1>7, EmptySeq
  <2>2. n - j \in 1..(n - j) /\ j + (n - j) = n
    BY <1>5, <1>6, <2>1
  <2> QED BY <1>5, <1>6, <2>2
<1>8. ASSUME \A i \in 1..Len(r) : r[i] = Eol => i = Len(r) PROVE q = <<>>
  <2>1. j = n
    BY <1>1, <1>5, <1>8
  <2>2. Len(q) = 0
    BY <1>5, <1>6, <2>1
  <2> QED BY <1>6, <2>2, EmptySeq
<1> QED BY <1>2, <1>3, <1>4, <1>6, <1>7, <1>8

\* A step that leaves the kernel's lines alone.
LEMMA Rebuilt ==
  ASSUME IInv, UNCHANGED <<terminal, typed, kernel>>,
         NEW b \in Seq(Tokens), buffer' = b, verb' \in Verbs,
         pc' \in {"name", "socket", "exited"},
         NEW d \in Seq(Tokens), Told(d).does = executed', Divided(d, b, kernel, typed),
         pc' = "name" => Told(d).wants = "name" /\ Told(d).verb = verb',
         pc' = "socket" => Told(d).wants = "command",
         b # <<>> => b[Len(b)] = Eol,
         terminal => \A i \in 1..Len(b) : b[i] = Eol => i = Len(b),
         pc' = "socket" /\ terminal /\ Tidy(typed) => Wordless(b)
  PROVE  IInv'
<1>1. Types'
  BY DEF IInv, Types
<1>2. InPlace'
  <2>1. Divided(d, buffer', kernel', typed')
    OBVIOUS
  <2>2. pc' # "exited" =>
          IF pc' = "name" THEN Told(d).wants = "name" /\ Told(d).verb = verb'
          ELSE Told(d).wants = "command"
    OBVIOUS
  <2> QED BY <2>1, <2>2 DEF InPlace
<1>3. Left'
  <2>1. Words(kernel) \in Seq(Tokens)
    BY WordsType DEF IInv, Types
  <2>2. PICK e \in Seq(Tokens) : (d \o b) \o Words(kernel) = d \o e
    BY <2>1, Remains
  <2>3. Words(typed') = d \o e
    BY <2>2 DEF Divided
  <2> QED BY <2>3 DEF Left
<1>4. LineEnds' /\ OneLine'
  BY DEF LineEnds, OneLine
<1>5. AtLine'
  BY DEF AtLine, Tidy, Wordless
<1>6. OfTyped'
  BY DEF IInv, OfTyped
<1> QED BY <1>1, <1>2, <1>3, <1>4, <1>5, <1>6 DEF IInv
\* Behind a !help or a !list nothing is left of a tidy terminal's line.
LEMMA NothingBehind ==
  ASSUME IInv, pc = "word", terminal, Tidy(typed), NEW k \in 1..Len(buffer),
         buffer[k] \in Unnamed, buffer[k] # Eol, \A i \in 1..(k - 1) : buffer[i] = Eol
  PROVE  Len(buffer) - k <= 1
<1>1. buffer \in Seq(Tokens) /\ typed \in Seq(Lines)
  BY DEF IInv, Types
<1>2. PICK n \in Nat : n = Len(buffer)
  BY <1>1, LenProperties
<1>3. PICK j \in 1..Len(typed) : buffer = Append(typed[j], Eol)
  <2>1. ~Wordless(buffer)
    BY DEF Wordless
  <2> QED BY <2>1 DEF IInv, AtLine
<1>4. PICK line \in Lines : line = typed[j]
  BY <1>1, <1>3
<1>5. /\ line \in Seq(Tokens) /\ Eol \in Tokens
  BY LineType DEF Tokens
<1>6. PICK m \in Nat : m = Len(line)
  BY <1>5, LenProperties
<1>7. n = m + 1 /\ \A i \in 1..m : buffer[i] = line[i]
  <2>1. /\ Len(Append(line, Eol)) = Len(line) + 1
        /\ \A i \in 1..Len(line) : Append(line, Eol)[i] = line[i]
    BY <1>5, AppendProperties
  <2> QED BY <1>2, <1>3, <1>4, <1>6, <2>1
<1>8. buffer[n] = Eol
  <2>1. Len(<<>>) = 0 /\ n # 0
    BY <1>7, EmptySeq
  <2>2. buffer # <<>>
    BY <1>2, <2>1
  <2> QED BY <1>2, <2>2 DEF IInv, LineEnds
<1>9. k = 1
  <2> SUFFICES ASSUME k # 1 PROVE FALSE
    OBVIOUS
  <2>1. PICK i : i = 1
    OBVIOUS
  <2>2. i \in 1..(k - 1) /\ i \in 1..n /\ i # n
    BY <1>2, <2>1
  <2>3. buffer[i] = Eol
    BY <2>2
  <2> QED BY <1>2, <2>2, <2>3 DEF IInv, OneLine
<1>10. k \in 1..m
  BY <1>2, <1>7, <1>8
<1>11. line[1] \in Unnamed
  BY <1>7, <1>9, <1>10
<1>12. ~(m > 1)
  <2>1. j \in DOMAIN typed
    BY <1>1, LenProperties
  <2>2. Len(typed[j]) > 1 => typed[j][1] \notin Unnamed
    BY <2>1 DEF Tidy
  <2> QED BY <1>4, <1>6, <1>11, <2>2
<1> QED BY <1>2, <1>7, <1>9, <1>12

\* select_command does what the word means.
LEMMA CommandStep ==
  ASSUME IInv, Command
  PROVE  IInv'
<1>1. pc = "word" /\ HasWord /\ UNCHANGED <<terminal, typed, eof, kernel>>
  BY DEF Command, typing
<1>2. PICK k \in 1..Len(buffer), c, d \in Seq(Tokens) :
        /\ Word = buffer[k] /\ Word \in Tokens /\ Word # Eol
        /\ Rest = SubSeq(buffer, k + 1, Len(buffer))
        /\ \A i \in 1..(k - 1) : buffer[i] = Eol
        /\ Divided(d, Rest, kernel, typed) /\ Told(d) = Means(Told(c), Word)
        /\ Told(c) \in Telling /\ Told(c).does = executed
        /\ Told(c).wants = "command"
        /\ Rest \in Seq(Tokens) /\ Rest # <<>> /\ Rest[Len(Rest)] = Eol
        /\ Len(Rest) = Len(buffer) - k
        /\ terminal => \A i \in 1..Len(Rest) : Rest[i] = Eol => i = Len(Rest)
  BY <1>1, ReadWord
<1>3. PICK w \in Tokens, r \in Seq(Tokens), m \in Telling :
        /\ w = Word /\ r = Rest /\ m = Told(c)
        /\ m.does = executed /\ m.wants = "command" /\ Told(d) = Means(m, w) /\ w # Eol
        /\ r # <<>> /\ r[Len(r)] = Eol /\ Divided(d, r, kernel, typed)
        /\ terminal => \A i \in 1..Len(r) : r[i] = Eol => i = Len(r)
  BY <1>2
<1>4. m = [does |-> m.does, wants |-> m.wants, verb |-> m.verb]
  BY DEF Telling
<1>5. CASE /\ Word \in Named
           /\ verb' = Word /\ buffer' = Rest
           /\ pc' = "name" \/ pc' = "exited"
           /\ UNCHANGED executed
  <2>1. w \in Named /\ w \notin Unnamed \cup {"!quit", Eol}
    BY <1>3, <1>5 DEF Named, Unnamed
  <2>2. Told(d).does = m.does /\ Told(d).wants = "name" /\ Told(d).verb = w
    BY <1>3, <1>4, <2>1 DEF Means
  <2>3. verb' \in Verbs
    BY <1>3, <1>5 DEF Verbs
  <2>4. /\ buffer' = r /\ verb' = w /\ Told(d).does = executed'
    BY <1>3, <1>5, <2>2
  <2>5. pc' \in {"name", "exited"} /\ pc' # "socket"
    BY <1>5
  <2> QED BY <1>1, <1>3, <2>2, <2>3, <2>4, <2>5, Rebuilt
<1>6. CASE /\ Word \in Unnamed
           /\ executed' = Append(executed, <<Word>>) /\ buffer' = Rest
           /\ pc' = IF Word = "!list" /\ closed THEN "exited" ELSE "socket"
           /\ UNCHANGED verb
  <2>1. w \in Unnamed /\ w \notin Named \cup {"!quit", Eol}
    BY <1>3, <1>6 DEF Named, Unnamed
  <2>2. Told(d).does = Append(m.does, <<w>>) /\ Told(d).wants = "command"
    BY <1>3, <1>4, <1>6, <2>1 DEF Means
  <2>3. /\ buffer' = r /\ verb' \in Verbs /\ pc' \in {"socket", "exited"}
        /\ Told(d).does = executed'
    BY <1>3, <1>6, <2>2 DEF IInv, Types
  <2>4. ASSUME terminal, Tidy(typed) PROVE Wordless(r)
    <3>1. Len(buffer) - k <= 1
      BY <1>1, <1>2, <1>6, <2>4, NothingBehind
    <3>2. PICK l \in Nat : l = Len(r) /\ l <= 1
      BY <1>2, <1>3, <3>1, LenProperties
    <3>3. \A i \in 1..l : i = l
      BY <3>2
    <3> QED BY <1>3, <3>2, <3>3 DEF Wordless
  <2>5. pc' # "name"
    BY <2>3
  <2> QED BY <1>1, <1>3, <2>2, <2>3, <2>4, <2>5, Rebuilt
<1>7. CASE /\ Word = "!quit"
           /\ executed' = Append(executed, <<Word>>) /\ pc' = "exited"
           /\ UNCHANGED <<verb, buffer>>
  <2>1. w \notin Named \cup Unnamed
    BY <1>3, <1>7 DEF Named, Unnamed
  <2>2. Told(d).does = executed'
    BY <1>3, <1>4, <1>7, <2>1 DEF Means
  <2>3. Words(kernel) \in Seq(Tokens)
    BY WordsType DEF IInv, Types
  <2>4. PICK e \in Seq(Tokens) : (d \o r) \o Words(kernel) = d \o e
    BY <2>3, Remains
  <2>5. Words(typed') = d \o e
    BY <1>1, <1>3, <2>4 DEF Divided
  <2>6. Left'
    BY <2>2, <2>5 DEF Left
  <2>7. Types' /\ LineEnds' /\ OneLine' /\ OfTyped'
    BY <1>1, <1>7 DEF IInv, Types, LineEnds, OneLine, OfTyped
  <2>8. InPlace' /\ AtLine'
    BY <1>7 DEF InPlace, AtLine
  <2> QED BY <2>6, <2>7, <2>8 DEF IInv
<1>8. CASE /\ Word \notin Named \cup Unnamed \cup {"!quit"}
           /\ executed' = Append(executed, <<"invalid">>)
           /\ buffer' = Cleared(Rest) /\ pc' = "socket"
           /\ UNCHANGED verb
  <2>1. Told(d).does = Append(m.does, <<"invalid">>) /\ Told(d).wants = "end"
    BY <1>3, <1>4, <1>8 DEF Means
  <2>2. PICK e, q \in Seq(Tokens) :
           /\ q = Cleared(r) /\ Divided(e, q, kernel, typed)
           /\ Told(e) = [Told(d) EXCEPT !.wants = "command"]
           /\ q # <<>> => q[Len(q)] = Eol
           /\ (\A i \in 1..Len(r) : r[i] = Eol => i = Len(r)) => q = <<>>
    BY <1>3, <2>1, ClearRest
  <2>3. Told(d) \in Telling
    BY <1>3, MeansType
  <2>4. Told(e).does = executed' /\ Told(e).wants = "command"
    BY <1>3, <1>8, <2>1, <2>2, <2>3 DEF Telling
  <2>5. buffer' = q /\ verb' \in Verbs /\ pc' = "socket"
    BY <1>3, <1>8, <2>2 DEF IInv, Types
  <2>6. terminal => /\ \A i \in 1..Len(q) : q[i] = Eol => i = Len(q)
                    /\ Wordless(q)
    BY <1>3, <2>2, EmptySeq DEF Wordless
  <2> QED BY <1>1, <2>2, <2>4, <2>5, <2>6, Rebuilt
<1> QED BY <1>5, <1>6, <1>7, <1>8 DEF Command

\* The command has its name.
LEMMA NameStep ==
  ASSUME IInv, Name
  PROVE  IInv'
<1>1. /\ pc = "name" /\ HasWord /\ UNCHANGED <<terminal, typed, eof, kernel, verb>>
      /\ executed' = Append(executed, <<verb, Word>>) /\ buffer' = Cleared(Rest)
      /\ pc' \in {"socket", "exited"}
  BY DEF Name, typing
<1>2. PICK k \in 1..Len(buffer), c, d \in Seq(Tokens) :
        /\ Word \in Tokens /\ Word # Eol
        /\ Divided(d, Rest, kernel, typed) /\ Told(d) = Means(Told(c), Word)
        /\ Told(c) \in Telling /\ Told(c).does = executed
        /\ Told(c).wants = "name" /\ Told(c).verb = verb
        /\ Rest \in Seq(Tokens) /\ Rest # <<>> /\ Rest[Len(Rest)] = Eol
        /\ terminal => \A i \in 1..Len(Rest) : Rest[i] = Eol => i = Len(Rest)
  BY <1>1, ReadWord
<1>3. PICK w \in Tokens, r \in Seq(Tokens), m \in Telling :
        /\ w = Word /\ r = Rest /\ m = Told(c)
        /\ m.does = executed /\ m.wants = "name" /\ m.verb = verb
        /\ Told(d) = Means(m, w) /\ w # Eol
        /\ r # <<>> /\ r[Len(r)] = Eol /\ Divided(d, r, kernel, typed)
        /\ terminal => \A i \in 1..Len(r) : r[i] = Eol => i = Len(r)
  BY <1>2
<1>4. m = [does |-> m.does, wants |-> m.wants, verb |-> m.verb]
  BY DEF Telling
<1>5. Told(d).does = Append(m.does, <<m.verb, w>>) /\ Told(d).wants = "end"
  BY <1>3, <1>4 DEF Means
<1>6. PICK e, q \in Seq(Tokens) :
         /\ q = Cleared(r) /\ Divided(e, q, kernel, typed)
         /\ Told(e) = [Told(d) EXCEPT !.wants = "command"]
         /\ q # <<>> => q[Len(q)] = Eol
         /\ (\A i \in 1..Len(r) : r[i] = Eol => i = Len(r)) => q = <<>>
  BY <1>3, <1>5, ClearRest
<1>7. Told(d) \in Telling
  BY <1>3, MeansType
<1>8. Told(e).does = executed' /\ Told(e).wants = "command"
  BY <1>1, <1>3, <1>5, <1>6, <1>7 DEF Telling
<1>9. buffer' = q /\ verb' \in Verbs /\ pc' \in {"socket", "exited"}
  BY <1>1, <1>3, <1>6 DEF IInv, Types
<1>10. terminal => /\ \A i \in 1..Len(q) : q[i] = Eol => i = Len(q)
                   /\ Wordless(q)
  BY <1>3, <1>6, EmptySeq DEF Wordless
<1>11. pc' # "name"
  BY <1>9
<1> QED BY <1>1, <1>6, <1>8, <1>9, <1>10, <1>11, Rebuilt

-----------------------------------------------------------------------------
(* The theorems                                                            *)

\* The inductive invariant: what the client has carried out is what the words
\* mean that it has taken, and no word is lost between the kernel and cin.
THEOREM Invariance == Spec => []IInv
<1>1. IInv /\ [Next]_vars => IInv'
  <2> SUFFICES ASSUME IInv, [Next]_vars PROVE IInv'
    OBVIOUS
  <2>1. CASE Type
    BY <2>1, TypeStep
  <2>2. CASE EndInput \/ ServerCloses \/ UNCHANGED vars
    <3>1. /\ UNCHANGED <<terminal, typed, kernel, buffer, verb, executed, pc>>
          /\ (eof' = eof \/ eof' = TRUE)
      BY <2>2 DEF EndInput, ServerCloses, vars, typing
    <3> QED BY <3>1, Moves
  <2>3. CASE Select \/ Socket
    <3>1. /\ UNCHANGED <<terminal, typed, kernel, buffer, verb, executed, eof>>
          /\ pc \in {"select", "socket"} /\ pc' \in {"select", "socket", "word", "exited"}
      BY <2>3 DEF Select, Socket, typing
    <3> QED BY <3>1, Moves
  <2>4. CASE Fill
    BY <2>4, FillStep
  <2>5. CASE Command
    BY <2>5, CommandStep
  <2>6. CASE Name
    BY <2>6, NameStep
  <2>7. CASE AtEnd
    <3>1. /\ UNCHANGED <<terminal, typed, kernel, buffer, verb, executed, eof>>
          /\ pc \in {"word", "name"} /\ pc' \in {"exited", "socket"}
          /\ ~HasWord /\ kernel = <<>> /\ eof
      BY <2>7 DEF AtEnd, Reading, typing
    <3>2. Over
      <4>1. DOMAIN buffer = 1..Len(buffer)
        BY LenProperties DEF IInv, Types
      <4> QED BY <3>1, <4>1 DEF Over, HasWord, WordAt, Wordless
    <3> QED BY <3>1, <3>2, Moves
  <2> QED BY <2>1, <2>2, <2>3, <2>4, <2>5, <2>6, <2>7 DEF Next, Client, Finished
<1> QED BY Initially, <1>1, PTL DEF Spec

\* select_command carries out what was typed, in that order, nothing twice and
\* nothing left out, however lines are cut up between select, the kernel and cin.
THEOREM CarriedOutInOrder == Spec => []InOrder
<1>1. IInv => InOrder
  <2> SUFFICES ASSUME IInv PROVE InOrder
    OBVIOUS
  <2>1. PICK c, d \in Seq(Tokens) : Words(typed) = c \o d /\ Told(c).does = executed
    <3>1. CASE pc = "exited"
      BY <3>1 DEF IInv, Left
    <3>2. CASE pc # "exited"
      <4>1. PICK c \in Seq(Tokens) : Divided(c, buffer, kernel, typed) /\ Told(c).does = executed
        BY <3>2 DEF IInv, InPlace
      <4>2. Words(kernel) \in Seq(Tokens)
        BY WordsType DEF IInv, Types
      <4>3. PICK d \in Seq(Tokens) : (c \o buffer) \o Words(kernel) = c \o d
        BY <4>2, Remains DEF IInv, Types
      <4> QED BY <4>1, <4>3 DEF Divided
    <3> QED BY <3>1, <3>2
  <2>2. IsPrefix(Told(c).does, Told(c \o d).does)
    BY MeantStays
  <2> QED BY <2>1, <2>2 DEF InOrder, Meaning
<1> QED BY <1>1, Invariance, PTL

\* When select waits for a key of a terminal, all that was typed is done, if no
\* line has words behind a !help or a !list.
THEOREM NoneKeptWaiting == Spec => []NothingPending
<1>1. IInv => NothingPending
  <2> SUFFICES ASSUME IInv, terminal, pc = "select", kernel = <<>>, Tidy(typed)
               PROVE  executed = Meaning(typed)
    BY DEF NothingPending, Tidy
  <2>1. PICK c \in Seq(Tokens) :
          /\ Divided(c, buffer, kernel, typed) /\ Told(c).does = executed
          /\ Told(c).wants \in {"command", "name"}
    BY DEF IInv, InPlace
  <2>2. Wordless(buffer) /\ buffer \in Seq(Tokens)
    BY DEF IInv, AtLine, Types
  <2>3. c \o buffer \in Seq(Tokens) /\ Told(c \o buffer) = Told(c)
    BY <2>1, <2>2, LeftOver
  <2>4. Words(kernel) = <<>>
    <3>1. Len(<<>>) = 0 /\ <<>> \in Seq(Lines)
      BY EmptySeq
    <3>2. PICK g \in [0..Len(<<>>) -> Seq(Tokens)] : g[0] = <<>> /\ Words(<<>>) = g[Len(<<>>)]
      BY <3>1, WordsOf
    <3> QED BY <3>1, <3>2
  <2>5. Words(typed) = c \o buffer
    BY <2>1, <2>3, <2>4, ConcatEmptySeq DEF Divided
  <2> QED BY <2>1, <2>3, <2>5 DEF Meaning
<1> QED BY <1>1, Invariance, PTL
=============================================================================
