-------------------------- MODULE NetSocketProofs --------------------------
(***************************************************************************)
(* The frames of NetSocket for all lengths of integers, digests and data,  *)
(* all sequences of frames and all ways a stream can be cut into pieces.   *)
(*                                                                         *)
(* The invariant says that the receiver never loses its place: what it has *)
(* read and what it still needs end where the part it reads ends (InPlace),*)
(* so that every MAC is read where it was sent.  Where a frame begins is a *)
(* fold over the frames before it, which FoldLemmas unfolds.               *)
(***************************************************************************)
EXTENDS NetSocket, FoldLemmas, FiniteSetTheorems

-----------------------------------------------------------------------------
(* Where the frames begin                                                  *)

\* Start for a sequence of frames.
StartOf(p, i) == FoldLeft(LAMBDA n, f : n + Size(f), 0, SubSeq(p, 1, i - 1))

\* A frame has at least an integer and its MAC.
LEMMA SizeType ==
  ASSUME NEW f \in FrameSet
  PROVE  Size(f) \in Nat \ {0}
BY LengthAssumption DEF Size, FrameSet

\* The lengths of frames are summed one after the other.
LEMMA Sums ==
  ASSUME NEW s \in Seq(FrameSet)
  PROVE  \E g \in [0..Len(s) -> Nat] :
           /\ g[0] = 0 /\ \A i \in 1..Len(s) : g[i] = g[i - 1] + Size(s[i])
           /\ FoldLeft(LAMBDA n, f : n + Size(f), 0, s) = g[Len(s)]
<1>1. PICK n \in Nat : n = Len(s)
  OBVIOUS
<1>2. PICK step : step = [p \in Nat \X (1..n) |-> p[1] + Size(s[p[2]])]
  OBVIOUS
<1>3. \A i \in 1..n : Size(s[i]) \in Nat
  BY <1>1, SizeType
<1>4. step \in [Nat \X (1..n) -> Nat]
  <2>1. ASSUME NEW p \in Nat \X (1..n) PROVE p[1] + Size(s[p[2]]) \in Nat
    <3>1. p[1] \in Nat /\ Size(s[p[2]]) \in Nat
      BY <1>3
    <3> QED BY <3>1
  <2> QED BY <1>2, <2>1
<1>5. PICK base \in Nat : base = 0
  OBVIOUS
<1>6. \A v \in Nat, i \in 1..n : step[<<v, i>>] = v + Size(s[i])
  BY <1>2
<1>7. PICK it, g : Folding(it, g, n, Nat, base, step)
  BY <1>4, Folds
<1>8. /\ Iterates(it, n, Nat, base, step)
      /\ \A x \in SUBSET (1..n) : it[x] \in Nat
      /\ \A jt : Iterates(jt, n, Nat, base, step) => jt = it
      /\ g \in [0..n -> Nat] /\ g[0] = base /\ g[n] = it[1..n]
      /\ \A i \in 1..n : g[i] = step[<<g[i - 1], i>>]
  BY <1>7 DEF Folding
<1>9. DOMAIN s = 1..n
  BY <1>1
<1>10. \A x \in SUBSET (1..n) : x # {} => Max(x) \in 1..n /\ x \ {Max(x)} \in SUBSET (1..n)
  BY MaxOf
<1> DEFINE Equation(jt) ==
      jt = [x \in SUBSET (DOMAIN s) |-> IF x = {} THEN 0
                                        ELSE jt[x \ {Max(x)}] + Size(s[Max(x)])]
<1>11. Equation(it)
  <2>1. ASSUME NEW x \in SUBSET (1..n), x # {}
        PROVE  it[x] = it[x \ {Max(x)}] + Size(s[Max(x)])
    <3>1. PICK m : m = Max(x)
      OBVIOUS
    <3>2. m \in 1..n /\ it[x \ {m}] \in Nat
      BY <1>8, <1>10, <2>1, <3>1
    <3>3. it[x] = step[<<it[x \ {m}], m>>]
      BY <1>8, <2>1, <3>1, <3>2 DEF Iterates
    <3> QED BY <1>6, <3>1, <3>2, <3>3
  <2>2. it = [x \in SUBSET (1..n) |-> it[x]] /\ it[{}] = base
    BY <1>8 DEF Iterates
  <2> QED BY <1>5, <1>9, <2>1, <2>2
<1>12. ASSUME NEW jt, Equation(jt) PROVE jt = it
  <2>1. jt = [x \in SUBSET (1..n) |-> IF x = {} THEN 0
                                       ELSE jt[x \ {Max(x)}] + Size(s[Max(x)])]
    BY <1>9, <1>12
  <2>2. {} \in SUBSET (1..n)
    OBVIOUS
  <2>3. jt[{}] = base /\ jt = [x \in SUBSET (1..n) |-> jt[x]]
    BY <1>5, <2>1, <2>2
  <2>4. \A x \in SUBSET (1..n) : x # {} /\ jt[x \ {Max(x)}] \in Nat =>
          jt[x] = step[<<jt[x \ {Max(x)}], Max(x)>>]
    BY <1>6, <1>10, <2>1
  <2>5. Iterates(jt, n, Nat, base, step)
    BY <2>3, <2>4 DEF Iterates
  <2> QED BY <1>8, <2>5
<1>13. FoldLeft(LAMBDA m, f : m + Size(f), 0, s) = it[DOMAIN s]
  BY <1>11, <1>12 DEF FoldLeft, MapThenFoldSet
<1>14. FoldLeft(LAMBDA m, f : m + Size(f), 0, s) = g[n]
  BY <1>8, <1>9, <1>13
<1>15. \A i \in 1..n : g[i] = g[i - 1] + Size(s[i])
  <2>1. \A i \in 1..n : i - 1 \in 0..n
    OBVIOUS
  <2> QED BY <1>6, <1>8, <2>1
<1> QED BY <1>1, <1>5, <1>8, <1>14, <1>15

\* A frame begins where the one before it ends.
LEMMA Starts ==
  ASSUME NEW p \in Seq(FrameSet)
  PROVE  \E g \in [0..Len(p) -> Nat] :
           /\ g[0] = 0 /\ \A i \in 1..Len(p) : g[i] = g[i - 1] + Size(p[i])
           /\ \A i \in 0..Len(p) : StartOf(p, i + 1) = g[i]
<1>1. PICK g \in [0..Len(p) -> Nat] :
         g[0] = 0 /\ \A i \in 1..Len(p) : g[i] = g[i - 1] + Size(p[i])
  BY Sums
<1>2. ASSUME NEW i \in 0..Len(p) PROVE StartOf(p, i + 1) = g[i]
  <2>1. PICK n \in Nat, s \in Seq(FrameSet) : n = i /\ s = SubSeq(p, 1, n)
    OBVIOUS
  <2>2. s \in Seq(FrameSet) /\ Len(s) = n /\ \A j \in 1..n : s[j] = p[j]
    BY <2>1
  <2>3. PICK h \in [0..n -> Nat] :
           /\ h[0] = 0 /\ \A j \in 1..n : h[j] = h[j - 1] + Size(s[j])
           /\ FoldLeft(LAMBDA m, f : m + Size(f), 0, s) = h[n]
    BY <2>2, Sums
  <2>4. g[n] = h[n]
    <3>1. \A j \in 1..n : j \in 1..Len(p)
      BY <2>1
    <3>2. \A j \in 1..n : g[j - 1] = h[j - 1] => g[j] = h[j]
      BY <1>1, <2>2, <2>3, <3>1
    <3>3. g[0] = h[0]
      BY <1>1, <2>3
    <3> QED BY <3>2, <3>3, TraceOnce
  <2>5. StartOf(p, i + 1) = FoldLeft(LAMBDA m, f : m + Size(f), 0, s)
    <3>1. (i + 1) - 1 = n
      BY <2>1
    <3> QED BY <2>1, <3>1 DEF StartOf
  <2> QED BY <2>1, <2>3, <2>4, <2>5
<1> QED BY <1>1, <1>2

\* Later frames begin later.
LEMMA Later ==
  ASSUME NEW p \in Seq(FrameSet), NEW g \in [0..Len(p) -> Nat],
         \A i \in 1..Len(p) : g[i] = g[i - 1] + Size(p[i])
  PROVE  \A i, j \in 0..Len(p) : i <= j => g[i] <= g[j]
<1>1. PICK n \in Nat : n = Len(p)
  OBVIOUS
<1>2. \A k \in Nat : k + 1 <= n => g[k] <= g[k + 1]
  <2> SUFFICES ASSUME NEW k \in Nat, k + 1 <= n PROVE g[k] <= g[k + 1]
    OBVIOUS
  <2>1. PICK j : j = k + 1
    OBVIOUS
  <2>2. j \in 1..n /\ k \in 0..n /\ j \in 0..n /\ j - 1 = k
    BY <2>1
  <2>3. g[j] = g[k] + Size(p[j]) /\ Size(p[j]) \in Nat /\ g[k] \in Nat
    BY <1>1, <2>2, SizeType
  <2> QED BY <2>1, <2>3
<1> SUFFICES ASSUME NEW i \in 0..n, NEW j \in 0..n, i <= j PROVE g[i] <= g[j]
  BY <1>1
<1> DEFINE T == {k \in Nat : i <= k /\ k <= n => g[i] <= g[k]}
<1>3. 0 \in T
  <2>1. i <= 0 => i = 0
    OBVIOUS
  <2>2. g[i] \in Nat
    BY <1>1
  <2> QED BY <2>1, <2>2
<1>4. ASSUME NEW k \in Nat, k \in T PROVE k + 1 \in T
  <2> SUFFICES ASSUME i <= k + 1, k + 1 <= n PROVE g[i] <= g[k + 1]
    OBVIOUS
  <2>1. PICK l : l = k + 1
    OBVIOUS
  <2>2. k \in 0..n /\ l \in 0..n /\ (i <= k \/ i = l)
    BY <2>1
  <2>3. g[i] \in Nat /\ g[k] \in Nat /\ g[l] \in Nat /\ g[k] <= g[l]
    BY <1>1, <1>2, <2>1, <2>2
  <2>4. CASE i <= k
    <3>1. g[i] <= g[k]
      BY <1>4, <2>2, <2>4
    <3> QED BY <2>1, <2>3, <3>1
  <2>5. CASE i = l
    BY <2>1, <2>3, <2>5
  <2> QED BY <2>2, <2>4, <2>5
<1> HIDE DEF T
<1>5. j \in T
  BY <1>3, <1>4, ByInduction
<1> QED BY <1>5 DEF T

-----------------------------------------------------------------------------
(* The frames of the program                                               *)

\* What may be sent.
LEMMA Frames ==
  ASSUME program \in Programs
  PROVE  /\ program \in Seq(FrameSet) /\ Len(program) \in Nat
         /\ \A i \in 1..Len(program) :
              program[i] \in FrameSet /\ (program[i].kind = "data" => program[i].len > 0)
<1> DEFINE Sendable == {f \in FrameSet : f.kind = "data" => f.len > 0}
<1>1. program \in Seq(Sendable)
  BY ProgramAssumption
<1>2. \A i \in 1..Len(program) : program[i] \in Sendable
  BY <1>1
<1>3. Sendable \subseteq FrameSet
  OBVIOUS
<1>4. program \in Seq(FrameSet)
  BY <1>1, <1>3, SeqMonotonic
<1> QED BY <1>2, <1>4

\* Where the frames of the program begin.
LEMMA Positions ==
  ASSUME program \in Programs
  PROVE  \E g \in [0..Len(program) -> Nat] :
           /\ g[0] = 0 /\ \A i \in 0..Len(program) : Start(i + 1) = g[i]
           /\ StreamEnd = g[Len(program)]
           /\ \A i \in 1..Len(program) :
                Start(i) = g[i - 1] /\ g[i] = g[i - 1] + Size(program[i])
           /\ \A i, j \in 0..Len(program) : i <= j => g[i] <= g[j]
<1>1. program \in Seq(FrameSet)
  BY Frames
<1>2. PICK g \in [0..Len(program) -> Nat] :
        /\ g[0] = 0 /\ \A i \in 1..Len(program) : g[i] = g[i - 1] + Size(program[i])
        /\ \A i \in 0..Len(program) : StartOf(program, i + 1) = g[i]
  BY <1>1, Starts
<1>3. \A i \in 0..Len(program) : Start(i + 1) = g[i]
  BY <1>2 DEF Start, StartOf
<1>4. Len(program) \in 0..Len(program) /\ StreamEnd = g[Len(program)]
  <2>1. Len(program) \in 0..Len(program)
    BY <1>1
  <2> QED BY <1>3, <2>1 DEF StreamEnd
<1>5. ASSUME NEW i \in 1..Len(program) PROVE Start(i) = g[i - 1]
  <2>1. PICK j \in 0..Len(program) : j = i - 1 /\ j + 1 = i
    BY <1>1
  <2> QED BY <1>3, <2>1
<1>6. \A i, j \in 0..Len(program) : i <= j => g[i] <= g[j]
  BY <1>1, <1>2, Later
<1> QED BY <1>2, <1>3, <1>4, <1>5, <1>6

\* The places and lengths of the parts of the frame being received.
LEMMA PartsOf ==
  /\ PartStart("int") = Start(call) + 0 /\ PartLen("int") = IntLen
  /\ PartStart("intmac") = Start(call) + IntLen /\ PartLen("intmac") = Hash
  /\ PartStart("data") = Start(call) + (IntLen + Hash) /\ PartLen("data") = program[call].len
  /\ PartStart("mac") = Start(call) + (IntLen + Hash + program[call].len)
  /\ PartLen("mac") = Hash
BY DEF PartStart, PartLen

-----------------------------------------------------------------------------
(* The inductive invariant                                                 *)

\* While it runs, what has been read and what is missing end with the part.
InPlace ==
  outcome = "running" =>
    /\ call \in 1..Len(program)
    /\ part \in {"data", "mac"} => program[call].kind = "data"
    /\ part = "int" => need = IntLen
    /\ read + need = PartStart(part) + PartLen(part)

\* The calls are all answered when the whole stream has been read.
AllRead == outcome = "done" => read = StreamEnd

\* The inductive invariant.
IInv == TypeOK /\ FailureExplained /\ InPlace /\ AllRead

-----------------------------------------------------------------------------
(* The steps of the invariant                                              *)

\* While it runs, the receiver is in a frame of the stream.
LEMMA AtFrame ==
  ASSUME IInv, outcome = "running"
  PROVE  \E s, e, l \in Nat :
           /\ s = Start(call) /\ e = Start(call + 1) /\ e <= StreamEnd
           /\ l = program[call].len /\ StreamEnd \in Nat
           /\ call \in 1..Len(program) /\ Len(program) \in Nat
           /\ program[call].kind \in {"int", "data"}
           /\ program[call].kind = "int" => e = s + (IntLen + Hash)
           /\ program[call].kind = "data" => l > 0 /\ e = s + (IntLen + Hash + l + Hash)
           /\ call = Len(program) => e = StreamEnd
<1>1. program \in Programs /\ call \in 1..Len(program)
  BY DEF IInv, TypeOK, InPlace
<1>2. PICK g \in [0..Len(program) -> Nat] :
        /\ \A i \in 0..Len(program) : Start(i + 1) = g[i]
        /\ StreamEnd = g[Len(program)]
        /\ \A i \in 1..Len(program) : Start(i) = g[i - 1] /\ g[i] = g[i - 1] + Size(program[i])
        /\ \A i, j \in 0..Len(program) : i <= j => g[i] <= g[j]
  BY <1>1, Positions
<1>3. PICK c, n \in Nat : c = call /\ n = Len(program) /\ c \in 1..n
  BY <1>1, Frames
<1>4. c \in 0..n /\ c - 1 \in 0..n /\ n \in 0..n /\ c <= n
  BY <1>3
<1>5. PICK s, e, t \in Nat : s = g[c - 1] /\ e = g[c] /\ t = g[n]
  BY <1>2, <1>3, <1>4
<1>6. /\ s = Start(call) /\ e = Start(call + 1) /\ t = StreamEnd /\ e <= t
      /\ e = s + Size(program[call])
  BY <1>2, <1>3, <1>4, <1>5
<1>7. PICK f \in FrameSet : f = program[call] /\ (f.kind = "data" => f.len > 0)
  BY <1>1, Frames
<1>8. f.len \in Nat /\ f.kind \in {"int", "data"}
  BY DEF FrameSet
<1>9. /\ f.kind = "int" => Size(f) = IntLen + Hash
      /\ f.kind = "data" => Size(f) = IntLen + Hash + (f.len + Hash)
  <2>1. IntLen + Hash + 0 = IntLen + Hash
    BY LengthAssumption
  <2> QED BY <2>1 DEF Size
<1>10. f.kind = "data" => e = s + (IntLen + Hash + f.len + Hash)
  BY <1>6, <1>7, <1>8, <1>9, LengthAssumption
<1>11. f.kind = "int" => e = s + (IntLen + Hash)
  BY <1>6, <1>7, <1>9
<1>12. call = Len(program) => e = t
  BY <1>3, <1>5
<1> QED BY <1>1, <1>3, <1>5, <1>6, <1>7, <1>8, <1>10, <1>11, <1>12

\* What is missing is a number of bytes, of the part that is read.
LEMMA Missing ==
  ASSUME IInv, outcome = "running"
  PROVE  /\ need \in Nat \ {0} /\ PartLen(part) \in Nat /\ need <= PartLen(part)
         /\ arrived \in Nat /\ read \in Nat /\ read <= arrived /\ part \in Parts
<1>1. PICK s, e, l \in Nat : l = program[call].len
  BY AtFrame
<1>2. part \in Parts /\ need \in 1..PartLen(part)
  BY DEF IInv, TypeOK
<1>3. PartLen(part) \in Nat
  BY <1>1, <1>2, PartsOf, LengthAssumption DEF Parts
<1>4. StreamEnd \in Nat
  BY AtFrame
<1>5. arrived \in Nat /\ read \in Nat /\ read <= arrived
  BY <1>4 DEF IInv, TypeOK
<1> QED BY <1>2, <1>3, <1>5

\* recvfrom takes some of what is missing, of what has arrived.
LEMMA Takes ==
  ASSUME IInv, outcome = "running", ~Empty
  PROVE  /\ Taken \in 1..need /\ read + Taken \in Nat /\ read + Taken <= arrived
         /\ Taken >= need => Taken = need
<1>1. PICK a, r, n \in Nat : a = arrived /\ r = read /\ n = need
  BY Missing
<1>2. r <= a /\ n # 0 /\ a - r # 0
  BY <1>1, Missing DEF Empty, Available
<1>3. Taken = IF a - r < n THEN a - r ELSE n
  BY <1>1 DEF Taken, Available
<1>4. Taken \in 1..n /\ r + Taken <= a /\ (Taken >= n => Taken = n) /\ r + Taken \in Nat
  BY <1>2, <1>3
<1> QED BY <1>1, <1>4

\* A part that is complete is followed by the next, or its frame is returned:
\* its MACs verify, as they are read where they were sent.
LEMMA Completion ==
  ASSUME IInv, outcome = "running", Complete, read' = read + need
  PROVE  \/ \E p \in {"intmac", "data", "mac"} :
              /\ part' = p /\ need' = PartLen(p) /\ UNCHANGED <<call, outcome>>
              /\ read' = PartStart(p)
              /\ p \in {"data", "mac"} => program[call].kind = "data"
         \/ Return /\ read' = Start(call + 1)
<1>1. PICK s, e, l \in Nat :
           /\ s = Start(call) /\ e = Start(call + 1)
           /\ l = program[call].len
           /\ program[call].kind \in {"int", "data"}
           /\ program[call].kind = "int" => e = s + (IntLen + Hash)
           /\ program[call].kind = "data" => l > 0 /\ e = s + (IntLen + Hash + l + Hash)
  BY AtFrame
<1>2. PICK i, h \in Nat : i = IntLen /\ h = Hash
  BY LengthAssumption
<1>3. /\ PartStart("int") = s /\ PartLen("int") = i
      /\ PartStart("intmac") = s + i /\ PartLen("intmac") = h
      /\ PartStart("data") = s + (i + h) /\ PartLen("data") = l
      /\ PartStart("mac") = s + (i + h + l) /\ PartLen("mac") = h
  <2>1. s + 0 = s
    OBVIOUS
  <2> QED BY <1>1, <1>2, <2>1, PartsOf
<1>4. /\ read' = PartStart(part) + PartLen(part)
      /\ part \in {"data", "mac"} => program[call].kind = "data"
  BY DEF IInv, InPlace
<1>5. CASE part = "int" /\ Begin("intmac")
  <2>1. read' = PartStart("intmac")
    BY <1>3, <1>4, <1>5
  <2> QED BY <1>5, <2>1 DEF Begin
<1>6. CASE part = "intmac" /\ IF ~Verified THEN Stop("failed")
                              ELSE IF program[call].kind = "int" THEN Return
                              ELSE Begin("data")
  <2>1. Verified
    BY <1>2, <1>3, <1>4, <1>6 DEF Verified
  <2>2. read' = s + (i + h)
    BY <1>3, <1>4, <1>6
  <2>3. CASE program[call].kind = "int"
    BY <1>1, <1>2, <1>6, <2>1, <2>2, <2>3
  <2>4. CASE program[call].kind = "data"
    <3>1. Begin("data") /\ read' = PartStart("data")
      BY <1>3, <1>6, <2>1, <2>2, <2>4
    <3> QED BY <2>4, <3>1 DEF Begin
  <2> QED BY <1>1, <2>3, <2>4
<1>7. CASE part = "data" /\ Begin("mac")
  <2>1. read' = PartStart("mac")
    BY <1>3, <1>4, <1>7
  <2> QED BY <1>4, <1>7, <2>1 DEF Begin
<1>8. CASE part = "mac" /\ IF Verified THEN Return ELSE Stop("failed")
  <2>1. Verified
    BY <1>2, <1>3, <1>4, <1>8 DEF Verified
  <2>2. read' = s + (i + h + l + h)
    BY <1>3, <1>4, <1>8
  <2> QED BY <1>1, <1>2, <1>4, <1>8, <2>1, <2>2
<1> QED BY <1>5, <1>6, <1>7, <1>8 DEF Complete

\* Start, where nothing but the receiver moves.
LEMMA SamePlaces ==
  ASSUME UNCHANGED program
  PROVE  /\ StreamEnd' = StreamEnd
         /\ UNCHANGED call => Start(call)' = Start(call)
         /\ UNCHANGED call => /\ PartStart(part)' = PartStart(part')
                              /\ PartLen(part)' = PartLen(part')
<1>1. StreamEnd' = StreamEnd
  BY DEF StreamEnd, Start, FoldLeft, MapThenFoldSet
<1>2. UNCHANGED call => Start(call)' = Start(call)
  BY DEF Start, FoldLeft, MapThenFoldSet
<1>3. UNCHANGED call => PartStart(part)' = PartStart(part')
  BY <1>2 DEF PartStart
<1>4. UNCHANGED call => PartLen(part)' = PartLen(part')
  BY DEF PartLen
<1> QED BY <1>1, <1>2, <1>3, <1>4

\* At first nothing has been read of the first integer.
LEMMA Initially == Init => IInv
<1> SUFFICES ASSUME Init PROVE IInv
  OBVIOUS
<1>1. program \in Programs
  BY DEF Init
<1>2. program \in Seq(FrameSet) /\ Len(program) \in Nat
  BY <1>1, Frames
<1>3. PICK g \in [0..Len(program) -> Nat] :
        /\ g[0] = 0 /\ \A i \in 0..Len(program) : Start(i + 1) = g[i]
        /\ StreamEnd = g[Len(program)]
  BY <1>1, Positions
<1>4. PICK z : z = 0
  OBVIOUS
<1>5. z \in 0..Len(program) /\ z + 1 = call /\ Len(program) \in 0..Len(program)
  BY <1>2, <1>4 DEF Init
<1>6. StreamEnd \in Nat /\ Start(call) = 0
  BY <1>3, <1>4, <1>5
<1>7. program = <<>> => StreamEnd = 0
  BY <1>3
<1>8. program # <<>> => call \in 1..Len(program)
  BY <1>2 DEF Init
<1>9. PartStart(part) = 0 /\ PartLen(part) = IntLen
  BY <1>6, PartsOf DEF Init
<1>10. TypeOK
  <2>1. arrived \in 0..StreamEnd /\ read \in 0..arrived /\ call \in 1..(Len(program) + 1)
    BY <1>2, <1>6 DEF Init
  <2>2. need \in 1..PartLen(part)
    BY <1>9, LengthAssumption DEF Init
  <2> QED BY <1>1, <2>1, <2>2 DEF Init, TypeOK, Parts
<1>11. FailureExplained
  BY DEF Init, FailureExplained
<1>12. InPlace
  BY <1>8, <1>9, LengthAssumption DEF Init, InPlace
<1>13. AllRead
  BY <1>7 DEF Init, AllRead
<1> QED BY <1>10, <1>11, <1>12, <1>13 DEF IInv

\* More bytes arrive, the stream ends, or nothing happens: the receiver is
\* where it was.
LEMMA StreamSteps ==
  ASSUME IInv, UNCHANGED <<program, read, call, part, need, outcome, short>>,
         arrived' = arrived \/ (arrived' \in (arrived + 1)..StreamEnd),
         ended' = ended \/ (ended = "no" /\ ended' \in {"eof", "reset"})
  PROVE  IInv' /\ arrived \in Nat /\ arrived' \in Nat /\ arrived' >= arrived
<1>1. /\ StreamEnd' = StreamEnd /\ PartStart(part)' = PartStart(part)
      /\ PartLen(part)' = PartLen(part)
  BY SamePlaces
<1>2. PICK t \in Nat : t = StreamEnd
  <2>1. PICK g \in [0..Len(program) -> Nat] : StreamEnd = g[Len(program)]
    BY Positions DEF IInv, TypeOK
  <2>2. Len(program) \in 0..Len(program)
    BY Frames DEF IInv, TypeOK
  <2> QED BY <2>1, <2>2
<1>3. PICK a \in Nat, r \in Nat : a = arrived /\ r = read /\ a <= t /\ r <= a
  BY <1>2 DEF IInv, TypeOK
<1>4. PICK b \in Nat : b = arrived' /\ b <= t /\ b >= a
  BY <1>2, <1>3
<1>5. TypeOK'
  <2>1. arrived' \in 0..StreamEnd' /\ read' \in 0..arrived'
    BY <1>1, <1>2, <1>3, <1>4
  <2> QED BY <1>1, <2>1 DEF IInv, TypeOK
<1>6. FailureExplained'
  BY DEF IInv, FailureExplained
<1>7. InPlace'
  BY <1>1 DEF IInv, InPlace
<1>8. AllRead'
  BY <1>1 DEF IInv, AllRead
<1> QED BY <1>3, <1>4, <1>5, <1>6, <1>7, <1>8 DEF IInv

\* Where the next frame begins, in the next state.
LEMMA StartNext == Start(call)' = StartOf(program', call')
BY DEF Start, StartOf, FoldLeft, MapThenFoldSet

\* How a part goes on when all of it has been read.
LEMMA CompleteStep ==
  ASSUME IInv, outcome = "running", Complete, read' = read + need, read' <= arrived,
         UNCHANGED <<program, arrived, ended>>, short' \in BOOLEAN
  PROVE  /\ IInv'
         /\ \/ UNCHANGED <<call, outcome>>
            \/ Return /\ Start(call + 1) <= arrived
<1>1. PICK s, e, l \in Nat :
           /\ s = Start(call) /\ e = Start(call + 1) /\ e <= StreamEnd
           /\ l = program[call].len /\ StreamEnd \in Nat
           /\ call \in 1..Len(program) /\ Len(program) \in Nat
           /\ program[call].kind \in {"int", "data"}
           /\ program[call].kind = "data" => l > 0
           /\ call = Len(program) => e = StreamEnd
  BY AtFrame
<1>2. /\ program \in Programs /\ arrived \in 0..StreamEnd /\ read \in Nat /\ need \in Nat
      /\ arrived \in Nat
  BY <1>1, Missing DEF IInv, TypeOK
<1>3. read' \in Nat /\ read' \in 0..arrived
  BY <1>2
<1>4. StreamEnd' = StreamEnd
  BY SamePlaces
<1>5. CASE \E p \in {"intmac", "data", "mac"} :
              /\ part' = p /\ need' = PartLen(p) /\ UNCHANGED <<call, outcome>>
              /\ read' = PartStart(p)
              /\ p \in {"data", "mac"} => program[call].kind = "data"
  <2>1. PICK p \in {"intmac", "data", "mac"} :
              /\ part' = p /\ need' = PartLen(p) /\ UNCHANGED <<call, outcome>>
              /\ read' = PartStart(p)
              /\ p \in {"data", "mac"} => program[call].kind = "data"
    BY <1>5
  <2>2. PartStart(part)' = PartStart(p) /\ PartLen(part)' = PartLen(p)
    BY <2>1, SamePlaces
  <2>3. PartLen(p) \in Nat /\ PartLen(p) # 0
    BY <1>1, <2>1, PartsOf, LengthAssumption
  <2>4. TypeOK'
    <3>1. need' \in 1..PartLen(part)'
      BY <2>1, <2>2, <2>3
    <3>2. part' \in Parts
      BY <2>1 DEF Parts
    <3> QED BY <1>2, <1>3, <1>4, <2>1, <3>1, <3>2 DEF IInv, TypeOK
  <2>5. FailureExplained'
    BY <2>1 DEF FailureExplained
  <2>6. InPlace'
    BY <1>1, <2>1, <2>2 DEF InPlace
  <2>7. AllRead'
    BY <2>1 DEF AllRead
  <2> QED BY <2>1, <2>4, <2>5, <2>6, <2>7 DEF IInv
<1>6. CASE Return /\ read' = Start(call + 1)
  <2>1. e <= arrived
    BY <1>1, <1>3, <1>6
  <2>2. CASE call = Len(program)
    <3>1. outcome' = "done" /\ UNCHANGED <<call, part, need>>
      BY <1>6, <2>2 DEF Return, Stop
    <3>2. TypeOK'
      BY <1>2, <1>3, <1>4, <3>1 DEF IInv, TypeOK
    <3>3. AllRead'
      BY <1>1, <1>4, <1>6, <2>2 DEF AllRead
    <3>4. FailureExplained' /\ InPlace'
      BY <3>1 DEF FailureExplained, InPlace
    <3> QED BY <1>1, <1>6, <2>1, <3>2, <3>3, <3>4 DEF IInv
  <2>3. CASE call # Len(program)
    <3>1. call' = call + 1 /\ part' = "int" /\ need' = IntLen /\ outcome' = "running"
      BY <1>6, <2>3 DEF Return
    <3>2. call' \in 1..Len(program) /\ call' \in 1..(Len(program) + 1)
      BY <1>1, <2>3, <3>1
    <3>3. Start(call)' = e
      <4>1. Start(call)' = StartOf(program', call')
        BY StartNext
      <4>2. Start(call + 1) = StartOf(program, call + 1)
        BY DEF Start, StartOf
      <4> QED BY <1>1, <3>1, <4>1, <4>2
    <3>4. PartStart(part)' = e /\ PartLen(part)' = IntLen
      <4>1. PartStart(part)' = Start(call)' + 0 /\ PartLen(part)' = IntLen
        BY <3>1 DEF PartStart, PartLen
      <4> QED BY <3>3, <4>1
    <3>5. TypeOK'
      <4>1. need' \in 1..PartLen(part)'
        BY <3>1, <3>4, LengthAssumption
      <4>2. part' \in Parts
        BY <3>1 DEF Parts
      <4> QED BY <1>2, <1>3, <1>4, <3>1, <3>2, <4>1, <4>2 DEF IInv, TypeOK
    <3>6. InPlace'
      BY <1>1, <1>6, <3>1, <3>2, <3>4 DEF InPlace
    <3>7. FailureExplained' /\ AllRead'
      BY <3>1 DEF FailureExplained, AllRead
    <3> QED BY <1>1, <1>6, <2>1, <3>5, <3>6, <3>7 DEF IInv
  <2> QED BY <2>2, <2>3
<1> QED BY <1>5, <1>6, Completion

\* Receiving fails.
LEMMA StopStep ==
  ASSUME IInv, outcome = "running", NEW how \in {"failed", "crashed"}, Stop(how),
         read' \in Nat, read' <= arrived, UNCHANGED <<program, arrived, ended>>,
         short' \in BOOLEAN,
         how = "failed" => ended # "no" \/ short',
         how = "crashed" => ended = "reset" /\ part = "data"
  PROVE  IInv'
<1>1. outcome' = how /\ UNCHANGED <<call, part, need>>
  BY DEF Stop
<1>2. StreamEnd' = StreamEnd
  BY SamePlaces
<1>3. TypeOK'
  <2>1. read' \in 0..arrived'
    BY Missing
  <2> QED BY <1>1, <1>2, <2>1 DEF IInv, TypeOK
<1>4. FailureExplained' /\ InPlace' /\ AllRead'
  BY <1>1 DEF FailureExplained, InPlace, AllRead
<1> QED BY <1>3, <1>4 DEF IInv

\* What a step of the receiver does to the frames: nothing, or it returns the
\* one being received, which has arrived, or it fails.
Outcome ==
  \/ UNCHANGED <<call, outcome>>
  \/ Return /\ Start(call + 1) <= arrived
  \/ outcome' \in {"failed", "crashed"} /\ UNCHANGED call

\* recvInt has the whole integer, or fails.
LEMMA RecvIntStep ==
  ASSUME IInv, RecvInt
  PROVE  IInv' /\ Outcome
<1>1. /\ outcome = "running" /\ part = "int" /\ ~Empty /\ read' = read + Taken
      /\ short' = (Taken < IntLen) /\ IF short' THEN Stop("failed") ELSE Complete
      /\ UNCHANGED <<program, arrived, ended>>
  BY DEF RecvInt
<1>2. need = IntLen /\ IntLen \in Nat
  BY <1>1, LengthAssumption DEF IInv, InPlace
<1>3. /\ Taken \in 1..need /\ read + Taken \in Nat /\ read + Taken <= arrived
      /\ Taken >= need => Taken = need
  BY <1>1, Takes
<1>4. CASE Taken < IntLen
  <2>1. short' = TRUE /\ Stop("failed")
    BY <1>1, <1>4
  <2>2. IInv'
    BY <1>1, <1>3, <2>1, StopStep
  <2>3. Outcome
    <3>1. outcome' = "failed" /\ UNCHANGED call
      BY <2>1 DEF Stop
    <3> QED BY <3>1 DEF Outcome
  <2> QED BY <2>2, <2>3
<1>5. CASE ~(Taken < IntLen)
  <2>1. short' = FALSE /\ Complete
    <3>1. short' = (Taken < IntLen) /\ IF short' THEN Stop("failed") ELSE Complete
      BY <1>1
    <3>2. (Taken < IntLen) = FALSE
      BY <1>5
    <3>3. short' = FALSE
      BY <3>1, <3>2, Zenon
    <3> QED BY <3>1, <3>3
  <2>2. Taken = need
    BY <1>2, <1>3, <1>5
  <2>3. read' = read + need /\ read' <= arrived
    BY <1>1, <1>3, <2>2
  <2> QED BY <1>1, <2>1, <2>3, CompleteStep DEF Outcome
<1> QED BY <1>4, <1>5

\* utilityRecv has the whole part, or is as much nearer its end as it took.
LEMMA RecvPieceStep ==
  ASSUME IInv, RecvPiece
  PROVE  IInv' /\ Outcome
<1>1. /\ outcome = "running" /\ part # "int" /\ ~Empty /\ read' = read + Taken
      /\ IF Taken < need THEN need' = need - Taken /\ UNCHANGED <<call, part, outcome>>
                         ELSE Complete
      /\ UNCHANGED <<program, arrived, ended, short>>
  BY DEF RecvPiece
<1>2. PICK n, r, k, m, a \in Nat : n = need /\ r = read /\ k = Taken /\ m = PartLen(part) /\ a = arrived
  BY <1>1, Missing, Takes
<1>3. k \in 1..n /\ r + k <= a /\ (k >= n => k = n) /\ n <= m
  BY <1>1, <1>2, Missing, Takes
<1>4. CASE k < n
  <2>1. need' = n - k /\ UNCHANGED <<call, part, outcome>> /\ read' = r + k
    BY <1>1, <1>2, <1>4
  <2>2. StreamEnd' = StreamEnd /\ PartStart(part)' = PartStart(part) /\ PartLen(part)' = m
    BY <1>1, <1>2, <2>1, SamePlaces
  <2>3. need' \in 1..m /\ read' + need' = r + n /\ read' \in 0..a
    BY <1>3, <1>4, <2>1
  <2>4. TypeOK'
    BY <1>1, <1>2, <2>1, <2>2, <2>3 DEF IInv, TypeOK
  <2>5. InPlace'
    BY <1>1, <1>2, <2>1, <2>2, <2>3 DEF IInv, InPlace
  <2>6. FailureExplained' /\ AllRead'
    BY <1>1, <2>1 DEF FailureExplained, AllRead
  <2> QED BY <2>1, <2>4, <2>5, <2>6 DEF IInv, Outcome
<1>5. CASE ~(k < n)
  <2>1. Complete /\ k = n
    BY <1>1, <1>2, <1>3, <1>5
  <2>2. read' = read + need /\ read' <= arrived /\ short' \in BOOLEAN
    <3>1. short' \in BOOLEAN
      BY <1>1 DEF IInv, TypeOK
    <3> QED BY <1>1, <1>2, <1>3, <2>1, <3>1
  <2> QED BY <1>1, <2>1, <2>2, CompleteStep DEF Outcome
<1> QED BY <1>4, <1>5

\* A call fails at the end of the stream.
LEMMA RecvEndStep ==
  ASSUME IInv, RecvIntEnds \/ RecvError
  PROVE  IInv' /\ Outcome
<1>1. PICK how \in {"failed", "crashed"} :
        /\ outcome = "running" /\ ended # "no" /\ Stop(how)
        /\ how = "crashed" => ended = "reset" /\ part = "data"
        /\ UNCHANGED <<program, arrived, read, ended, short>>
  BY DEF RecvIntEnds, RecvError
<1>2. short' \in BOOLEAN /\ read' \in Nat /\ read' <= arrived
  <2>1. short \in BOOLEAN
    BY DEF IInv, TypeOK
  <2> QED BY <1>1, <2>1, Missing
<1>3. IInv'
  BY <1>1, <1>2, StopStep
<1> QED BY <1>1, <1>3 DEF Stop, Outcome

-----------------------------------------------------------------------------
(* The theorems                                                            *)

\* The inductive invariant: recvInt and utilityRecv of library.cpp never lose
\* their place in the stream.
THEOREM Invariance == Spec => []IInv
<1>1. IInv /\ [Next]_vars => IInv'
  <2> SUFFICES ASSUME IInv, [Next]_vars PROVE IInv'
    OBVIOUS
  <2>1. CASE Arrive
    BY <2>1, StreamSteps DEF Arrive
  <2>2. CASE End
    BY <2>2, StreamSteps DEF End
  <2>3. CASE Receive
    BY <2>3, RecvIntStep, RecvPieceStep, RecvEndStep DEF Receive
  <2>4. CASE UNCHANGED vars
    BY <2>4, StreamSteps DEF vars
  <2> QED BY <2>1, <2>2, <2>3, <2>4 DEF Next, RecvZero, Finished
<1> QED BY Initially, <1>1, PTL DEF Spec

\* No byte is read before it has arrived, and what is missing of a part is
\* never more than the part.
THEOREM TypeCorrect == Spec => []TypeOK
<1>1. IInv => TypeOK
  BY DEF IInv
<1> QED BY <1>1, Invariance, PTL

\* recvIntHMAC and recvDataHMAC fail only when the stream has ended or when
\* recvInt met a part of an integer: a MAC never fails to verify because of
\* the pieces in which its frame arrived.
THEOREM FailuresExplained == Spec => []FailureExplained
<1>1. IInv => FailureExplained
  BY DEF IInv
<1> QED BY <1>1, Invariance, PTL

-----------------------------------------------------------------------------
(* The frames above the bytes                                              *)

\* The frames that have arrived whole.
Whole == {i \in 1..Len(program) : Start(i + 1) <= arrived}

\* They are finitely many, and so are more of them.
LEMMA WholeFinite ==
  ASSUME IInv
  PROVE  IsFiniteSet(Whole) /\ Cardinality(Whole) \in Nat
<1>1. Len(program) \in Nat
  BY Frames DEF IInv, TypeOK
<1>2. IsFiniteSet(1..Len(program))
  <2>1. PICK a, b \in Int : a = 1 /\ b = Len(program)
    BY <1>1
  <2> QED BY <2>1, FS_Interval
<1>3. IsFiniteSet(Whole)
  BY <1>2, FS_Subset DEF Whole
<1> QED BY <1>3, FS_CardinalityType

\* When a frame that was to be returned has arrived, more frames have than
\* were returned before.
LEMMA MoreWhole ==
  ASSUME IInv, outcome = "running", Start(call + 1) <= arrived
  PROVE  call - 1 < Cardinality(Whole)
<1>1. program \in Programs /\ call \in 1..Len(program)
  BY DEF IInv, TypeOK, InPlace
<1>2. PICK g \in [0..Len(program) -> Nat] :
        /\ \A i \in 0..Len(program) : Start(i + 1) = g[i]
        /\ \A i, j \in 0..Len(program) : i <= j => g[i] <= g[j]
  BY <1>1, Positions
<1>3. PICK c, n, a \in Nat : c = call /\ n = Len(program) /\ c \in 1..n /\ a = arrived
  <2>1. Len(program) \in Nat
    BY <1>1, Frames
  <2>2. arrived \in Nat
    BY Missing
  <2>3. call \in Nat /\ call \in 1..Len(program)
    BY <1>1, <2>1
  <2> QED BY <2>1, <2>2, <2>3
<1>4. ASSUME NEW i \in 1..c PROVE i \in Whole
  <2>1. i \in 0..n /\ c \in 0..n /\ i \in 1..n /\ i <= c
    BY <1>3
  <2>2. PICK x, y \in Nat : x = g[i] /\ y = g[c]
    BY <1>3, <2>1
  <2>3. x <= y /\ Start(i + 1) = x /\ Start(c + 1) = y
    BY <1>2, <1>3, <2>1, <2>2
  <2>4. x <= a
    BY <1>3, <2>2, <2>3
  <2> QED BY <1>3, <2>1, <2>3, <2>4 DEF Whole
<1>5. 1..c \subseteq Whole
  BY <1>4
<1>6. IsFiniteSet(Whole) /\ Cardinality(Whole) \in Nat
  BY WholeFinite
<1>7. Cardinality(1..c) = c
  <2>1. PICK x, y \in Int : x = 1 /\ y = c
    BY <1>3
  <2>2. Cardinality(x..y) = IF x > y THEN 0 ELSE y - x + 1
    BY FS_Interval
  <2> QED BY <1>3, <2>1, <2>2
<1>8. c <= Cardinality(Whole)
  BY <1>5, <1>6, <1>7, FS_Subset
<1> QED BY <1>3, <1>6, <1>8

\* Only an arrival changes which frames are whole, and it takes none away.
LEMMA WholeGrows ==
  ASSUME IInv, IInv', UNCHANGED program
  PROVE  /\ UNCHANGED arrived => Whole' = Whole
         /\ arrived \in Nat /\ arrived' \in Nat /\ arrived' >= arrived
              => Cardinality(Whole) \in Nat /\ Cardinality(Whole)' \in Nat
                 /\ Cardinality(Whole)' >= Cardinality(Whole)
<1>1. ASSUME NEW i PROVE StartOf(program, i + 1)' = StartOf(program, i + 1)
  OBVIOUS
<1>2. Whole = {i \in 1..Len(program) : StartOf(program, i + 1) <= arrived}
  BY DEF Whole, Start, StartOf
<1>3. Whole' = {i \in 1..Len(program) : StartOf(program, i + 1) <= arrived'}
  BY DEF Whole, Start, StartOf, FoldLeft, MapThenFoldSet
<1>4. ASSUME arrived \in Nat, arrived' \in Nat, arrived' >= arrived
      PROVE  Cardinality(Whole) \in Nat /\ Cardinality(Whole)' \in Nat
             /\ Cardinality(Whole)' >= Cardinality(Whole)
  <2>1. PICK g \in [0..Len(program) -> Nat] : \A i \in 0..Len(program) : StartOf(program, i + 1) = g[i]
    BY Frames, Starts DEF IInv, TypeOK
  <2>2. PICK n, a, b \in Nat : n = Len(program) /\ a = arrived /\ b = arrived' /\ a <= b
    BY <1>4, Frames DEF IInv, TypeOK
  <2>3. ASSUME NEW i \in 1..n, StartOf(program, i + 1) <= a PROVE StartOf(program, i + 1) <= b
    <3>1. PICK x \in Nat : x = g[i] /\ i \in 0..n
      BY <2>2
    <3> QED BY <2>1, <2>2, <2>3, <3>1
  <2>4. Whole \subseteq Whole'
    BY <1>2, <1>3, <2>2, <2>3
  <2>5. IsFiniteSet(1..n)
    <3>1. PICK x, y \in Int : x = 1 /\ y = n
      BY <2>2
    <3> QED BY <3>1, FS_Interval
  <2>6. IsFiniteSet(Whole') /\ IsFiniteSet(Whole)
    BY <1>2, <1>3, <2>2, <2>5, FS_Subset
  <2>7. Cardinality(Whole) \in Nat /\ Cardinality(Whole') \in Nat /\ Cardinality(Whole) <= Cardinality(Whole')
    BY <2>4, <2>6, FS_Subset, FS_CardinalityType
  <2> QED BY <2>7
<1> QED BY <1>2, <1>3, <1>4

\* The state of the channel that NetSocket implements: the frames sent, the
\* frames returned, and whether a call has failed.
Sent  == Cardinality(Whole)
Given == IF outcome = "done" THEN Len(program) ELSE call - 1
Up    == outcome \notin {"failed", "crashed"}

\* The steps of that channel.
LEMMA ChannelSteps ==
  /\ Channel!Init <=> (Sent = 0 /\ Given = 0 /\ Up = TRUE)
  /\ Channel!Send <=> (Sent' > Sent /\ UNCHANGED <<Given, Up>>)
  /\ Channel!Deliver <=> (Up /\ Given < Sent /\ Given' = Given + 1 /\ UNCHANGED <<Sent, Up>>)
  /\ Channel!Fail <=> (Up' = FALSE /\ UNCHANGED <<Sent, Given>>)
  /\ UNCHANGED Channel!vars <=> UNCHANGED <<Sent, Given, Up>>
<1>1. Channel!Init <=> (Sent = 0 /\ Given = 0 /\ Up = TRUE)
  BY DEF Channel!Init, Sent, Given, Up, Whole
<1>2. Channel!Send <=> (Sent' > Sent /\ UNCHANGED <<Given, Up>>)
  BY DEF Channel!Send, Sent, Given, Up, Whole
<1>3. Channel!Deliver <=> (Up /\ Given < Sent /\ Given' = Given + 1 /\ UNCHANGED <<Sent, Up>>)
  BY DEF Channel!Deliver, Sent, Given, Up, Whole
<1>4. Channel!Fail <=> (Up' = FALSE /\ UNCHANGED <<Sent, Given>>)
  BY DEF Channel!Fail, Sent, Given, Up, Whole
<1>5. UNCHANGED Channel!vars <=> UNCHANGED <<Sent, Given, Up>>
  BY DEF Channel!vars, Sent, Given, Up, Whole
<1> QED BY <1>1, <1>2, <1>3, <1>4, <1>5

\* At first nothing has been sent and nothing is returned: no frame is empty.
LEMMA ChannelInit == Init => Channel!Init
<1> SUFFICES ASSUME Init PROVE Channel!Init
  OBVIOUS
<1>1. program \in Programs
  BY DEF Init
<1>2. PICK n \in Nat : n = Len(program)
  BY <1>1, Frames
<1>3. PICK g \in [0..n -> Nat] :
        /\ g[0] = 0 /\ \A i \in 0..n : Start(i + 1) = g[i]
        /\ \A i \in 1..n : g[i] = g[i - 1] + Size(program[i])
  BY <1>1, <1>2, Positions
<1>4. ASSUME NEW i \in 1..n PROVE i \notin Whole
  <2>1. PICK j \in 0..n : j = i - 1
    OBVIOUS
  <2>2. PICK x, y, z \in Nat : x = g[j] /\ y = g[i] /\ z = Size(program[i]) /\ z # 0
    <3>1. g[j] \in Nat /\ g[i] \in Nat
      BY <2>1
    <3>2. Size(program[i]) \in Nat \ {0}
      BY <1>1, <1>2, Frames, SizeType
    <3> QED BY <3>1, <3>2
  <2>3. y = x + z /\ Start(i + 1) = y
    BY <1>3, <2>1, <2>2
  <2> QED BY <2>2, <2>3 DEF Whole, Init
<1>5. Whole = {}
  BY <1>2, <1>4 DEF Whole
<1>6. Sent = 0
  BY <1>5, FS_EmptySet DEF Sent
<1>7. Given = 0
  <2>1. program = <<>> => Len(program) = 0
    OBVIOUS
  <2>2. call - 1 = 0
    BY DEF Init
  <2> QED BY <2>1, <2>2 DEF Init, Given
<1>8. Up = TRUE
  BY DEF Init, Up
<1> QED BY <1>6, <1>7, <1>8, ChannelSteps

\* What the stream does sends frames, or changes nothing.
LEMMA StreamSends ==
  ASSUME IInv, IInv', UNCHANGED <<program, call, outcome>>,
         arrived \in Nat, arrived' \in Nat, arrived' >= arrived
  PROVE  Channel!Send \/ UNCHANGED Channel!vars
<1>1. PICK x, y \in Nat : x = Sent /\ y = Sent' /\ y >= x
  BY WholeGrows DEF Sent
<1>2. UNCHANGED <<Given, Up>>
  BY DEF Given, Up
<1>3. CASE y = x
  BY <1>1, <1>2, <1>3, ChannelSteps
<1>4. CASE y > x
  BY <1>1, <1>2, <1>4, ChannelSteps
<1> QED BY <1>1, <1>3, <1>4

\* What the receiver does returns the next frame, fails, or changes nothing.
LEMMA ReceiverDelivers ==
  ASSUME IInv, IInv', UNCHANGED <<program, arrived>>, outcome = "running", Outcome
  PROVE  Channel!Deliver \/ Channel!Fail \/ UNCHANGED Channel!vars
<1>1. Sent' = Sent
  BY WholeGrows DEF Sent
<1>2. CASE UNCHANGED <<call, outcome>>
  <2>1. UNCHANGED <<Given, Up>>
    BY <1>2 DEF Given, Up
  <2> QED BY <1>1, <2>1, ChannelSteps
<1>3. CASE Return /\ Start(call + 1) <= arrived
  <2>1. PICK c, n \in Nat : c = call /\ n = Len(program)
    <3>1. Len(program) \in Nat /\ call \in 1..Len(program)
      BY AtFrame
    <3> QED BY <3>1
  <2>2. c - 1 < Sent
    BY <1>3, <2>1, MoreWhole DEF Sent
  <2>3. Given = c - 1
    BY <2>1 DEF Given
  <2>4. Given' = c /\ outcome' \in {"done", "running"}
    <3>1. CASE call = Len(program)
      <4>1. outcome' = "done"
        BY <1>3, <3>1 DEF Return, Stop
      <4> QED BY <2>1, <3>1, <4>1 DEF Given
    <3>2. CASE call # Len(program)
      <4>1. outcome' = "running" /\ call' = c + 1
        BY <1>3, <2>1, <3>2 DEF Return
      <4>2. (c + 1) - 1 = c
        BY <2>1
      <4> QED BY <4>1, <4>2 DEF Given
    <3> QED BY <3>1, <3>2
  <2>5. Up /\ Up' = Up
    BY <2>4 DEF Up
  <2>6. Given' = Given + 1 /\ Given < Sent
    BY <2>1, <2>2, <2>3, <2>4
  <2> QED BY <1>1, <2>5, <2>6, ChannelSteps
<1>4. CASE outcome' \in {"failed", "crashed"} /\ UNCHANGED call
  <2>1. Up' = FALSE
    BY <1>4 DEF Up
  <2>2. Given' = Given
    BY <1>4 DEF Given
  <2> QED BY <1>1, <2>1, <2>2, ChannelSteps
<1> QED BY <1>2, <1>3, <1>4 DEF Outcome

\* To the code above NetSocket its frames are a FIFO: a step of the bytes sends
\* frames, returns the next of those sent, fails for good, or shows nothing.
THEOREM FramesImplemented == Spec => ImplementsFrameChannel
<1>1. IInv /\ IInv' /\ [Next]_vars => [Channel!Next]_(Channel!vars)
  <2> SUFFICES ASSUME IInv, IInv', [Next]_vars PROVE Channel!Next \/ UNCHANGED Channel!vars
    OBVIOUS
  <2>1. CASE Arrive
    <3>1. UNCHANGED <<program, read, call, part, need, ended, outcome, short>>
          /\ arrived' \in (arrived + 1)..StreamEnd
      BY <2>1 DEF Arrive
    <3>2. arrived \in Nat /\ arrived' \in Nat /\ arrived' >= arrived
      BY <3>1, StreamSteps
    <3> QED BY <3>1, <3>2, StreamSends DEF Channel!Next
  <2>2. CASE End \/ UNCHANGED vars
    <3>1. UNCHANGED <<program, arrived, read, call, part, need, outcome, short>>
          /\ (ended' = ended \/ (ended = "no" /\ ended' \in {"eof", "reset"}))
      BY <2>2 DEF End, vars
    <3>2. arrived \in Nat /\ arrived' \in Nat /\ arrived' >= arrived
      BY <3>1, StreamSteps
    <3> QED BY <3>1, <3>2, StreamSends DEF Channel!Next
  <2>3. CASE Receive
    <3>1. UNCHANGED <<program, arrived>> /\ outcome = "running"
      BY <2>3 DEF Receive, RecvInt, RecvPiece, RecvIntEnds, RecvError
    <3>2. Outcome
      BY <2>3, RecvIntStep, RecvPieceStep, RecvEndStep DEF Receive
    <3> QED BY <3>1, <3>2, ReceiverDelivers DEF Channel!Next
  <2> QED BY <2>1, <2>2, <2>3 DEF Next, RecvZero, Finished
<1>2. Spec => []IInv
  BY Invariance
<1> QED BY <1>1, <1>2, ChannelInit, PTL DEF Spec, ImplementsFrameChannel, Channel!Spec
=============================================================================
