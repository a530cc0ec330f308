------------------------ MODULE RegisterLivenessProofs ------------------------
(***************************************************************************)
(* Proofs about RegisterLiveness, for every set of registers and every     *)
(* machine function.                                                       *)
(*                                                                         *)
(* Recursive functions first: what holds of the operators that LiveBefore, *)
(* MayRead and FlattenSeq are made of follows by a least counterexample.   *)
(* Then the graph: which vector blocks there are, which instructions each  *)
(* has and where its edges go.  An iteration in which no block changes is  *)
(* Stable, and what is live then is closed backwards over the steps of a   *)
(* lane, so it holds MayRead (StableSound).  IterationInv carries that     *)
(* through the passes.  Precise is the converse: what is live at a block   *)
(* is among what a lane may read from there on, over every edge.           *)
(***************************************************************************)
EXTENDS RegisterLiveness, FiniteSetTheorems, SequenceTheorems,
        WellFoundedInduction, TLAPS

(* The least of a nonempty set of numbers.                                   *)
LEMMA Least ==
    ASSUME NEW S \in SUBSET Nat, S # {}
    PROVE  \E n \in S : \A m \in S : n <= m
<1> DEFINE R == OpToRel(<, Nat)
<1>1. IsWellFoundedOn(R, Nat)
  BY NatLessThanWellFounded
<1>2. \A m, n \in Nat : <<m, n>> \in R <=> m < n
  BY DEF OpToRel
<1> HIDE DEF R
<1>3. PICK n \in S : \A m \in S : ~(<<m, n>> \in R)
  BY <1>1, WFMin
<1>4. \A m \in S : m \in Nat /\ ~(m < n)
  BY <1>2, <1>3
<1> QED
  BY <1>4

(* Functions defined by recursion on numbers up to a bound.                  *)
Unrolls(f, N, S, base, step) ==
    /\ f \in [0..N -> S] /\ f[0] = base
    /\ \A i \in 1..N : f[i] = step[<<i, f[i - 1]>>]

(* Such a function exists: it is defined on 0..0, and one defined up to n -  *)
(* 1 extends to n.                                                           *)
LEMMA Unrolled ==
    ASSUME NEW S, NEW N \in Nat, NEW base \in S, NEW step \in [(1..N) \X S -> S]
    PROVE  \E f : Unrolls(f, N, S, base, step)
<1> DEFINE upTo(n) == {f \in [0..n -> S] :
                          f[0] = base /\ \A i \in 1..n : f[i] = step[<<i, f[i - 1]>>]}
           bad == {n \in 0..N : upTo(n) = {}}
<1>1. SUFFICES ASSUME bad # {} PROVE FALSE
  <2>1. N \notin bad
    BY <1>1
  <2> QED
    BY <2>1 DEF Unrolls
<1>2. PICK n \in bad : \A m \in bad : n <= m
  <2>1. bad \in SUBSET Nat
    OBVIOUS
  <2> HIDE DEF bad
  <2> QED
    BY <1>1, <2>1, Least
<1>3. n # 0
  <2>1. [i \in 0..0 |-> base] \in upTo(0)
    OBVIOUS
  <2> QED
    BY <1>2, <2>1
<1>4. n \in 1..N /\ n - 1 \in 0..N /\ n - 1 \notin bad
  BY <1>2, <1>3
<1>5. PICK f : f \in upTo(n - 1)
  BY <1>4
<1> DEFINE g == [i \in 0..n |-> IF i = n THEN step[<<n, f[n - 1]>>] ELSE f[i]]
<1>6. f[n - 1] \in S /\ <<n, f[n - 1]>> \in (1..N) \X S
  BY <1>4, <1>5
<1>7. step[<<n, f[n - 1]>>] \in S
  BY <1>6
<1>8. \A i \in 0..n : g[i] \in S
  BY <1>4, <1>5, <1>7
<1>9. g \in [0..n -> S] /\ g[0] = base
  BY <1>3, <1>4, <1>5, <1>8
<1>10. \A i \in 1..n : g[i] = step[<<i, g[i - 1]>>]
  <2> TAKE i \in 1..n
  <2>1. g[i - 1] = f[i - 1] /\ i \in 0..n
    BY <1>4
  <2>2. CASE i = n
    BY <2>1, <2>2
  <2>3. CASE i # n
    <3>1. i \in 1..(n - 1)
      BY <2>3, <1>4
    <3> QED
      BY <3>1, <2>1, <2>3, <1>5
  <2> QED
    BY <2>2, <2>3
<1>11. g \in upTo(n)
  BY <1>9, <1>10
<1> QED
  BY <1>2, <1>11

(* What holds of 0 and passes on to the next number holds up to any number.  *)
LEMMA Upwards ==
    ASSUME NEW N \in Nat, NEW S, 0 \in S, \A n \in 1..N : n - 1 \in S => n \in S
    PROVE  0..N \subseteq S
<1> DEFINE bad == {n \in 0..N : n \notin S}
<1>1. SUFFICES ASSUME bad # {} PROVE FALSE
  OBVIOUS
<1>2. bad \in SUBSET Nat
  OBVIOUS
<1>3. PICK n \in bad : \A m \in bad : n <= m
  <2> HIDE DEF bad
  <2> QED
    BY <1>1, <1>2, Least
<1>4. n # 0
  BY <1>3
<1>5. n \in 1..N /\ n - 1 \in 0..N /\ n - 1 \notin bad
  BY <1>3, <1>4
<1> QED
  BY <1>3, <1>5

(* The same downwards.                                                       *)
LEMMA Downwards ==
    ASSUME NEW N \in Nat, NEW S, N \in S, \A n \in 1..N : n \in S => n - 1 \in S
    PROVE  0..N \subseteq S
<1> DEFINE T == {k \in 0..N : N - k \in S}
<1>1. 0 \in T
  OBVIOUS
<1>2. \A k \in 1..N : k - 1 \in T => k \in T
  <2> SUFFICES ASSUME NEW k \in 1..N, k - 1 \in T PROVE k \in T
    OBVIOUS
  <2>1. N - (k - 1) \in S /\ N - (k - 1) \in 1..N /\ (N - (k - 1)) - 1 = N - k
    OBVIOUS
  <2> QED
    BY <2>1
<1>3. 0..N \subseteq T
  <2> HIDE DEF T
  <2> QED
    BY <1>1, <1>2, Upwards
<1> QED
  <2> SUFFICES ASSUME NEW n \in 0..N PROVE n \in S
    OBVIOUS
  <2>1. N - n \in T /\ N - (N - n) = n
    BY <1>3
  <2> QED
    BY <2>1

(* Min, which FiniteSetsExt defines by CHOOSE, is the least number.          *)
LEMMA MinIs ==
    ASSUME NEW S, \A m \in S : m \in Nat, NEW n \in S, \A m \in S : n <= m
    PROVE  Min(S) = n
<1>1. Min(S) \in S /\ \A m \in S : Min(S) <= m
  BY DEF Min
<1>2. Min(S) <= n /\ n <= Min(S) /\ Min(S) \in Nat /\ n \in Nat
  BY <1>1
<1> QED
  BY <1>2

(* One step back from the lanes in x.                                        *)
Before(r, Step, x) == x \cup {s \in Lanes \ Writes(r) : Step[s] \cap x # {}}

(* MayRead goes back as often as there are lanes.                            *)
LEMMA MayReadUnrolled ==
    ASSUME NEW r, NEW Step, Cardinality(Lanes) \in Nat
    PROVE  \E f \in [0..Cardinality(Lanes) -> SUBSET Lanes] :
              /\ f[0] = Reads(r)
              /\ \A i \in 1..Cardinality(Lanes) : f[i] = Before(r, Step, f[i - 1])
              /\ MayRead(r, Step) = f[Cardinality(Lanes)]
<1> DEFINE N == Cardinality(Lanes)
           S == SUBSET Lanes
           step == [x \in (1..N) \X S |-> Before(r, Step, x[2])]
           back[n \in 0..N] == IF n = 0 THEN Reads(r) ELSE Before(r, Step, back[n - 1])
<1>1. Reads(r) \in S /\ \A x \in S : Before(r, Step, x) \in S
  BY DEF Reads, Before
<1>2. step \in [(1..N) \X S -> S]
  BY <1>1
<1>3. PICK f : Unrolls(f, N, S, Reads(r), step)
  <2>1. N \in Nat
    OBVIOUS
  <2> HIDE DEF step, N, S
  <2> QED
    BY <1>1, <1>2, <2>1, Unrolled
<1> HIDE DEF S
<1>4. /\ f \in [0..N -> S] /\ f[0] = Reads(r)
      /\ \A i \in 1..N : f[i] = Before(r, Step, f[i - 1])
  <2> USE <1>3 DEF Unrolls
  <2>1. \A i \in 1..N : <<i, f[i - 1]>> \in (1..N) \X S
    OBVIOUS
  <2> QED
    BY <2>1
<1>5. f = [n \in 0..N |-> IF n = 0 THEN Reads(r) ELSE Before(r, Step, f[n - 1])]
  BY <1>4
<1>6. \E g : g = [n \in 0..N |-> IF n = 0 THEN Reads(r) ELSE Before(r, Step, g[n - 1])]
  BY <1>5
<1>7. back = [n \in 0..N |-> IF n = 0 THEN Reads(r) ELSE Before(r, Step, back[n - 1])]
  BY <1>6
<1>8. MayRead(r, Step) = back[N]
  BY DEF MayRead, Before
<1> HIDE DEF back
<1>9. \A n \in 0..N : back[n] = f[n]
  <2> DEFINE T == {n \in 0..N : back[n] = f[n]}
  <2>1. 0 \in T
    BY <1>4, <1>7
  <2>2. \A n \in 1..N : n - 1 \in T => n \in T
    BY <1>4, <1>7
  <2>3. 0..N \subseteq T
    <3> HIDE DEF T
    <3> QED
      BY <2>1, <2>2, Upwards
  <2> QED
    BY <2>3
<1> QED
  BY <1>4, <1>8, <1>9 DEF S

(* MayRead goes no further than a set that holds the reads and what leads to *)
(* it without a write.                                                       *)
LEMMA MayReadLeast ==
    ASSUME NEW r, NEW Step, Cardinality(Lanes) \in Nat, NEW S,
           Reads(r) \subseteq S,
           \A s \in Lanes \ Writes(r) : Step[s] \cap S # {} => s \in S
    PROVE  MayRead(r, Step) \subseteq S
<1> DEFINE N == Cardinality(Lanes)
<1>1. PICK f \in [0..N -> SUBSET Lanes] :
         /\ f[0] = Reads(r)
         /\ \A i \in 1..N : f[i] = Before(r, Step, f[i - 1])
         /\ MayRead(r, Step) = f[N]
  BY MayReadUnrolled
<1> DEFINE bad == {n \in 0..N : ~(f[n] \subseteq S)}
<1>2. SUFFICES ASSUME bad # {} PROVE FALSE
  BY <1>1
<1>3. bad \in SUBSET Nat
  OBVIOUS
<1>4. PICK n \in bad : \A m \in bad : n <= m
  <2> HIDE DEF bad
  <2> QED
    BY <1>2, <1>3, Least
<1>5. n # 0
  BY <1>1, <1>4
<1>6. n \in 1..N /\ n - 1 \in 0..N /\ n - 1 \notin bad
  BY <1>4, <1>5
<1>7. f[n - 1] \subseteq S /\ f[n] = Before(r, Step, f[n - 1])
  BY <1>1, <1>6
<1> QED
  BY <1>4, <1>7 DEF Before

(* As long as it has not stopped growing it has at least n lanes after n     *)
(* steps, so it has stopped or has all of them.                              *)
LEMMA MayReadClosed ==
    ASSUME NEW r, NEW Step, IsFiniteSet(Lanes)
    PROVE  /\ Reads(r) \subseteq MayRead(r, Step)
           /\ \A s \in Lanes \ Writes(r) :
                 Step[s] \cap MayRead(r, Step) # {} => s \in MayRead(r, Step)
<1> DEFINE N == Cardinality(Lanes)
<1>1. N \in Nat
  BY FS_CardinalityType
<1>2. PICK f \in [0..N -> SUBSET Lanes] :
         /\ f[0] = Reads(r)
         /\ \A i \in 1..N : f[i] = Before(r, Step, f[i - 1])
         /\ MayRead(r, Step) = f[N]
  BY <1>1, MayReadUnrolled
<1> HIDE DEF N
<1>3. \A n \in 0..N : f[n] \subseteq Lanes /\ IsFiniteSet(f[n]) /\ Cardinality(f[n]) \in Nat
  BY <1>2, FS_Subset, FS_CardinalityType
(* The reads are never lost, and a step that adds nothing is the last one.   *)
<1> DEFINE Grows(n) == \A i \in 1..n : f[i] # f[i - 1]
           bad == {n \in 0..N : ~(/\ Reads(r) \subseteq f[n]
                                  /\ Grows(n) => Cardinality(f[n]) >= n
                                  /\ ~Grows(n) => Before(r, Step, f[n]) = f[n])}
<1>4. bad = {}
  <2> SUFFICES ASSUME bad # {} PROVE FALSE
    OBVIOUS
  <2>1. PICK n \in bad : \A m \in bad : n <= m
    <3>1. bad \in SUBSET Nat
      OBVIOUS
    <3> HIDE DEF bad
    <3> QED
      BY <3>1, Least
  <2>2. n # 0
    <3>1. CASE n = 0
      <4>1. f[0] = Reads(r) /\ Cardinality(f[0]) >= 0 /\ Grows(0)
        BY <1>1, <1>2, <1>3
      <4> QED
        BY <2>1, <3>1, <4>1
    <3> QED
      BY <3>1
  <2>3. n \in 1..N /\ n - 1 \in 0..N /\ n - 1 \notin bad /\ n \in 0..N
    BY <1>1, <2>1, <2>2
  <2>4. f[n] = Before(r, Step, f[n - 1]) /\ f[n - 1] \subseteq f[n]
    BY <1>2, <2>3 DEF Before
  <2>5. /\ Reads(r) \subseteq f[n - 1]
        /\ Grows(n - 1) => Cardinality(f[n - 1]) >= n - 1
        /\ ~Grows(n - 1) => Before(r, Step, f[n - 1]) = f[n - 1]
    BY <2>3
  <2>6. Reads(r) \subseteq f[n]
    BY <2>4, <2>5
  <2>7. ASSUME Grows(n) PROVE Cardinality(f[n]) >= n
    <3>1. f[n] # f[n - 1] /\ Grows(n - 1)
      BY <2>3, <2>7
    <3>2. Cardinality(f[n - 1]) <= Cardinality(f[n]) /\ Cardinality(f[n - 1]) # Cardinality(f[n])
      BY <1>3, <2>3, <2>4, <3>1, FS_Subset
    <3> QED
      BY <1>3, <2>3, <2>5, <3>1, <3>2
  <2>8. ASSUME ~Grows(n) PROVE Before(r, Step, f[n]) = f[n]
    <3>1. CASE f[n] = f[n - 1]
      BY <2>4, <3>1
    <3>2. CASE f[n] # f[n - 1]
      <4>1. ~Grows(n - 1)
        BY <2>3, <2>8, <3>2
      <4> QED
        BY <2>4, <2>5, <4>1
    <3> QED
      BY <3>1, <3>2
  <2> QED
    BY <2>1, <2>6, <2>7, <2>8
<1>5. /\ Reads(r) \subseteq f[N]
      /\ Grows(N) => Cardinality(f[N]) >= N
      /\ ~Grows(N) => Before(r, Step, f[N]) = f[N]
  BY <1>1, <1>4
<1>6. Before(r, Step, f[N]) \subseteq f[N]
  <2>1. CASE Grows(N)
    <3>1. Cardinality(f[N]) <= N /\ (N = Cardinality(f[N]) => Lanes = f[N])
      <4>1. N \in 0..N
        BY <1>1
      <4>2. f[N] \in SUBSET Lanes
        BY <1>3, <4>1
      <4> QED
        BY <4>2, FS_Subset DEF N
    <3>2. f[N] = Lanes
      BY <1>1, <1>3, <1>5, <2>1, <3>1
    <3> QED
      BY <3>2 DEF Before
  <2> QED
    BY <1>5, <2>1
<1> QED
  BY <1>2, <1>5, <1>6 DEF Before

Size(b) == Len(func.blocks[b])

(* The shape of a machine function.                                          *)
LEMMA Shape ==
    ASSUME func \in Functions
    PROVE  /\ Len(func.blocks) \in Nat \ {0} /\ Mbbs = 1..Len(func.blocks)
           /\ func.succ \subseteq Mbbs \X Mbbs
           /\ \A b \in Mbbs : /\ Size(b) \in Nat /\ DOMAIN func.blocks[b] = 1..Size(b)
                              /\ \A i \in 1..Size(b) : func.blocks[b][i] \in MachineInstr
<1> DEFINE I == MachineInstr
           S == Seq(I)
<1>1. func.blocks \in Seq(S) /\ func.blocks # << >> /\ func.succ \subseteq Mbbs \X Mbbs
  BY RegisterLivenessAssumption DEF Mbbs
<1> HIDE DEF S
<1>2. Len(func.blocks) \in Nat \ {0} /\ Mbbs = 1..Len(func.blocks)
      /\ \A b \in Mbbs : func.blocks[b] \in S
  BY <1>1, LenProperties DEF Mbbs
<1> HIDE DEF I
<1>3. \A b \in Mbbs : /\ Size(b) \in Nat /\ DOMAIN func.blocks[b] = 1..Size(b)
                      /\ \A i \in 1..Size(b) : func.blocks[b][i] \in I
  BY <1>2, LenProperties DEF S, Size
<1> QED
  BY <1>1, <1>2, <1>3 DEF I

(* What is at instruction i of block b.                                      *)
LEMMA Instrs ==
    ASSUME func \in Functions, NEW b \in Mbbs, NEW i \in 1..Size(b)
    PROVE  /\ <<b, i>> \in MIs /\ MI(<<b, i>>) = func.blocks[b][i]
           /\ MI(<<b, i>>) \in MachineInstr
           /\ MI(<<b, i>>).uses \subseteq Regs /\ MI(<<b, i>>).defs \subseteq Regs
           /\ MI(<<b, i>>).kind \in Kinds
           /\ MI(<<b, i>>).kind \in {"cmpx", "scalar", "exec"} => MI(<<b, i>>).defs = {}
           /\ MI(<<b, i>>).kind \in {"scalar", "exec"} => MI(<<b, i>>).uses = {}
<1>1. MI(<<b, i>>) = func.blocks[b][i] /\ func.blocks[b][i] \in MachineInstr
      /\ DOMAIN func.blocks[b] = 1..Size(b)
  BY Shape DEF MI
<1>2. <<b, i>> \in MIs
  <2>1. <<b, i>> \in {<<b, j>> : j \in DOMAIN func.blocks[b]}
    BY <1>1
  <2> QED
    BY <2>1 DEF MIs
<1> QED
  BY <1>1, <1>2 DEF MachineInstr

(* An instruction is named by its block and its place there.                 *)
LEMMA MIsAre ==
    ASSUME func \in Functions, NEW m \in MIs
    PROVE  m[1] \in Mbbs /\ m[2] \in 1..Size(m[1]) /\ m = <<m[1], m[2]>>
  BY Shape DEF MIs

(* The lanes of a function are finitely many.                                *)
LEMMA LanesFinite ==
    ASSUME func \in Functions
    PROVE  IsFiniteSet(Lanes)
<1> DEFINE of == [b \in Mbbs |-> {b} \X (0..(Size(b) + 1))]
           S == {of[b] : b \in Mbbs}
<1>1. Places = UNION S
  BY DEF Places, Size
<1>2. IsFiniteSet(Mbbs)
  BY Shape, FS_Interval
<1>3. IsFiniteSet(S)
  <2> of \in Surjection(Mbbs, S)
    <3>1. of \in [Mbbs -> S] /\ \A t \in S : \E b \in Mbbs : of[b] = t
      OBVIOUS
    <3> QED
      BY <3>1, Zenon DEF Surjection
  <2> QED
    BY <1>2, FS_Surjection
<1>4. \A b \in Mbbs : IsFiniteSet(of[b])
  <2> TAKE b \in Mbbs
  <2>1. IsFiniteSet(0..(Size(b) + 1)) /\ IsFiniteSet({b})
    <3>1. 0 \in Int /\ Size(b) + 1 \in Int
      BY Shape
    <3> QED
      BY <3>1, FS_Interval, FS_Singleton
  <2> QED
    BY <2>1, FS_Product
<1>5. IsFiniteSet(Places)
  <2>1. \A T \in S : IsFiniteSet(T)
    BY <1>4
  <2> HIDE DEF S
  <2> QED
    BY <1>1, <1>3, <2>1, FS_UNION
<1>6. IsFiniteSet(BOOLEAN)
  <2>1. BOOLEAN = {TRUE, FALSE}
    OBVIOUS
  <2>2. \A x, y : IsFiniteSet({x, y})
    <3> TAKE x, y
    <3>1. IsFiniteSet({x}) /\ {x, y} = {x} \cup {y}
      BY FS_Singleton
    <3> QED
      BY <3>1, FS_AddElement
  <2>3. IsFiniteSet({TRUE, FALSE})
    BY <2>2, Zenon
  <2> QED
    BY <2>1, <2>3, Zenon
<1> QED
  BY <1>5, <1>6, FS_Product DEF Lanes

(* The live-ins of the instructions of a vector block, from its end.         *)
LEMMA LiveBeforeUnrolled ==
    ASSUME func \in Functions, NEW v, v[1] \in Mbbs, vectors[v] \subseteq 1..Size(v[1])
    PROVE  \A i \in 1..(Size(v[1]) + 1) :
              /\ LiveBefore(v)[i] = IF i \in vectors[v]
                                    THEN StepBackward(LiveBefore(v)[i + 1], MI(<<v[1], i>>))
                                    ELSE LiveOuts(v)
              /\ LiveBefore(v)[i] \subseteq LiveOuts(v) \cup Regs
<1> DEFINE b == v[1]
           n == Size(b)
           S == SUBSET (LiveOuts(v) \cup Regs)
           live(i, x) == IF i \in vectors[v] THEN StepBackward(x, MI(<<b, i>>)) ELSE LiveOuts(v)
           step == [x \in (1..n) \X S |-> live(n + 1 - x[1], x[2])]
           from[i \in 1..(n + 1)] == live(i, from[i + 1])
<1>1. n \in Nat /\ LiveOuts(v) \in S
  BY Shape
<1>2. \A i \in 1..n, x \in S : live(i, x) \in S
  <2> TAKE i \in 1..n, x \in S
  <2>1. MI(<<b, i>>).uses \subseteq Regs
    BY Instrs
  <2> QED
    BY <2>1 DEF StepBackward
<1>3. step \in [(1..n) \X S -> S]
  <2>1. \A k \in 1..n : n + 1 - k \in 1..n
    BY <1>1
  <2> QED
    BY <1>2, <2>1
<1>4. PICK h : Unrolls(h, n, S, LiveOuts(v), step)
  <2> HIDE DEF n, S, step
  <2> QED
    BY <1>1, <1>3, Unrolled
<1>5. /\ h \in [0..n -> S] /\ h[0] = LiveOuts(v)
      /\ \A k \in 1..n : h[k] = live(n + 1 - k, h[k - 1])
  <2>1. h \in [0..n -> S] /\ h[0] = LiveOuts(v) /\ \A k \in 1..n : h[k] = step[<<k, h[k - 1]>>]
    BY <1>4 DEF Unrolls
  <2> HIDE DEF S
  <2>2. \A k \in 1..n : <<k, h[k - 1]>> \in (1..n) \X S
    BY <1>1, <2>1
  <2> QED
    BY <2>1, <2>2
<1> HIDE DEF live, S
<1> DEFINE f == [i \in 1..(n + 1) |-> h[n + 1 - i]]
<1>6. /\ f[n + 1] = LiveOuts(v) /\ \A i \in 1..(n + 1) : f[i] \in S
      /\ \A i \in 1..n : f[i] = live(i, f[i + 1])
  <2>1. \A i \in 1..(n + 1) : n + 1 - i \in 0..n /\ f[i] = h[n + 1 - i]
    BY <1>1
  <2>2. \A i \in 1..n : n + 1 - i \in 1..n /\ n + 1 - (n + 1 - i) = i
                        /\ (n + 1 - i) - 1 = n + 1 - (i + 1) /\ i + 1 \in 1..(n + 1)
    BY <1>1
  <2>3. n + 1 \in 1..(n + 1) /\ n + 1 - (n + 1) = 0
    BY <1>1
  <2> HIDE DEF f, n
  <2>4. f[n + 1] = LiveOuts(v)
    BY <1>5, <2>1, <2>3
  <2>5. \A i \in 1..(n + 1) : f[i] \in S
    BY <1>5, <2>1
  <2>6. \A i \in 1..n : i \in 1..(n + 1)
    BY <1>1
  <2>7. \A i \in 1..n : f[i] = live(i, f[i + 1])
    <3> TAKE i \in 1..n
    <3>1. f[i] = h[n + 1 - i] /\ f[i + 1] = h[n + 1 - (i + 1)]
      BY <2>1, <2>2, <2>6
    <3>2. h[n + 1 - i] = live(n + 1 - (n + 1 - i), h[(n + 1 - i) - 1])
      BY <1>5, <2>2
    <3> QED
      BY <2>2, <3>1, <3>2
  <2> QED
    BY <2>4, <2>5, <2>7
<1>7. \A i \in 1..(n + 1) : f[i] = live(i, f[i + 1])
  <2>1. n + 1 \notin vectors[v]
    BY <1>1
  <2>2. f[n + 1] = live(n + 1, f[n + 2])
    BY <1>6, <2>1 DEF live
  <2> HIDE DEF f
  <2>3. \A i \in 1..(n + 1) : i \in 1..n \/ i = n + 1
    BY <1>1
  <2> QED
    BY <1>1, <1>6, <2>2, <2>3
<1>8. f = [i \in 1..(n + 1) |-> live(i, f[i + 1])]
  <2> HIDE DEF live
  <2> QED
    BY <1>7
<1>9. \E g : g = [i \in 1..(n + 1) |-> live(i, g[i + 1])]
  BY <1>8, Zenon
<1>10. from = [i \in 1..(n + 1) |-> live(i, from[i + 1])]
  BY <1>9
<1>11. LiveBefore(v) = from
  BY DEF LiveBefore, Size, live
<1> HIDE DEF from, f
<1>12. \A i \in 1..(n + 1) : from[i] = f[i]
  <2> DEFINE T == {k \in 0..n : from[k + 1] = f[k + 1]}
  <2>1. n \in T
    <3>1. n + 1 \notin vectors[v] /\ n + 1 \in 1..(n + 1)
      BY <1>1
    <3> QED
      BY <1>1, <1>6, <1>10, <3>1 DEF live
  <2>2. \A k \in 1..n : k \in T => k - 1 \in T
    <3> TAKE k \in 1..n
    <3>1. k \in 1..(n + 1) /\ k + 1 \in 1..(n + 1) /\ (k - 1) + 1 = k /\ k - 1 \in 0..n
      BY <1>1
    <3>2. f[k] = live(k, f[k + 1]) /\ from[k] = live(k, from[k + 1])
      BY <1>7, <1>10, <3>1
    <3> QED
      BY <3>1, <3>2
  <2>3. 0..n \subseteq T
    <3> HIDE DEF T, n
    <3> QED
      BY <1>1, <2>1, <2>2, Downwards
  <2> TAKE i \in 1..(n + 1)
  <2>4. i - 1 \in T /\ (i - 1) + 1 = i
    BY <1>1, <2>3
  <2> QED
    BY <2>4
<1> QED
  BY <1>6, <1>10, <1>11, <1>12 DEF live, S

Starts(b) == Splits(b) \cup Joins(b)

(* Where a vector block starts.                                              *)
LEMMA StartsAre ==
    ASSUME func \in Functions, NEW b \in Mbbs
    PROVE  /\ Starts(b) \subseteq 1..Size(b)
           /\ \A i \in 1..Size(b) :
                 /\ i \in Splits(b) <=> /\ IsVector(MI(<<b, i>>))
                                        /\ MI(<<b, i>>).kind = "cmpx" \/ FormerScalar(b, i)
                 /\ i \in Joins(b) <=> ~IsVector(MI(<<b, i>>)) /\ ~FormerScalar(b, i)
                 /\ FormerScalar(b, i) <=> i > 1 /\ ~IsVector(MI(<<b, i - 1>>))
<1>1. DOMAIN func.blocks[b] = 1..Size(b) /\ Size(b) \in Nat
  BY Shape
<1>2. \A i : MI(<<b, i>>) = func.blocks[b][i]
  BY DEF MI
<1> QED
  BY <1>1, <1>2 DEF Starts, Splits, Joins, FormerScalar, IsVector, WritesExecMask

(* The number of blocks made never falls, and it stays where no block        *)
(* starts.                                                                   *)
LEMMA MadeSame ==
    ASSUME func \in Functions, NEW b \in Mbbs, NEW i \in 0..Size(b), NEW j \in 0..Size(b), i <= j
    PROVE  /\ Made(b, i) \in Nat /\ Made(b, j) \in Nat /\ Made(b, i) <= Made(b, j)
           /\ Made(b, i) = Made(b, j) <=> \A k \in Starts(b) : ~(i < k /\ k <= j)
<1> DEFINE upTo(n) == {k \in Starts(b) : k <= n}
<1>1. Size(b) \in Nat /\ Starts(b) \subseteq 1..Size(b)
  BY Shape, StartsAre
<1>2. IsFiniteSet(Starts(b))
  <2>1. IsFiniteSet(1..Size(b))
    BY <1>1, FS_Interval
  <2> QED
    BY <1>1, <2>1, FS_Subset
<1>3. \A n : IsFiniteSet(upTo(n)) /\ Cardinality(upTo(n)) \in Nat
  BY <1>2, FS_Subset, FS_CardinalityType
<1>4. upTo(i) \in SUBSET upTo(j)
  BY <1>1
<1>5. Made(b, i) = Cardinality(upTo(i)) /\ Made(b, j) = Cardinality(upTo(j))
  BY DEF Made, Starts
<1>6. (\A k \in Starts(b) : ~(i < k /\ k <= j)) <=> upTo(i) = upTo(j)
  BY <1>1
<1> HIDE DEF upTo
<1> QED
  BY <1>3, <1>4, <1>5, <1>6, FS_Subset

(* createVectorMBB is called at a start and nowhere else.                    *)
LEMMA MadeSteps ==
    ASSUME func \in Functions, NEW b \in Mbbs
    PROVE  /\ Made(b, 0) = 0
           /\ \A i \in 1..Size(b) :
                 Made(b, i) = IF i \in Starts(b) THEN Made(b, i - 1) + 1 ELSE Made(b, i - 1)
<1> DEFINE upTo(n) == {k \in Starts(b) : k <= n}
<1>1. Size(b) \in Nat /\ Starts(b) \subseteq 1..Size(b)
  BY Shape, StartsAre
<1>2. IsFiniteSet(Starts(b))
  <2>1. IsFiniteSet(1..Size(b))
    BY <1>1, FS_Interval
  <2> QED
    BY <1>1, <2>1, FS_Subset
<1>3. \A n : Made(b, n) = Cardinality(upTo(n)) /\ IsFiniteSet(upTo(n))
  BY <1>2, FS_Subset DEF Made, Starts
<1>4. upTo(0) = {}
  BY <1>1
<1>5. \A i \in 1..Size(b) : /\ i \in Starts(b) => upTo(i) = upTo(i - 1) \cup {i} /\ i \notin upTo(i - 1)
                            /\ i \notin Starts(b) => upTo(i) = upTo(i - 1)
  BY <1>1
<1> HIDE DEF upTo
<1> QED
  BY <1>3, <1>4, <1>5, FS_EmptySet, FS_AddElement

(* Instructions in the same vector block.                                    *)
LEMMA TakenSame ==
    ASSUME func \in Functions, NEW b \in Mbbs, NEW i \in 0..Size(b), NEW j \in 0..Size(b), i <= j
    PROVE  Taken(b, i) = Taken(b, j) <=> \A k \in Starts(b) : ~(i < k /\ k <= j)
<1>1. Made(b, i) \in Nat /\ Made(b, j) \in Nat
  BY MadeSame
<1>2. Taken(b, i) = Taken(b, j) <=> Made(b, i) = Made(b, j)
  BY <1>1 DEF Taken, EntryTaken
<1> QED
  BY <1>2, MadeSame

(* Every number of a block made is that of an instruction's block.           *)
LEMMA MadeAll ==
    ASSUME func \in Functions, NEW b \in Mbbs, NEW k \in 1..Made(b, Size(b))
    PROVE  \E i \in Starts(b) : Made(b, i) = k
<1>1. Size(b) \in Nat /\ Made(b, 0) = 0 /\ Starts(b) \subseteq 1..Size(b)
  BY Shape, MadeSteps, StartsAre
<1>2. \A i \in 0..Size(b) : Made(b, i) \in Nat
  BY MadeSame
<1> DEFINE T == {n \in 0..Size(b) : k <= Made(b, n) => \E i \in Starts(b) : Made(b, i) = k}
<1>3. 0 \in T
  BY <1>1
<1>4. \A n \in 1..Size(b) : n - 1 \in T => n \in T
  <2> SUFFICES ASSUME NEW n \in 1..Size(b), n - 1 \in T, k <= Made(b, n), ~(k <= Made(b, n - 1))
               PROVE  \E i \in Starts(b) : Made(b, i) = k
    OBVIOUS
  <2>1. Made(b, n) \in Nat /\ Made(b, n - 1) \in Nat
    BY <1>1, <1>2
  <2>2. Made(b, n) = IF n \in Starts(b) THEN Made(b, n - 1) + 1 ELSE Made(b, n - 1)
    BY MadeSteps
  <2> QED
    BY <2>1, <2>2
<1>5. 0..Size(b) \subseteq T
  <2> HIDE DEF T
  <2> QED
    BY <1>1, <1>3, <1>4, Upwards
<1> QED
  BY <1>1, <1>2, <1>5

(* The vector blocks of the function.                                        *)
NodesOf(b) == {EntryTaken(b), EntryNotTaken(b), ExitTaken(b), ExitNotTaken(b)}
              \cup {Taken(b, i) : i \in 0..Size(b)}
Nodes == {FunctionEntry, FunctionExit} \cup UNION {NodesOf(b) : b \in Mbbs}

(* The vector blocks of a basic block are among those of the function.       *)
LEMMA NodesAre ==
    ASSUME func \in Functions, NEW b \in Mbbs
    PROVE  /\ EntryTaken(b) \in Nodes /\ EntryNotTaken(b) \in Nodes
           /\ ExitTaken(b) \in Nodes /\ ExitNotTaken(b) \in Nodes
           /\ \A i \in 0..Size(b) : Taken(b, i) \in Nodes
           /\ Taken(b, 0) = EntryTaken(b)
  BY MadeSteps DEF Nodes, NodesOf, Taken

(* MBBs makes the blocks of a basic block.                                   *)
LEMMA MBBsAre ==
    ASSUME func \in Functions, NEW b \in Mbbs
    PROVE  /\ MBBs(b) \in Seq(NodesOf(b))
           /\ \A v \in NodesOf(b) : \E i \in 1..Len(MBBs(b)) : MBBs(b)[i] = v
<1> DEFINE n == Made(b, Size(b))
           S == NodesOf(b)
           head == <<EntryTaken(b), EntryNotTaken(b), ExitTaken(b), ExitNotTaken(b)>>
           tail == [k \in 1..n |-> <<b, "made", k>>]
<1>1. Size(b) \in Nat /\ n \in Nat /\ Size(b) \in 0..Size(b) /\ 0 \in 0..Size(b)
      /\ \A i \in 0..Size(b) : Made(b, i) \in Nat
  BY Shape, MadeSame
<1>2. MBBs(b) = head \o tail
  BY DEF MBBs, Size
<1>3. \A k \in 1..n : <<b, "made", k>> \in S
  <2> TAKE k \in 1..n
  <2>1. PICK i \in Starts(b) : Made(b, i) = k
    BY MadeAll
  <2>2. i \in 0..Size(b) /\ Taken(b, i) = <<b, "made", k>>
    BY <1>1, <2>1, StartsAre DEF Taken
  <2> QED
    BY <2>2 DEF NodesOf
<1>4. head \in Seq(S) /\ Len(head) = 4
  BY DEF NodesOf
<1>5. tail \in Seq(S) /\ Len(tail) = n
  BY <1>1, <1>3
<1>6. \A v \in S : \/ \E i \in 1..4 : head[i] = v
                   \/ \E k \in 1..n : tail[k] = v
  <2> SUFFICES ASSUME NEW i \in 0..Size(b)
               PROVE  Taken(b, i) = EntryTaken(b) \/ \E k \in 1..n : tail[k] = Taken(b, i)
    <3>1. \A i \in 1..4 : i = 1 \/ i = 2 \/ i = 3 \/ i = 4
      OBVIOUS
    <3>2. head[1] = EntryTaken(b) /\ head[2] = EntryNotTaken(b)
          /\ head[3] = ExitTaken(b) /\ head[4] = ExitNotTaken(b)
      OBVIOUS
    <3>3. 1 \in 1..4 /\ 2 \in 1..4 /\ 3 \in 1..4 /\ 4 \in 1..4
      OBVIOUS
    <3> HIDE DEF head, tail
    <3> QED
      BY <3>2, <3>3 DEF NodesOf
  <2>1. Made(b, i) <= n
    BY <1>1, MadeSame
  <2> QED
    BY <1>1, <2>1 DEF Taken
<1> HIDE DEF head, tail, S, n
<1>7. /\ head \o tail \in Seq(S) /\ Len(head \o tail) = 4 + n
      /\ \A i \in 1..(4 + n) : (head \o tail)[i] = IF i <= 4 THEN head[i] ELSE tail[i - 4]
  <2>1. /\ head \o tail \in Seq(S) /\ Len(head \o tail) = Len(head) + Len(tail)
        /\ \A i \in 1..(Len(head) + Len(tail)) :
              (head \o tail)[i] = IF i <= Len(head) THEN head[i] ELSE tail[i - Len(head)]
    BY <1>4, <1>5, ConcatProperties
  <2> QED
    BY <2>1, <1>4, <1>5
<1>8. /\ \A i \in 1..4 : i \in 1..(4 + n) /\ (head \o tail)[i] = head[i]
      /\ \A k \in 1..n : 4 + k \in 1..(4 + n) /\ (head \o tail)[4 + k] = tail[k]
  <2> DEFINE both == head \o tail
  <2>1. \A i \in 1..(4 + n) : both[i] = IF i <= 4 THEN head[i] ELSE tail[i - 4]
    BY <1>7
  <2> HIDE DEF both
  <2>2. ASSUME NEW i \in 1..4
        PROVE  i \in 1..(4 + n) /\ both[i] = head[i]
    <3>1. i \in 1..(4 + n) /\ i <= 4
      BY <1>1
    <3> QED
      BY <2>1, <3>1
  <2>3. ASSUME NEW k \in 1..n
        PROVE  4 + k \in 1..(4 + n) /\ both[4 + k] = tail[k]
    <3>1. 4 + k \in 1..(4 + n) /\ ~(4 + k <= 4) /\ (4 + k) - 4 = k
      BY <1>1
    <3> QED
      BY <2>1, <3>1
  <2> QED
    BY <2>2, <2>3 DEF both
<1>9. \A v \in S : \E i \in 1..(4 + n) : (head \o tail)[i] = v
  <2> TAKE v \in S
  <2>1. CASE \E i \in 1..4 : head[i] = v
    BY <1>8, <2>1
  <2>2. CASE \E k \in 1..n : tail[k] = v
    <3>1. PICK k \in 1..n : tail[k] = v
      BY <2>2
    <3>2. 4 + k \in 1..(4 + n) /\ (head \o tail)[4 + k] = v
      BY <1>8, <3>1
    <3> QED
      BY <3>2
  <2> QED
    BY <1>6, <2>1, <2>2
<1> QED
  BY <1>2, <1>7, <1>9 DEF S

(* The concatenation of sequences has the elements of all of them.           *)
Gathers(flat, ss, n) ==
    \A k \in 1..n : \A i \in 1..Len(ss[k]) : \E j \in 1..Len(flat) : flat[j] = ss[k][i]

(* FlattenSeq concatenates: what it returns is built of the elements of all  *)
(* the sequences.                                                            *)
LEMMA Flattened ==
    ASSUME NEW S, NEW n \in Nat \ {0}, NEW ss \in [1..n -> Seq(S)]
    PROVE  /\ FlattenSeq(ss) \in Seq(S)
           /\ Gathers(FlattenSeq(ss), ss, n)
<1> DEFINE Q == Seq(S)
           N == n - 1
           step == [x \in (1..N) \X Q |-> x[2] \o ss[x[1] + 1]]
           flatten[i \in 1..n] == IF i = 1 THEN ss[i] ELSE flatten[i - 1] \o ss[i]
<1>1. N \in Nat /\ ss[1] \in Q /\ \A i \in 1..N : ss[i + 1] \in Q
  OBVIOUS
<1>2. ss \in Seq(Q) /\ Len(ss) = n
  <2> HIDE DEF Q
  <2>1. ss \in [1..n -> Q]
    BY DEF Q
  <2> QED
    BY <2>1
<1>3. step \in [(1..N) \X Q -> Q]
  <2>1. \A i \in 1..N, x \in Q : x \o ss[i + 1] \in Q
    BY <1>1, ConcatProperties
  <2> HIDE DEF Q
  <2> QED
    BY <2>1
<1>4. PICK h : Unrolls(h, N, Q, ss[1], step)
  <2> HIDE DEF N, Q, step
  <2> QED
    BY <1>1, <1>3, Unrolled
<1> HIDE DEF Q
<1>5. /\ h \in [0..N -> Q] /\ h[0] = ss[1]
      /\ \A i \in 1..N : h[i] = h[i - 1] \o ss[i + 1]
  <2>1. h \in [0..N -> Q] /\ h[0] = ss[1] /\ \A i \in 1..N : h[i] = step[<<i, h[i - 1]>>]
    BY <1>4 DEF Unrolls
  <2>2. \A i \in 1..N : <<i, h[i - 1]>> \in (1..N) \X Q
    BY <2>1
  <2> QED
    BY <2>1, <2>2
<1> DEFINE f == [i \in 1..n |-> h[i - 1]]
<1>6. \A i \in 1..n : f[i] = IF i = 1 THEN ss[i] ELSE f[i - 1] \o ss[i]
  <2> TAKE i \in 1..n
  <2>1. CASE i = 1
    BY <1>5, <2>1
  <2>2. CASE i # 1
    <3>1. i - 1 \in 1..N /\ (i - 1) + 1 = i /\ i - 1 \in 1..n
      BY <2>2
    <3>2. h[i - 1] = h[(i - 1) - 1] \o ss[(i - 1) + 1]
      BY <1>5, <3>1
    <3>3. f[i] = h[i - 1] /\ f[i - 1] = h[(i - 1) - 1]
      BY <3>1
    <3> QED
      BY <2>2, <3>1, <3>2, <3>3
  <2> QED
    BY <2>1, <2>2
<1>7. f = [i \in 1..n |-> IF i = 1 THEN ss[i] ELSE f[i - 1] \o ss[i]]
  BY <1>6
<1>8. \E g : g = [i \in 1..n |-> IF i = 1 THEN ss[i] ELSE g[i - 1] \o ss[i]]
  BY <1>7, Zenon
<1>9. flatten = [i \in 1..n |-> IF i = 1 THEN ss[i] ELSE flatten[i - 1] \o ss[i]]
  BY <1>8
<1>10. FlattenSeq(ss) = flatten[n]
  BY <1>2 DEF FlattenSeq
<1> HIDE DEF flatten, f
(* What has been put together so far.                                        *)
<1> DEFINE T == {m \in 0..N :
               /\ flatten[m + 1] \in Q
               /\ \A k \in 1..(m + 1) : \A i \in 1..Len(ss[k]) :
                     \E j \in 1..Len(flatten[m + 1]) : flatten[m + 1][j] = ss[k][i]}
<1>11. 0 \in T
  <2>1. 1 \in 1..n /\ 0 \in 0..N /\ 0 + 1 = 1 /\ \A k \in 1..(0 + 1) : k = 1
    BY <1>1
  <2>2. flatten[0 + 1] = ss[1]
    BY <1>9, <2>1
  <2>3. flatten[0 + 1] \in Q
    BY <1>1, <2>1, <2>2
  <2>4. \A k \in 1..(0 + 1) : \A i \in 1..Len(ss[k]) :
           \E j \in 1..Len(flatten[0 + 1]) : flatten[0 + 1][j] = ss[k][i]
    BY <2>1, <2>2, Zenon
  <2> QED
    BY <2>1, <2>3, <2>4
<1>12. \A m \in 1..N : m - 1 \in T => m \in T
  <2> SUFFICES ASSUME NEW m \in 1..N, m - 1 \in T PROVE m \in T
    OBVIOUS
  <2> DEFINE a == flatten[m]
             b == ss[m + 1]
  <2>1. m + 1 \in 1..n /\ m + 1 # 1 /\ (m + 1) - 1 = m /\ (m - 1) + 1 = m
    OBVIOUS
  <2>2. flatten[m + 1] = a \o b
    BY <1>9, <2>1
  <2>3. /\ a \in Q /\ b \in Q
        /\ \A k \in 1..m : \A i \in 1..Len(ss[k]) : \E j \in 1..Len(a) : a[j] = ss[k][i]
    BY <1>1, <2>1
  <2>4. /\ a \o b \in Q /\ Len(a) \in Nat /\ Len(b) \in Nat /\ Len(a \o b) = Len(a) + Len(b)
        /\ \A j \in 1..(Len(a) + Len(b)) :
              (a \o b)[j] = IF j <= Len(a) THEN a[j] ELSE b[j - Len(a)]
    <3> HIDE DEF a, b
    <3>1. a \in Seq(S) /\ b \in Seq(S)
      BY <2>3 DEF Q
    <3>2. a \o b \in Q
      BY <3>1, ConcatProperties DEF Q
    <3> QED
      BY <3>1, <3>2, ConcatProperties, LenProperties
  <2> HIDE DEF a, b
  <2>5. \A j \in 1..Len(a) : j \in 1..Len(a \o b) /\ (a \o b)[j] = a[j]
    BY <2>4
  <2>6. \A i \in 1..Len(b) : Len(a) + i \in 1..Len(a \o b) /\ (a \o b)[Len(a) + i] = b[i]
    <3> TAKE i \in 1..Len(b)
    <3>1. Len(a) + i \in 1..(Len(a) + Len(b)) /\ ~(Len(a) + i <= Len(a))
          /\ (Len(a) + i) - Len(a) = i
      BY <2>4
    <3> QED
      BY <2>4, <3>1
  <2>7. ASSUME NEW k \in 1..(m + 1), NEW i \in 1..Len(ss[k])
        PROVE  \E j \in 1..Len(a \o b) : (a \o b)[j] = ss[k][i]
    <3>1. CASE k \in 1..m
      BY <2>3, <2>5, <3>1
    <3>2. CASE k = m + 1
      BY <2>6, <3>2 DEF b
    <3>3. k \in 1..m \/ k = m + 1
      OBVIOUS
    <3> QED
      BY <3>1, <3>2, <3>3
  <2>8. m \in 0..N
    OBVIOUS
  <2>9. /\ flatten[m + 1] \in Q
        /\ \A k \in 1..(m + 1) : \A i \in 1..Len(ss[k]) :
              \E j \in 1..Len(flatten[m + 1]) : flatten[m + 1][j] = ss[k][i]
    BY <2>2, <2>4, <2>7
  <2> QED
    BY <2>8, <2>9
<1>13. 0..N \subseteq T
  <2> HIDE DEF T, N
  <2> QED
    BY <1>1, <1>11, <1>12, Upwards
<1>14. N \in T /\ N + 1 = n
  <2>1. N \in 0..N /\ N + 1 = n
    OBVIOUS
  <2> HIDE DEF T, N
  <2> QED
    BY <1>13, <2>1
<1>15. /\ flatten[n] \in Q
       /\ \A k \in 1..n : \A i \in 1..Len(ss[k]) :
             \E j \in 1..Len(flatten[n]) : flatten[n][j] = ss[k][i]
  <2> HIDE DEF Q
  <2> QED
    BY <1>14
<1> QED
  BY <1>10, <1>15 DEF Q, Gathers

(* GetVectorCFG walks over every vector block.                               *)
LEMMA Walked ==
    ASSUME func \in Functions, order \in SetToSeqs(DOMAIN func.blocks)
    PROVE  LET all == FlattenSeq([k \in DOMAIN order |-> MBBs(order[k])])
                      \o <<FunctionEntry, FunctionExit>>
           IN  all \in Seq(Nodes) /\ ToSet(all) = Nodes /\ Len(all) \in Nat \ {0}
<1> DEFINE n == Len(func.blocks)
           ss == [k \in DOMAIN order |-> MBBs(order[k])]
           flat == FlattenSeq(ss)
           ends == <<FunctionEntry, FunctionExit>>
<1>1. n \in Nat \ {0} /\ Mbbs = 1..n /\ DOMAIN func.blocks = 1..n
  BY Shape DEF Mbbs
<1>2. Cardinality(1..n) = n /\ IsFiniteSet(1..n)
  BY <1>1, FS_Interval
<1>3. order \in [1..n -> 1..n] /\ \A i, j \in 1..n : i # j => order[i] # order[j]
  BY <1>1, <1>2 DEF SetToSeqs
<1>4. \A b \in Mbbs : \E k \in 1..n : order[k] = b
  <2>1. order \in Injection(1..n, 1..n)
    BY <1>3 DEF Injection, IsInjective
  <2>2. order \in Surjection(1..n, 1..n)
    BY <1>2, <2>1, FS_Injection
  <2> QED
    BY <1>1, <2>2 DEF Surjection
<1>5. ss \in [1..n -> Seq(Nodes)]
  <2>1. \A b \in Mbbs : MBBs(b) \in Seq(Nodes)
    <3> TAKE b \in Mbbs
    <3>1. MBBs(b) \in Seq(NodesOf(b)) /\ NodesOf(b) \subseteq Nodes
      BY MBBsAre DEF Nodes
    <3> QED
      BY <3>1
  <2> QED
    BY <1>1, <1>3, <2>1
<1>6. /\ flat \in Seq(Nodes)
      /\ \A k \in 1..n : \A i \in 1..Len(ss[k]) : \E j \in 1..Len(flat) : flat[j] = ss[k][i]
  <2>1. n \in Nat \ {0}
    BY <1>1
  <2>2. FlattenSeq(ss) \in Seq(Nodes) /\ Gathers(FlattenSeq(ss), ss, n)
    <3> HIDE DEF ss, n
    <3> QED
      BY <1>5, <2>1, Flattened
  <2> QED
    BY <2>2, Zenon DEF Gathers
<1>7. ends \in Seq(Nodes) /\ Len(ends) = 2 /\ ends[1] = FunctionEntry /\ ends[2] = FunctionExit
  BY DEF Nodes
<1>8. \A b \in Mbbs : \A v \in NodesOf(b) : \E j \in 1..Len(flat) : flat[j] = v
  <2> TAKE b \in Mbbs
  <2> TAKE v \in NodesOf(b)
  <2>1. PICK k \in 1..n : order[k] = b
    BY <1>4
  <2>2. ss[k] = MBBs(b)
    BY <1>3, <2>1
  <2>3. PICK i \in 1..Len(ss[k]) : ss[k][i] = v
    <3>1. \E i \in 1..Len(MBBs(b)) : MBBs(b)[i] = v
      BY MBBsAre, Zenon
    <3> HIDE DEF ss
    <3> QED
      BY <2>2, <3>1, Zenon
  <2> HIDE DEF flat, ss
  <2> QED
    BY <1>6, <2>3
<1> HIDE DEF ends, flat
<1> DEFINE all == flat \o ends
           m == Len(flat)
<1>9. /\ all \in Seq(Nodes) /\ m \in Nat /\ Len(all) = m + 2
      /\ \A i \in 1..m : all[i] = flat[i]
      /\ all[m + 1] = FunctionEntry /\ all[m + 2] = FunctionExit
  <2>1. /\ all \in Seq(Nodes) /\ Len(all) = Len(flat) + Len(ends) /\ m \in Nat
        /\ \A i \in 1..(Len(flat) + Len(ends)) :
              all[i] = IF i <= Len(flat) THEN flat[i] ELSE ends[i - Len(flat)]
    BY <1>6, <1>7, ConcatProperties, LenProperties
  <2>2. \A i \in 1..m : i \in 1..(m + 2) /\ i <= m
    BY <2>1
  <2>3. m + 1 \in 1..(m + 2) /\ m + 2 \in 1..(m + 2) /\ ~(m + 1 <= m) /\ ~(m + 2 <= m)
        /\ (m + 1) - m = 1 /\ (m + 2) - m = 2
    BY <2>1
  <2> HIDE DEF all, m
  <2> QED
    BY <1>7, <2>1, <2>2, <2>3 DEF m
<1> HIDE DEF all, m
<1>10. DOMAIN all = 1..(m + 2) /\ \A i \in 1..(m + 2) : all[i] \in Nodes
  BY <1>9, LenProperties
<1>11. ToSet(all) \subseteq Nodes
  BY <1>10 DEF ToSet
<1>12. Nodes \subseteq ToSet(all)
  <2> SUFFICES ASSUME NEW v \in Nodes PROVE \E i \in 1..(m + 2) : all[i] = v
    BY <1>10 DEF ToSet
  <2>1. CASE v \in {FunctionEntry, FunctionExit}
    BY <1>9, <2>1
  <2>2. CASE \E b \in Mbbs : v \in NodesOf(b)
    <3>1. PICK j \in 1..m : flat[j] = v
      BY <1>8, <2>2 DEF m
    <3> QED
      BY <1>9, <3>1
  <2> QED
    BY <2>1, <2>2 DEF Nodes
<1>13. all \in Seq(Nodes) /\ ToSet(all) = Nodes /\ Len(all) \in Nat \ {0}
  <2>1. m + 2 \in Nat \ {0}
    BY <1>9
  <2> QED
    BY <1>9, <1>11, <1>12, <2>1
<1> QED
  BY <1>13 DEF all, flat, ends

Built ==
    /\ func \in Functions
    /\ DOMAIN vectors = Nodes /\ \A v \in Nodes : vectors[v] = Instructions(v)
    /\ edges = Links \cup UNION {ScalarEdges(b) : b \in Mbbs}

(* Before which instruction of its vector block instruction i is.            *)
LEMMA Ranges ==
    ASSUME Built, NEW b \in Mbbs
    PROVE  /\ \A i \in 0..Size(b) :
                 vectors[Taken(b, i)] = {j \in 1..Size(b) : Taken(b, j) = Taken(b, i)}
           /\ vectors[EntryNotTaken(b)] = {} /\ vectors[ExitTaken(b)] = {}
           /\ vectors[ExitNotTaken(b)] = {}
           /\ vectors[FunctionEntry] = {} /\ vectors[FunctionExit] = {}
<1>1. /\ b # 0 /\ DOMAIN func.blocks[b] = 1..Size(b)
      /\ FunctionEntry \in Nodes /\ FunctionExit \in Nodes
  BY Shape DEF Built, Nodes
<1>2. \A i : Taken(b, i)[1] = b /\ Taken(b, i) \notin {EntryNotTaken(b), ExitTaken(b), ExitNotTaken(b)}
  BY DEF Taken, EntryTaken, EntryNotTaken, ExitTaken, ExitNotTaken
<1>3. \A v \in Nodes : vectors[v] =
         IF v[1] = 0 THEN {} ELSE {i \in DOMAIN func.blocks[v[1]] : Taken(v[1], i) = v}
  BY DEF Built, Instructions
<1>4. EntryNotTaken(b)[1] = b /\ ExitTaken(b)[1] = b /\ ExitNotTaken(b)[1] = b
      /\ FunctionEntry[1] = 0 /\ FunctionExit[1] = 0
  BY DEF EntryNotTaken, ExitTaken, ExitNotTaken, FunctionEntry, FunctionExit
<1>5. func \in Functions
  BY DEF Built
<1>6. \A i \in 0..Size(b) :
         vectors[Taken(b, i)] = {j \in DOMAIN func.blocks[b] : Taken(b, j) = Taken(b, i)}
  <2> TAKE i \in 0..Size(b)
  <2>1. Taken(b, i) \in Nodes /\ Taken(b, i)[1] = b
    BY <1>2, <1>5, NodesAre
  <2> QED
    BY <1>1, <1>3, <2>1
<1>7. vectors[EntryNotTaken(b)] = {} /\ vectors[ExitTaken(b)] = {}
      /\ vectors[ExitNotTaken(b)] = {}
  <2>1. \A v \in Nodes : v[1] = b =>
           vectors[v] = {i \in DOMAIN func.blocks[b] : Taken(b, i) = v}
    <3> TAKE v \in Nodes
    <3> HAVE v[1] = b
    <3>1. vectors[v] = {i \in DOMAIN func.blocks[v[1]] : Taken(v[1], i) = v}
      BY <1>1, <1>3
    <3> QED
      BY <3>1
  <2>2. EntryNotTaken(b) \in Nodes /\ ExitTaken(b) \in Nodes /\ ExitNotTaken(b) \in Nodes
    BY <1>5, NodesAre
  <2> QED
    BY <1>2, <1>4, <2>1, <2>2
<1> QED
  BY <1>1, <1>3, <1>4, <1>6, <1>7

(* Of blocks of different basic blocks.                                      *)
LEMMA NodesOwn ==
    ASSUME Built, NEW v \in Nodes
    PROVE  \/ v \in {FunctionEntry, FunctionExit} /\ vectors[v] = {}
           \/ v[1] \in Mbbs /\ v \in NodesOf(v[1]) /\ vectors[v] \subseteq 1..Size(v[1])
<1>1. CASE v \in {FunctionEntry, FunctionExit}
  BY <1>1 DEF Built, Instructions, FunctionEntry, FunctionExit
<1>2. CASE \E b \in Mbbs : v \in NodesOf(b)
  <2>1. PICK b \in Mbbs : v \in NodesOf(b)
    BY <1>2
  <2>2. v[1] = b
    BY <2>1 DEF NodesOf, Taken, EntryTaken, EntryNotTaken, ExitTaken, ExitNotTaken
  <2>3. DOMAIN func.blocks[b] = 1..Size(b) /\ b # 0
    BY Shape DEF Built
  <2> QED
    BY <2>1, <2>2, <2>3 DEF Built, Instructions
<1> QED
  BY <1>1, <1>2 DEF Nodes

(* The registers live before instruction i as its vector block has it.       *)
BeforeInstr(b, i) == LiveBefore(Taken(b, i))[i]

(* computeLiveIns steps back over instruction i from what is live before the *)
(* next one, or out of the vector block.                                     *)
LEMMA LiveBeforeAt ==
    ASSUME Built, NEW b \in Mbbs, NEW i \in 1..Size(b)
    PROVE  BeforeInstr(b, i) =
              StepBackward(IF i < Size(b) /\ i + 1 \notin Starts(b) THEN BeforeInstr(b, i + 1)
                           ELSE LiveOuts(Taken(b, i)), MI(<<b, i>>))
<1> DEFINE v == Taken(b, i)
<1>1. func \in Functions /\ Size(b) \in Nat /\ v[1] = b
  BY Shape DEF Built, Taken, EntryTaken
<1>2. vectors[v] = {j \in 1..Size(b) : Taken(b, j) = v}
  BY <1>1, Ranges
<1> HIDE DEF v
<1>3. /\ LiveBefore(v)[i] = StepBackward(LiveBefore(v)[i + 1], MI(<<b, i>>))
      /\ i + 1 \notin vectors[v] => LiveBefore(v)[i + 1] = LiveOuts(v)
  <2>1. i \in 1..(Size(b) + 1) /\ i + 1 \in 1..(Size(b) + 1) /\ i \in vectors[v]
    BY <1>1, <1>2 DEF v
  <2>2. vectors[v] \subseteq 1..Size(v[1])
    BY <1>1, <1>2
  <2> QED
    BY <1>1, <2>1, <2>2, LiveBeforeUnrolled
<1>4. CASE i < Size(b) /\ i + 1 \notin Starts(b)
  <2>1. i + 1 \in 0..Size(b) /\ \A k \in Starts(b) : ~(i < k /\ k <= i + 1)
    BY <1>1, <1>4, StartsAre
  <2>2. Taken(b, i + 1) = v
    BY <1>1, <2>1, TakenSame DEF v
  <2> QED
    BY <1>3, <1>4, <2>2 DEF BeforeInstr, v
<1>5. CASE ~(i < Size(b) /\ i + 1 \notin Starts(b))
  <2>1. i + 1 \notin vectors[v]
    <3>1. CASE i = Size(b)
      BY <1>1, <1>2, <3>1
    <3>2. CASE i + 1 \in Starts(b) /\ i < Size(b)
      <4>1. Taken(b, i) # Taken(b, i + 1)
        BY <1>1, <3>2, TakenSame
      <4> QED
        BY <1>2, <4>1 DEF v
    <3> QED
      BY <1>1, <1>5, <3>1, <3>2
  <2> QED
    BY <1>3, <1>5, <2>1 DEF BeforeInstr, v
<1> QED
  BY <1>4, <1>5

(* The live-ins of a vector block are what is live before its first          *)
(* instruction.                                                              *)
LEMMA LiveInAt ==
    ASSUME Built, NEW b \in Mbbs, NEW i \in 1..Size(b), i \in Starts(b) \/ i = 1
    PROVE  LiveIn(Taken(b, i)) = BeforeInstr(b, i) /\ Min(vectors[Taken(b, i)]) = i
<1>1. func \in Functions /\ Size(b) \in Nat
      /\ vectors[Taken(b, i)] = {j \in 1..Size(b) : Taken(b, j) = Taken(b, i)}
  BY Shape, Ranges DEF Built
<1>2. i \in vectors[Taken(b, i)]
  BY <1>1
<1>3. \A j \in vectors[Taken(b, i)] : j \in 1..Size(b) /\ i <= j
  <2> SUFFICES ASSUME NEW j \in 1..Size(b), j < i, Taken(b, j) = Taken(b, i)
               PROVE  FALSE
    BY <1>1
  <2> QED
    BY <1>1, TakenSame
<1>4. Min(vectors[Taken(b, i)]) = i
  <2>1. \A j \in vectors[Taken(b, i)] : j \in Nat
    BY <1>1, <1>3
  <2> QED
    BY <1>2, <1>3, <2>1, MinIs
<1> QED
  BY <1>2, <1>4 DEF LiveIn, BeforeInstr

(* The live-ins of a vector block without instructions are its live-outs.    *)
LEMMA LiveInEmpty ==
    ASSUME Built, NEW b \in Mbbs
    PROVE  /\ LiveIn(EntryNotTaken(b)) = LiveOuts(EntryNotTaken(b))
           /\ LiveIn(ExitTaken(b)) = LiveOuts(ExitTaken(b))
           /\ LiveIn(ExitNotTaken(b)) = LiveOuts(ExitNotTaken(b))
           /\ Size(b) = 0 \/ 1 \in Starts(b) => /\ vectors[EntryTaken(b)] = {}
                                                /\ LiveIn(EntryTaken(b)) = LiveOuts(EntryTaken(b))
<1>1. func \in Functions /\ Size(b) \in Nat /\ Taken(b, 0) = EntryTaken(b)
  BY Shape, NodesAre DEF Built
<1>2. ASSUME Size(b) = 0 \/ 1 \in Starts(b)
      PROVE  vectors[EntryTaken(b)] = {}
  <2> SUFFICES ASSUME NEW j \in 1..Size(b), Taken(b, j) = Taken(b, 0)
               PROVE  FALSE
    BY <1>1, Ranges
  <2> QED
    BY <1>1, <1>2, TakenSame
<1> QED
  BY <1>2, Ranges DEF LiveIn

-----------------------------------------------------------------------------
(* Where the lanes that are off before instruction q join the others again.  *)
ScalarsFrom(b, q) == {j \in 1..Size(b) : q <= j /\ ~IsVector(MI(<<b, j>>))}
Rejoins(b, q) == IF ScalarsFrom(b, q) = {} THEN ExitNotTaken(b)
                 ELSE Taken(b, Min(ScalarsFrom(b, q)))

(* Off lanes pass vector instructions and stop at the first other one.       *)
LEMMA RejoinsAt ==
    ASSUME func \in Functions, NEW b \in Mbbs, NEW q \in 1..(Size(b) + 1)
    PROVE  /\ q <= Size(b) /\ IsVector(MI(<<b, q>>)) => Rejoins(b, q) = Rejoins(b, q + 1)
           /\ q <= Size(b) /\ ~IsVector(MI(<<b, q>>)) => Rejoins(b, q) = Taken(b, q)
           /\ q = Size(b) + 1 => Rejoins(b, q) = ExitNotTaken(b)
<1>1. Size(b) \in Nat
  BY Shape
<1>2. q <= Size(b) /\ IsVector(MI(<<b, q>>)) => ScalarsFrom(b, q) = ScalarsFrom(b, q + 1)
  BY <1>1 DEF ScalarsFrom
<1>3. q = Size(b) + 1 => ScalarsFrom(b, q) = {}
  BY <1>1 DEF ScalarsFrom
<1>4. ASSUME q <= Size(b), ~IsVector(MI(<<b, q>>))
      PROVE  ScalarsFrom(b, q) # {} /\ Min(ScalarsFrom(b, q)) = q
  <2>1. q \in ScalarsFrom(b, q) /\ \A j \in ScalarsFrom(b, q) : j \in Nat /\ q <= j
    BY <1>1, <1>4 DEF ScalarsFrom
  <2> QED
    BY <2>1, MinIs
<1> QED
  BY <1>2, <1>3, <1>4 DEF Rejoins

(* The edges within a basic block, one by one.                               *)
LEMMA ScalarEdgesAre ==
    ASSUME NEW b, NEW e
    PROVE  e \in ScalarEdges(b) <=>
              \/ \E i \in Splits(b) : e = <<Taken(b, i - 1), Taken(b, i)>>
              \/ \E i \in Joins(b) : e \in JoinEdges(b, i)
              \/ e = <<Taken(b, Size(b)), ExitTaken(b)>>
              \/ e \in Hanging(b, Size(b) + 1) \X {ExitNotTaken(b)}
<1> DEFINE A == {<<Taken(b, i - 1), Taken(b, i)>> : i \in Splits(b)}
           B == UNION {JoinEdges(b, i) : i \in Joins(b)}
           C == Hanging(b, Size(b) + 1) \X {ExitNotTaken(b)}
           x == <<Taken(b, Size(b)), ExitTaken(b)>>
<1>1. ScalarEdges(b) = A \cup B \cup {x} \cup C
  BY DEF ScalarEdges, Size
<1>2. e \in B <=> \E i \in Joins(b) : e \in JoinEdges(b, i)
  BY Zenon
<1>3. e \in A <=> \E i \in Splits(b) : e = <<Taken(b, i - 1), Taken(b, i)>>
  BY Zenon
<1> HIDE DEF A, B, C, x
<1>4. e \in ScalarEdges(b) <=> e \in A \/ e \in B \/ e = x \/ e \in C
  BY <1>1
<1> QED
  BY <1>2, <1>3, <1>4, Zenon DEF x, C

(* Blocks with hanging edges are linked to where their lanes join the others.*)
LEMMA HangingRejoin ==
    ASSUME Built, NEW b \in Mbbs
    PROVE  /\ \A k \in Splits(b) : <<Taken(b, k - 1), Rejoins(b, k)>> \in edges
           /\ <<EntryNotTaken(b), Rejoins(b, 1)>> \in edges
<1>1. func \in Functions /\ Size(b) \in Nat
  BY Shape DEF Built
<1>2. \A e \in ScalarEdges(b) : e \in edges
  BY DEF Built
(* From the first scalar instruction on the way.                             *)
<1>3. ASSUME NEW q \in 1..(Size(b) + 1), q = 1 \/ q \in Splits(b)
      PROVE  \/ /\ Rejoins(b, q) = ExitNotTaken(b)
                /\ \A k \in Joins(b) : ~(q <= k /\ k < Size(b) + 1)
             \/ \E j \in Joins(b) : /\ Rejoins(b, q) = Taken(b, j) /\ q <= j
                                    /\ q \in Splits(b) => q < j
                                    /\ \A k \in Joins(b) : ~(q <= k /\ k < j)
  <2>1. \A k \in Joins(b) : k \in 1..Size(b) /\ ~IsVector(MI(<<b, k>>))
    BY <1>1, StartsAre DEF Starts
  <2>2. CASE ScalarsFrom(b, q) = {}
    BY <1>1, <2>1, <2>2 DEF Rejoins, ScalarsFrom
  <2>3. CASE ScalarsFrom(b, q) # {}
    <3>1. ScalarsFrom(b, q) \in SUBSET Nat
      BY DEF ScalarsFrom
    <3>2. PICK j \in ScalarsFrom(b, q) : \A k \in ScalarsFrom(b, q) : j <= k
      BY <2>3, <3>1, Least
    <3>3. Min(ScalarsFrom(b, q)) = j
      BY <3>1, <3>2, MinIs
    <3>4. j \in 1..Size(b) /\ q <= j /\ ~IsVector(MI(<<b, j>>))
          /\ (j > q => IsVector(MI(<<b, j - 1>>)))
      <4>1. j - 1 \in ScalarsFrom(b, q) => FALSE
        BY <3>1, <3>2
      <4> QED
        BY <1>1, <3>2, <4>1 DEF ScalarsFrom
    <3>5. q \in Splits(b) => IsVector(MI(<<b, q>>))
      BY <1>1, StartsAre DEF Starts
    <3>6. (q \in Splits(b) => q < j) /\ ~FormerScalar(b, j)
      BY <1>1, <1>3, <3>4, <3>5, StartsAre
    <3>7. j \in Joins(b)
      BY <1>1, <3>4, <3>6, StartsAre
    <3>8. \A k \in Joins(b) : ~(q <= k /\ k < j)
      <4> SUFFICES ASSUME NEW k \in Joins(b), q <= k, k < j
                   PROVE  FALSE
        OBVIOUS
      <4>1. k \in ScalarsFrom(b, q) /\ k \in Nat
        BY <2>1 DEF ScalarsFrom
      <4> QED
        BY <3>2, <3>4, <4>1
    <3> QED
      BY <2>3, <3>3, <3>4, <3>6, <3>7, <3>8 DEF Rejoins
  <2> QED
    BY <2>2, <2>3
<1>4. ASSUME NEW k \in Splits(b)
      PROVE  <<Taken(b, k - 1), Rejoins(b, k)>> \in edges
  <2>1. k \in 1..Size(b) /\ k \in 1..(Size(b) + 1)
    BY <1>1, StartsAre DEF Starts
  <2>2. CASE \E j \in Joins(b) : /\ Rejoins(b, k) = Taken(b, j) /\ k < j
                                 /\ \A i \in Joins(b) : ~(k <= i /\ i < j)
    <3>1. PICK j \in Joins(b) : /\ Rejoins(b, k) = Taken(b, j) /\ k < j
                                /\ \A i \in Joins(b) : ~(k <= i /\ i < j)
      BY <2>2
    <3>2. Taken(b, k - 1) \in Hanging(b, j)
      BY <3>1 DEF Hanging
    <3>3. <<Taken(b, k - 1), Taken(b, j)>> \in JoinEdges(b, j)
      BY <3>2 DEF JoinEdges
    <3> QED
      BY <1>2, <3>1, <3>3 DEF ScalarEdges
  <2>3. CASE /\ Rejoins(b, k) = ExitNotTaken(b)
             /\ \A i \in Joins(b) : ~(k <= i /\ i < Size(b) + 1)
    <3>1. Taken(b, k - 1) \in Hanging(b, Size(b) + 1)
      BY <1>1, <2>1, <2>3 DEF Hanging
    <3>2. <<Taken(b, k - 1), ExitNotTaken(b)>> \in ScalarEdges(b)
      BY <3>1, ScalarEdgesAre
    <3> QED
      BY <1>2, <2>3, <3>2
  <2> QED
    BY <1>3, <2>1, <2>2, <2>3
<1>5. <<EntryNotTaken(b), Rejoins(b, 1)>> \in edges
  <2>1. 1 \in 1..(Size(b) + 1)
    BY <1>1
  <2>2. CASE \E j \in Joins(b) : /\ Rejoins(b, 1) = Taken(b, j) /\ 1 <= j
                                 /\ \A i \in Joins(b) : ~(1 <= i /\ i < j)
    <3>1. PICK j \in Joins(b) : /\ Rejoins(b, 1) = Taken(b, j) /\ 1 <= j
                                /\ \A i \in Joins(b) : ~(1 <= i /\ i < j)
      BY <2>2
    <3>2. EntryNotTaken(b) \in Hanging(b, j)
      BY <3>1 DEF Hanging
    <3>3. <<EntryNotTaken(b), Taken(b, j)>> \in JoinEdges(b, j)
      BY <3>2 DEF JoinEdges
    <3> QED
      BY <1>2, <3>1, <3>3 DEF ScalarEdges
  <2>3. CASE /\ Rejoins(b, 1) = ExitNotTaken(b)
             /\ \A i \in Joins(b) : ~(1 <= i /\ i < Size(b) + 1)
    <3>1. EntryNotTaken(b) \in Hanging(b, Size(b) + 1)
      BY <1>1, <2>3 DEF Hanging
    <3>2. <<EntryNotTaken(b), ExitNotTaken(b)>> \in ScalarEdges(b)
      BY <3>1, ScalarEdgesAre
    <3> QED
      BY <1>2, <2>3, <3>2
  <2> QED
    BY <1>3, <2>1, <2>2, <2>3
<1> QED
  BY <1>4, <1>5

(* The edges that lanes that are on follow, and those between basic blocks.  *)
LEMMA OtherEdges ==
    ASSUME Built, NEW b \in Mbbs
    PROVE  /\ \A i \in Starts(b) : <<Taken(b, i - 1), Taken(b, i)>> \in edges
           /\ <<Taken(b, Size(b)), ExitTaken(b)>> \in edges
           /\ \A c \in Mbbs : <<b, c>> \in func.succ =>
                 /\ <<ExitTaken(b), EntryTaken(c)>> \in edges
                 /\ <<ExitNotTaken(b), EntryNotTaken(c)>> \in edges
<1>1. \A e \in ScalarEdges(b) : e \in edges
  BY DEF Built
<1>2. \A i \in Starts(b) : <<Taken(b, i - 1), Taken(b, i)>> \in ScalarEdges(b)
  <2>1. \A i \in Joins(b) : <<Taken(b, i - 1), Taken(b, i)>> \in JoinEdges(b, i)
    BY DEF JoinEdges
  <2> QED
    BY <2>1 DEF ScalarEdges, Starts
<1>3. <<Taken(b, Size(b)), ExitTaken(b)>> \in ScalarEdges(b)
  BY ScalarEdgesAre
<1>4. ASSUME NEW c \in Mbbs, <<b, c>> \in func.succ
      PROVE  /\ <<ExitTaken(b), EntryTaken(c)>> \in Links
             /\ <<ExitNotTaken(b), EntryNotTaken(c)>> \in Links
  <2> DEFINE of(e) == {<<ExitTaken(e[1]), EntryTaken(e[2])>>,
                       <<ExitNotTaken(e[1]), EntryNotTaken(e[2])>>,
                       <<EntryNotTaken(e[2]), ExitNotTaken(e[1])>>}
  <2>1. of(<<b, c>>) \subseteq Links
    BY <1>4 DEF Links
  <2> QED
    BY <2>1
<1> QED
  BY <1>1, <1>2, <1>3, <1>4 DEF Built

(* What is live into a block is live out of its predecessors.                *)
LEMMA EdgesCarry ==
    ASSUME NEW v, NEW w, <<v, w>> \in edges
    PROVE  liveIns[w] \subseteq LiveOuts(v)
  BY DEF LiveOuts

(* Another round of recomputeLiveIns would change nothing.                   *)
Settled(v) ==
    /\ liveIns[v] = LiveIn(v)
    /\ \A i \in vectors[v] : miLiveIns[<<v[1], i>>] = LiveBefore(v)[i]
Stable == Built /\ \A v \in Nodes : Settled(v)

(* What is live after instruction i, as its vector block has it.             *)
Ahead(b, i) == IF i < Size(b) /\ i + 1 \notin Starts(b) THEN miLiveIns[<<b, i + 1>>]
               ELSE LiveOuts(Taken(b, i))

(* In a stable iteration an instruction has the live-ins that those ahead of *)
(* it give, and a block those of its first instruction.                      *)
LEMMA StableInstr ==
    ASSUME Stable, NEW b \in Mbbs, NEW i \in 1..Size(b)
    PROVE  /\ miLiveIns[<<b, i>>] = StepBackward(Ahead(b, i), MI(<<b, i>>))
           /\ i \in Starts(b) \/ i = 1 => liveIns[Taken(b, i)] = miLiveIns[<<b, i>>]
<1>1. Built /\ func \in Functions /\ Size(b) \in Nat
  BY Shape DEF Stable, Built
<1>2. \A j \in 1..Size(b) : miLiveIns[<<b, j>>] = BeforeInstr(b, j)
  <2> TAKE j \in 1..Size(b)
  <2>1. Taken(b, j) \in Nodes /\ Taken(b, j)[1] = b /\ j \in vectors[Taken(b, j)]
    <3>1. j \in 0..Size(b)
      BY <1>1
    <3>2. Taken(b, j) \in Nodes
      BY <1>1, <3>1, NodesAre
    <3>3. j \in vectors[Taken(b, j)]
      BY <1>1, <3>1, Ranges
    <3> QED
      BY <3>2, <3>3 DEF Taken, EntryTaken
  <2> QED
    BY <2>1 DEF Stable, Settled, BeforeInstr
<1>3. miLiveIns[<<b, i>>] = StepBackward(Ahead(b, i), MI(<<b, i>>))
  <2>1. i < Size(b) => i + 1 \in 1..Size(b)
    BY <1>1
  <2> QED
    BY <1>1, <1>2, <2>1, LiveBeforeAt DEF Ahead
<1>4. ASSUME i \in Starts(b) \/ i = 1
      PROVE  liveIns[Taken(b, i)] = miLiveIns[<<b, i>>]
  <2>1. Taken(b, i) \in Nodes
    BY <1>1, NodesAre
  <2> QED
    BY <1>1, <1>2, <1>4, <2>1, LiveInAt DEF Stable, Settled
<1> QED
  BY <1>3, <1>4

(* In a stable iteration blocks without instructions pass on what is live    *)
(* after them.                                                               *)
LEMMA StableEmpty ==
    ASSUME Stable, NEW b \in Mbbs
    PROVE  /\ liveIns[EntryNotTaken(b)] = LiveOuts(EntryNotTaken(b))
           /\ liveIns[ExitTaken(b)] = LiveOuts(ExitTaken(b))
           /\ liveIns[ExitNotTaken(b)] = LiveOuts(ExitNotTaken(b))
           /\ Size(b) = 0 \/ 1 \in Starts(b) => liveIns[EntryTaken(b)] = LiveOuts(EntryTaken(b))
  BY LiveInEmpty, NodesAre DEF Stable, Built, Settled

(* The first and the last instruction of a block.                            *)
LEMMA ScalarEnds ==
    ASSUME func \in Functions, NEW b \in Mbbs
    PROVE  /\ BeginsScalar(b) <=> 1 \in 1..Size(b) /\ ~IsVector(MI(<<b, 1>>))
           /\ EndsScalar(b) <=> Size(b) \in 1..Size(b) /\ ~IsVector(MI(<<b, Size(b)>>))
<1>1. func.blocks[b] # << >> <=> 1 <= Size(b)
  <2> DEFINE I == MachineInstr
             S == Seq(I)
  <2>1. func.blocks \in Seq(S)
    BY RegisterLivenessAssumption
  <2> HIDE DEF S
  <2>2. func.blocks[b] \in S
    BY <2>1 DEF Mbbs
  <2> HIDE DEF I
  <2> QED
    BY <2>2, EmptySeq, LenProperties DEF S, Size
<1>2. Size(b) \in Nat
  BY Shape
<1> QED
  BY <1>1, <1>2 DEF BeginsScalar, EndsScalar, Last, MI, Size

-----------------------------------------------------------------------------
(* Registers that a lane at place p of block b may read, if it is on or off  *)
(* there.                                                                    *)
LiveOn(b, p) ==
    IF p = 0 THEN liveIns[EntryTaken(b)]
    ELSE IF p = Size(b) + 1 THEN liveIns[ExitTaken(b)]
    ELSE miLiveIns[<<b, p>>]
         \cup (IF MI(<<b, p>>).kind = "cmpx" THEN liveIns[Rejoins(b, p + 1)] ELSE {})
LiveOffAt(b, p) == IF IsVector(MI(<<b, p>>)) THEN liveIns[Rejoins(b, p)] ELSE miLiveIns[<<b, p>>]
LiveOff(b, p) ==
    IF p = 0 THEN IF BeginsScalar(b) THEN miLiveIns[<<b, 1>>] ELSE liveIns[EntryNotTaken(b)]
    ELSE IF p = Size(b) + 1
         THEN IF EndsScalar(b) THEN liveIns[ExitTaken(b)] ELSE liveIns[ExitNotTaken(b)]
    ELSE LiveOffAt(b, p)

(* Off lanes after a vector instruction are those that join where it says.   *)
LEMMA OffAfterVector ==
    ASSUME Stable, NEW b \in Mbbs, NEW i \in 1..Size(b), IsVector(MI(<<b, i>>))
    PROVE  LiveOff(b, i + 1) = liveIns[Rejoins(b, i + 1)]
<1>1. func \in Functions /\ Size(b) \in Nat /\ i + 1 \in 1..(Size(b) + 1) /\ i + 1 # 0
  BY Shape DEF Stable, Built
<1>2. CASE i = Size(b)
  BY <1>1, <1>2, ScalarEnds, RejoinsAt DEF LiveOff
<1>3. CASE i # Size(b)
  <2>1. i + 1 \in 1..Size(b) /\ i + 1 # Size(b) + 1 /\ (i + 1) - 1 = i /\ i + 1 > 1
    BY <1>1, <1>3
  <2>2. CASE IsVector(MI(<<b, i + 1>>))
    BY <1>1, <2>1, <2>2 DEF LiveOff, LiveOffAt
  <2>3. CASE ~IsVector(MI(<<b, i + 1>>))
    <3>1. i + 1 \in Starts(b)
      BY <1>1, <2>1, <2>3, StartsAre DEF Starts
    <3>2. liveIns[Taken(b, i + 1)] = miLiveIns[<<b, i + 1>>]
      BY <2>1, <3>1, StableInstr
    <3>3. Rejoins(b, i + 1) = Taken(b, i + 1)
      BY <1>1, <2>1, <2>3, RejoinsAt
    <3> QED
      BY <1>1, <2>1, <2>3, <3>2, <3>3 DEF LiveOff, LiveOffAt
  <2> QED
    BY <2>2, <2>3
<1> QED
  BY <1>2, <1>3

(* A lane that is on after an instruction.                                   *)
LEMMA OnAhead ==
    ASSUME Stable, NEW b \in Mbbs, NEW i \in 1..Size(b)
    PROVE  LiveOn(b, i + 1) \subseteq Ahead(b, i)
<1>1. Built /\ func \in Functions /\ Size(b) \in Nat /\ i + 1 # 0 /\ (i + 1) - 1 = i
  BY Shape DEF Stable, Built
<1>2. CASE i = Size(b)
  <2>1. <<Taken(b, i), ExitTaken(b)>> \in edges
    BY <1>1, <1>2, OtherEdges
  <2> QED
    BY <1>1, <1>2, <2>1, EdgesCarry DEF LiveOn, Ahead
<1>3. CASE i # Size(b)
  <2>1. i + 1 \in 1..Size(b) /\ i + 1 # Size(b) + 1 /\ i < Size(b)
    BY <1>1, <1>3
  <2>2. CASE i + 1 \in Starts(b)
    <3>1. liveIns[Taken(b, i + 1)] = miLiveIns[<<b, i + 1>>]
      BY <2>1, <2>2, StableInstr
    <3>2. liveIns[Taken(b, i + 1)] \subseteq LiveOuts(Taken(b, i))
      <4>1. <<Taken(b, i), Taken(b, i + 1)>> \in edges
        BY <1>1, <2>2, OtherEdges
      <4> QED
        BY <4>1, EdgesCarry
    <3>3. ASSUME MI(<<b, i + 1>>).kind = "cmpx"
          PROVE  liveIns[Rejoins(b, (i + 1) + 1)] \subseteq LiveOuts(Taken(b, i))
      <4>1. IsVector(MI(<<b, i + 1>>)) /\ i + 1 \in Splits(b)
        BY <1>1, <2>1, <3>3, StartsAre DEF IsVector
      <4>2. Rejoins(b, i + 1) = Rejoins(b, (i + 1) + 1)
        BY <1>1, <2>1, <4>1, RejoinsAt
      <4>3. <<Taken(b, i), Rejoins(b, i + 1)>> \in edges
        BY <1>1, <4>1, HangingRejoin
      <4> QED
        BY <4>2, <4>3, EdgesCarry
    <3> QED
      BY <1>1, <2>1, <2>2, <3>1, <3>2, <3>3 DEF LiveOn, Ahead
  <2>3. CASE i + 1 \notin Starts(b)
    <3>1. MI(<<b, i + 1>>).kind # "cmpx"
      BY <1>1, <2>1, <2>3, StartsAre DEF Starts, IsVector
    <3> QED
      BY <1>1, <2>1, <2>3, <3>1 DEF LiveOn, Ahead
  <2> QED
    BY <2>2, <2>3
<1> QED
  BY <1>2, <1>3

(* A lane that is off after an instruction that all lanes pass together.     *)
LEMMA OffAhead ==
    ASSUME Stable, NEW b \in Mbbs, NEW i \in 1..Size(b), ~IsVector(MI(<<b, i>>))
    PROVE  LiveOff(b, i + 1) \subseteq Ahead(b, i)
<1>1. Built /\ func \in Functions /\ Size(b) \in Nat /\ i + 1 # 0 /\ (i + 1) - 1 = i
  BY Shape DEF Stable, Built
<1>2. CASE i = Size(b)
  <2>1. EndsScalar(b)
    BY <1>1, <1>2, ScalarEnds
  <2>2. LiveOff(b, i + 1) = LiveOn(b, i + 1)
    BY <1>1, <1>2, <2>1 DEF LiveOff, LiveOn
  <2> QED
    BY <2>2, OnAhead
<1>3. CASE i # Size(b)
  <2>1. i + 1 \in 1..Size(b) /\ i + 1 # Size(b) + 1 /\ i < Size(b) /\ i + 1 > 1
    BY <1>1, <1>3
  <2>2. FormerScalar(b, i + 1)
    BY <1>1, <2>1, StartsAre
  <2>3. CASE IsVector(MI(<<b, i + 1>>))
    <3>1. i + 1 \in Splits(b) /\ i + 1 \in Starts(b)
      BY <1>1, <2>1, <2>2, <2>3, StartsAre DEF Starts
    <3>2. <<Taken(b, i), Rejoins(b, i + 1)>> \in edges
      BY <1>1, <3>1, HangingRejoin
    <3> QED
      BY <1>1, <2>1, <2>3, <3>1, <3>2, EdgesCarry DEF LiveOff, LiveOffAt, Ahead
  <2>4. CASE ~IsVector(MI(<<b, i + 1>>))
    <3>1. i + 1 \notin Starts(b)
      BY <1>1, <2>1, <2>2, <2>4, StartsAre DEF Starts
    <3> QED
      BY <1>1, <2>1, <2>4, <3>1 DEF LiveOff, LiveOffAt, Ahead
  <2> QED
    BY <2>3, <2>4
<1> QED
  BY <1>2, <1>3

(* Lanes at the beginning of a block, and between blocks.                    *)
LEMMA Beginnings ==
    ASSUME Stable, NEW b \in Mbbs
    PROVE  LiveOn(b, 1) \subseteq LiveOn(b, 0) /\ LiveOff(b, 1) \subseteq LiveOff(b, 0)
<1>1. Built /\ func \in Functions /\ Size(b) \in Nat /\ Taken(b, 0) = EntryTaken(b)
      /\ 1 \in 1..(Size(b) + 1)
  BY Shape, NodesAre DEF Stable, Built
<1>2. CASE Size(b) = 0
  <2>1. <<EntryTaken(b), ExitTaken(b)>> \in edges /\ <<EntryNotTaken(b), ExitNotTaken(b)>> \in edges
    <3>1. <<EntryTaken(b), ExitTaken(b)>> \in edges
      BY <1>1, <1>2, OtherEdges
    <3>2. Rejoins(b, 1) = ExitNotTaken(b)
      <4>1. 1 = Size(b) + 1
        BY <1>2
      <4> QED
        BY <1>1, <4>1, RejoinsAt
    <3> QED
      BY <1>1, <3>1, <3>2, HangingRejoin
  <2>2. liveIns[ExitTaken(b)] \subseteq liveIns[EntryTaken(b)]
        /\ liveIns[ExitNotTaken(b)] \subseteq liveIns[EntryNotTaken(b)]
    BY <1>2, <2>1, EdgesCarry, StableEmpty
  <2>3. ~BeginsScalar(b) /\ ~EndsScalar(b)
    <3>1. 1 \notin 1..Size(b) /\ Size(b) \notin 1..Size(b)
      BY <1>2
    <3> QED
      BY <1>1, <3>1, ScalarEnds
  <2> QED
    BY <1>2, <2>2, <2>3 DEF LiveOn, LiveOff
<1>3. CASE Size(b) # 0
  <2>1. 1 \in 1..Size(b) /\ 1 # Size(b) + 1
    BY <1>1, <1>3
  <2>2. liveIns[Taken(b, 1)] = miLiveIns[<<b, 1>>]
    BY <2>1, StableInstr
  <2>3. LiveOff(b, 1) \subseteq LiveOff(b, 0)
    <3>1. liveIns[Rejoins(b, 1)] \subseteq liveIns[EntryNotTaken(b)]
      BY <1>1, HangingRejoin, EdgesCarry, StableEmpty
    <3>2. BeginsScalar(b) <=> ~IsVector(MI(<<b, 1>>))
      BY <1>1, <2>1, ScalarEnds
    <3> QED
      BY <2>1, <3>1, <3>2 DEF LiveOff, LiveOffAt
  <2>4. CASE 1 \in Starts(b)
    <3>1. liveIns[EntryTaken(b)] = LiveOuts(EntryTaken(b))
      BY <2>4, StableEmpty
    <3>2. liveIns[Taken(b, 1)] \subseteq LiveOuts(EntryTaken(b))
      <4>1. <<Taken(b, 1 - 1), Taken(b, 1)>> \in edges
        BY <1>1, <2>4, OtherEdges
      <4> QED
        BY <1>1, <4>1, EdgesCarry
    <3>3. ASSUME MI(<<b, 1>>).kind = "cmpx"
          PROVE  liveIns[Rejoins(b, 2)] \subseteq LiveOuts(EntryTaken(b))
      <4>1. IsVector(MI(<<b, 1>>)) /\ 1 \in Splits(b)
        BY <1>1, <2>1, <3>3, StartsAre DEF IsVector
      <4>2. Rejoins(b, 1) = Rejoins(b, 1 + 1)
        BY <1>1, <2>1, <4>1, RejoinsAt
      <4>3. <<Taken(b, 1 - 1), Rejoins(b, 1)>> \in edges
        BY <1>1, <4>1, HangingRejoin
      <4> QED
        BY <1>1, <4>2, <4>3, EdgesCarry
    <3> QED
      BY <2>1, <2>2, <2>3, <3>1, <3>2, <3>3 DEF LiveOn
  <2>5. CASE 1 \notin Starts(b)
    <3>1. MI(<<b, 1>>).kind # "cmpx"
      BY <1>1, <2>1, <2>5, StartsAre DEF Starts, IsVector
    <3>2. Taken(b, 1) = EntryTaken(b)
      <4>1. 0 \in 0..Size(b) /\ 1 \in 0..Size(b) /\ \A k \in Starts(b) : ~(0 < k /\ k <= 1)
        BY <1>1, <2>1, <2>5, StartsAre
      <4> QED
        BY <1>1, <4>1, TakenSame
    <3> QED
      BY <2>1, <2>2, <2>3, <3>1, <3>2 DEF LiveOn
  <2> QED
    BY <2>4, <2>5
<1> QED
  BY <1>2, <1>3

(* Lanes at the end of a block: without ExecSettled this holds of the lanes  *)
(* that are on only.                                                         *)
LEMMA Ends ==
    ASSUME Stable, NEW b \in Mbbs, NEW c \in Mbbs, <<b, c>> \in func.succ
    PROVE  /\ LiveOn(c, 0) \subseteq LiveOn(b, Size(b) + 1)
           /\ ExecSettled => LiveOff(c, 0) \subseteq LiveOff(b, Size(b) + 1)
<1>1. Built /\ func \in Functions /\ Size(b) \in Nat /\ Size(c) \in Nat /\ Size(b) + 1 # 0
  BY Shape DEF Stable, Built
<1>2. /\ liveIns[EntryTaken(c)] \subseteq liveIns[ExitTaken(b)]
      /\ liveIns[EntryNotTaken(c)] \subseteq liveIns[ExitNotTaken(b)]
  <2>1. <<ExitTaken(b), EntryTaken(c)>> \in edges /\ <<ExitNotTaken(b), EntryNotTaken(c)>> \in edges
    BY <1>1, OtherEdges
  <2> QED
    BY <2>1, EdgesCarry, StableEmpty
<1>3. BeginsScalar(c) => /\ miLiveIns[<<c, 1>>] \subseteq liveIns[EntryTaken(c)]
                         /\ miLiveIns[<<c, 1>>] \subseteq liveIns[EntryNotTaken(c)]
  <2> SUFFICES ASSUME BeginsScalar(c)
               PROVE  /\ miLiveIns[<<c, 1>>] \subseteq liveIns[EntryTaken(c)]
                      /\ miLiveIns[<<c, 1>>] \subseteq liveIns[EntryNotTaken(c)]
    OBVIOUS
  <2>1. 1 \in 1..Size(c) /\ 1 # Size(c) + 1 /\ ~IsVector(MI(<<c, 1>>)) /\ 1 \in 1..(Size(c) + 1)
    <3>1. 1 \in 1..Size(c) /\ ~IsVector(MI(<<c, 1>>))
      BY <1>1, ScalarEnds
    <3> QED
      BY <1>1, <3>1
  <2>2. miLiveIns[<<c, 1>>] \subseteq liveIns[EntryTaken(c)]
    BY <2>1, Beginnings DEF LiveOn
  <2>3. liveIns[Taken(c, 1)] = miLiveIns[<<c, 1>>]
    BY <2>1, StableInstr
  <2>4. Rejoins(c, 1) = Taken(c, 1)
    BY <1>1, <2>1, RejoinsAt
  <2>5. miLiveIns[<<c, 1>>] \subseteq liveIns[EntryNotTaken(c)]
    <3>1. <<EntryNotTaken(c), Taken(c, 1)>> \in edges
      BY <1>1, <2>4, HangingRejoin
    <3>2. liveIns[Taken(c, 1)] \subseteq liveIns[EntryNotTaken(c)]
      BY <3>1, EdgesCarry, StableEmpty
    <3> QED
      BY <2>3, <3>2
  <2> QED
    BY <2>2, <2>5
<1>4. ExecSettled /\ EndsScalar(b) => BeginsScalar(c)
  BY DEF ExecSettled
<1> QED
  BY <1>1, <1>2, <1>3, <1>4 DEF LiveOn, LiveOff

(* Lanes, spelled out.                                                       *)
LEMMA PlacesAre ==
    ASSUME func \in Functions
    PROVE  /\ \A s \in Lanes : /\ s = <<<<s[1][1], s[1][2]>>, s[2]>> /\ s[2] \in BOOLEAN
                               /\ s[1][1] \in Mbbs /\ s[1][2] \in 0..(Size(s[1][1]) + 1)
           /\ \A b \in Mbbs : \A p \in 0..(Size(b) + 1) :
                 <<<<b, p>>, TRUE>> \in Lanes /\ <<<<b, p>>, FALSE>> \in Lanes
           /\ \A b, p : <<b, p>> \in MIs <=> b \in Mbbs /\ p \in 1..Size(b)
<1>1. \A b \in Mbbs : \A p \in 0..(Size(b) + 1) : <<b, p>> \in Places
  BY DEF Places, Size
<1>2. \A x \in Places : x = <<x[1], x[2]>> /\ x[1] \in Mbbs /\ x[2] \in 0..(Size(x[1]) + 1)
  BY DEF Places, Size
<1>3. \A b, p : <<b, p>> \in MIs <=> b \in Mbbs /\ p \in 1..Size(b)
  <2>1. \A b \in Mbbs : \A p \in 1..Size(b) : <<b, p>> \in MIs
    BY Instrs
  <2>2. \A b, p : <<b, p>> \in MIs => b \in Mbbs /\ p \in 1..Size(b)
    <3> TAKE b, p
    <3> HAVE <<b, p>> \in MIs
    <3>1. <<b, p>>[1] \in Mbbs /\ <<b, p>>[2] \in 1..Size(<<b, p>>[1])
      BY MIsAre
    <3> QED
      BY <3>1
  <2> QED
    BY <2>1, <2>2
<1>4. \A s \in Lanes : s = <<s[1], s[2]>> /\ s[1] \in Places /\ s[2] \in BOOLEAN
  BY DEF Lanes
<1>5. \A x \in Places : <<x, TRUE>> \in Lanes /\ <<x, FALSE>> \in Lanes
  BY DEF Lanes
<1>6. \A s \in Lanes : /\ s = <<<<s[1][1], s[1][2]>>, s[2]>> /\ s[2] \in BOOLEAN
                       /\ s[1][1] \in Mbbs /\ s[1][2] \in 0..(Size(s[1][1]) + 1)
  <2> TAKE s \in Lanes
  <2>1. s[1] = <<s[1][1], s[1][2]>> /\ s = <<s[1], s[2]>>
    BY <1>2, <1>4
  <2>2. s = <<<<s[1][1], s[1][2]>>, s[2]>>
    BY <2>1, Zenon
  <2> QED
    BY <1>2, <1>4, <2>2
<1> QED
  BY <1>1, <1>3, <1>5, <1>6

(* LaneNext by the place and the kind of the instruction there.              *)
Follows(b, p, on, t) ==
    \/ p = 0 /\ t = <<<<b, 1>>, on>>
    \/ /\ p \in 1..Size(b)
       /\ t[1] = <<b, p + 1>> /\ t = <<t[1], t[2]>> /\ t[2] \in BOOLEAN
       /\ MI(<<b, p>>).kind \notin {"exec", "cmpx"} => t[2] = on
       /\ MI(<<b, p>>).kind = "cmpx" => t[2] \in {FALSE, on}
    \/ p = Size(b) + 1 /\ \E c \in Mbbs : <<b, c>> \in func.succ /\ t = <<<<c, 0>>, on>>

(* Every lane that comes next is one of those Follows describes.             *)
LEMMA NextLanes ==
    ASSUME func \in Functions, NEW b \in Mbbs, NEW p \in 0..(Size(b) + 1),
           NEW on \in BOOLEAN, NEW t \in LaneNext(<<<<b, p>>, on>>)
    PROVE  Follows(b, p, on, t)
<1>1. Size(b) \in Nat /\ func.succ \subseteq Mbbs \X Mbbs
  BY Shape
<1>2. t \in After(<<b, p>>) \X ActiveAfter(<<b, p>>, on)
  BY DEF LaneNext
<1>3. t = <<t[1], t[2]>> /\ t[1] \in After(<<b, p>>) /\ t[2] \in ActiveAfter(<<b, p>>, on)
  BY <1>2
<1>4. <<b, p>> \in MIs <=> p \in 1..Size(b)
  BY PlacesAre
<1>5. CASE p = 0
  <2>1. After(<<b, p>>) = {<<b, 1>>}
    BY <1>1, <1>5 DEF After, Size
  <2>2. ActiveAfter(<<b, p>>, on) = {on}
    BY <1>4, <1>5 DEF ActiveAfter
  <2> QED
    BY <1>3, <1>5, <2>1, <2>2 DEF Follows
<1>6. CASE p \in 1..Size(b)
  <2>1. After(<<b, p>>) = {<<b, p + 1>>}
    BY <1>1, <1>6 DEF After, Size
  <2>2. /\ t[2] \in BOOLEAN
        /\ MI(<<b, p>>).kind \notin {"exec", "cmpx"} => t[2] = on
        /\ MI(<<b, p>>).kind = "cmpx" => t[2] \in {FALSE, on}
    BY <1>3, <1>4, <1>6 DEF ActiveAfter
  <2> QED
    BY <1>3, <1>6, <2>1, <2>2 DEF Follows
<1>7. CASE p = Size(b) + 1
  <2>1. After(<<b, p>>) = {<<e[2], 0>> : e \in {e \in func.succ : e[1] = b}}
    BY <1>1, <1>7 DEF After, Size
  <2>2. t[2] = on
    <3>1. <<b, p>> \notin MIs
      BY <1>1, <1>4, <1>7
    <3> QED
      BY <1>3, <3>1 DEF ActiveAfter
  <2>3. PICK e \in func.succ : e[1] = b /\ t[1] = <<e[2], 0>>
    BY <1>3, <2>1
  <2>4. e[2] \in Mbbs /\ e = <<b, e[2]>>
    BY <1>1, <2>3
  <2> QED
    BY <1>3, <1>7, <2>2, <2>3, <2>4 DEF Follows
<1>8. p = 0 \/ p \in 1..Size(b) \/ p = Size(b) + 1
  BY <1>1
<1> QED
  BY <1>5, <1>6, <1>7, <1>8, Zenon DEF Follows

(* What a lane may read is live where the lane is, as the blocks have it.    *)
LiveAt(s) == IF s[2] THEN LiveOn(s[1][1], s[1][2]) ELSE LiveOff(s[1][1], s[1][2])

(* What a lane reads is live where it is.                                    *)
LEMMA LiveAtReads ==
    ASSUME Stable, NEW r, NEW s \in Reads(r)
    PROVE  r \in LiveAt(s)
<1>1. func \in Functions
  BY DEF Stable, Built
<1> DEFINE b == s[1][1]
           p == s[1][2]
<1>2. /\ s \in Lanes /\ s[1] = <<b, p>> /\ s[2] \in BOOLEAN /\ b \in Mbbs /\ p \in 1..Size(b)
      /\ s[2] \/ MI(<<b, p>>).kind = "lane"
      /\ r \in MI(<<b, p>>).uses
  <2>1. s \in Lanes /\ s[1] \in MIs /\ (s[2] \/ MI(s[1]).kind = "lane") /\ r \in MI(s[1]).uses
    BY DEF Reads, Executes
  <2>2. s[1] = <<b, p>> /\ s[2] \in BOOLEAN
    BY <1>1, <2>1, PlacesAre
  <2> QED
    BY <1>1, <2>1, <2>2, PlacesAre
<1>3. r \in miLiveIns[<<b, p>>]
  BY <1>2, StableInstr DEF StepBackward
<1>4. Size(b) \in Nat /\ p # 0 /\ p # Size(b) + 1
  BY <1>1, <1>2, Shape
<1>5. CASE s[2]
  BY <1>3, <1>4, <1>5 DEF LiveAt, LiveOn
<1>6. CASE ~s[2]
  BY <1>2, <1>3, <1>4, <1>6 DEF LiveAt, LiveOff, LiveOffAt, IsVector
<1> QED
  BY <1>5, <1>6

(* What is live where a lane comes to is live where it comes from, unless it *)
(* is written there.                                                         *)
LEMMA LiveAtClosed ==
    ASSUME Stable, ExecSettled, NEW r, NEW s \in Lanes, s \notin Writes(r),
           NEW t \in LaneNext(s), r \in LiveAt(t)
    PROVE  r \in LiveAt(s)
<1> DEFINE b == s[1][1]
           p == s[1][2]
           on == s[2]
<1>1. func \in Functions
  BY DEF Stable, Built
<1>2. s = <<<<b, p>>, on>> /\ on \in BOOLEAN /\ b \in Mbbs /\ p \in 0..(Size(b) + 1)
      /\ Size(b) \in Nat
  BY <1>1, PlacesAre, Shape
<1>3. LiveAt(s) = IF on THEN LiveOn(b, p) ELSE LiveOff(b, p)
  BY DEF LiveAt
<1> HIDE DEF b, p, on
<1>4. Follows(b, p, on, t)
  <2>1. t \in LaneNext(<<<<b, p>>, on>>)
    BY <1>2
  <2> QED
    BY <1>1, <1>2, <2>1, NextLanes, Zenon
<1>5. CASE p = 0 /\ t = <<<<b, 1>>, on>>
  <2>1. LiveAt(t) = IF on THEN LiveOn(b, 1) ELSE LiveOff(b, 1)
    BY <1>5 DEF LiveAt
  <2> QED
    BY <1>2, <1>3, <1>5, <2>1, Beginnings
<1>6. CASE \E c \in Mbbs : <<b, c>> \in func.succ /\ t = <<<<c, 0>>, on>> /\ p = Size(b) + 1
  <2>1. PICK c \in Mbbs : <<b, c>> \in func.succ /\ t = <<<<c, 0>>, on>>
    BY <1>6
  <2>2. LiveAt(t) = IF on THEN LiveOn(c, 0) ELSE LiveOff(c, 0)
    BY <2>1 DEF LiveAt
  <2> QED
    BY <1>2, <1>3, <1>6, <2>1, <2>2, Ends
<1>7. CASE /\ p \in 1..Size(b)
           /\ t[1] = <<b, p + 1>> /\ t = <<t[1], t[2]>> /\ t[2] \in BOOLEAN
           /\ MI(<<b, p>>).kind \notin {"exec", "cmpx"} => t[2] = on
           /\ MI(<<b, p>>).kind = "cmpx" => t[2] \in {FALSE, on}
  <2> DEFINE mi == MI(<<b, p>>)
  <2>1. LiveAt(t) = IF t[2] THEN LiveOn(b, p + 1) ELSE LiveOff(b, p + 1)
    BY <1>7 DEF LiveAt
  <2>2. /\ miLiveIns[<<b, p>>] = (Ahead(b, p) \ mi.defs) \cup mi.uses
        /\ LiveOn(b, p + 1) \subseteq Ahead(b, p)
        /\ ~IsVector(mi) => LiveOff(b, p + 1) \subseteq Ahead(b, p)
    BY <1>2, <1>7, StableInstr, OnAhead, OffAhead DEF StepBackward
  <2>3. /\ mi.kind \in Kinds
        /\ mi.kind \in {"cmpx", "scalar", "exec"} => mi.defs = {}
        /\ IsVector(mi) => LiveOff(b, p + 1) = liveIns[Rejoins(b, p + 1)]
        /\ IsVector(mi) => Rejoins(b, p) = Rejoins(b, p + 1)
    <3>1. /\ mi.kind \in Kinds
          /\ mi.kind \in {"cmpx", "scalar", "exec"} => mi.defs = {}
      BY <1>1, <1>2, <1>7, Instrs
    <3>2. IsVector(mi) => LiveOff(b, p + 1) = liveIns[Rejoins(b, p + 1)]
      BY <1>1, <1>2, <1>7, OffAfterVector
    <3>3. IsVector(mi) => Rejoins(b, p) = Rejoins(b, p + 1)
      <4>1. p \in 1..(Size(b) + 1) /\ p <= Size(b)
        BY <1>2, <1>7
      <4> QED
        BY <1>1, <1>2, <4>1, RejoinsAt
    <3> QED
      BY <3>1, <3>2, <3>3
  <2>4. on \/ mi.kind = "lane" => r \notin mi.defs
    <3>1. s \in Lanes /\ s[1] = <<b, p>> /\ s[2] = on /\ <<b, p>> \in MIs
      BY <1>1, <1>2, <1>7, PlacesAre
    <3> QED
      BY <3>1 DEF Writes, Executes
  <2>5. p # 0 /\ p # Size(b) + 1
    BY <1>2, <1>7
  <2>6. CASE ~IsVector(mi)
    <3>1. r \in Ahead(b, p)
      BY <1>7, <2>1, <2>2, <2>6
    <3>2. r \notin mi.defs
      BY <2>3, <2>4, <2>6 DEF IsVector, Kinds
    <3>3. r \in miLiveIns[<<b, p>>]
      BY <2>2, <3>1, <3>2
    <3> QED
      BY <1>3, <2>5, <2>6, <3>3 DEF LiveOn, LiveOff, LiveOffAt
  <2>7. CASE IsVector(mi) /\ on /\ t[2]
    <3>1. r \in miLiveIns[<<b, p>>]
      BY <2>1, <2>2, <2>4, <2>7
    <3> QED
      BY <1>3, <2>5, <2>7, <3>1 DEF LiveOn
  <2>8. CASE IsVector(mi) /\ on /\ ~t[2]
    <3>1. mi.kind = "cmpx"
      BY <1>7, <2>3, <2>8 DEF IsVector, Kinds
    <3>2. r \in liveIns[Rejoins(b, p + 1)]
      BY <2>1, <2>3, <2>8
    <3> QED
      BY <1>3, <2>5, <2>8, <3>1, <3>2 DEF LiveOn
  <2>9. CASE IsVector(mi) /\ ~on
    <3>1. ~t[2]
      BY <1>2, <1>7, <2>9 DEF IsVector
    <3>2. r \in liveIns[Rejoins(b, p)]
      BY <2>1, <2>3, <2>9, <3>1
    <3> QED
      BY <1>3, <2>5, <2>9, <3>2 DEF LiveOff, LiveOffAt
  <2> QED
    BY <2>6, <2>7, <2>8, <2>9
<1> QED
  BY <1>4, <1>5, <1>6, <1>7, Zenon DEF Follows

(* A stable iteration is sound where EXEC is settled.                        *)
LEMMA StableSound ==
    ASSUME Stable, ExecSettled, NEW r, NEW m \in Lost(r)
    PROVE  MI(m).kind = "cmpx"
<1>1. func \in Functions /\ IsFiniteSet(Lanes) /\ Cardinality(Lanes) \in Nat
  BY LanesFinite, FS_CardinalityType DEF Stable, Built
<1> DEFINE Step == [s \in Lanes |-> LaneNext(s)]
           S == {s \in Lanes : r \in LiveAt(s)}
<1>2. Reads(r) \subseteq S
  <2>1. Reads(r) \subseteq Lanes
    BY DEF Reads
  <2> QED
    BY <2>1, LiveAtReads
<1>3. \A s \in Lanes \ Writes(r) : Step[s] \cap S # {} => s \in S
  <2> SUFFICES ASSUME NEW s \in Lanes, s \notin Writes(r), NEW t \in LaneNext(s), r \in LiveAt(t)
               PROVE  r \in LiveAt(s)
    OBVIOUS
  <2> QED
    BY LiveAtClosed
<1>4. m \in MIs /\ <<m, TRUE>> \in MayRead(r, Step) /\ r \notin miLiveIns[m]
  BY DEF Lost
<1>5. MayRead(r, Step) \subseteq S
  <2> HIDE DEF Step, S
  <2> QED
    BY <1>1, <1>2, <1>3, MayReadLeast
<1>6. r \in LiveAt(<<m, TRUE>>)
  BY <1>4, <1>5
<1>7. /\ m[1] \in Mbbs /\ m[2] \in 1..Size(m[1]) /\ m = <<m[1], m[2]>> /\ Size(m[1]) \in Nat
  BY <1>1, <1>4, MIsAre, Shape
<1>8. LiveAt(<<m, TRUE>>) = LiveOn(m[1], m[2]) /\ m[2] # 0 /\ m[2] # Size(m[1]) + 1
  BY <1>7 DEF LiveAt
<1> QED
  BY <1>4, <1>6, <1>7, <1>8 DEF LiveOn

(* Edges are between vector blocks.                                          *)
LEMMA HangingAre ==
    ASSUME func \in Functions, NEW b \in Mbbs, NEW j \in 1..(Size(b) + 1), NEW v \in Hanging(b, j)
    PROVE  \/ v = EntryNotTaken(b) /\ \A k \in Joins(b) : ~(1 <= k /\ k < j)
           \/ \E i \in Splits(b) : /\ v = Taken(b, i - 1) /\ i < j /\ i \in 1..Size(b)
                                   /\ \A k \in Joins(b) : ~(i <= k /\ k < j)
  BY StartsAre DEF Hanging, Starts

(* getVectorCFG adds edges between vector blocks of the function only.       *)
LEMMA EdgesBetweenNodes ==
    ASSUME Built
    PROVE  edges \subseteq Nodes \X Nodes
<1>1. func \in Functions
  BY DEF Built
<1>2. ASSUME NEW b \in Mbbs, NEW e \in ScalarEdges(b)
      PROVE  e \in Nodes \X Nodes
  <2>1. Size(b) \in Nat /\ Size(b) \in 0..Size(b) /\ Size(b) + 1 \in 1..(Size(b) + 1)
    BY <1>1, Shape
  <2>2. \A i \in Starts(b) : i \in 1..Size(b) /\ i \in 0..Size(b) /\ i - 1 \in 0..Size(b)
                             /\ i \in 1..(Size(b) + 1)
    BY <1>1, <2>1, StartsAre
  <2>3. \A j \in 1..(Size(b) + 1) : Hanging(b, j) \subseteq Nodes
    <3> SUFFICES ASSUME NEW j \in 1..(Size(b) + 1), NEW v \in Hanging(b, j) PROVE v \in Nodes
      OBVIOUS
    <3>1. \/ v = EntryNotTaken(b)
          \/ \E i \in Splits(b) : v = Taken(b, i - 1) /\ i \in 1..Size(b)
      BY <1>1, HangingAre
    <3>2. \A i \in 1..Size(b) : i - 1 \in 0..Size(b)
      BY <2>1
    <3> QED
      BY <1>1, <3>1, <3>2, NodesAre
  <2>4. CASE \E i \in Splits(b) : e = <<Taken(b, i - 1), Taken(b, i)>>
    BY <1>1, <2>2, <2>4, NodesAre DEF Starts
  <2>5. CASE \E i \in Joins(b) : e \in JoinEdges(b, i)
    BY <1>1, <2>2, <2>3, <2>5, NodesAre DEF JoinEdges, Starts
  <2>6. CASE e = <<Taken(b, Size(b)), ExitTaken(b)>>
    BY <1>1, <2>1, <2>6, NodesAre
  <2>7. CASE e \in Hanging(b, Size(b) + 1) \X {ExitNotTaken(b)}
    BY <1>1, <2>1, <2>3, <2>7, NodesAre
  <2> QED
    BY <2>4, <2>5, <2>6, <2>7, ScalarEdgesAre
<1>3. ASSUME NEW e \in Links
      PROVE  e \in Nodes \X Nodes
  <2>1. func.succ \subseteq Mbbs \X Mbbs /\ 1 \in Mbbs
    BY <1>1, Shape
  <2>2. FunctionEntry \in Nodes /\ FunctionExit \in Nodes
    BY DEF Nodes
  <2>3. \/ e \in {<<FunctionEntry, v>> : v \in {EntryTaken(1), EntryNotTaken(1)}}
        \/ \E b \in Mbbs : e = <<ExitTaken(b), FunctionExit>> \/ e = <<ExitNotTaken(b), FunctionExit>>
        \/ \E d \in func.succ : e \in {<<ExitTaken(d[1]), EntryTaken(d[2])>>,
                                       <<ExitNotTaken(d[1]), EntryNotTaken(d[2])>>,
                                       <<EntryNotTaken(d[2]), ExitNotTaken(d[1])>>}
    BY DEF Links
  <2> QED
    BY <1>1, <2>1, <2>2, <2>3, NodesAre
<1> QED
  BY <1>2, <1>3 DEF Built

(* The iteration keeps sets of registers.                                    *)
Live == liveIns \in [Nodes -> SUBSET Regs] /\ miLiveIns \in [MIs -> SUBSET Regs]

(* What computeLiveIns computes is a set of registers.                       *)
LEMMA LiveTyped ==
    ASSUME Built, Live, NEW v \in Nodes
    PROVE  /\ LiveOuts(v) \subseteq Regs /\ LiveIn(v) \subseteq Regs
           /\ \A i \in vectors[v] : LiveBefore(v)[i] \subseteq Regs
           /\ vectors[v] # {} => Min(vectors[v]) \in vectors[v]
<1>1. func \in Functions
  BY DEF Built
<1>2. LiveOuts(v) \subseteq Regs
  <2>1. \A e \in edges : liveIns[e[2]] \subseteq Regs
    BY EdgesBetweenNodes DEF Live
  <2> QED
    BY <2>1 DEF LiveOuts
<1>3. CASE vectors[v] = {}
  BY <1>2, <1>3 DEF LiveIn
<1>4. CASE vectors[v] # {}
  <2>1. v[1] \in Mbbs /\ vectors[v] \subseteq 1..Size(v[1]) /\ Size(v[1]) \in Nat
    BY <1>1, <1>4, NodesOwn, Shape
  <2>2. \A i \in vectors[v] : LiveBefore(v)[i] \subseteq Regs
    <3> TAKE i \in vectors[v]
    <3>1. i \in 1..(Size(v[1]) + 1)
      BY <2>1
    <3> QED
      BY <1>1, <1>2, <2>1, <3>1, LiveBeforeUnrolled
  <2>3. Min(vectors[v]) \in vectors[v]
    <3>1. \A m \in vectors[v] : m \in Nat
      BY <2>1
    <3>2. PICK n \in vectors[v] : \A m \in vectors[v] : n <= m
      BY <1>4, <3>1, Least
    <3> QED
      BY <3>1, <3>2, MinIs
  <2> QED
    BY <1>2, <1>4, <2>2, <2>3 DEF LiveIn
<1> QED
  BY <1>3, <1>4

(* What computeLiveIns computes depends on the graph and the live-ins only.  *)
LEMMA SameIteration ==
    ASSUME UNCHANGED <<func, vectors, edges, liveIns>>
    PROVE  \A v : /\ LiveOuts(v)' = LiveOuts(v) /\ LiveBefore(v)' = LiveBefore(v)
                  /\ LiveIn(v)' = LiveIn(v)
<1> TAKE v
<1>1. LiveOuts(v)' = LiveOuts(v)
  BY DEF LiveOuts
<1>2. LiveBefore(v)' = LiveBefore(v)
  BY <1>1 DEF LiveBefore, MI, StepBackward
<1> QED
  BY <1>1, <1>2 DEF LiveIn

(* The graph depends on the function only.                                   *)
LEMMA SameGraph ==
    ASSUME func' = func
    PROVE  /\ Nodes' = Nodes /\ MIs' = MIs /\ Mbbs' = Mbbs /\ Lanes' = Lanes
           /\ Links' = Links
           /\ \A v : Instructions(v)' = Instructions(v)
           /\ \A b : ScalarEdges(b)' = ScalarEdges(b)
           /\ \A b : MBBs(b)' = MBBs(b)
<1>1. Mbbs' = Mbbs /\ MIs' = MIs /\ \A b : Size(b)' = Size(b)
  BY DEF Mbbs, MIs, Size
<1>2. \A b : Splits(b)' = Splits(b) /\ Joins(b)' = Joins(b)
  BY DEF Splits, Joins, FormerScalar
<1>3. \A b, i : Made(b, i)' = Made(b, i) /\ Taken(b, i)' = Taken(b, i)
  BY <1>2 DEF Made, Taken
<1>4. \A v : Instructions(v)' = Instructions(v)
  BY <1>3 DEF Instructions
<1>5. \A b, i : Hanging(b, i)' = Hanging(b, i)
  BY <1>2, <1>3 DEF Hanging
<1>6. \A b, i : JoinEdges(b, i)' = JoinEdges(b, i)
  BY <1>3, <1>5 DEF JoinEdges
<1>7. \A b : ScalarEdges(b)' = ScalarEdges(b)
  BY <1>2, <1>3, <1>5, <1>6 DEF ScalarEdges
<1>8. Links' = Links
  BY <1>1 DEF Links, IsReturnBlock
<1>9. \A b : MBBs(b)' = MBBs(b)
  BY <1>3 DEF MBBs
<1>10. Nodes' = Nodes
  BY <1>1, <1>3 DEF Nodes, NodesOf
<1>11. Lanes' = Lanes
  BY <1>1 DEF Lanes, Places
<1> QED
  BY <1>1, <1>4, <1>7, <1>8, <1>9, <1>10, <1>11

(* What holds while recomputeLiveIns goes over the vector blocks: those of   *)
(* this pass are settled as long as nothing has changed in it.               *)
Unbuilt == vectors = << >> /\ edges = {} /\ next = 1 /\ anyChange = FALSE
Walking ==
    /\ Built /\ Live
    /\ walk \in Seq(Nodes) /\ ToSet(walk) = Nodes /\ next \in 1..Len(walk)
    /\ anyChange \in BOOLEAN
Visited(n) == {walk[j] : j \in {j \in 1..Len(walk) : j < n}}
SettledSoFar == anyChange = FALSE => \A w \in Visited(next) : Settled(w)
IterationInv ==
    /\ func \in Functions /\ order \in SetToSeqs(DOMAIN func.blocks)
    /\ phase \in {"build", "iterate", "done"}
    /\ phase = "build" => Unbuilt
    /\ phase # "build" => Walking
    /\ phase = "iterate" => SettledSoFar
    /\ phase = "done" => Stable

(* The iteration invariant holds in the beginning.                           *)
LEMMA InitIteration == Init => IterationInv
  BY DEF Init, IterationInv, Unbuilt

(* getVectorCFG establishes the graph it promises and an iteration that has  *)
(* settled nothing.                                                          *)
LEMMA GetVectorCFGIteration ==
    ASSUME IterationInv, GetVectorCFG
    PROVE  IterationInv'
<1> DEFINE all == FlattenSeq([k \in DOMAIN order |-> MBBs(order[k])])
                  \o <<FunctionEntry, FunctionExit>>
<1>1. /\ phase = "build" /\ phase' = "iterate"
      /\ walk' = all /\ vectors' = [v \in ToSet(all) |-> Instructions(v)]
      /\ liveIns' = [v \in ToSet(all) |-> {}]
      /\ edges' = Links \cup UNION {ScalarEdges(b) : b \in Mbbs}
      /\ miLiveIns' = [m \in MIs |-> {}]
      /\ func' = func /\ order' = order /\ next' = next /\ anyChange' = anyChange
  BY DEF GetVectorCFG
<1>2. func \in Functions /\ order \in SetToSeqs(DOMAIN func.blocks) /\ Unbuilt
  BY <1>1 DEF IterationInv
<1>3. all \in Seq(Nodes) /\ ToSet(all) = Nodes /\ Len(all) \in Nat \ {0}
  BY <1>2, Walked, Zenon
<1> HIDE DEF all
<1>4. /\ Nodes' = Nodes /\ MIs' = MIs /\ Mbbs' = Mbbs /\ Links' = Links
      /\ \A v : Instructions(v)' = Instructions(v)
      /\ \A b : ScalarEdges(b)' = ScalarEdges(b)
  BY <1>1, SameGraph
<1>5. Built'
  <2>1. func' \in Functions
    BY <1>1, <1>2
  <2>2. DOMAIN vectors' = Nodes' /\ \A v \in Nodes' : vectors'[v] = Instructions(v)'
    BY <1>1, <1>3, <1>4
  <2>3. (UNION {ScalarEdges(b) : b \in Mbbs})' = UNION {ScalarEdges(b) : b \in Mbbs}
    BY <1>4
  <2> QED
    BY <1>1, <1>4, <2>1, <2>2, <2>3 DEF Built
<1>6. Live'
  BY <1>1, <1>3, <1>4 DEF Live
<1>7. Walking'
  <2>1. ToSet(walk)' = Nodes'
    BY <1>1, <1>3, <1>4 DEF ToSet
  <2>2. walk' \in Seq(Nodes') /\ anyChange' \in BOOLEAN /\ next' = 1
    BY <1>1, <1>2, <1>3, <1>4 DEF Unbuilt
  <2>3. next' \in 1..Len(walk')
    BY <1>1, <1>3, <2>2
  <2> QED
    BY <1>5, <1>6, <2>1, <2>2, <2>3 DEF Walking
<1>8. SettledSoFar'
  <2>1. next' = 1
    BY <1>1, <1>2 DEF Unbuilt
  <2>2. Visited(next)' = {}
    BY <2>1 DEF Visited
  <2> QED
    BY <2>2 DEF SettledSoFar
<1> QED
  BY <1>1, <1>2, <1>7, <1>8 DEF IterationInv

(* Every block that is settled stays so where nothing changes, and the block *)
(* just computed is settled then.                                            *)
LEMMA RecomputeSettles ==
    ASSUME Walking, RecomputeLiveIns, NEW v, v = walk[next], liveIns[v] = LiveIn(v)
    PROVE  /\ Settled(v)'
           /\ \A w \in Nodes : Settled(w) => Settled(w)'
<1>1. v \in Nodes /\ func \in Functions
  BY DEF Walking, Built
<1>2. /\ liveIns' = [liveIns EXCEPT ![v] = LiveIn(v)]
      /\ miLiveIns' = [m \in MIs |-> IF m[1] = v[1] /\ m[2] \in vectors[v]
                                     THEN LiveBefore(v)[m[2]] ELSE miLiveIns[m]]
      /\ UNCHANGED <<func, order, vectors, edges, walk>>
  BY DEF RecomputeLiveIns, WithLiveIns
<1>3. liveIns' = liveIns
  BY <1>1, <1>2 DEF Walking, Live
<1>4. \A w : LiveBefore(w)' = LiveBefore(w) /\ LiveIn(w)' = LiveIn(w)
  BY <1>2, <1>3, SameIteration
<1>5. \A w \in Nodes : \A i \in vectors[w] :
         /\ <<w[1], i>> \in MIs
         /\ w[1] = v[1] /\ i \in vectors[v] <=> w = v
  <2> TAKE w \in Nodes
  <2> TAKE i \in vectors[w]
  <2>1. w[1] \in Mbbs /\ i \in 1..Size(w[1]) /\ vectors[w] = Instructions(w)
    BY <1>1, NodesOwn DEF Walking, Built
  <2>2. <<w[1], i>> \in MIs
    BY <1>1, <2>1, Instrs
  <2>3. Taken(w[1], i) = w
    BY <2>1 DEF Instructions
  <2>4. i \in vectors[v] => Taken(v[1], i) = v
    BY <1>1 DEF Walking, Built, Instructions
  <2> QED
    BY <2>2, <2>3, <2>4
<1>6. \A w \in Nodes : \A i \in vectors[w] :
         miLiveIns'[<<w[1], i>>] = IF w = v THEN LiveBefore(v)[i] ELSE miLiveIns[<<w[1], i>>]
  BY <1>2, <1>5
<1>7. Settled(v)'
  <2>1. liveIns'[v] = LiveIn(v)'
    BY <1>3, <1>4
  <2> QED
    BY <1>1, <1>2, <1>4, <1>6, <2>1 DEF Settled
<1>8. \A w \in Nodes : Settled(w) => Settled(w)'
  BY <1>2, <1>3, <1>4, <1>6 DEF Settled
<1> QED
  BY <1>7, <1>8

(* recomputeLiveIns of one block keeps the invariant; the pass in which      *)
(* nothing changed leaves everything settled.                                *)
LEMMA RecomputeLiveInsIteration ==
    ASSUME IterationInv, RecomputeLiveIns
    PROVE  IterationInv'
<1>1. /\ phase = "iterate" /\ Walking /\ SettledSoFar
      /\ func \in Functions /\ order \in SetToSeqs(DOMAIN func.blocks)
      /\ UNCHANGED <<func, order, vectors, edges, walk>>
  BY DEF IterationInv, RecomputeLiveIns
<1> DEFINE v == walk[next]
           last == next = Len(walk)
           change == anyChange \/ liveIns[v] # LiveIn(v)
<1>2. /\ liveIns' = [liveIns EXCEPT ![v] = LiveIn(v)]
      /\ miLiveIns' = [m \in MIs |-> IF m[1] = v[1] /\ m[2] \in vectors[v]
                                     THEN LiveBefore(v)[m[2]] ELSE miLiveIns[m]]
      /\ next' = IF last THEN 1 ELSE next + 1
      /\ anyChange' = (change /\ ~last)
      /\ phase' = IF last /\ ~change THEN "done" ELSE phase
  BY DEF RecomputeLiveIns, WithLiveIns, Again
<1>3. v \in Nodes /\ Len(walk) \in Nat /\ next \in 1..Len(walk) /\ anyChange \in BOOLEAN
  BY <1>1 DEF Walking
<1>4. /\ Nodes' = Nodes /\ MIs' = MIs /\ Mbbs' = Mbbs /\ Links' = Links
      /\ \A w : Instructions(w)' = Instructions(w)
      /\ \A b : ScalarEdges(b)' = ScalarEdges(b)
  BY <1>1, SameGraph
<1>5. Built'
  <2>1. (UNION {ScalarEdges(b) : b \in Mbbs})' = UNION {ScalarEdges(b) : b \in Mbbs}
    BY <1>4
  <2> QED
    BY <1>1, <1>4, <2>1 DEF Walking, Built
<1>6. Live'
  <2>1. LiveIn(v) \subseteq Regs /\ \A i \in vectors[v] : LiveBefore(v)[i] \subseteq Regs
    BY <1>1, <1>3, LiveTyped DEF Walking
  <2> HIDE DEF v
  <2>2. liveIns' \in [Nodes -> SUBSET Regs]
    BY <1>1, <1>2, <1>3, <2>1 DEF Walking, Live
  <2>3. miLiveIns' \in [MIs -> SUBSET Regs]
    BY <1>1, <1>2, <2>1 DEF Walking, Live
  <2> QED
    BY <1>4, <2>2, <2>3 DEF Live
<1>7. Walking'
  <2>1. ToSet(walk)' = Nodes' /\ walk' \in Seq(Nodes') /\ walk' = walk
    BY <1>1, <1>4 DEF ToSet, Walking
  <2>2. next' \in 1..Len(walk)
    BY <1>2, <1>3
  <2>3. anyChange' \in BOOLEAN
    <3> HIDE DEF change, last
    <3> QED
      BY <1>2, Zenon
  <2>4. next' \in 1..Len(walk')
    BY <2>1, <2>2
  <2> QED
    BY <1>5, <1>6, <2>1, <2>3, <2>4 DEF Walking
<1>8. ~change => \A w \in Visited(next + 1) : Settled(w)'
  <2> SUFFICES ASSUME ~change, NEW w \in Visited(next + 1) PROVE Settled(w)'
    OBVIOUS
  <2>1. liveIns[v] = LiveIn(v) /\ anyChange = FALSE
    BY <1>3
  <2>2. PICK j \in 1..Len(walk) : walk[j] = w /\ j < next + 1
    BY DEF Visited
  <2>3. CASE j = next
    BY <1>1, <2>1, <2>2, <2>3, RecomputeSettles
  <2>4. CASE j # next
    <3>1. w \in Visited(next) /\ w \in Nodes
      BY <1>1, <1>3, <2>2, <2>4 DEF Visited, Walking
    <3>2. Settled(w)
      BY <1>1, <2>1, <3>1 DEF SettledSoFar
    <3>3. ASSUME NEW x, x = walk[next]
          PROVE  \A u \in Nodes : Settled(u) => Settled(u)'
      BY <1>1, <2>1, <3>3, RecomputeSettles
    <3> QED
      BY <3>1, <3>2, <3>3
  <2> QED
    BY <2>3, <2>4
<1>9. CASE last /\ ~change
  <2>1. \A w \in Nodes : \E j \in 1..Len(walk) : walk[j] = w
    BY <1>1 DEF Walking, ToSet
  <2>2. \A w \in Nodes : Settled(w)'
    <3> TAKE w \in Nodes
    <3>1. w \in Visited(next + 1)
      BY <1>3, <1>9, <2>1 DEF Visited
    <3> QED
      BY <1>8, <1>9, <3>1
  <2>3. Stable'
    BY <1>4, <1>5, <2>2 DEF Stable
  <2>4. phase' = "done"
    BY <1>2, <1>9
  <2> QED
    BY <1>1, <1>7, <2>3, <2>4 DEF IterationInv
<1>10. CASE ~(last /\ ~change)
  <2>1. phase' = "iterate"
    BY <1>1, <1>2, <1>10
  <2>2. SettledSoFar'
    <3> SUFFICES ASSUME anyChange' = FALSE, NEW w \in Visited(next)' PROVE Settled(w)'
      BY DEF SettledSoFar
    <3>1. CASE last
      <4>1. Visited(next)' = {}
        BY <1>2, <3>1 DEF Visited
      <4> QED
        BY <4>1
    <3>2. CASE ~last
      <4>1. ~change
        <5> HIDE DEF change, last
        <5> QED
          BY <1>2, <3>2
      <4>2. Visited(next)' = Visited(next + 1)
        BY <1>1, <1>2, <3>2 DEF Visited
      <4> QED
        BY <1>8, <4>1, <4>2
    <3> QED
      BY <3>1, <3>2
  <2> QED
    BY <1>1, <1>7, <2>1, <2>2 DEF IterationInv
<1> QED
  BY <1>9, <1>10

(* Nothing happens after the last pass.                                      *)
LEMMA RestIteration ==
    ASSUME IterationInv, UNCHANGED vars
    PROVE  IterationInv'
<1>1. UNCHANGED <<func, order, vectors, edges, liveIns, miLiveIns, walk, next, anyChange, phase>>
  BY DEF vars
<1>2. /\ Nodes' = Nodes /\ MIs' = MIs /\ Mbbs' = Mbbs /\ Links' = Links
      /\ \A v : Instructions(v)' = Instructions(v)
      /\ \A b : ScalarEdges(b)' = ScalarEdges(b)
  BY <1>1, SameGraph
<1>3. \A v : LiveBefore(v)' = LiveBefore(v) /\ LiveIn(v)' = LiveIn(v)
  BY <1>1, SameIteration
<1>4. Unbuilt' = Unbuilt
  BY <1>1 DEF Unbuilt
<1>5. Built' = Built
  BY <1>1, <1>2 DEF Built
<1>6. Live' = Live
  BY <1>1, <1>2 DEF Live
<1>7. Walking' = Walking
  BY <1>1, <1>2, <1>5, <1>6 DEF Walking, ToSet
<1>8. \A v : Settled(v)' = Settled(v)
  BY <1>1, <1>3 DEF Settled
<1>9. Stable' = Stable
  BY <1>2, <1>5, <1>8 DEF Stable
<1>10. SettledSoFar' = SettledSoFar
  BY <1>1, <1>8 DEF SettledSoFar, Visited
<1> QED
  BY <1>1, <1>4, <1>7, <1>9, <1>10 DEF IterationInv

(* IterationInv is inductive: it holds whatever the function, and in         *)
(* whatever order its blocks are walked.                                     *)
THEOREM IterationInvariant == Spec => []IterationInv
<1>1. IterationInv /\ [Next]_vars => IterationInv'
  BY GetVectorCFGIteration, RecomputeLiveInsIteration, RestIteration DEF Next, Rest
<1> QED
  BY <1>1, InitIteration, PTL DEF Spec

(* Type correctness; every instruction is in exactly one vector block,       *)
(* whatever the function (ScalarMBB, getVectorCFG).                          *)
THEOREM TypeCorrect == Spec => []TypeOK
<1>1. IterationInv => TypeOK
  <2> SUFFICES ASSUME IterationInv PROVE TypeOK
    OBVIOUS
  <2>1. func \in Functions /\ phase \in {"build", "iterate", "done"}
    BY DEF IterationInv
  <2>2. phase = "build" => edges = {}
    BY DEF IterationInv, Unbuilt
  <2>3. phase # "build" => Walking
    BY DEF IterationInv
  <2>4. Walking => edges \subseteq (DOMAIN vectors) \X (DOMAIN vectors)
    BY EdgesBetweenNodes DEF Walking, Built
  <2>5. Walking => /\ liveIns \in [DOMAIN vectors -> SUBSET Regs]
                   /\ miLiveIns \in [MIs -> SUBSET Regs]
    BY DEF Walking, Built, Live
  <2>6. Walking => next \in DOMAIN walk /\ \A k \in DOMAIN walk : walk[k] \in DOMAIN vectors
    BY DEF Walking, Built
  <2>7. Walking => \A m \in MIs : \E v \in DOMAIN vectors :
                      \A w \in DOMAIN vectors : m[1] = w[1] /\ m[2] \in vectors[w] <=> w = v
    <3> SUFFICES ASSUME Walking, NEW m \in MIs
                 PROVE  \E v \in Nodes :
                           \A w \in Nodes : m[1] = w[1] /\ m[2] \in vectors[w] <=> w = v
      BY DEF Walking, Built
    <3>1. m[1] \in Mbbs /\ m[2] \in 1..Size(m[1]) /\ m[2] \in 0..Size(m[1])
      BY <2>1, MIsAre, Shape
    <3> DEFINE v == Taken(m[1], m[2])
    <3>2. v \in Nodes /\ v[1] = m[1]
      BY <2>1, <3>1, NodesAre DEF Taken, EntryTaken
    <3>3. m[2] \in vectors[v]
      BY <3>1, Ranges DEF Walking
    <3>4. \A w \in Nodes : m[1] = w[1] /\ m[2] \in vectors[w] => w = v
      BY DEF Walking, Built, Instructions
    <3> HIDE DEF v
    <3> QED
      BY <3>2, <3>3, <3>4
  <2> QED
    BY <2>1, <2>2, <2>3, <2>4, <2>5, <2>6, <2>7, Zenon DEF TypeOK
<1> QED
  BY <1>1, IterationInvariant, PTL

(* getVectorCFG and recomputeLiveIns: in any function whose basic blocks     *)
(* keep off lanes apart (ExecSettled), a register that a lane that is on may *)
(* still read is live at every instruction but one that clears EXEC bits     *)
(* itself.                                                                   *)
THEOREM SoundIfSettled == Spec => []LivenessSoundIfSettled
<1>1. IterationInv => LivenessSoundIfSettled
  BY StableSound DEF IterationInv, LivenessSoundIfSettled
<1> QED
  BY <1>1, IterationInvariant, PTL

(* The registers that a lane may read, as far as the vector CFG tells, from  *)
(* place p of block b on, if it is on or off there.                          *)
GraphReads(r) == MayRead(r, [s \in Lanes |-> GraphNext(s)])
May(b, p, on) == {r \in Regs : <<<<b, p>>, on>> \in GraphReads(r)}

(* GraphReads is closed backwards over what does not write, and has nothing  *)
(* but the reads and what leads to them.                                     *)
LEMMA GraphReadsClosed ==
    ASSUME func \in Functions, NEW r
    PROVE  /\ Reads(r) \subseteq GraphReads(r)
           /\ \A s \in Lanes \ Writes(r) : \A t \in GraphNext(s) :
                 t \in GraphReads(r) => s \in GraphReads(r)
           /\ \A s \in GraphReads(r) :
                 \/ s \in Reads(r)
                 \/ s \in Lanes \ Writes(r) /\ \E t \in GraphNext(s) : t \in GraphReads(r)
<1> DEFINE Step == [s \in Lanes |-> GraphNext(s)]
           MR == MayRead(r, Step)
           S == {s \in MR : s \in Reads(r) \/ (s \in Lanes \ Writes(r) /\ Step[s] \cap MR # {})}
<1>1. IsFiniteSet(Lanes) /\ Cardinality(Lanes) \in Nat
  BY LanesFinite, FS_CardinalityType
<1>2. /\ Reads(r) \subseteq MR
      /\ \A s \in Lanes \ Writes(r) : Step[s] \cap MR # {} => s \in MR
  <2> HIDE DEF Step
  <2> QED
    BY <1>1, MayReadClosed
<1>3. MR \subseteq S
  <2>1. Reads(r) \subseteq S
    BY <1>2
  <2>2. \A s \in Lanes \ Writes(r) : Step[s] \cap S # {} => s \in S
    <3> HIDE DEF Step, MR
    <3> QED
      BY <1>2
  <2> HIDE DEF Step, S
  <2> QED
    BY <1>1, <2>1, <2>2, MayReadLeast
<1>4. GraphReads(r) = MR /\ \A s \in Lanes : Step[s] = GraphNext(s)
  BY DEF GraphReads
<1> HIDE DEF MR, Step
<1> QED
  BY <1>2, <1>3, <1>4

(* GraphNext by the place and the kind of the instruction there.             *)
LEMMA GraphNextIs ==
    ASSUME func \in Functions, NEW b \in Mbbs, NEW on \in BOOLEAN
    PROVE  /\ <<<<b, 1>>, on>> \in GraphNext(<<<<b, 0>>, on>>)
           /\ \A p \in 1..Size(b) : \A x \in BOOLEAN :
                 ~IsVector(MI(<<b, p>>)) \/ x = on \/ (MI(<<b, p>>).kind = "cmpx" /\ x = FALSE)
                 => <<<<b, p + 1>>, x>> \in GraphNext(<<<<b, p>>, on>>)
           /\ \A c \in Mbbs : <<b, c>> \in func.succ =>
                 /\ <<<<c, 0>>, on>> \in GraphNext(<<<<b, Size(b) + 1>>, on>>)
                 /\ <<<<b, Size(b) + 1>>, FALSE>> \in GraphNext(<<<<c, 0>>, FALSE>>)
<1>1. Size(b) \in Nat /\ func.succ \subseteq Mbbs \X Mbbs
  BY Shape
<1>2. \A p : <<b, p>> \in MIs <=> p \in 1..Size(b)
  BY PlacesAre
<1>3. \A p \in 0..Size(b) : After(<<b, p>>) = {<<b, p + 1>>}
  BY <1>1 DEF After, Size
<1>4. After(<<b, Size(b) + 1>>) = {<<e[2], 0>> : e \in {e \in func.succ : e[1] = b}}
  BY <1>1 DEF After, Size
<1>5. <<<<b, 1>>, on>> \in GraphNext(<<<<b, 0>>, on>>)
  <2>1. <<b, 0>> \notin MIs /\ After(<<b, 0>>) = {<<b, 1>>}
    BY <1>1, <1>2, <1>3
  <2> QED
    BY <2>1 DEF GraphNext, ActiveAfter
<1>6. ASSUME NEW p \in 1..Size(b), NEW x \in BOOLEAN,
             \/ ~IsVector(MI(<<b, p>>))
             \/ x = on
             \/ MI(<<b, p>>).kind = "cmpx" /\ x = FALSE
      PROVE  <<<<b, p + 1>>, x>> \in GraphNext(<<<<b, p>>, on>>)
  <2>1. <<b, p>> \in MIs /\ <<b, p + 1>> \in After(<<b, p>>)
    BY <1>1, <1>2, <1>3
  <2>2. IsVector(MI(<<b, p>>)) => x \in ActiveAfter(<<b, p>>, on)
    BY <1>6, <2>1 DEF ActiveAfter
  <2> QED
    BY <2>1, <2>2 DEF GraphNext
<1>7. ASSUME NEW c \in Mbbs, <<b, c>> \in func.succ
      PROVE  /\ <<<<c, 0>>, on>> \in GraphNext(<<<<b, Size(b) + 1>>, on>>)
             /\ <<<<b, Size(b) + 1>>, FALSE>> \in GraphNext(<<<<c, 0>>, FALSE>>)
  <2>1. <<b, Size(b) + 1>> \notin MIs
    BY <1>1, <1>2
  <2>2. <<c, 0>> \in After(<<b, Size(b) + 1>>)
    <3>1. <<b, c>> \in {e \in func.succ : e[1] = b} /\ <<b, c>>[2] = c
      BY <1>7
    <3> QED
      BY <1>4, <3>1
  <2>3. <<<<c, 0>>, on>> \in GraphNext(<<<<b, Size(b) + 1>>, on>>)
    BY <2>1, <2>2 DEF GraphNext, ActiveAfter
  <2>4. <<<<b, Size(b) + 1>>, FALSE>> \in GraphNext(<<<<c, 0>>, FALSE>>)
    <3>1. <<b, c>> \in {e \in func.succ : <<<<c, 0>>, FALSE>> = <<<<e[2], 0>>, FALSE>>}
      BY <1>7
    <3>2. \E e \in {e \in func.succ : <<<<c, 0>>, FALSE>> = <<<<e[2], 0>>, FALSE>>} :
             <<<<b, Size(b) + 1>>, FALSE>> = <<<<e[1], Len(func.blocks[e[1]]) + 1>>, FALSE>>
      BY <3>1 DEF Size
    <3> QED
      BY <3>2, Zenon DEF GraphNext
  <2> QED
    BY <2>3, <2>4
<1> QED
  BY <1>5, <1>6, <1>7

(* The registers that may be read before and after a place.                  *)
LEMMA MayBack ==
    ASSUME func \in Functions, NEW b \in Mbbs
    PROVE  /\ \A on \in BOOLEAN : May(b, 1, on) \subseteq May(b, 0, on)
           /\ \A p \in 1..Size(b) : IsVector(MI(<<b, p>>)) =>
                 May(b, p + 1, FALSE) \subseteq May(b, p, FALSE)
           /\ \A p \in 1..Size(b) : MI(<<b, p>>).kind = "cmpx" =>
                 May(b, p + 1, FALSE) \subseteq May(b, p, TRUE)
           /\ \A c \in Mbbs : <<b, c>> \in func.succ =>
                 /\ \A on \in BOOLEAN : May(c, 0, on) \subseteq May(b, Size(b) + 1, on)
                 /\ May(b, Size(b) + 1, FALSE) \subseteq May(c, 0, FALSE)
<1>1. Size(b) \in Nat /\ \A c \in Mbbs : Size(c) \in Nat
  BY Shape
<1>2. \A c \in Mbbs : \A p \in 0..(Size(c) + 1) : \A on \in BOOLEAN : <<<<c, p>>, on>> \in Lanes
  BY PlacesAre
<1>3. ASSUME NEW c \in Mbbs, NEW p \in 0..(Size(c) + 1), NEW on \in BOOLEAN,
             p \in 1..Size(c) => /\ IsVector(MI(<<c, p>>))
                                 /\ ~on \/ MI(<<c, p>>).kind = "cmpx",
             NEW d, NEW q, NEW x, <<<<d, q>>, x>> \in GraphNext(<<<<c, p>>, on>>)
      PROVE  May(d, q, x) \subseteq May(c, p, on)
  <2> SUFFICES ASSUME NEW r \in Regs, <<<<d, q>>, x>> \in GraphReads(r)
               PROVE  <<<<c, p>>, on>> \in GraphReads(r)
    BY DEF May
  <2>1. <<<<c, p>>, on>> \notin Writes(r)
    <3>1. <<c, p>> \in MIs => p \in 1..Size(c) /\ MI(<<c, p>>).kind \in Kinds
      BY PlacesAre, Instrs
    <3>2. p \in 1..Size(c) /\ MI(<<c, p>>).kind = "cmpx" => MI(<<c, p>>).defs = {}
      BY Instrs
    <3> QED
      BY <1>3, <3>1, <3>2 DEF Writes, Executes, IsVector
  <2> QED
    BY <1>2, <1>3, <2>1, GraphReadsClosed
<1>4. \A on \in BOOLEAN : May(b, 1, on) \subseteq May(b, 0, on)
  <2>1. 0 \in 0..(Size(b) + 1) /\ 0 \notin 1..Size(b)
    BY <1>1
  <2>2. \A on \in BOOLEAN : <<<<b, 1>>, on>> \in GraphNext(<<<<b, 0>>, on>>)
    BY GraphNextIs
  <2> QED
    BY <1>3, <2>1, <2>2
<1>5. ASSUME NEW p \in 1..Size(b), IsVector(MI(<<b, p>>))
      PROVE  May(b, p + 1, FALSE) \subseteq May(b, p, FALSE)
  <2>1. <<<<b, p + 1>>, FALSE>> \in GraphNext(<<<<b, p>>, FALSE>>)
    BY GraphNextIs
  <2>2. p \in 0..(Size(b) + 1)
    BY <1>1
  <2> QED
    BY <1>3, <1>5, <2>1, <2>2
<1>6. ASSUME NEW p \in 1..Size(b), MI(<<b, p>>).kind = "cmpx"
      PROVE  May(b, p + 1, FALSE) \subseteq May(b, p, TRUE)
  <2>1. <<<<b, p + 1>>, FALSE>> \in GraphNext(<<<<b, p>>, TRUE>>)
    BY <1>6, GraphNextIs
  <2>2. p \in 0..(Size(b) + 1)
    BY <1>1
  <2> QED
    BY <1>3, <1>6, <2>1, <2>2 DEF IsVector
<1>7. ASSUME NEW c \in Mbbs, <<b, c>> \in func.succ
      PROVE  /\ \A on \in BOOLEAN : May(c, 0, on) \subseteq May(b, Size(b) + 1, on)
             /\ May(b, Size(b) + 1, FALSE) \subseteq May(c, 0, FALSE)
  <2>1. Size(b) + 1 \in 0..(Size(b) + 1) /\ Size(b) + 1 \notin 1..Size(b)
        /\ 0 \in 0..(Size(c) + 1) /\ 0 \notin 1..Size(c)
    BY <1>1
  <2>2. /\ \A on \in BOOLEAN : <<<<c, 0>>, on>> \in GraphNext(<<<<b, Size(b) + 1>>, on>>)
        /\ <<<<b, Size(b) + 1>>, FALSE>> \in GraphNext(<<<<c, 0>>, FALSE>>)
    BY <1>7, GraphNextIs
  <2> QED
    BY <1>3, <2>1, <2>2
<1> QED
  BY <1>4, <1>5, <1>6, <1>7

(* Where all lanes go on together one that is off may read what others may.  *)
LEMMA MayTogether ==
    ASSUME func \in Functions, NEW b \in Mbbs, NEW p \in 1..Size(b), ~IsVector(MI(<<b, p>>))
    PROVE  May(b, p, TRUE) \subseteq May(b, p, FALSE)
<1> SUFFICES ASSUME NEW r \in Regs, <<<<b, p>>, TRUE>> \in GraphReads(r)
             PROVE  <<<<b, p>>, FALSE>> \in GraphReads(r)
  BY DEF May
<1>1. <<b, p>> \in MIs /\ p # 0 /\ Size(b) \in Nat
      /\ MI(<<b, p>>).kind \in {"lane", "scalar", "exec"}
      /\ (MI(<<b, p>>).kind # "lane" => MI(<<b, p>>).defs = {} /\ MI(<<b, p>>).uses = {})
  <2>1. MI(<<b, p>>).kind \in {"lane", "scalar", "exec"}
    BY Instrs DEF IsVector, Kinds
  <2>2. /\ MI(<<b, p>>).kind \in {"cmpx", "scalar", "exec"} => MI(<<b, p>>).defs = {}
        /\ MI(<<b, p>>).kind \in {"scalar", "exec"} => MI(<<b, p>>).uses = {}
        /\ <<b, p>> \in MIs
    BY Instrs
  <2>3. Size(b) \in Nat /\ p # 0
    BY Shape
  <2> QED
    BY <2>1, <2>2, <2>3
<1>2. /\ <<<<b, p>>, FALSE>> \in Lanes
      /\ <<<<b, p>>, TRUE>> \in Reads(r) => <<<<b, p>>, FALSE>> \in Reads(r)
      /\ <<<<b, p>>, FALSE>> \in Writes(r) => <<<<b, p>>, TRUE>> \in Writes(r)
  <2>1. <<<<b, p>>, FALSE>> \in Lanes /\ <<<<b, p>>, TRUE>> \in Lanes
    <3>1. p \in 0..(Size(b) + 1)
      BY <1>1
    <3> QED
      BY <3>1, PlacesAre
  <2> QED
    BY <1>1, <2>1 DEF Reads, Writes, Executes
<1>3. GraphNext(<<<<b, p>>, TRUE>>) \subseteq GraphNext(<<<<b, p>>, FALSE>>)
  <2>1. ~\E e \in func.succ : <<<<b, p>>, TRUE>> = <<<<e[2], 0>>, FALSE>>
    OBVIOUS
  <2> QED
    BY <1>1, <2>1 DEF GraphNext
<1> QED
  BY <1>2, <1>3, GraphReadsClosed

(* Without a join on the way the lanes that are off pass vector instructions *)
(* only.                                                                     *)
LEMMA VectorsOnly ==
    ASSUME func \in Functions, NEW b \in Mbbs, NEW k \in 1..(Size(b) + 1),
           NEW j \in 1..(Size(b) + 1), k <= j,
           \A n \in Joins(b) : ~(k <= n /\ n < j),
           k = 1 \/ k = j \/ IsVector(MI(<<b, k>>))
    PROVE  May(b, j, FALSE) \subseteq May(b, k, FALSE)
<1> DEFINE S == {n \in 0..j : n < k \/ n = j \/ IsVector(MI(<<b, n>>))}
           Held(n) == n < k \/ May(b, j, FALSE) \subseteq May(b, n, FALSE)
           T == {n \in 0..j : Held(n)}
<1>1. Size(b) \in Nat
  BY Shape
<1>2. 0..j \subseteq S
  <2>1. 0 \in S
    BY <1>1
  <2>2. ASSUME NEW n \in 1..j, n - 1 \in S
        PROVE  n \in S
    <3>1. CASE n < k \/ n = j
      BY <1>1, <3>1
    <3>2. CASE n >= k /\ n # j
      <4>1. n \in 1..Size(b) /\ n \notin Joins(b) /\ k # j
        BY <1>1, <3>2
      <4>2. CASE n = k
        <5>1. k = 1 => ~FormerScalar(b, k)
          BY DEF FormerScalar
        <5>2. k = 1 => IsVector(MI(<<b, k>>))
          BY <4>1, <4>2, <5>1, StartsAre
        <5> QED
          BY <1>1, <4>1, <4>2, <5>2
      <4>3. CASE n # k
        <5>1. n - 1 >= k /\ n - 1 # j /\ n > 1
          BY <1>1, <3>2, <4>1, <4>3
        <5>2. IsVector(MI(<<b, n - 1>>))
          BY <1>1, <2>2, <5>1
        <5>3. ~FormerScalar(b, n)
          BY <4>1, <5>2, StartsAre
        <5>4. IsVector(MI(<<b, n>>))
          BY <4>1, <5>3, StartsAre
        <5> QED
          BY <1>1, <5>4
      <4> QED
        BY <4>2, <4>3
    <3> QED
      BY <1>1, <3>1, <3>2
  <2> HIDE DEF S
  <2> QED
    BY <1>1, <2>1, <2>2, Upwards
<1>3. 0..j \subseteq T
  <2>1. Held(j)
    OBVIOUS
  <2>2. ASSUME NEW n \in 1..j, Held(n)
        PROVE  Held(n - 1)
    <3>1. CASE n - 1 >= k
      <4>1. n - 1 \in 1..Size(b) /\ n - 1 \in 0..j /\ n - 1 # j /\ ~(n - 1 < k) /\ ~(n < k)
            /\ (n - 1) + 1 = n
        BY <1>1, <3>1
      <4>2. IsVector(MI(<<b, n - 1>>))
        BY <1>2, <4>1
      <4>3. May(b, n, FALSE) \subseteq May(b, n - 1, FALSE)
        BY <4>1, <4>2, MayBack
      <4>4. May(b, j, FALSE) \subseteq May(b, n, FALSE)
        BY <2>2, <4>1
      <4> QED
        BY <4>3, <4>4
    <3>2. n - 1 >= k \/ n - 1 < k
      BY <1>1
    <3> QED
      BY <3>1, <3>2
  <2> HIDE DEF Held
  <2>3. j \in T /\ \A n \in 1..j : n \in T => n - 1 \in T
    BY <1>1, <2>1, <2>2
  <2> HIDE DEF T
  <2>4. j \in Nat
    BY <1>1
  <2> QED
    BY <2>3, <2>4, Downwards
<1>4. k \in 0..j /\ ~(k < k)
  BY <1>1
<1> QED
  BY <1>3, <1>4

(* The registers a lane that is on may read after instruction i.             *)
Beyond(b, i) ==
    May(b, i + 1, TRUE)
    \cup (IF i > 0 /\ (~IsVector(MI(<<b, i>>)) \/ MI(<<b, i>>).kind = "cmpx")
          THEN May(b, i + 1, FALSE) ELSE {})

(* StepBackward from what may be read after an instruction gives what may be *)
(* read before it.                                                           *)
LEMMA BeyondBack ==
    ASSUME func \in Functions, NEW b \in Mbbs, NEW i \in 1..Size(b),
           NEW live \in SUBSET Beyond(b, i)
    PROVE  StepBackward(live, MI(<<b, i>>)) \subseteq May(b, i, TRUE)
<1> SUFFICES ASSUME NEW r \in StepBackward(live, MI(<<b, i>>))
             PROVE  r \in May(b, i, TRUE)
  OBVIOUS
<1>1. /\ <<b, i>> \in MIs /\ MI(<<b, i>>).uses \subseteq Regs
      /\ <<<<b, i>>, TRUE>> \in Lanes /\ Size(b) \in Nat
  <2>1. Size(b) \in Nat
    BY Shape
  <2>2. i \in 0..(Size(b) + 1)
    BY <2>1
  <2> QED
    BY <2>1, <2>2, Instrs, PlacesAre
<1>2. CASE r \in MI(<<b, i>>).uses
  <2>1. <<<<b, i>>, TRUE>> \in Reads(r)
    BY <1>1, <1>2 DEF Reads, Executes
  <2> QED
    BY <1>1, <1>2, <2>1, GraphReadsClosed DEF May
<1>3. CASE r \in live /\ r \notin MI(<<b, i>>).defs
  <2>1. <<<<b, i>>, TRUE>> \notin Writes(r)
    BY <1>3 DEF Writes
  <2>2. \E on \in BOOLEAN : /\ r \in May(b, i + 1, on)
                            /\ <<<<b, i + 1>>, on>> \in GraphNext(<<<<b, i>>, TRUE>>)
    BY <1>3, GraphNextIs DEF Beyond
  <2> QED
    BY <1>1, <2>1, <2>2, GraphReadsClosed DEF May
<1> QED
  BY <1>2, <1>3 DEF StepBackward

(* The live-ins so far are read.                                             *)
PreciseIn(b) ==
    /\ liveIns[EntryTaken(b)] \subseteq May(b, 0, TRUE)
    /\ liveIns[EntryNotTaken(b)] \subseteq May(b, 0, FALSE)
    /\ liveIns[ExitTaken(b)] \subseteq May(b, Size(b) + 1, TRUE)
    /\ liveIns[ExitNotTaken(b)] \subseteq May(b, Size(b) + 1, FALSE)
    /\ \A i \in Starts(b) : liveIns[Taken(b, i)] \subseteq May(b, i, TRUE)
    /\ \A i \in 1..Size(b) : miLiveIns[<<b, i>>] \subseteq May(b, i, TRUE)
Precise == liveIns[FunctionExit] = {} /\ \A b \in Mbbs : PreciseIn(b)

(* Where hanging edges end, lanes that are off may read what is live there.  *)
LEMMA HangingMay ==
    ASSUME func \in Functions, Precise, NEW b \in Mbbs
    PROVE  /\ \A j \in Joins(b) : liveIns[Taken(b, j)] \subseteq May(b, j, FALSE)
           /\ liveIns[ExitNotTaken(b)] \subseteq May(b, Size(b) + 1, FALSE)
<1>1. \A j \in Joins(b) : j \in 1..Size(b) /\ ~IsVector(MI(<<b, j>>)) /\ j \in Starts(b)
  BY StartsAre DEF Starts
<1> QED
  BY <1>1, MayTogether DEF Precise, PreciseIn

(* Instruction i is the last of its vector block.                            *)
Ending(b, i) == i = Size(b) \/ i + 1 \in Starts(b)

(* A vector block has one last instruction.                                  *)
LEMMA OneEnding ==
    ASSUME func \in Functions, NEW b \in Mbbs, NEW i \in 0..Size(b), NEW k \in 0..Size(b),
           Ending(b, i), Ending(b, k), Taken(b, i) = Taken(b, k)
    PROVE  i = k
<1>1. Size(b) \in Nat
  BY Shape
<1>2. ASSUME NEW m \in 0..Size(b), NEW n \in 0..Size(b), m < n, Ending(b, m),
             Taken(b, m) = Taken(b, n)
      PROVE  FALSE
  <2>1. m + 1 \in Starts(b) /\ m < m + 1 /\ m + 1 <= n /\ m <= n
    BY <1>1, <1>2 DEF Ending
  <2> QED
    BY <1>2, <2>1, TakenSame
<1> QED
  BY <1>1, <1>2

(* The edges by where they start.                                            *)
Straight(b, v, w) ==
    \E i \in 0..Size(b) : /\ Ending(b, i) /\ v = Taken(b, i)
                          /\ w = IF i = Size(b) THEN ExitTaken(b) ELSE Taken(b, i + 1)
Rejoining(b, v, w) ==
    \E j \in 1..(Size(b) + 1) : /\ v \in Hanging(b, j)
                                /\ \/ j \in Joins(b) /\ w = Taken(b, j)
                                   \/ j = Size(b) + 1 /\ w = ExitNotTaken(b)
Leaving(b, v, w) ==
    \/ v \in {ExitTaken(b), ExitNotTaken(b)} /\ w = FunctionExit
    \/ \E c \in Mbbs : /\ <<b, c>> \in func.succ
                       /\ \/ v = ExitTaken(b) /\ w = EntryTaken(c)
                          \/ v = ExitNotTaken(b) /\ w = EntryNotTaken(c)
                          \/ v = EntryNotTaken(c) /\ w = ExitNotTaken(b)

(* Every edge of the graph is of one of these forms.                         *)
LEMMA EdgesAre ==
    ASSUME Built, NEW v, NEW w, <<v, w>> \in edges
    PROVE  \/ v = FunctionEntry
           \/ \E b \in Mbbs : Straight(b, v, w) \/ Rejoining(b, v, w) \/ Leaving(b, v, w)
<1>1. func \in Functions
  BY DEF Built
<1>2. CASE <<v, w>> \in Links
  <2>1. \/ v = FunctionEntry
        \/ \E b \in Mbbs : v \in {ExitTaken(b), ExitNotTaken(b)} /\ w = FunctionExit
        \/ \E d \in func.succ : \/ v = ExitTaken(d[1]) /\ w = EntryTaken(d[2])
                                \/ v = ExitNotTaken(d[1]) /\ w = EntryNotTaken(d[2])
                                \/ v = EntryNotTaken(d[2]) /\ w = ExitNotTaken(d[1])
    BY <1>2 DEF Links
  <2>2. \A d \in func.succ : d[1] \in Mbbs /\ d[2] \in Mbbs /\ <<d[1], d[2]>> \in func.succ
    <3>1. func.succ \subseteq Mbbs \X Mbbs
      BY <1>1, Shape
    <3> QED
      BY <3>1
  <2>3. ASSUME NEW d \in func.succ,
               \/ v = ExitTaken(d[1]) /\ w = EntryTaken(d[2])
               \/ v = ExitNotTaken(d[1]) /\ w = EntryNotTaken(d[2])
               \/ v = EntryNotTaken(d[2]) /\ w = ExitNotTaken(d[1])
        PROVE  Leaving(d[1], v, w) /\ d[1] \in Mbbs
    BY <2>2, <2>3, Zenon DEF Leaving
  <2> QED
    BY <2>1, <2>3 DEF Leaving
<1>3. CASE \E b \in Mbbs : <<v, w>> \in ScalarEdges(b)
  <2>1. PICK b \in Mbbs : <<v, w>> \in ScalarEdges(b)
    BY <1>3
  <2>2. Size(b) \in Nat /\ Starts(b) \subseteq 1..Size(b)
    BY <1>1, Shape, StartsAre
  <2>3. ASSUME NEW i \in Starts(b), v = Taken(b, i - 1), w = Taken(b, i)
        PROVE  Straight(b, v, w)
    <3>1. i - 1 \in 0..Size(b) /\ (i - 1) + 1 = i /\ i - 1 # Size(b)
      BY <2>2
    <3> QED
      BY <2>3, <3>1 DEF Straight, Ending
  <2>4. CASE \E i \in Splits(b) : <<v, w>> = <<Taken(b, i - 1), Taken(b, i)>>
    BY <2>3, <2>4 DEF Starts
  <2>5. CASE \E i \in Joins(b) : <<v, w>> \in JoinEdges(b, i)
    <3>1. PICK i \in Joins(b) : v \in Hanging(b, i) \cup {Taken(b, i - 1)} /\ w = Taken(b, i)
      BY <2>5 DEF JoinEdges
    <3>2. i \in Starts(b) /\ i \in 1..(Size(b) + 1)
      BY <2>2 DEF Starts
    <3> QED
      BY <2>3, <3>1, <3>2 DEF Rejoining
  <2>6. CASE <<v, w>> = <<Taken(b, Size(b)), ExitTaken(b)>>
    <3>1. Size(b) \in 0..Size(b)
      BY <2>2
    <3> QED
      BY <2>6, <3>1 DEF Straight, Ending
  <2>7. CASE <<v, w>> \in Hanging(b, Size(b) + 1) \X {ExitNotTaken(b)}
    <3>1. Size(b) + 1 \in 1..(Size(b) + 1)
      BY <2>2
    <3> QED
      BY <2>7, <3>1 DEF Rejoining
  <2> QED
    BY <2>1, <2>4, <2>5, <2>6, <2>7, ScalarEdgesAre
<1> QED
  BY <1>2, <1>3 DEF Built

(* Vector blocks are told apart by their names.                              *)
LEMMA Names ==
    ASSUME func \in Functions, NEW b \in Mbbs, NEW i
    PROVE  /\ \A c : /\ ExitTaken(b) = ExitTaken(c) => b = c
                     /\ ExitNotTaken(b) = ExitNotTaken(c) => b = c
                     /\ EntryNotTaken(b) = EntryNotTaken(c) => b = c
                     /\ \A j : Taken(b, i) = Taken(c, j) => b = c
                     /\ \A j : Taken(b, i) \notin {ExitTaken(c), ExitNotTaken(c), EntryNotTaken(c)}
                     /\ ExitTaken(b) \notin {ExitNotTaken(c), EntryNotTaken(c)}
                     /\ ExitNotTaken(b) # EntryNotTaken(c)
           /\ FunctionEntry \notin {Taken(b, i), ExitTaken(b), ExitNotTaken(b), EntryNotTaken(b)}
           /\ FunctionExit \notin {Taken(b, i), ExitTaken(b), ExitNotTaken(b), EntryNotTaken(b)}
           /\ FunctionExit # FunctionEntry
  BY DEF Taken, EntryTaken, EntryNotTaken, ExitTaken, ExitNotTaken, FunctionEntry, FunctionExit

(* Live-outs come over an edge.                                              *)
LEMMA Outs ==
    ASSUME Built, NEW v, NEW r \in LiveOuts(v)
    PROVE  \E w : <<v, w>> \in edges /\ r \in liveIns[w]
<1>1. PICK e \in edges : e[1] = v /\ r \in liveIns[e[2]]
  BY DEF LiveOuts
<1>2. e = <<v, e[2]>>
  BY <1>1, EdgesBetweenNodes
<1> QED
  BY <1>1, <1>2

(* What is live where a hanging edge ends may be read by lanes that are off  *)
(* there.                                                                    *)
LEMMA RejoiningMay ==
    ASSUME func \in Functions, Precise, NEW b \in Mbbs, NEW v, NEW w, Rejoining(b, v, w)
    PROVE  \E j \in 1..(Size(b) + 1) :
              v \in Hanging(b, j) /\ liveIns[w] \subseteq May(b, j, FALSE)
  BY HangingMay DEF Rejoining

(* What follows the blocks without instructions.                             *)
LEMMA OutsOfExits ==
    ASSUME Built, Precise, NEW b \in Mbbs
    PROVE  /\ LiveOuts(ExitTaken(b)) \subseteq May(b, Size(b) + 1, TRUE)
           /\ LiveOuts(ExitNotTaken(b)) \subseteq May(b, Size(b) + 1, FALSE)
           /\ LiveOuts(FunctionExit) = {}
<1>1. func \in Functions /\ FunctionEntry # FunctionExit
  BY DEF Built, FunctionEntry, FunctionExit
<1>2. ASSUME NEW v, NEW w, v \in {ExitTaken(b), ExitNotTaken(b), FunctionExit},
             <<v, w>> \in edges
      PROVE  Leaving(b, v, w) /\ v # FunctionExit
  <2>1. v # FunctionEntry
    BY <1>1, <1>2, Names
  <2>2. PICK c \in Mbbs : Straight(c, v, w) \/ Rejoining(c, v, w) \/ Leaving(c, v, w)
    BY <1>2, <2>1, EdgesAre
  <2>3. \A i : v # Taken(c, i) /\ v # EntryNotTaken(c)
    BY <1>1, <1>2, Names
  <2>4. ~Straight(c, v, w) /\ ~Rejoining(c, v, w)
    <3>1. ~Straight(c, v, w)
      BY <2>3 DEF Straight
    <3>2. \A j \in 1..(Size(c) + 1) : v \notin Hanging(c, j)
      BY <1>1, <2>3, HangingAre
    <3> QED
      BY <3>1, <3>2 DEF Rejoining
  <2>5. \A d \in Mbbs : v # EntryNotTaken(d)
    BY <1>1, <1>2, Names
  <2>6. v # FunctionExit
    BY <1>1, <2>2, <2>4, <2>5, Names DEF Leaving
  <2>7. v \in {ExitTaken(c), ExitNotTaken(c)}
    BY <2>2, <2>4, <2>5 DEF Leaving
  <2>8. b = c
    BY <1>1, <1>2, <2>6, <2>7, Names
  <2> QED
    BY <2>2, <2>4, <2>6, <2>8
<1>3. /\ liveIns[FunctionExit] = {}
      /\ \A c \in Mbbs : /\ liveIns[EntryTaken(c)] \subseteq May(c, 0, TRUE)
                         /\ liveIns[EntryNotTaken(c)] \subseteq May(c, 0, FALSE)
  BY DEF Precise, PreciseIn
<1>4. \A c \in Mbbs : <<b, c>> \in func.succ =>
         /\ May(c, 0, TRUE) \subseteq May(b, Size(b) + 1, TRUE)
         /\ May(c, 0, FALSE) \subseteq May(b, Size(b) + 1, FALSE)
  BY <1>1, MayBack
<1>5. \A c \in Mbbs : /\ ExitTaken(b) \notin {ExitNotTaken(b), EntryNotTaken(c)}
                      /\ ExitNotTaken(b) # EntryNotTaken(c)
  BY <1>1, Names
<1>6. ASSUME NEW w, <<ExitTaken(b), w>> \in edges
      PROVE  liveIns[w] \subseteq May(b, Size(b) + 1, TRUE)
  <2>1. Leaving(b, ExitTaken(b), w)
    BY <1>2, <1>6
  <2>2. w = FunctionExit \/ \E c \in Mbbs : <<b, c>> \in func.succ /\ w = EntryTaken(c)
    BY <1>5, <2>1 DEF Leaving
  <2> QED
    BY <1>3, <1>4, <2>2
<1>7. ASSUME NEW w, <<ExitNotTaken(b), w>> \in edges
      PROVE  liveIns[w] \subseteq May(b, Size(b) + 1, FALSE)
  <2>1. Leaving(b, ExitNotTaken(b), w)
    BY <1>2, <1>7
  <2>2. w = FunctionExit \/ \E c \in Mbbs : <<b, c>> \in func.succ /\ w = EntryNotTaken(c)
    BY <1>5, <2>1 DEF Leaving
  <2> QED
    BY <1>3, <1>4, <2>2
<1>8. \A w : <<FunctionExit, w>> \notin edges
  BY <1>2
<1>9. /\ LiveOuts(ExitTaken(b)) \subseteq May(b, Size(b) + 1, TRUE)
      /\ LiveOuts(ExitNotTaken(b)) \subseteq May(b, Size(b) + 1, FALSE)
  BY <1>6, <1>7, Outs
<1>10. LiveOuts(FunctionExit) = {}
  BY <1>8, Outs
<1> QED
  BY <1>9, <1>10

(* What follows the lanes that are off when a block is entered.              *)
LEMMA OutsOfEntry ==
    ASSUME Built, Precise, NEW b \in Mbbs
    PROVE  LiveOuts(EntryNotTaken(b)) \subseteq May(b, 0, FALSE)
<1> DEFINE v == EntryNotTaken(b)
<1> SUFFICES ASSUME NEW w, <<v, w>> \in edges
             PROVE  liveIns[w] \subseteq May(b, 0, FALSE)
  BY Outs
<1>1. func \in Functions /\ Size(b) \in Nat
  BY Shape DEF Built
<1>2. PICK c \in Mbbs : Straight(c, v, w) \/ Rejoining(c, v, w) \/ Leaving(c, v, w)
  BY <1>1, EdgesAre, Names
<1>3. ~Straight(c, v, w)
  BY <1>1, Names DEF Straight
<1>4. CASE Rejoining(c, v, w)
  <2>1. PICK j \in 1..(Size(c) + 1) : v \in Hanging(c, j) /\ liveIns[w] \subseteq May(c, j, FALSE)
    BY <1>1, <1>4, RejoiningMay
  <2>2. v = EntryNotTaken(c) /\ \A k \in Joins(c) : ~(1 <= k /\ k < j)
    BY <1>1, <2>1, HangingAre, Names
  <2>3. b = c
    BY <1>1, <2>2, Names
  <2>4. 1 \in 1..(Size(b) + 1) /\ 1 <= j
    BY <1>1, <2>3
  <2>5. May(b, j, FALSE) \subseteq May(b, 1, FALSE)
    BY <1>1, <2>2, <2>3, <2>4, VectorsOnly
  <2> QED
    BY <1>1, <2>1, <2>3, <2>5, MayBack
<1>5. CASE Leaving(c, v, w)
  <2>1. v \notin {ExitTaken(c), ExitNotTaken(c)}
    BY <1>1, Names
  <2>2. PICK d \in Mbbs : <<c, d>> \in func.succ /\ v = EntryNotTaken(d) /\ w = ExitNotTaken(c)
    BY <1>5, <2>1 DEF Leaving
  <2>3. d = b
    BY <1>1, <2>2, Names
  <2>4. liveIns[w] \subseteq May(c, Size(c) + 1, FALSE)
    BY <2>2 DEF Precise, PreciseIn
  <2>5. May(c, Size(c) + 1, FALSE) \subseteq May(b, 0, FALSE)
    BY <1>1, <2>2, <2>3, MayBack
  <2> QED
    BY <2>4, <2>5
<1> QED
  BY <1>2, <1>3, <1>4, <1>5

(* What follows the last instruction of a vector block.                      *)
LEMMA OutsOfTaken ==
    ASSUME Built, Precise, NEW b \in Mbbs, NEW i \in 0..Size(b), Ending(b, i)
    PROVE  LiveOuts(Taken(b, i)) \subseteq Beyond(b, i)
<1> DEFINE v == Taken(b, i)
<1> SUFFICES ASSUME NEW w, <<v, w>> \in edges
             PROVE  liveIns[w] \subseteq Beyond(b, i)
  BY Outs
<1>1. func \in Functions /\ Size(b) \in Nat
  BY Shape DEF Built
<1>2. /\ v # FunctionEntry
      /\ \A c \in Mbbs : v \notin {ExitTaken(c), ExitNotTaken(c), EntryNotTaken(c)}
      /\ \A c \in Mbbs : \A j : v = Taken(c, j) => c = b
  <2>1. v # FunctionEntry /\ \A c \in Mbbs : v \notin {ExitTaken(c), ExitNotTaken(c), EntryNotTaken(c)}
    BY <1>1, Names
  <2>2. \A c \in Mbbs : \A j : v = Taken(c, j) => c = b
    BY <1>1, Names
  <2> QED
    BY <2>1, <2>2
<1>3. PICK c \in Mbbs : Straight(c, v, w) \/ Rejoining(c, v, w) \/ Leaving(c, v, w)
  BY <1>2, EdgesAre
<1>4. ~Leaving(c, v, w)
  BY <1>2 DEF Leaving
<1>5. CASE Straight(c, v, w)
  <2>1. PICK k \in 0..Size(c) : /\ Ending(c, k) /\ v = Taken(c, k)
                                /\ w = IF k = Size(c) THEN ExitTaken(c) ELSE Taken(c, k + 1)
    BY <1>5 DEF Straight
  <2>2. c = b /\ k = i
    <3>1. c = b
      BY <1>2, <2>1
    <3> QED
      BY <1>1, <2>1, <3>1, OneEnding
  <2>3. liveIns[w] \subseteq May(b, i + 1, TRUE)
    <3>1. CASE i = Size(b)
      BY <2>1, <2>2, <3>1 DEF Precise, PreciseIn
    <3>2. CASE i # Size(b)
      BY <2>1, <2>2, <3>2 DEF Precise, PreciseIn, Ending
    <3> QED
      BY <3>1, <3>2
  <2> QED
    BY <2>3 DEF Beyond
<1>6. CASE Rejoining(c, v, w)
  <2>1. PICK j \in 1..(Size(c) + 1) : v \in Hanging(c, j) /\ liveIns[w] \subseteq May(c, j, FALSE)
    BY <1>1, <1>6, RejoiningMay
  <2>2. PICK k \in Splits(c) : /\ v = Taken(c, k - 1) /\ k < j /\ k \in 1..Size(c)
                               /\ \A n \in Joins(c) : ~(k <= n /\ n < j)
    BY <1>1, <1>2, <2>1, HangingAre
  <2>3. c = b
    BY <1>2, <2>2
  <2>4. k = i + 1
    <3>1. k - 1 \in 0..Size(b) /\ (k - 1) + 1 = k /\ k \in Starts(b)
      BY <1>1, <2>2, <2>3 DEF Starts
    <3>2. k - 1 = i
      BY <1>1, <2>2, <2>3, <3>1, OneEnding DEF Ending
    <3> QED
      BY <3>1, <3>2
  <2>5. k \in 1..Size(b) /\ k \in 1..(Size(b) + 1) /\ k + 1 \in 1..(Size(b) + 1) /\ i = k - 1
        /\ j \in 1..(Size(b) + 1) /\ k + 1 <= j /\ k <= j /\ (i > 0 <=> k > 1)
    BY <1>1, <2>1, <2>2, <2>3, <2>4
  <2>6. IsVector(MI(<<b, k>>)) /\ (MI(<<b, k>>).kind = "cmpx" \/ FormerScalar(b, k))
        /\ (FormerScalar(b, k) <=> k > 1 /\ ~IsVector(MI(<<b, k - 1>>)))
    BY <1>1, <2>2, <2>3, StartsAre
  <2>7. CASE FormerScalar(b, k)
    <3>1. May(b, j, FALSE) \subseteq May(b, k, FALSE)
      BY <1>1, <2>2, <2>3, <2>5, <2>6, VectorsOnly
    <3> QED
      BY <2>1, <2>3, <2>4, <2>5, <2>6, <2>7, <3>1 DEF Beyond
  <2>8. CASE MI(<<b, k>>).kind = "cmpx"
    <3>1. May(b, j, FALSE) \subseteq May(b, k + 1, FALSE)
      <4>1. \A n \in Joins(b) : ~(k + 1 <= n /\ n < j)
        <5>1. \A n \in Joins(b) : n \in 1..Size(b)
          BY <1>1, StartsAre DEF Starts
        <5> QED
          BY <1>1, <2>2, <2>3, <2>5, <5>1
      <4>2. k + 1 = j \/ IsVector(MI(<<b, k + 1>>))
        <5> SUFFICES ASSUME k + 1 # j, ~IsVector(MI(<<b, k + 1>>)) PROVE FALSE
          OBVIOUS
        <5>1. k + 1 \in 1..Size(b) /\ (k + 1) - 1 = k /\ k + 1 < j
          BY <1>1, <2>5
        <5>2. k + 1 \in Joins(b)
          BY <1>1, <2>6, <5>1, StartsAre
        <5> QED
          BY <2>5, <4>1, <5>1, <5>2
      <4> QED
        BY <1>1, <2>5, <4>1, <4>2, VectorsOnly
    <3>2. May(b, k + 1, FALSE) \subseteq May(b, k, TRUE)
      BY <1>1, <2>5, <2>8, MayBack
    <3> QED
      BY <2>1, <2>3, <2>4, <3>1, <3>2 DEF Beyond
  <2> QED
    BY <2>6, <2>7, <2>8
<1> QED
  BY <1>3, <1>4, <1>5, <1>6

(* What recomputeLiveIns computes is read as well.                           *)
LEMMA ComputedBefore ==
    ASSUME Built, Precise, NEW b \in Mbbs
    PROVE  \A i \in 1..Size(b) : BeforeInstr(b, i) \subseteq May(b, i, TRUE)
<1>1. func \in Functions /\ Size(b) \in Nat
  BY Shape DEF Built
<1> DEFINE Fits(i) == i \in 1..Size(b) => BeforeInstr(b, i) \subseteq May(b, i, TRUE)
           S == {i \in 0..(Size(b) + 1) : Fits(i)}
<1>2. Fits(Size(b) + 1)
  BY <1>1
<1>3. ASSUME NEW n \in 1..(Size(b) + 1), Fits(n)
      PROVE  Fits(n - 1)
  <2> SUFFICES ASSUME n - 1 \in 1..Size(b)
               PROVE  BeforeInstr(b, n - 1) \subseteq May(b, n - 1, TRUE)
    OBVIOUS
  <2> DEFINE i == n - 1
             ahead == IF i < Size(b) /\ i + 1 \notin Starts(b) THEN BeforeInstr(b, i + 1)
                      ELSE LiveOuts(Taken(b, i))
  <2>1. i \in 1..Size(b) /\ i \in 0..Size(b) /\ i + 1 = n
    BY <1>1
  <2>2. BeforeInstr(b, i) = StepBackward(ahead, MI(<<b, i>>))
    BY <2>1, LiveBeforeAt
  <2>3. CASE i < Size(b) /\ i + 1 \notin Starts(b)
    <3>1. BeforeInstr(b, i + 1) \subseteq May(b, i + 1, TRUE)
      <4>1. n \in 1..Size(b)
        BY <1>1, <2>1, <2>3
      <4> QED
        BY <1>3, <2>1, <4>1
    <3>2. ahead \subseteq Beyond(b, i)
      BY <2>3, <3>1 DEF Beyond
    <3> HIDE DEF ahead, i
    <3> QED
      BY <1>1, <2>1, <2>2, <3>2, BeyondBack DEF i
  <2>4. CASE ~(i < Size(b) /\ i + 1 \notin Starts(b))
    <3>1. Ending(b, i)
      BY <1>1, <2>1, <2>4 DEF Ending
    <3>2. ahead \subseteq Beyond(b, i)
      BY <2>1, <2>4, <3>1, OutsOfTaken
    <3> HIDE DEF ahead, i
    <3> QED
      BY <1>1, <2>1, <2>2, <3>2, BeyondBack DEF i
  <2> QED
    BY <2>3, <2>4
<1> HIDE DEF Fits
<1>4. Size(b) + 1 \in S /\ \A n \in 1..(Size(b) + 1) : n \in S => n - 1 \in S
  BY <1>1, <1>2, <1>3
<1> HIDE DEF S
<1>5. 0..(Size(b) + 1) \subseteq S
  <2>1. Size(b) + 1 \in Nat
    BY <1>1
  <2> QED
    BY <1>4, <2>1, Downwards
<1>6. \A i \in 1..Size(b) : i \in 0..(Size(b) + 1)
  BY <1>1
<1> QED
  BY <1>5, <1>6 DEF S, Fits

(* The live-ins computed for any vector block may be read there.             *)
LEMMA ComputedIn ==
    ASSUME Built, Precise, NEW b \in Mbbs
    PROVE  /\ LiveIn(EntryTaken(b)) \subseteq May(b, 0, TRUE)
           /\ LiveIn(EntryNotTaken(b)) \subseteq May(b, 0, FALSE)
           /\ LiveIn(ExitTaken(b)) \subseteq May(b, Size(b) + 1, TRUE)
           /\ LiveIn(ExitNotTaken(b)) \subseteq May(b, Size(b) + 1, FALSE)
           /\ \A i \in Starts(b) : LiveIn(Taken(b, i)) \subseteq May(b, i, TRUE)
           /\ LiveIn(FunctionExit) = {}
<1>1. func \in Functions /\ Size(b) \in Nat /\ Taken(b, 0) = EntryTaken(b)
  BY Shape, NodesAre DEF Built
<1>2. LiveIn(FunctionExit) = {}
  BY OutsOfExits, Ranges DEF LiveIn
<1>3. /\ LiveIn(EntryNotTaken(b)) \subseteq May(b, 0, FALSE)
      /\ LiveIn(ExitTaken(b)) \subseteq May(b, Size(b) + 1, TRUE)
      /\ LiveIn(ExitNotTaken(b)) \subseteq May(b, Size(b) + 1, FALSE)
  BY LiveInEmpty, OutsOfEntry, OutsOfExits
<1>4. \A i \in Starts(b) : LiveIn(Taken(b, i)) \subseteq May(b, i, TRUE)
  <2> TAKE i \in Starts(b)
  <2>1. i \in 1..Size(b)
    BY <1>1, StartsAre
  <2> QED
    BY <2>1, LiveInAt, ComputedBefore
<1>5. LiveIn(EntryTaken(b)) \subseteq May(b, 0, TRUE)
  <2>1. May(b, 1, TRUE) \subseteq May(b, 0, TRUE)
    BY <1>1, MayBack
  <2>2. CASE Size(b) = 0 \/ 1 \in Starts(b)
    <3>1. Ending(b, 0) /\ 0 \in 0..Size(b)
      BY <1>1, <2>2 DEF Ending
    <3>2. LiveOuts(Taken(b, 0)) \subseteq Beyond(b, 0)
      BY <3>1, OutsOfTaken
    <3>3. Beyond(b, 0) = May(b, 1, TRUE)
      BY DEF Beyond
    <3> QED
      BY <1>1, <2>1, <2>2, <3>2, <3>3, LiveInEmpty
  <2>3. CASE Size(b) # 0 /\ 1 \notin Starts(b)
    <3>1. 1 \in 1..Size(b) /\ 0 \in 0..Size(b) /\ 1 \in 0..Size(b)
      BY <1>1, <2>3
    <3>2. Taken(b, 0) = Taken(b, 1)
      <4>1. \A k \in Starts(b) : ~(0 < k /\ k <= 1)
        BY <1>1, <2>3, StartsAre
      <4> QED
        BY <1>1, <3>1, <4>1, TakenSame
    <3>3. LiveIn(Taken(b, 1)) = BeforeInstr(b, 1)
      BY <3>1, LiveInAt
    <3> QED
      BY <1>1, <2>1, <3>1, <3>2, <3>3, ComputedBefore
  <2> QED
    BY <2>2, <2>3
<1> QED
  BY <1>2, <1>3, <1>4, <1>5

(* What may be read depends on the function only.                            *)
LEMMA SameMay ==
    ASSUME func' = func
    PROVE  /\ \A b, p : May(b, p, TRUE)' = May(b, p, TRUE) /\ May(b, p, FALSE)' = May(b, p, FALSE)
           /\ \A b : Size(b)' = Size(b) /\ Starts(b)' = Starts(b)
           /\ \A b, i : Taken(b, i)' = Taken(b, i)
<1>1. \A b : Size(b)' = Size(b)
  BY DEF Size
<1>2. \A b : Splits(b)' = Splits(b) /\ Joins(b)' = Joins(b)
  BY DEF Splits, Joins, FormerScalar
<1>3. \A b : Starts(b)' = Starts(b)
  BY <1>2 DEF Starts
<1>4. \A b, i : Taken(b, i)' = Taken(b, i)
  BY <1>2 DEF Taken, Made
<1>5. Lanes' = Lanes /\ MIs' = MIs /\ \A m : MI(m)' = MI(m)
  BY SameGraph DEF MI
<1>6. \A s : GraphNext(s)' = GraphNext(s)
  <2>1. \A p : After(p)' = After(p)
    BY DEF After
  <2>2. \A p, active : ActiveAfter(p, active)' = ActiveAfter(p, active)
    BY <1>5 DEF ActiveAfter
  <2> QED
    BY <1>5, <2>1, <2>2 DEF GraphNext
<1>7. \A r : Reads(r)' = Reads(r) /\ Writes(r)' = Writes(r)
  BY <1>5 DEF Reads, Writes, Executes
<1>8. \A r : GraphReads(r)' = GraphReads(r)
  <2>1. \A r, Step : MayRead(r, Step)' = MayRead(r, Step)
    BY <1>5, <1>7 DEF MayRead
  <2>2. [s \in Lanes |-> GraphNext(s)]' = [s \in Lanes |-> GraphNext(s)]
    BY <1>5, <1>6
  <2> QED
    BY <2>1, <2>2 DEF GraphReads
<1>9. \A b, p : May(b, p, TRUE)' = May(b, p, TRUE) /\ May(b, p, FALSE)' = May(b, p, FALSE)
  BY <1>8 DEF May
<1> QED
  BY <1>1, <1>3, <1>4, <1>9

(* No step makes a register live that is not read.                           *)
LEMMA PreciseSteps ==
    ASSUME IterationInv, IterationInv', Next, phase # "build" => Precise
    PROVE  phase' # "build" => Precise'
<1>1. CASE GetVectorCFG
  <2>1. Walking' /\ func' = func /\ miLiveIns' = [m \in MIs |-> {}]
    BY <1>1 DEF GetVectorCFG, IterationInv
  <2>2. Built' /\ \A v \in DOMAIN liveIns' : liveIns'[v] = {}
    BY <1>1, <2>1 DEF GetVectorCFG, Walking
  <2>3. func \in Functions /\ Mbbs' = Mbbs /\ Nodes' = Nodes
    BY <2>1, SameGraph DEF IterationInv
  <2>4. DOMAIN liveIns' = Nodes
    BY <2>1, <2>3 DEF Walking, Live
  <2>5. FunctionExit \in Nodes
    BY DEF Nodes
  <2>6. ASSUME NEW b \in Mbbs
        PROVE  PreciseIn(b)'
    <3>1. \A i \in 1..Size(b) : miLiveIns'[<<b, i>>] = {}
      BY <2>1, <2>3, Instrs
    <3>2. \A i \in Starts(b) : liveIns'[Taken(b, i)] = {}
      <4>1. \A i \in Starts(b) : i \in 0..Size(b)
        BY <2>3, StartsAre, Shape
      <4> QED
        BY <2>2, <2>3, <2>4, <4>1, NodesAre
    <3>3. /\ liveIns'[EntryTaken(b)] = {} /\ liveIns'[EntryNotTaken(b)] = {}
          /\ liveIns'[ExitTaken(b)] = {} /\ liveIns'[ExitNotTaken(b)] = {}
      BY <2>2, <2>3, <2>4, NodesAre
    <3> QED
      BY <2>1, <3>1, <3>2, <3>3, SameMay DEF PreciseIn
  <2> QED
    BY <2>2, <2>3, <2>4, <2>5, <2>6 DEF Precise
<1>2. CASE RecomputeLiveIns
  <2> DEFINE v == walk[next]
  <2>1. Walking /\ Precise /\ func \in Functions /\ func' = func
    BY <1>2 DEF RecomputeLiveIns, IterationInv
  <2>2. /\ liveIns' = [liveIns EXCEPT ![v] = LiveIn(v)]
        /\ miLiveIns' = [m \in MIs |-> IF m[1] = v[1] /\ m[2] \in vectors[v]
                                       THEN LiveBefore(v)[m[2]] ELSE miLiveIns[m]]
    BY <1>2 DEF RecomputeLiveIns, WithLiveIns
  <2>3. v \in Nodes /\ DOMAIN liveIns = Nodes /\ Mbbs' = Mbbs /\ FunctionExit \in Nodes
    BY <2>1, SameGraph DEF Walking, Live, Nodes
  <2> HIDE DEF v
  <2>4. \A u \in Nodes : liveIns'[u] = IF u = v THEN LiveIn(u) ELSE liveIns[u]
    BY <2>2, <2>3
  <2>5. ASSUME NEW b \in Mbbs
        PROVE  PreciseIn(b)'
    <3>1. \A i \in Starts(b) : i \in 0..Size(b)
      BY <2>1, StartsAre, Shape
    <3>2. /\ EntryTaken(b) \in Nodes /\ EntryNotTaken(b) \in Nodes /\ ExitTaken(b) \in Nodes
          /\ ExitNotTaken(b) \in Nodes /\ \A i \in Starts(b) : Taken(b, i) \in Nodes
      BY <2>1, <3>1, NodesAre
    <3>3. PreciseIn(b)
      BY <2>1 DEF Precise
    <3>4. /\ LiveIn(EntryTaken(b)) \subseteq May(b, 0, TRUE)
          /\ LiveIn(EntryNotTaken(b)) \subseteq May(b, 0, FALSE)
          /\ LiveIn(ExitTaken(b)) \subseteq May(b, Size(b) + 1, TRUE)
          /\ LiveIn(ExitNotTaken(b)) \subseteq May(b, Size(b) + 1, FALSE)
          /\ \A i \in Starts(b) : LiveIn(Taken(b, i)) \subseteq May(b, i, TRUE)
      BY <2>1, ComputedIn DEF Walking
    <3>5. \A i \in 1..Size(b) : miLiveIns'[<<b, i>>] \subseteq May(b, i, TRUE)
      <4> TAKE i \in 1..Size(b)
      <4>1. <<b, i>> \in MIs /\ miLiveIns[<<b, i>>] \subseteq May(b, i, TRUE)
        BY <2>1, <3>3, Instrs DEF PreciseIn
      <4>2. CASE b = v[1] /\ i \in vectors[v]
        <5>1. v = Taken(b, i)
          BY <2>1, <2>3, <4>2 DEF Walking, Built, Instructions
        <5>2. miLiveIns'[<<b, i>>] = BeforeInstr(b, i)
          BY <2>2, <4>1, <4>2, <5>1 DEF BeforeInstr
        <5> QED
          BY <2>1, <5>2, ComputedBefore DEF Walking
      <4>3. CASE ~(b = v[1] /\ i \in vectors[v])
        BY <2>2, <4>1, <4>3
      <4> QED
        BY <4>2, <4>3
    <3>6. /\ liveIns'[EntryTaken(b)] \subseteq May(b, 0, TRUE)
          /\ liveIns'[EntryNotTaken(b)] \subseteq May(b, 0, FALSE)
          /\ liveIns'[ExitTaken(b)] \subseteq May(b, Size(b) + 1, TRUE)
          /\ liveIns'[ExitNotTaken(b)] \subseteq May(b, Size(b) + 1, FALSE)
          /\ \A i \in Starts(b) : liveIns'[Taken(b, i)] \subseteq May(b, i, TRUE)
      BY <2>4, <3>2, <3>3, <3>4 DEF PreciseIn
    <3>7. /\ Size(b)' = Size(b) /\ Starts(b)' = Starts(b)
          /\ \A i : Taken(b, i)' = Taken(b, i)
          /\ \A p : May(b, p, TRUE)' = May(b, p, TRUE) /\ May(b, p, FALSE)' = May(b, p, FALSE)
      BY <2>1, SameMay
    <3> QED
      BY <3>5, <3>6, <3>7 DEF PreciseIn
  <2>6. liveIns'[FunctionExit] = {}
    <3>1. \E b : b \in Mbbs
      BY <2>1, Shape
    <3>2. LiveIn(FunctionExit) = {} /\ liveIns[FunctionExit] = {}
      BY <2>1, <3>1, ComputedIn DEF Walking, Precise
    <3> QED
      BY <2>3, <2>4, <3>2
  <2> QED
    BY <2>3, <2>5, <2>6 DEF Precise
<1>3. CASE Rest
  <2>1. UNCHANGED <<func, liveIns, miLiveIns, phase>>
    BY <1>3 DEF Rest, vars
  <2>2. ASSUME NEW b, PreciseIn(b)
        PROVE  PreciseIn(b)'
    BY <2>1, <2>2, SameMay DEF PreciseIn
  <2>3. Mbbs' = Mbbs
    BY <2>1, SameGraph
  <2> QED
    BY <2>1, <2>2, <2>3 DEF Precise
<1> QED
  BY <1>1, <1>2, <1>3 DEF Next

(* Live-ins that are read at every block are read at every instruction.      *)
LEMMA PreciseAtInstr ==
    ASSUME IterationInv, phase = "done", Precise
    PROVE  LivenessPrecise
<1> SUFFICES ASSUME NEW r \in Regs, NEW m \in MIs, r \in miLiveIns[m]
             PROVE  <<m, TRUE>> \in GraphReads(r)
  BY DEF LivenessPrecise, GraphReads
<1>1. m[1] \in Mbbs /\ m[2] \in 1..Size(m[1]) /\ m = <<m[1], m[2]>>
  BY MIsAre DEF IterationInv
<1>2. miLiveIns[<<m[1], m[2]>>] \subseteq May(m[1], m[2], TRUE)
  BY <1>1 DEF Precise, PreciseIn
<1>3. r \in May(m[1], m[2], TRUE)
  BY <1>1, <1>2
<1>4. <<<<m[1], m[2]>>, TRUE>> \in GraphReads(r)
  BY <1>3 DEF May
<1> QED
  BY <1>1, <1>4

(* recomputeLiveIns: in any function a register is live at an instruction    *)
(* only if, as far as the vector CFG tells, a lane that is on there may read *)
(* it before it writes it. Precise is inductive beside IterationInv.         *)
THEOREM PreciseEverywhere == Spec => []LivenessPrecise
<1> DEFINE Inv == phase # "build" => Precise
<1>1. Init => Inv
  BY DEF Init
<1>2. IterationInv /\ IterationInv' /\ Inv /\ [Next]_vars => Inv'
  <2> SUFFICES ASSUME IterationInv, IterationInv', Inv, [Next]_vars PROVE Inv'
    OBVIOUS
  <2>1. CASE Next
    BY <2>1, PreciseSteps
  <2>2. CASE UNCHANGED vars
    <3>1. UNCHANGED <<func, liveIns, miLiveIns, phase>>
      BY <2>2 DEF vars
    <3>2. ASSUME NEW b, PreciseIn(b)
          PROVE  PreciseIn(b)'
      BY <3>1, <3>2, SameMay DEF PreciseIn
    <3>3. Mbbs' = Mbbs
      BY <3>1, SameGraph
    <3> QED
      BY <3>1, <3>2, <3>3 DEF Precise
  <2> QED
    BY <2>1, <2>2
<1>3. IterationInv /\ Inv => LivenessPrecise
  <2>1. phase # "done" => LivenessPrecise
    BY DEF LivenessPrecise
  <2> QED
    BY <2>1, PreciseAtInstr
<1> HIDE DEF Inv
<1> QED
  BY <1>1, <1>2, <1>3, IterationInvariant, PTL DEF Spec
=============================================================================
