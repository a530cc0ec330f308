-------------------------- MODULE StatePlannerProofs --------------------------
(***************************************************************************)
(* What SVStorageAndLoadLocations::calculate promises, for every           *)
(* application, register file and subtarget:                               *)
(*                                                                         *)
(*   - the registers Scavenge and FindStorage return are free ones, as     *)
(*     many as were asked for (Scavenged, StorageIsFree);                  *)
(*   - the walk never leaves the storage a function began with (NeverLeft, *)
(*     ArrayNeverMoves), from which the inductive invariant PlannerInv     *)
(*     follows: what has been passed is covered by one segment per block;  *)
(*   - PlansComplete, ArrayKeptWhenFixed and OwnValuesPreserved.           *)
(*                                                                         *)
(* Scavenge picks the k-th of the free registers by CHOOSE, so that each   *)
(* place in their order must be shown to be taken (Ranks).  That is an     *)
(* induction over the set, made here by a smallest counterexample.         *)
(***************************************************************************)
EXTENDS StatePlanner, FiniteSetTheorems, SequenceTheorems, TLAPS

(* Induction over finite sets, by a least counterexample: of the subsets of  *)
(* a finite set that have something in common one is the smallest.           *)
LEMMA SmallestSubset ==
  ASSUME NEW S, IsFiniteSet(S), NEW C, C \subseteq SUBSET S, C # {}
  PROVE  \E T \in C : \A U \in C : U \subseteq T => U = T
<1>1. IsWellFoundedOn(StrictSubsetOrdering(S), SUBSET S)
  BY FS_StrictSubsetOrderingWellFounded, FS_FiniteSubsetsOfFinite
<1>2. PICK T \in C : \A U \in C : <<U, T>> \notin StrictSubsetOrdering(S)
  BY <1>1, WFMin
<1> QED
  BY <1>2 DEF StrictSubsetOrdering

(* A finite set whose elements have numbers has one with the largest.        *)
LEMMA Greatest ==
  ASSUME NEW S, IsFiniteSet(S), S # {}, NEW key \in [S -> Int]
  PROVE  \E x \in S : \A y \in S : key[y] <= key[x]
<1> DEFINE Above(r) == {q \in S : key[q] > key[r]}
           C == {Above(r) : r \in S}
<1>1. PICK T \in C : \A U \in C : U \subseteq T => U = T
  <2>1. C \subseteq SUBSET S
    OBVIOUS
  <2>2. PICK r \in S : TRUE
    OBVIOUS
  <2>3. Above(r) \in C
    OBVIOUS
  <2> HIDE DEF C
  <2> QED
    BY <2>1, <2>3, SmallestSubset
<1>2. PICK x \in S : T = Above(x)
  OBVIOUS
<1>3. ASSUME NEW y \in S, key[y] > key[x] PROVE FALSE
  <2>1. Above(y) \in C /\ Above(y) \subseteq T
    BY <1>2, <1>3
  <2>2. y \in T /\ y \notin Above(y)
    BY <1>2, <1>3
  <2> QED
    BY <1>1, <2>1, <2>2
<1> QED
  BY <1>3

(* In a finite set whose elements have different numbers every place in      *)
(* their order is taken.                                                     *)
LEMMA Ranks ==
  ASSUME NEW S, IsFiniteSet(S), NEW key \in [S -> Int],
         \A x, y \in S : key[x] = key[y] => x = y
  PROVE  \A k \in 1..Cardinality(S) : \E r \in S :
            Cardinality({q \in S : key[q] < key[r]}) = k - 1
<1> DEFINE Before(T, r) == {q \in T : key[q] < key[r]}
           Taken(T) == \A k \in 1..Cardinality(T) : \E r \in T :
                          Cardinality(Before(T, r)) = k - 1
           Bad == {T \in SUBSET S : ~Taken(T)}
<1>1. SUFFICES ASSUME Bad # {} PROVE FALSE
  <2>1. S \notin Bad => Taken(S)
    OBVIOUS
  <2> QED
    BY <1>1, <2>1
<1>2. PICK T \in Bad : \A U \in Bad : U \subseteq T => U = T
  <2>1. Bad \subseteq SUBSET S
    OBVIOUS
  <2> HIDE DEF Bad
  <2> QED
    BY <1>1, <2>1, SmallestSubset
<1>3. T \subseteq S /\ IsFiniteSet(T) /\ ~Taken(T)
  BY <1>2, FS_Subset
<1>4. Cardinality(T) \in Nat
  BY <1>3, FS_CardinalityType
<1>5. PICK k \in 1..Cardinality(T) : \A r \in T : Cardinality(Before(T, r)) # k - 1
  BY <1>3
<1>6. T # {}
  BY <1>4, <1>5, FS_EmptySet
<1>7. PICK x \in T : \A y \in T : key[y] <= key[x]
  <2>1. [y \in T |-> key[y]] \in [T -> Int]
    BY <1>3
  <2> QED
    BY <1>3, <1>6, <2>1, Greatest
<1> DEFINE U == T \ {x}
<1>8. /\ IsFiniteSet(U) /\ Cardinality(U) = Cardinality(T) - 1
      /\ U \in SUBSET S /\ U # T /\ U \subseteq T
  BY <1>3, <1>7, FS_RemoveElement
<1>9. Taken(U)
  BY <1>2, <1>8
<1>10. \A r \in U : Before(T, r) = Before(U, r)
  BY <1>3, <1>7
<1>11. Before(T, x) = U
  <2>1. \A y \in U : key[y] < key[x]
    <3> TAKE y \in U
    <3>1. y \in S /\ x \in S /\ y # x /\ key[y] <= key[x]
      BY <1>3, <1>7
    <3>2. key[y] # key[x] /\ key[y] \in Int /\ key[x] \in Int
      BY <3>1
    <3> QED
      BY <3>1, <3>2
  <2>2. ~(key[x] < key[x])
    BY <1>3
  <2> QED
    BY <2>1, <2>2
<1> HIDE DEF Before, U
<1>12. CASE k = Cardinality(T)
  BY <1>5, <1>8, <1>11, <1>12
<1>13. CASE k # Cardinality(T)
  <2>1. k \in 1..Cardinality(U)
    BY <1>4, <1>8, <1>13
  <2>2. PICK r \in U : Cardinality(Before(U, r)) = k - 1
    BY <1>9, <2>1
  <2> QED
    BY <1>5, <1>8, <1>10, <2>2
<1> QED
  BY <1>12, <1>13
-----------------------------------------------------------------------------
(* What Scavenge finds.                                                      *)
LEMMA MinOfTwo ==
  ASSUME NEW a \in Nat, NEW b \in Nat
  PROVE  /\ Min({a, b}) \in Nat /\ Min({a, b}) <= a /\ Min({a, b}) <= b
         /\ Min({a, b}) \in {a, b}
<1>1. \E x \in {a, b} : \A y \in {a, b} : x <= y
  BY DEF Min
<1> QED
  BY <1>1 DEF Min

(* The registers it returns are free ones, and as many as asked for if there *)
(* are that many.                                                            *)
LEMMA Scavenged ==
  ASSUME NEW c, NEW free, free \subseteq {c} \X Nat, IsFiniteSet(free),
         NEW n \in Nat, NEW up \in BOOLEAN
  PROVE  /\ Scavenge(free, n, up) \in Seq(free)
         /\ Len(Scavenge(free, n, up)) = Min({n, Cardinality(free)})
<1> DEFINE before(r) == {q \in free : IF up THEN q[2] < r[2] ELSE q[2] > r[2]}
           key == [r \in free |-> IF up THEN r[2] ELSE 0 - r[2]]
           lower(r) == {q \in free : key[q] < key[r]}
           size == Min({n, Cardinality(free)})
<1>1. size \in Nat /\ size <= Cardinality(free) /\ Cardinality(free) \in Nat
  BY FS_CardinalityType, MinOfTwo
<1>2. key \in [free -> Int]
  OBVIOUS
<1>3. \A x, y \in free : key[x] = key[y] => x = y
  OBVIOUS
<1>4. \A r \in free : before(r) = lower(r)
  OBVIOUS
<1>5. \A k \in 1..Cardinality(free) : \E r \in free :
        Cardinality(lower(r)) = k - 1
  <2> HIDE DEF key
  <2> QED
    BY <1>2, <1>3, Ranks, SMTT(30)
<1>6. \A k \in 1..size : \E r \in free : Cardinality(before(r)) = k - 1
  <2> HIDE DEF before, lower, size
  <2> TAKE k \in 1..size
  <2>1. k \in 1..Cardinality(free)
    BY <1>1
  <2>2. PICK r \in free : Cardinality(lower(r)) = k - 1
    BY <1>5, <2>1
  <2>3. before(r) = lower(r)
    BY <1>4
  <2> QED
    BY <2>2, <2>3
<1> DEFINE found == [k \in 1..size |->
                       CHOOSE r \in free : Cardinality(before(r)) = k - 1]
<1>7. found \in [1..size -> free]
  BY <1>6
<1>8. Scavenge(free, n, up) = found
  BY DEF Scavenge
<1> HIDE DEF found, size
<1>9. found \in Seq(free)
  <2>1. [1..size -> free] \in {[1..k -> free] : k \in Nat}
    BY <1>1
  <2> QED
    BY <1>7, <2>1, SeqDef
<1>10. DOMAIN found = 1..size /\ DOMAIN found = 1..Len(found) /\ Len(found) \in Nat
  BY <1>7, <1>9, LenProperties
<1>11. Len(found) = size
  BY <1>1, <1>10
<1> QED
  BY <1>8, <1>9, <1>11 DEF size

-----------------------------------------------------------------------------
(* The registers of the target and the functions of an application.          *)
LEMMA RegsFinite == IsFiniteSet(Regs)
<1> DEFINE File(c) == {c} \X (0..(Size(c) - 1))
<1>1. \A c \in Classes : Size(c) \in Nat
  BY StatePlannerAssumption DEF Classes, Size
<1>2. \A c \in Classes : IsFiniteSet(File(c))
  <2> TAKE c \in Classes
  <2>1. IsFiniteSet(0..(Size(c) - 1))
    BY <1>1, FS_Interval
  <2>2. IsFiniteSet({c})
    BY FS_Singleton
  <2> QED
    BY <2>1, <2>2, FS_Product
<1>3. Regs = UNION {File("v"), File("a"), File("s")}
  BY DEF Regs, Classes
<1>4. IsFiniteSet({File("v"), File("a"), File("s")})
  <2> HIDE DEF File
  <2>1. /\ IsFiniteSet({File("s")})
        /\ IsFiniteSet({File("s")} \cup {File("a")})
        /\ IsFiniteSet({File("s")} \cup {File("a")} \cup {File("v")})
    BY FS_Singleton, FS_AddElement
  <2>2. {File("v"), File("a"), File("s")} =
          {File("s")} \cup {File("a")} \cup {File("v")}
    OBVIOUS
  <2> QED
    BY <2>1, <2>2
<1>5. \A F \in {File("v"), File("a"), File("s")} : IsFiniteSet(F)
  BY <1>2 DEF Classes
<1> HIDE DEF File
<1> QED
  BY <1>3, <1>4, <1>5, FS_UNION

LEMMA OfClassType ==
  ASSUME NEW c \in Classes, NEW free, free \subseteq Regs
  PROVE  /\ OfClass(c, free) \subseteq {c} \X Nat
         /\ OfClass(c, free) \subseteq free
         /\ IsFiniteSet(OfClass(c, free))
<1>1. \A d \in Classes : Size(d) \in Nat
  BY StatePlannerAssumption DEF Classes, Size
<1>2. OfClass(c, free) \subseteq Regs
  BY DEF OfClass
<1>3. \A r \in Regs : r = <<r[1], r[2]>> /\ r[2] \in Nat
  BY <1>1 DEF Regs
<1> QED
  BY <1>2, <1>3, RegsFinite, FS_Subset DEF OfClass

LEMMA FirstFree ==
  ASSUME NEW c \in Classes, NEW free, free \subseteq Regs, NEW up \in BOOLEAN,
         OfClass(c, free) # {}
  PROVE  First(OfClass(c, free), up) \in OfClass(c, free)
<1> DEFINE of == OfClass(c, free)
<1>1. of \subseteq {c} \X Nat /\ IsFiniteSet(of) /\ of # {}
  BY OfClassType
<1> HIDE DEF of
<1>2. Cardinality(of) \in Nat /\ Cardinality(of) # 0
  BY <1>1, FS_CardinalityType, FS_EmptySet
<1>3. Min({1, Cardinality(of)}) = 1
  BY <1>2, MinOfTwo
<1>4. Scavenge(of, 1, up) \in Seq(of) /\ Len(Scavenge(of, 1, up)) = 1
  BY <1>1, <1>3, Scavenged
<1>5. Scavenge(of, 1, up)[1] \in of
  BY <1>4, ElementOfSeq
<1>6. First(of, up) \in of
  BY <1>1, <1>5 DEF First
<1> QED
  BY <1>6 DEF of

LEMMA SmallSetsFinite ==
  ASSUME NEW A, A \subseteq 0..5
  PROVE  A \subseteq Nat /\ IsFiniteSet(A)
<1> DEFINE n == 5
<1>1. n \in Int /\ 0 \in Int
  OBVIOUS
<1>2. A \subseteq 0..n /\ A \subseteq Nat
  OBVIOUS
<1> HIDE DEF n
<1>3. IsFiniteSet(0..n)
  BY <1>1, FS_Interval
<1> QED
  BY <1>2, <1>3, FS_Subset

LEMMA Extremes ==
  ASSUME NEW A, A \subseteq Nat, IsFiniteSet(A), A # {}
  PROVE  Max(A) \in A /\ Min(A) \in A
<1>1. \E x \in A : \A y \in A : x >= y
  <2>1. PICK x \in A : \A y \in A : [n \in A |-> n][y] <= [n \in A |-> n][x]
    <3>1. [n \in A |-> n] \in [A -> Int]
      OBVIOUS
    <3> QED
      BY <3>1, Greatest
  <2> QED
    BY <2>1
<1>2. \E x \in A : \A y \in A : x <= y
  <2>1. PICK x \in A : \A y \in A : [n \in A |-> 0 - n][y] <= [n \in A |-> 0 - n][x]
    <3>1. [n \in A |-> 0 - n] \in [A -> Int]
      OBVIOUS
    <3> QED
      BY <3>1, Greatest
  <2> QED
    BY <2>1
<1> QED
  BY <1>1, <1>2 DEF Max, Min

LEMMA MaxUsedType ==
  ASSUME subtarget \in Subtargets
  PROVE  MaxUsed("a") \in Nat /\ MaxUsed("s") \in Nat
<1>1. /\ Supported \subseteq 1..5 /\ Supported # {}
      /\ \A k \in 1..5 : Schemes[k].agprs \in 0..2 /\ Schemes[k].sgprs \in 0..3
  <2>1. subtarget \in {"gfx908", "gfx90a", "gfx940"}
    BY StatePlannerAssumption
  <2>2. DOMAIN Schemes = 1..5
    BY DEF Schemes
  <2>3. 1 \in DOMAIN Schemes /\ 2 \in DOMAIN Schemes
    BY <2>2
  <2>4. /\ Schemes[1].on = {"gfx90a", "gfx940"} /\ Schemes[2].on = {"gfx908"}
    BY DEF Schemes
  <2>5. Supported # {}
    BY <2>1, <2>3, <2>4 DEF Supported
  <2> QED
    BY <2>2, <2>5 DEF Supported, Schemes
<1>2. NumUsed.a \subseteq 0..2 /\ NumUsed.a # {}
  BY <1>1 DEF NumUsed
<1>3. NumUsed.s \subseteq 0..3 /\ NumUsed.s # {}
  BY <1>1 DEF NumUsed
<1>4. IsFiniteSet(NumUsed.a) /\ IsFiniteSet(NumUsed.s)
  BY <1>2, <1>3, SmallSetsFinite
<1>5. Max(NumUsed.a) \in NumUsed.a /\ Max(NumUsed.s) \in NumUsed.s
  BY <1>2, <1>3, <1>4, Extremes
<1> QED
  BY <1>2, <1>3, <1>5 DEF MaxUsed

(* FindStorage returns free registers.                                       *)
LEMMA StorageIsFree ==
  ASSUME subtarget \in Subtargets, NEW free, free \subseteq Regs, NEW up \in BOOLEAN,
         FindStorage(free, up) # None
  PROVE  FindStorage(free, up) \in Seq(free) /\ FindStorage(free, up) # << >>
<1> DEFINE agprs == Scavenge(OfClass("a", free), MaxUsed("a"), up)
           sgprs == Scavenge(OfClass("s", free), MaxUsed("s"), up)
           fits == {k \in Supported : /\ Schemes[k].agprs <= Len(agprs)
                                      /\ Schemes[k].sgprs <= Len(sgprs)}
           k == Min(fits)
<1>1. CASE OfClass("v", free) # {}
  <2>1. First(OfClass("v", free), up) \in free
    BY <1>1, FirstFree, OfClassType DEF Classes
  <2>2. FindStorage(free, up) = <<First(OfClass("v", free), up)>>
    BY <1>1 DEF FindStorage
  <2> QED
    BY <2>1, <2>2
<1>2. CASE OfClass("v", free) = {}
  <2>1. /\ agprs \in Seq(OfClass("a", free)) /\ sgprs \in Seq(OfClass("s", free))
    BY MaxUsedType, OfClassType, Scavenged DEF Classes
  <2>2. OfClass("a", free) \subseteq free /\ OfClass("s", free) \subseteq free
    BY DEF OfClass
  <2>3. agprs \in Seq(free) /\ sgprs \in Seq(free)
    <3> HIDE DEF agprs, sgprs
    <3> QED
      BY <2>1, <2>2
  <2>4. fits # {} /\ FindStorage(free, up) =
           SubSeq(agprs, 1, Schemes[k].agprs) \o SubSeq(sgprs, 1, Schemes[k].sgprs)
    BY <1>2 DEF FindStorage
  <2>5. \A j \in 1..5 : /\ Schemes[j].agprs \in 0..2 /\ Schemes[j].sgprs \in 0..3
                        /\ Schemes[j].agprs + Schemes[j].sgprs > 0
    BY DEF Schemes
  <2>6. DOMAIN Schemes = 1..5
    BY DEF Schemes
  <2>7. fits \subseteq 1..5
    BY <2>6 DEF Supported
  <2>8. k \in fits
    <3>1. fits \subseteq Nat /\ IsFiniteSet(fits)
      <4> HIDE DEF fits
      <4>1. fits \subseteq 0..5
        BY <2>7
      <4> QED
        BY <4>1, SmallSetsFinite
    <3> HIDE DEF fits
    <3> QED
      BY <2>4, <3>1, Extremes
  <2>9. /\ k \in 1..5 /\ Schemes[k].agprs <= Len(agprs) /\ Schemes[k].sgprs <= Len(sgprs)
    BY <2>7, <2>8
  <2> HIDE DEF k, fits, agprs, sgprs
  <2>10. Schemes[k].agprs \in 0..2 /\ Schemes[k].sgprs \in 0..3
         /\ Schemes[k].agprs + Schemes[k].sgprs > 0
    BY <2>5, <2>9
  <2>11. \A i \in 1..Schemes[k].agprs : agprs[i] \in free
    BY <2>3, <2>9, <2>10, ElementOfSeq
  <2>12. \A i \in 1..Schemes[k].sgprs : sgprs[i] \in free
    BY <2>3, <2>9, <2>10, ElementOfSeq
  <2> DEFINE a == SubSeq(agprs, 1, Schemes[k].agprs)
             z == SubSeq(sgprs, 1, Schemes[k].sgprs)
  <2>13. a \in Seq(free) /\ Len(a) = Schemes[k].agprs
    BY <2>10, <2>11, SubSeqProperties
  <2>14. z \in Seq(free) /\ Len(z) = Schemes[k].sgprs
    BY <2>10, <2>12, SubSeqProperties
  <2> HIDE DEF a, z
  <2>15. a \o z \in Seq(free) /\ Len(a \o z) = Len(a) + Len(z)
    BY <2>13, <2>14, ConcatProperties
  <2>16. Len(a \o z) > 0
    BY <2>10, <2>13, <2>14, <2>15
  <2>17. a \o z # << >>
    BY <2>16
  <2> QED
    BY <2>4, <2>15, <2>17 DEF a, z
<1> QED
  BY <1>1, <1>2

-----------------------------------------------------------------------------
(* The application a plan is made for: the instructions in order, with what  *)
(* is live among what their function uses.                                   *)
LEMMA Program ==
  ASSUME module \in Modules
  PROVE  /\ MFs = 1..Len(module.mfs) /\ Len(module.mfs) \in Nat \ {0}
         /\ \A f \in MFs :
              /\ DOMAIN module.mfs[f].blocks = 1..Len(module.mfs[f].blocks)
              /\ Len(module.mfs[f].blocks) \in Nat \ {0}
              /\ module.mfs[f].used \subseteq Regs
              /\ \A b \in DOMAIN module.mfs[f].blocks :
                    /\ DOMAIN Block(f, b) = 1..Len(Block(f, b))
                    /\ Len(Block(f, b)) \in Nat \ {0}
                    /\ \A i \in DOMAIN Block(f, b) :
                          Block(f, b)[i].live \subseteq module.mfs[f].used
<1>1. MFs = 1..Len(module.mfs) /\ Len(module.mfs) \in Nat \ {0}
  BY StatePlannerAssumption DEF MFs
<1>2. ASSUME NEW f \in MFs
      PROVE  /\ DOMAIN module.mfs[f].blocks = 1..Len(module.mfs[f].blocks)
             /\ Len(module.mfs[f].blocks) \in Nat \ {0}
             /\ module.mfs[f].used \subseteq Regs
             /\ \A b \in DOMAIN module.mfs[f].blocks :
                   /\ DOMAIN Block(f, b) = 1..Len(Block(f, b))
                   /\ Len(Block(f, b)) \in Nat \ {0}
                   /\ \A i \in DOMAIN Block(f, b) :
                         Block(f, b)[i].live \subseteq module.mfs[f].used
  <2> DEFINE bs == module.mfs[f].blocks
             instrs == MachineInstr
  <2>1. /\ bs \in Seq(Seq(instrs)) /\ bs # << >> /\ module.mfs[f].used \subseteq Regs
        /\ \A b \in DOMAIN bs : /\ bs[b] # << >>
                                /\ \A i \in DOMAIN bs[b] :
                                     bs[b][i].live \subseteq module.mfs[f].used
    BY StatePlannerAssumption, Zenon DEF MFs
  <2> HIDE DEF bs, instrs
  <2>2. DOMAIN bs = 1..Len(bs) /\ Len(bs) \in Nat \ {0}
    BY <2>1
  <2>3. \A b \in DOMAIN bs : bs[b] \in Seq(instrs)
    BY <2>1, <2>2
  <2>4. \A b \in DOMAIN bs : DOMAIN bs[b] = 1..Len(bs[b]) /\ Len(bs[b]) \in Nat \ {0}
    BY <2>1, <2>3
  <2> QED
    BY <2>1, <2>2, <2>4, Zenon DEF bs, Block
<1> QED
  BY <1>1, <1>2

(* Where a function keeps the array when it has a storage of its own.        *)
Store(f) == FindStorageAtMI(<<f, 1, 1>>)

(* What the planner decides with depends only on the application and the     *)
(* target.                                                                   *)
LEMMA SameApplication ==
  ASSUME module' = module, subtarget' = subtarget
  PROVE  /\ MFs' = MFs /\ Blocks' = Blocks /\ Hooks' = Hooks
         /\ \A f, b : Block(f, b)' = Block(f, b)
         /\ FindFixedStorage' = FindFixedStorage
         /\ \A f : Store(f)' = Store(f)
         /\ \A m, s, d : Plan(m, s, d)' = Plan(m, s, d)
<1>1. MFs' = MFs
  BY DEF MFs
<1>2. \A f, b : Block(f, b)' = Block(f, b)
  BY DEF Block
<1>3. Blocks' = Blocks
  BY <1>1 DEF Blocks
<1>4. MIs' = MIs /\ \A m : MI(m)' = MI(m)
  BY <1>2, <1>3 DEF MIs, MI
<1>5. Hooks' = Hooks
  BY <1>4 DEF Hooks
<1>6. \A fs, live : UnusedIn(fs, live)' = UnusedIn(fs, live)
  BY DEF UnusedIn
<1>7. Supported' = Supported
  BY DEF Supported
<1>8. \A c : MaxUsed(c)' = MaxUsed(c)
  BY <1>7 DEF MaxUsed, NumUsed
<1>9. \A free, up : FindStorage(free, up)' = FindStorage(free, up)
  BY <1>7, <1>8, ZenonT(30) DEF FindStorage
<1>10. FindFixedStorage' = FindFixedStorage
  BY <1>1, <1>6, <1>9 DEF FindFixedStorage
<1>11. \A f : Store(f)' = Store(f)
  BY <1>4, <1>6, <1>9 DEF Store, FindStorageAtMI
<1>12. \A m, s, d : Plan(m, s, d)' = Plan(m, s, d)
  <2>1. \A m, s, d : SelectLoad(m, s, d)' = SelectLoad(m, s, d)
    BY <1>4, <1>6, ZenonT(60) DEF SelectLoad
  <2> QED
    BY <2>1 DEF Plan
<1> QED
  BY <1>1, <1>2, <1>3, <1>5, <1>10, <1>11, <1>12

-----------------------------------------------------------------------------
(* The walk over the functions.  A storage of one VGPR or AGPR that the      *)
(* function does not use is found at its first instruction; it is free, and  *)
(* never has to be left, at every other, so that each block passed has one   *)
(* segment and each payload passed a plan for that storage.                  *)
Whole(b, s) == <<[from |-> 1, to |-> Len(Block(b[1], b[2])) + 1, svs |-> s]>>

Passed(b) == b[1] < mf \/ (phase = "shuffle" /\ b[1] = mf /\ b[2] < mbb)

Walked ==
    /\ segments = [b \in Blocks |-> IF Passed(b) THEN Whole(b, Store(b[1])) ELSE << >>]
    /\ DOMAIN plans = {h \in Hooks : Passed(<<h[1], h[2]>>)}
    /\ \A h \in DOMAIN plans : /\ plans[h] = Plan(h, Store(h[1]), FALSE)
                               /\ Store(h[1]) # None

(* Where the walk stands in a function.                                      *)
Standing ==
    /\ mf \in MFs /\ mbb \in DOMAIN module.mfs[mf].blocks
    /\ mi \in DOMAIN Block(mf, mbb)
    /\ begin = 1
    /\ svs = Store(mf) /\ svs # None /\ Len(svs) = 1 /\ svs[1][1] \in {"v", "a"}
    /\ pending = {h \in Hooks : h[1] = mf /\ h[2] = mbb /\ h[3] < mi}

Fixed ==
    /\ segments = [b \in Blocks |-> Whole(b, fixed)]
    /\ plans = [m \in Hooks |-> Plan(m, fixed, TRUE)]

PlannerInv ==
    /\ module \in Modules /\ subtarget \in Subtargets
    /\ phase \in {"search", "fixed", "enter", "shuffle", "planned", "failed"}
    /\ fixed = None => phase # "fixed" /\ Walked
    /\ fixed # None => fixed = FindFixedStorage /\ phase \in {"fixed", "planned"}
    /\ phase = "search" => fixed = None /\ mf = 0 /\ pending = {}
    /\ phase = "fixed" => DOMAIN plans = {}
    /\ phase = "enter" => mf \in MFs /\ pending = {}
    /\ phase = "shuffle" => Standing
    /\ phase = "planned" /\ fixed = None => mf = Len(module.mfs) + 1
    /\ phase = "planned" /\ fixed # None => Fixed

LEMMA Positions ==
  ASSUME module \in Modules
  PROVE  /\ \A b \in Blocks : /\ b = <<b[1], b[2]>> /\ b[1] \in MFs
                              /\ b[2] \in DOMAIN module.mfs[b[1]].blocks
         /\ \A f \in MFs : \A c \in DOMAIN module.mfs[f].blocks : <<f, c>> \in Blocks
         /\ \A m \in MIs : /\ m = <<m[1], m[2], m[3]>> /\ <<m[1], m[2]>> \in Blocks
                           /\ m[3] \in DOMAIN Block(m[1], m[2])
         /\ \A b \in Blocks : \A i \in DOMAIN Block(b[1], b[2]) : <<b[1], b[2], i>> \in MIs
         /\ Hooks \subseteq MIs
<1>1. \A b \in Blocks : /\ b = <<b[1], b[2]>> /\ b[1] \in MFs
                        /\ b[2] \in DOMAIN module.mfs[b[1]].blocks
  BY DEF Blocks
<1>2. \A f \in MFs : \A c \in DOMAIN module.mfs[f].blocks : <<f, c>> \in Blocks
  BY DEF Blocks
<1>3. \A m \in MIs : /\ m = <<m[1], m[2], m[3]>> /\ <<m[1], m[2]>> \in Blocks
                     /\ m[3] \in DOMAIN Block(m[1], m[2])
  BY <1>1 DEF MIs
<1>4. \A b \in Blocks : \A i \in DOMAIN Block(b[1], b[2]) : <<b[1], b[2], i>> \in MIs
  BY DEF MIs
<1> QED
  BY <1>1, <1>2, <1>3, <1>4 DEF Hooks

LEMMA Numbered ==
  ASSUME module \in Modules
  PROVE  /\ \A b \in Blocks : /\ b[1] \in 1..Len(module.mfs)
                              /\ b[2] \in 1..Len(module.mfs[b[1]].blocks)
         /\ \A m \in MIs : m[3] \in 1..Len(Block(m[1], m[2]))
<1>1. \A b \in Blocks : b[1] \in MFs /\ b[2] \in DOMAIN module.mfs[b[1]].blocks
  BY Positions
<1>2. \A m \in MIs : /\ m[1] \in MFs /\ m[2] \in DOMAIN module.mfs[m[1]].blocks
                     /\ m[3] \in DOMAIN Block(m[1], m[2])
  <2> TAKE m \in MIs
  <2>1. <<m[1], m[2]>> \in Blocks /\ m[3] \in DOMAIN Block(m[1], m[2])
    BY Positions
  <2> QED
    BY <1>1, <2>1
<1> QED
  BY <1>1, <1>2, Program

(* The storage of a function is in registers the function does not use, and  *)
(* what is live in it is in others.                                          *)
LEMMA StoreUnused ==
  ASSUME module \in Modules, subtarget \in Subtargets, NEW f \in MFs, Store(f) # None
  PROVE  /\ Store(f) # << >> /\ Store(f) \in Seq(Regs)
         /\ \A r \in ToSet(Store(f)) : r \notin module.mfs[f].used
<1> DEFINE free == UnusedIn({f}, MI(<<f, 1, 1>>).live)
<1>1. free \subseteq Regs /\ \A r \in free : r \notin module.mfs[f].used
  BY DEF UnusedIn
<1>2. Store(f) = FindStorage(free, FALSE)
  BY DEF Store, FindStorageAtMI
<1> HIDE DEF free
<1>3. Store(f) \in Seq(free) /\ Store(f) # << >>
  BY <1>1, <1>2, StorageIsFree
<1>4. \A r \in ToSet(Store(f)) : r \in free
  BY <1>3, ElementOfSeq, LenProperties DEF ToSet
<1>5. Store(f) \in Seq(Regs)
  BY <1>1, <1>3
<1> QED
  BY <1>1, <1>3, <1>4, <1>5

(* The same of the storage for all functions.                                *)
LEMMA FixedUnused ==
  ASSUME module \in Modules, subtarget \in Subtargets, FindFixedStorage # None
  PROVE  /\ FindFixedStorage # << >> /\ FindFixedStorage \in Seq(Regs)
         /\ \A f \in MFs : \A r \in ToSet(FindFixedStorage) : r \notin module.mfs[f].used
<1> DEFINE free == UnusedIn(MFs, {})
<1>1. free \subseteq Regs /\ \A f \in MFs : \A r \in free : r \notin module.mfs[f].used
  BY DEF UnusedIn
<1>2. FindFixedStorage = FindStorage(free, TRUE)
  BY DEF FindFixedStorage
<1> HIDE DEF free
<1>3. FindFixedStorage \in Seq(free) /\ FindFixedStorage # << >>
  BY <1>1, <1>2, StorageIsFree
<1>4. \A r \in ToSet(FindFixedStorage) : r \in free
  BY <1>3, ElementOfSeq, LenProperties DEF ToSet
<1>5. FindFixedStorage \in Seq(Regs)
  BY <1>1, <1>3
<1> QED
  BY <1>1, <1>3, <1>4, <1>5

(* VisitInstr stays in the storage the function began with.                  *)
LEMMA NeverLeft ==
  ASSUME PlannerInv, phase = "shuffle"
  PROVE  LET m == <<mf, mbb, mi>>
         IN /\ m \in MIs
            /\ StorageReg(svs) # None
            /\ ToSet(svs) \cap MI(m).live = {}
<1>1. module \in Modules /\ subtarget \in Subtargets /\ Standing
  BY DEF PlannerInv
<1>2. <<mf, mbb>> \in Blocks
  BY <1>1, Positions DEF Standing
<1>3. <<mf, mbb, mi>> \in MIs
  BY <1>1, <1>2, Positions DEF Standing
<1>4. StorageReg(svs) # None
  <2>1. svs[1][1] \in {"v", "a"}
    BY <1>1 DEF Standing
  <2>2. StorageReg(svs) = svs[1]
    BY <2>1 DEF StorageReg
  <2>3. svs[1] = None => svs[1][1] = "none"
    BY DEF None
  <2> QED
    BY <2>1, <2>2, <2>3
<1>5. \A r \in ToSet(svs) : r \notin module.mfs[mf].used
  BY <1>1, StoreUnused DEF Standing
<1>6. MI(<<mf, mbb, mi>>).live \subseteq module.mfs[mf].used
  BY <1>1, Program DEF Standing, MI
<1> QED
  BY <1>3, <1>4, <1>5, <1>6

LEMMA InitPlanner == Init => PlannerInv
<1> SUFFICES ASSUME Init PROVE PlannerInv
  OBVIOUS
<1>1. /\ module \in Modules /\ subtarget \in Subtargets /\ phase = "search"
      /\ fixed = None /\ mf = 0 /\ pending = {} /\ plans = << >>
      /\ segments = [b \in Blocks |-> << >>]
  BY DEF Init
<1>2. \A b \in Blocks : ~Passed(b)
  BY <1>1, Positions, Program DEF Passed
<1>3. segments = [b \in Blocks |-> IF Passed(b) THEN Whole(b, Store(b[1])) ELSE << >>]
  BY <1>1, <1>2
<1>4. DOMAIN plans = {}
  BY <1>1
<1>5. \A h \in Hooks : ~Passed(<<h[1], h[2]>>)
  BY <1>1, <1>2, Positions
<1>6. Walked
  BY <1>3, <1>4, <1>5 DEF Walked
<1> QED
  BY <1>1, <1>6 DEF PlannerInv

-----------------------------------------------------------------------------
LEMMA WalkedOn ==
  ASSUME module' = module, subtarget' = subtarget, module \in Modules,
         Walked, UNCHANGED <<segments, plans>>,
         \A b \in Blocks : Passed(b)' <=> Passed(b)
  PROVE  Walked'
<1>1. segments' = [b \in Blocks |-> IF Passed(b) THEN Whole(b, Store(b[1])) ELSE << >>]
  BY DEF Walked
<1>2. \A b \in Blocks : Whole(b, Store(b[1]))' = Whole(b, Store(b[1]))
  BY SameApplication DEF Whole
<1>3. segments' = [b \in Blocks' |-> IF Passed(b)' THEN Whole(b, Store(b[1]))' ELSE << >>]
  BY <1>1, <1>2, SameApplication
<1>4. \A h \in Hooks : <<h[1], h[2]>> \in Blocks
  BY Positions
<1>5. DOMAIN plans' = {h \in Hooks' : Passed(<<h[1], h[2]>>)'}
  BY <1>4, SameApplication DEF Walked
<1>6. \A h \in DOMAIN plans' : /\ plans'[h] = Plan(h, Store(h[1]), FALSE)'
                              /\ Store(h[1])' # None
  <2>1. \A h : Plan(h, Store(h[1]), FALSE)' = Plan(h, Store(h[1]), FALSE)
    BY SameApplication DEF Plan, SelectLoad
  <2> QED
    BY <2>1, SameApplication DEF Walked
<1> QED
  BY <1>3, <1>5, <1>6 DEF Walked

LEMMA SearchPlanner == PlannerInv /\ Search => PlannerInv'
<1> SUFFICES ASSUME PlannerInv, Search PROVE PlannerInv'
  OBVIOUS
<1>1. /\ module' = module /\ subtarget' = subtarget
      /\ module \in Modules /\ subtarget \in Subtargets
      /\ UNCHANGED <<segments, plans, pending>>
      /\ phase = "search" /\ fixed = None /\ mf = 0 /\ pending = {} /\ Walked
      /\ fixed' = FindFixedStorage
      /\ phase' = IF fixed' = None THEN "enter" ELSE "fixed"
      /\ mf' = IF fixed' = None THEN 1 ELSE 0
  BY DEF Search, PlannerInv
<1>2. \A b \in Blocks : ~Passed(b) /\ ~Passed(b)'
  <2>1. \A b \in Blocks : b[1] \in Nat \ {0}
    BY <1>1, Positions, Program
  <2> QED
    BY <1>1, <2>1 DEF Passed
<1>3. Walked'
  BY <1>1, <1>2, WalkedOn
<1>4. DOMAIN plans = {}
  BY <1>1, <1>2, Positions DEF Walked
<1>5. 1 \in MFs
  BY <1>1, Program
<1> QED
  BY <1>1, <1>3, <1>4, <1>5, SameApplication DEF PlannerInv

LEMMA PlanFixedPlanner == PlannerInv /\ PlanFixed => PlannerInv'
<1> SUFFICES ASSUME PlannerInv, PlanFixed PROVE PlannerInv'
  OBVIOUS
<1>1. /\ module' = module /\ subtarget' = subtarget /\ fixed' = fixed
      /\ module \in Modules /\ subtarget \in Subtargets
      /\ phase = "fixed" /\ phase' = "planned"
      /\ fixed # None /\ fixed = FindFixedStorage
  BY DEF PlanFixed, at, PlannerInv
<1>2. Fixed'
  <2>1. segments' = [b \in Blocks |-> Whole(b, fixed)]
    BY DEF PlanFixed, Whole
  <2>2. plans' = [m \in Hooks |-> Plan(m, fixed, TRUE)]
    BY DEF PlanFixed
  <2>3. \A b : Whole(b, fixed)' = Whole(b, fixed)
    BY <1>1, SameApplication DEF Whole
  <2>4. \A m : Plan(m, fixed, TRUE)' = Plan(m, fixed, TRUE)
    BY <1>1, SameApplication DEF Plan, SelectLoad
  <2> QED
    BY <1>1, <2>1, <2>2, <2>3, <2>4, SameApplication DEF Fixed
<1> QED
  BY <1>1, <1>2, SameApplication DEF PlannerInv

LEMMA EnterPlanner == PlannerInv /\ EnterFunction => PlannerInv'
<1> SUFFICES ASSUME PlannerInv, EnterFunction PROVE PlannerInv'
  OBVIOUS
<1>1. /\ module' = module /\ subtarget' = subtarget /\ fixed' = fixed
      /\ module \in Modules /\ subtarget \in Subtargets
      /\ UNCHANGED <<segments, plans, pending, mf>>
      /\ phase = "enter" /\ fixed = None /\ mf \in MFs /\ pending = {} /\ Walked
      /\ svs' = Store(mf) /\ mbb' = 1 /\ mi' = 1 /\ begin' = 1
      /\ phase' = IF svs' # None /\ Len(svs') = 1 /\ svs'[1][1] \in {"v", "a"}
                  THEN "shuffle" ELSE "failed"
  BY DEF EnterFunction, PlannerInv, Store
<1>2. \A b \in Blocks : Passed(b)' <=> Passed(b)
  <2>1. \A b \in Blocks : b[2] \in Nat \ {0}
    BY <1>1, Positions, Program
  <2> QED
    BY <1>1, <2>1 DEF Passed
<1>3. Walked'
  BY <1>1, <1>2, WalkedOn
<1>4. ASSUME phase' = "shuffle" PROVE Standing'
  <2>1. 1 \in DOMAIN module.mfs[mf].blocks /\ 1 \in DOMAIN Block(mf, 1)
    BY <1>1, Program
  <2>2. svs' = Store(mf)'
    BY <1>1, SameApplication
  <2>3. \A h \in Hooks : ~(h[3] < 1)
    <3> TAKE h \in Hooks
    <3>1. h \in MIs
      BY DEF Hooks
    <3>2. h[3] \in 1..Len(Block(h[1], h[2]))
      BY <1>1, <3>1, Numbered
    <3> QED
      BY <3>2
  <2>4. pending' = {h \in Hooks : h[1] = mf' /\ h[2] = mbb' /\ h[3] < mi'}
    BY <1>1, <2>3
  <2>5. svs' # None /\ Len(svs') = 1 /\ svs'[1][1] \in {"v", "a"}
    BY <1>1, <1>4
  <2>6. mi' \in DOMAIN Block(mf, mbb)'
    BY <1>1, <2>1 DEF Block
  <2> QED
    BY <1>1, <2>1, <2>2, <2>4, <2>5, <2>6, SameApplication DEF Standing
<1> QED
  BY <1>1, <1>3, <1>4, SameApplication DEF PlannerInv

LEMMA VisitPlanner == PlannerInv /\ VisitInstr => PlannerInv'
<1> SUFFICES ASSUME PlannerInv, VisitInstr PROVE PlannerInv'
  OBVIOUS
<1> DEFINE m == <<mf, mbb, mi>>
           hooks == IF MI(m).hook THEN pending \cup {m} ELSE pending
<1>1. /\ phase = "shuffle" /\ fixed = None /\ Walked /\ Standing
      /\ module \in Modules /\ subtarget \in Subtargets
      /\ module' = module /\ subtarget' = subtarget /\ fixed' = fixed
  BY DEF PlannerInv, VisitInstr
<1>2. StorageReg(svs) # None /\ ToSet(svs) \cap MI(m).live = {} /\ m \in MIs
  BY <1>1, NeverLeft
<1>3. /\ segments' = IF LastOfBlock
                     THEN [segments EXCEPT ![<<mf, mbb>>] =
                              Append(@, [from |-> begin, to |-> End, svs |-> svs])]
                     ELSE segments
      /\ plans' = IF LastOfBlock
                  THEN [h \in DOMAIN plans \cup hooks |->
                           IF h \in DOMAIN plans THEN plans[h] ELSE Plan(h, svs, FALSE)]
                  ELSE plans
      /\ pending' = IF LastOfBlock THEN {} ELSE hooks
      /\ begin' = IF LastOfBlock THEN 1 ELSE begin
      /\ svs' = svs
      /\ mi' = IF LastOfBlock THEN 1 ELSE mi + 1
      /\ mbb' = IF LastOfBlock THEN mbb + 1 ELSE mbb
      /\ mf' = IF LastOfFunction THEN mf + 1 ELSE mf
  BY <1>2 DEF VisitInstr
<1>4. svs # None
  BY <1>1 DEF Standing
<1>5. phase' = IF ~LastOfFunction THEN "shuffle"
               ELSE IF mf = Len(module.mfs) THEN "planned" ELSE "enter"
  BY <1>2, <1>4 DEF VisitInstr
<1>6. /\ mf \in 1..Len(module.mfs) /\ Len(module.mfs) \in Nat
      /\ mbb \in 1..Len(module.mfs[mf].blocks) /\ Len(module.mfs[mf].blocks) \in Nat
      /\ mi \in 1..Len(Block(mf, mbb)) /\ Len(Block(mf, mbb)) \in Nat
      /\ <<mf, mbb>> \in Blocks
  BY <1>1, Program, Positions DEF Standing
<1>7. hooks = {h \in Hooks : h[1] = mf /\ h[2] = mbb /\ h[3] <= mi}
  <2>1. \A h \in Hooks : h[3] \in Nat /\ h = <<h[1], h[2], h[3]>>
    <3> TAKE h \in Hooks
    <3>1. h \in MIs
      BY DEF Hooks
    <3>2. h = <<h[1], h[2], h[3]>>
      BY <1>1, <3>1, Positions
    <3>3. h[3] \in 1..Len(Block(h[1], h[2]))
      BY <1>1, <3>1, Numbered
    <3> QED
      BY <3>2, <3>3
  <2>2. m \in Hooks <=> MI(m).hook
    BY <1>2 DEF Hooks
  <2>3. pending = {h \in Hooks : h[1] = mf /\ h[2] = mbb /\ h[3] < mi}
    BY <1>1 DEF Standing
  <2> QED
    BY <1>6, <2>1, <2>2, <2>3, SMTT(30)
<1> HIDE DEF hooks
<1>8. CASE ~LastOfBlock
  <2>1. /\ UNCHANGED <<segments, plans, begin, svs, mbb, mf>> /\ phase' = "shuffle"
        /\ pending' = hooks /\ mi' = mi + 1
    BY <1>3, <1>5, <1>8 DEF LastOfFunction
  <2>2. Walked'
    <3>1. \A b \in Blocks : Passed(b)' <=> Passed(b)
      BY <1>1, <2>1 DEF Passed
    <3> QED
      BY <1>1, <2>1, <3>1, WalkedOn
  <2>3. Standing'
    <3>1. mi + 1 \in DOMAIN Block(mf, mbb)
      BY <1>1, <1>6, <1>8, Program DEF LastOfBlock, Standing
    <3>2. Block(mf, mbb)' = Block(mf, mbb) /\ Store(mf)' = Store(mf)
      BY <1>1, <2>1, SameApplication DEF Block
    <3>3. pending' = {h \in Hooks : h[1] = mf /\ h[2] = mbb /\ h[3] < mi + 1}
      <4>1. \A h \in Hooks : h[3] \in Nat
        BY <1>1, Numbered DEF Hooks
      <4> QED
        BY <1>6, <1>7, <2>1, <4>1
    <3> QED
      BY <1>1, <2>1, <3>1, <3>2, <3>3, SameApplication DEF Standing
  <2> QED
    BY <1>1, <2>1, <2>2, <2>3 DEF PlannerInv
<1>9. CASE LastOfBlock
  <2>1. /\ mi = Len(Block(mf, mbb)) /\ End = mi + 1 /\ begin = 1 /\ svs = Store(mf)
        /\ pending' = {} /\ begin' = 1 /\ mi' = 1 /\ svs' = svs
    BY <1>1, <1>3, <1>9 DEF LastOfBlock, End, Standing
  <2>2. \A b \in Blocks : Passed(b)' <=> (Passed(b) \/ b = <<mf, mbb>>)
    <3> TAKE b \in Blocks
    <3>1. /\ b = <<b[1], b[2]>> /\ b[1] \in 1..Len(module.mfs)
          /\ b[2] \in 1..Len(module.mfs[b[1]].blocks)
      BY <1>1, Positions, Numbered
    <3>2. CASE LastOfFunction
      <4>1. mbb = Len(module.mfs[mf].blocks) /\ mf' = mf + 1 /\ phase' # "shuffle"
        BY <1>3, <1>5, <3>2 DEF LastOfFunction
      <4>2. Passed(b)' <=> b[1] < mf + 1
        BY <4>1 DEF Passed
      <4>3. Passed(b) <=> (b[1] < mf \/ (b[1] = mf /\ b[2] < mbb))
        BY <1>1 DEF Passed
      <4>4. b = <<mf, mbb>> <=> b[1] = mf /\ b[2] = mbb
        BY <3>1
      <4>5. b[1] = mf => b[2] \in 1..mbb
        BY <3>1, <4>1
      <4> QED
        BY <1>6, <3>1, <4>2, <4>3, <4>4, <4>5
    <3>3. CASE ~LastOfFunction
      <4>1. mbb' = mbb + 1 /\ mf' = mf /\ phase' = "shuffle"
        BY <1>3, <1>5, <1>9, <3>3
      <4>2. Passed(b)' <=> (b[1] < mf \/ (b[1] = mf /\ b[2] < mbb + 1))
        BY <4>1 DEF Passed
      <4>3. Passed(b) <=> (b[1] < mf \/ (b[1] = mf /\ b[2] < mbb))
        BY <1>1 DEF Passed
      <4>4. b = <<mf, mbb>> <=> b[1] = mf /\ b[2] = mbb
        BY <3>1
      <4> QED
        BY <1>6, <3>1, <4>2, <4>3, <4>4
    <3> QED
      BY <3>2, <3>3
  <2>3. ~Passed(<<mf, mbb>>)
    BY <1>1, <1>6 DEF Passed
  <2>4. segments' = [b \in Blocks |-> IF Passed(b)' THEN Whole(b, Store(b[1])) ELSE << >>]
    <3>1. segments = [b \in Blocks |-> IF Passed(b) THEN Whole(b, Store(b[1])) ELSE << >>]
      BY <1>1 DEF Walked
    <3>2. segments[<<mf, mbb>>] = << >>
      BY <1>6, <2>3, <3>1
    <3>3. Append(segments[<<mf, mbb>>], [from |-> begin, to |-> End, svs |-> svs]) =
            Whole(<<mf, mbb>>, Store(mf))
      BY <2>1, <3>2 DEF Whole
    <3>4. segments' = [segments EXCEPT ![<<mf, mbb>>] = Whole(<<mf, mbb>>, Store(mf))]
      BY <1>3, <1>9, <3>3
    <3>5. DOMAIN segments' = Blocks
      BY <3>1, <3>4
    <3>6. \A b \in Blocks : segments'[b] =
             IF Passed(b)' THEN Whole(b, Store(b[1])) ELSE << >>
      BY <1>6, <2>2, <3>1, <3>4
    <3>7. segments' = [b \in Blocks |-> segments'[b]]
      BY <3>1, <3>4
    <3> QED
      BY <3>6, <3>7
  <2>5. /\ DOMAIN plans' = {h \in Hooks : Passed(<<h[1], h[2]>>)'}
        /\ \A h \in DOMAIN plans' : /\ plans'[h] = Plan(h, Store(h[1]), FALSE)
                                    /\ Store(h[1]) # None
    <3>1. plans' = [h \in DOMAIN plans \cup hooks |->
                       IF h \in DOMAIN plans THEN plans[h] ELSE Plan(h, svs, FALSE)]
      BY <1>3, <1>9
    <3>2. hooks = {h \in Hooks : <<h[1], h[2]>> = <<mf, mbb>>}
      <4>1. \A h \in Hooks : h[3] \in 1..Len(Block(h[1], h[2]))
        BY <1>1, Numbered DEF Hooks
      <4>2. \A h \in Hooks : h[1] = mf /\ h[2] = mbb => h[3] <= mi
        BY <1>6, <2>1, <4>1
      <4> QED
        BY <1>7, <4>2
    <3>3. \A h \in Hooks : <<h[1], h[2]>> \in Blocks
      BY <1>1, Positions
    <3>4. DOMAIN plans = {h \in Hooks : Passed(<<h[1], h[2]>>)}
      BY <1>1 DEF Walked
    <3>5. \A h \in DOMAIN plans : /\ plans[h] = Plan(h, Store(h[1]), FALSE)
                                  /\ Store(h[1]) # None
      BY <1>1 DEF Walked
    <3>6. DOMAIN plans' = {h \in Hooks : Passed(<<h[1], h[2]>>)'}
      BY <2>2, <3>1, <3>2, <3>3, <3>4
    <3>7. \A h \in hooks : /\ Plan(h, svs, FALSE) = Plan(h, Store(h[1]), FALSE)
                           /\ Store(h[1]) # None
      BY <1>4, <1>7, <2>1
    <3>8. \A h \in DOMAIN plans' : plans'[h] =
             IF h \in DOMAIN plans THEN plans[h] ELSE Plan(h, svs, FALSE)
      BY <3>1
    <3>9. \A h \in DOMAIN plans' : h \in DOMAIN plans \/ h \in hooks
      BY <3>1
    <3> QED
      BY <3>5, <3>6, <3>7, <3>8, <3>9
  <2>6. Walked'
    <3>1. \A b : Whole(b, Store(b[1]))' = Whole(b, Store(b[1]))
      BY <1>1, SameApplication DEF Whole
    <3>2. \A h : Plan(h, Store(h[1]), FALSE)' = Plan(h, Store(h[1]), FALSE)
      BY <1>1, SameApplication DEF Plan, SelectLoad
    <3> QED
      BY <1>1, <2>4, <2>5, <3>1, <3>2, SameApplication DEF Walked
  <2>7. CASE LastOfFunction
    <3>1. /\ mf' = mf + 1 /\ phase' # "shuffle"
          /\ phase' = IF mf = Len(module.mfs) THEN "planned" ELSE "enter"
      BY <1>3, <1>5, <2>7
    <3>2. phase' = "enter" => mf' \in MFs
      BY <1>1, <1>6, <3>1, Program
    <3> QED
      BY <1>1, <2>1, <2>6, <3>1, <3>2, SameApplication DEF PlannerInv
  <2>8. CASE ~LastOfFunction
    <3>1. mbb' = mbb + 1 /\ mf' = mf /\ phase' = "shuffle"
      BY <1>3, <1>5, <1>9, <2>8
    <3>2. Standing'
      <4>1. mbb + 1 \in DOMAIN module.mfs[mf].blocks
        BY <1>1, <1>6, <1>9, <2>8, Program DEF LastOfFunction, Standing
      <4>2. 1 \in DOMAIN Block(mf, mbb + 1)
        BY <1>1, <4>1, Program DEF Standing
      <4>3. Block(mf, mbb)' = Block(mf, mbb + 1) /\ Store(mf)' = Store(mf)
        BY <1>1, <3>1, SameApplication DEF Block
      <4>4. pending' = {h \in Hooks : h[1] = mf' /\ h[2] = mbb' /\ h[3] < 1}
        <5>1. \A h \in Hooks : ~(h[3] < 1)
          BY <1>1, Numbered DEF Hooks
        <5> QED
          BY <2>1, <5>1
      <4> QED
        BY <1>1, <2>1, <3>1, <4>1, <4>2, <4>3, <4>4, SameApplication DEF Standing
    <3> QED
      BY <1>1, <2>1, <2>6, <3>1, <3>2 DEF PlannerInv
  <2> QED
    BY <2>7, <2>8
<1> QED
  BY <1>8, <1>9

-----------------------------------------------------------------------------
LEMMA StillPlanner == PlannerInv /\ UNCHANGED vars => PlannerInv'
<1> SUFFICES ASSUME PlannerInv, UNCHANGED vars PROVE PlannerInv'
  OBVIOUS
<1>1. /\ UNCHANGED <<module, subtarget, phase, fixed, mf, mbb, mi, svs, begin,
                     pending, segments, plans>>
      /\ module \in Modules
  BY DEF vars, at, PlannerInv
<1>2. Walked => Walked'
  <2>1. \A b \in Blocks : Passed(b)' <=> Passed(b)
    BY <1>1 DEF Passed
  <2> QED
    BY <1>1, <2>1, WalkedOn
<1>3. Standing => Standing'
  <2>1. Store(mf)' = Store(mf) /\ Block(mf, mbb)' = Block(mf, mbb)
    BY <1>1, SameApplication DEF Block
  <2> QED
    BY <1>1, <2>1, SameApplication DEF Standing
<1>4. Fixed => Fixed'
  <2>1. \A b : Whole(b, fixed)' = Whole(b, fixed)
    BY <1>1, SameApplication DEF Whole
  <2>2. \A m : Plan(m, fixed, TRUE)' = Plan(m, fixed, TRUE)
    BY <1>1, SameApplication DEF Plan, SelectLoad
  <2> QED
    BY <1>1, <2>1, <2>2, SameApplication DEF Fixed
<1> QED
  BY <1>1, <1>2, <1>3, <1>4, SameApplication DEF PlannerInv

LEMMA PlannerHolds == Spec => []PlannerInv
<1>1. PlannerInv /\ [Next]_vars => PlannerInv'
  BY SearchPlanner, PlanFixedPlanner, EnterPlanner, VisitPlanner, StillPlanner
     DEF Next, Rest
<1> QED
  BY InitPlanner, <1>1, PTL DEF Spec

-----------------------------------------------------------------------------
(* Where the array is at the end of a successful calculate.                  *)
Kept(f) == IF fixed = None THEN Store(f) ELSE fixed

LEMMA OneSegment ==
  ASSUME PlannerInv, phase = "planned"
  PROVE  /\ segments = [b \in Blocks |-> Whole(b, Kept(b[1]))]
         /\ DOMAIN plans = Hooks
         /\ \A m \in Hooks : plans[m].svs = Kept(m[1])
         /\ \A m \in MIs : SegmentAt(m).svs = Kept(m[1])
<1>1. module \in Modules
  BY DEF PlannerInv
<1>0. \A m, s : Plan(m, s, FALSE).svs = s /\ Plan(m, s, TRUE).svs = s
  BY DEF Plan
<1>2. /\ segments = [b \in Blocks |-> Whole(b, Kept(b[1]))]
      /\ DOMAIN plans = Hooks
      /\ \A m \in Hooks : plans[m].svs = Kept(m[1])
  <2>1. CASE fixed # None
    <3>1. Fixed
      BY <2>1 DEF PlannerInv
    <3> QED
      BY <1>0, <2>1, <3>1 DEF Fixed, Kept
  <2>2. CASE fixed = None
    <3>1. Walked /\ mf = Len(module.mfs) + 1
      BY <2>2 DEF PlannerInv
    <3>2. \A b \in Blocks : Passed(b)
      <4>1. \A b \in Blocks : b[1] \in 1..Len(module.mfs)
        BY <1>1, Numbered
      <4>2. Len(module.mfs) \in Nat
        BY <1>1, Program
      <4> QED
        BY <3>1, <4>1, <4>2 DEF Passed
    <3>3. \A h \in Hooks : Passed(<<h[1], h[2]>>)
      BY <1>1, <3>2, Positions
    <3>4. \A h \in Hooks : plans[h] = Plan(h, Store(h[1]), FALSE)
      BY <3>1, <3>3 DEF Walked
    <3>5. \A h \in Hooks : plans[h].svs = Store(h[1])
      <4> TAKE h \in Hooks
      <4>1. plans[h] = Plan(h, Store(h[1]), FALSE)
        BY <3>4
      <4> QED
        BY <4>1 DEF Plan
    <3> QED
      BY <2>2, <3>1, <3>2, <3>3, <3>5 DEF Walked, Kept
  <2> QED
    BY <2>1, <2>2
<1>3. ASSUME NEW m \in MIs PROVE SegmentAt(m).svs = Kept(m[1])
  <2>1. /\ <<m[1], m[2]>> \in Blocks /\ m[3] \in 1..Len(Block(m[1], m[2]))
    BY <1>1, Positions, Numbered
  <2> DEFINE s == [from |-> 1, to |-> Len(Block(m[1], m[2])) + 1, svs |-> Kept(m[1])]
  <2>2. segments[<<m[1], m[2]>>] = <<s>>
    BY <1>2, <2>1 DEF Whole
  <2>3. ToSet(<<s>>) = {s}
    BY DEF ToSet
  <2>4. s.from <= m[3] /\ m[3] < s.to
    <3>1. Len(Block(m[1], m[2])) \in Nat
      BY <1>1, <2>1, Program, Positions
    <3> QED
      BY <2>1, <3>1
  <2>5. SegmentAt(m) = s
    <3> HIDE DEF s
    <3> QED
      BY <2>2, <2>3, <2>4 DEF SegmentAt
  <2> QED
    BY <2>5
<1> QED
  BY <1>2, <1>3

(* When calculate succeeds it has covered every instruction of every         *)
(* function with exactly one segment, and every payload has a plan that      *)
(* looks for the array where that segment says it is.                        *)
THEOREM PlansAlwaysComplete == Spec => []PlansComplete
<1>1. PlannerInv => PlansComplete
  <2> SUFFICES ASSUME PlannerInv, phase = "planned" PROVE PlansComplete
    BY DEF PlansComplete
  <2>1. module \in Modules
    BY DEF PlannerInv
  <2>2. ASSUME NEW m \in MIs
        PROVE  Cardinality({k \in DOMAIN segments[<<m[1], m[2]>>] :
                               LET s == segments[<<m[1], m[2]>>][k]
                               IN s.from <= m[3] /\ m[3] < s.to}) = 1
    <3>1. /\ <<m[1], m[2]>> \in Blocks /\ m[3] \in 1..Len(Block(m[1], m[2]))
      BY <2>1, Positions, Numbered
    <3>2. Len(Block(m[1], m[2])) \in Nat
      BY <2>1, <3>1, Program, Positions
    <3> DEFINE s == [from |-> 1, to |-> Len(Block(m[1], m[2])) + 1, svs |-> Kept(m[1])]
    <3>3. segments[<<m[1], m[2]>>] = <<s>>
      BY <3>1, OneSegment DEF Whole
    <3>4. s.from <= m[3] /\ m[3] < s.to
      BY <3>1, <3>2
    <3> HIDE DEF s
    <3>5. {k \in DOMAIN <<s>> : <<s>>[k].from <= m[3] /\ m[3] < <<s>>[k].to} = {1}
      BY <3>4
    <3>6. Cardinality({1}) = 1
      BY FS_Singleton
    <3> QED
      BY <3>3, <3>5, <3>6
  <2>3. \A m \in Hooks : plans[m].svs = SegmentAt(m).svs
    BY OneSegment DEF Hooks
  <2> QED
    BY <2>2, <2>3, OneSegment DEF PlansComplete
<1> QED
  BY <1>1, PlannerHolds, PTL

(* The one storage for all functions is used by none of them and nothing     *)
(* moves it: a function called finds the array where its caller left it and  *)
(* does not write the registers it is in.                                    *)
THEOREM ArrayAlwaysKeptWhenFixed == Spec => []ArrayKeptWhenFixed
<1>1. PlannerInv => ArrayKeptWhenFixed
  <2> SUFFICES ASSUME PlannerInv, fixed # None, phase = "planned",
                      NEW m \in MIs, NEW g \in Callees(m)
               PROVE  /\ segments[<<g, 1>>][1].svs = SegmentAt(m).svs
                      /\ ToSet(SegmentAt(m).svs) \cap module.mfs[g].used = {}
    BY DEF ArrayKeptWhenFixed, ArrayKeptByCalls
  <2>1. /\ module \in Modules /\ subtarget \in Subtargets /\ fixed = FindFixedStorage
    BY DEF PlannerInv
  <2>2. g \in MFs
    BY DEF Callees
  <2>3. 1 \in DOMAIN module.mfs[g].blocks
    BY <2>1, <2>2, Program
  <2>4. <<g, 1>> \in Blocks
    BY <2>1, <2>2, <2>3, Positions
  <2>5. segments[<<g, 1>>][1].svs = fixed
    BY <2>4, OneSegment DEF Whole, Kept
  <2>6. SegmentAt(m).svs = fixed
    BY OneSegment DEF Kept
  <2>7. \A r \in ToSet(fixed) : r \notin module.mfs[g].used
    BY <2>1, <2>2, FixedUnused
  <2> QED
    BY <2>5, <2>6, <2>7
<1> QED
  BY <1>1, PlannerHolds, PTL

(* The register a plan loads the array into is dead in the instrumented      *)
(* function, unless the plan says that its value must be preserved.          *)
LEMMA LoadedIsDead ==
  ASSUME NEW m, NEW s, NEW d \in BOOLEAN,
         InVGPR(s) => s[1] \notin MI(m).live
  PROVE  SelectLoad(m, s, d).vgpr \in MI(m).live => SelectLoad(m, s, d).clobbers
<1> DEFINE free == UnusedIn({m[1]}, MI(m).live)
<1>1. free \subseteq Regs /\ \A r \in free : r \notin MI(m).live
  BY DEF UnusedIn
<1>2. \A c \in {"v", "a"} : OfClass(c, free) # {} =>
         First(OfClass(c, free), FALSE) \notin MI(m).live
  <2> HIDE DEF free
  <2> TAKE c \in {"v", "a"}
  <2> HAVE OfClass(c, free) # {}
  <2>1. First(OfClass(c, free), FALSE) \in free
    BY <1>1, FirstFree, OfClassType DEF Classes
  <2> QED
    BY <1>1, <2>1
<1>3. CASE InVGPR(s)
  BY <1>3 DEF SelectLoad
<1>4. CASE ~InVGPR(s) /\ ~d
  BY <1>4 DEF SelectLoad
<1>5. CASE ~InVGPR(s) /\ d /\ OfClass("v", free) # {}
  <2>1. SelectLoad(m, s, d).vgpr = First(OfClass("v", free), FALSE)
    BY <1>5 DEF SelectLoad
  <2> QED
    BY <1>2, <1>5, <2>1
<1>6. CASE ~InVGPR(s) /\ d /\ OfClass("v", free) = {} /\ OfClass("a", free) # {}
  <2>1. SelectLoad(m, s, d).vgpr = First(OfClass("a", free), FALSE)
    BY <1>6 DEF SelectLoad
  <2> QED
    BY <1>2, <1>6, <2>1
<1>7. CASE ~InVGPR(s) /\ d /\ OfClass("v", free) = {} /\ OfClass("a", free) = {}
  BY <1>7 DEF SelectLoad
<1> QED
  BY <1>3, <1>4, <1>5, <1>6, <1>7

(* No payload loads the array over a value the instrumented function may     *)
(* still read without its plan saying that the value must be preserved,      *)
(* whichever way the storage was found and however far the walk has come.    *)
THEOREM OwnValuesAlwaysPreserved == Spec => []OwnValuesPreserved
<1>1. ASSUME PlannerInv, NEW m \in DOMAIN plans
      PROVE  plans[m].load.vgpr \in MI(m).live => plans[m].load.clobbers
  <2>1. module \in Modules /\ subtarget \in Subtargets
    BY <1>1 DEF PlannerInv
  <2>2. \A f : \A s \in Seq(Regs) :
           /\ f \in MFs /\ \A r \in ToSet(s) : r \notin module.mfs[f].used
           /\ f = m[1] /\ m \in Hooks /\ InVGPR(s)
           => s[1] \notin MI(m).live
    <3> TAKE f
    <3> TAKE s \in Seq(Regs)
    <3> HAVE /\ f \in MFs /\ \A r \in ToSet(s) : r \notin module.mfs[f].used
             /\ f = m[1] /\ m \in Hooks /\ InVGPR(s)
    <3>1. s[1] \in ToSet(s)
      BY DEF InVGPR, ToSet
    <3>2. <<m[1], m[2]>> \in Blocks /\ m[3] \in DOMAIN Block(m[1], m[2])
      BY <2>1, Positions
    <3>3. m[1] \in MFs /\ m[2] \in DOMAIN module.mfs[m[1]].blocks
      BY <2>1, <3>2, Positions
    <3>4. MI(m).live \subseteq module.mfs[m[1]].used
      BY <2>1, <3>2, <3>3, Program DEF MI
    <3> QED
      BY <3>1, <3>4
  <2>3. m \in Hooks => m[1] \in MFs
    BY <2>1, Positions
  <2>4. CASE fixed = None
    <3>1. m \in Hooks /\ plans[m] = Plan(m, Store(m[1]), FALSE) /\ Store(m[1]) # None
      BY <1>1, <2>4 DEF PlannerInv, Walked
    <3>2. InVGPR(Store(m[1])) => Store(m[1])[1] \notin MI(m).live
      BY <2>1, <2>2, <2>3, <3>1, StoreUnused
    <3>3. SelectLoad(m, Store(m[1]), FALSE).vgpr \in MI(m).live =>
             SelectLoad(m, Store(m[1]), FALSE).clobbers
      BY <3>2, LoadedIsDead
    <3>4. plans[m].load = SelectLoad(m, Store(m[1]), FALSE)
      BY <3>1 DEF Plan
    <3> QED
      BY <3>3, <3>4
  <2>5. CASE fixed # None
    <3>1. DOMAIN plans # {}
      BY <1>1
    <3>2. Fixed /\ fixed = FindFixedStorage
      BY <1>1, <2>5, <3>1 DEF PlannerInv
    <3>3. m \in Hooks /\ plans[m] = Plan(m, fixed, TRUE)
      BY <1>1, <3>2 DEF Fixed
    <3>4. InVGPR(fixed) => fixed[1] \notin MI(m).live
      BY <2>1, <2>2, <2>3, <2>5, <3>2, <3>3, FixedUnused
    <3>5. SelectLoad(m, fixed, TRUE).vgpr \in MI(m).live =>
             SelectLoad(m, fixed, TRUE).clobbers
      BY <3>4, LoadedIsDead
    <3>6. plans[m].load = SelectLoad(m, fixed, TRUE)
      BY <3>3 DEF Plan
    <3> QED
      BY <3>5, <3>6
  <2> QED
    BY <2>4, <2>5
<1>2. PlannerInv => OwnValuesPreserved
  BY <1>1 DEF OwnValuesPreserved, LoadsPreserved, NoCallers
<1> QED
  BY <1>2, PlannerHolds, PTL

(* The code relocates the array when its registers are live or payloads need *)
(* it nearer.  As the storage is sought among registers the function does    *)
(* not use, neither happens: a function's array stays where it began.        *)
THEOREM ArrayNeverMoves == Spec => [][phase = "shuffle" => svs' = svs]_vars
<1>1. PlannerInv /\ [Next]_vars => [phase = "shuffle" => svs' = svs]_vars
  <2> SUFFICES ASSUME PlannerInv, Next, phase = "shuffle" PROVE svs' = svs
    OBVIOUS
  <2>1. VisitInstr
    BY DEF Next, Search, PlanFixed, EnterFunction, Rest
  <2> QED
    BY <2>1, NeverLeft DEF VisitInstr
<1> QED
  BY <1>1, PlannerHolds, PTL DEF Spec
=============================================================================
