-------------------------- MODULE CodeLiftingProofs --------------------------
(***************************************************************************)
(* What CodeLifter and cloneRepresentation promise, for functions of every *)
(* length with branches and relocations anywhere:                          *)
(*                                                                         *)
(*   - ControlFlowLifted.  While instructions are made, the invariant says *)
(*     where they lie (Laid), where blocks are cut (Cut), which of them    *)
(*     are joined (Fallthroughs) and what the labels name (Labelled); the  *)
(*     whole of it is FillingInv.  That labels name the right block rests  *)
(*     on addresses that grow from one instruction to the next.            *)
(*   - RelocationsFound.  The range resolveRelocation searches is as long  *)
(*     as the instruction before, and one word longer than that;           *)
(*     RelocationsHit says which relocations are in it, whatever the       *)
(*     function, from the growth of addresses.                             *)
(*   - CloneIsomorphic, for which BranchesLinked ties the block operands   *)
(*     to the edges.                                                       *)
(***************************************************************************)
EXTENDS CodeLifting, FiniteSetTheorems, SequenceTheorems, TLAPS

(* The first n instructions lie one after the other in blocks, of which only *)
(* the one being filled may be empty.                                        *)
Laid(bs, n) ==
    /\ bs \in Seq(Seq(Nat)) /\ Len(bs) > 0
    /\ \A b \in 1..(Len(bs) - 1) : bs[b] # << >>
    /\ \A b \in DOMAIN bs : \A k \in DOMAIN bs[b] :
          /\ bs[b][k] \in 1..n
          /\ k > 1 => bs[b][k] = bs[b][k - 1] + 1
    /\ \A i \in 1..n : \E b \in DOMAIN bs : \E k \in DOMAIN bs[b] : bs[b][k] = i
    /\ \A b, c \in DOMAIN bs : \A k \in DOMAIN bs[b], l \in DOMAIN bs[c] :
          bs[b][k] = bs[c][l] => b = c /\ k = l
    /\ \A b \in 1..(Len(bs) - 1) :
          bs[b + 1] # << >> => bs[b + 1][1] = Last(bs[b]) + 1
    /\ Last(bs) # << >> => Last(Last(bs)) = n
    /\ Last(bs) = << >> => IF Len(bs) = 1 THEN n = 0
                           ELSE Last(bs[Len(bs) - 1]) = n

(* A block ends after a terminator and before a branch target.               *)
Unbroken(bs) ==
    \A b \in DOMAIN bs : \A k \in DOMAIN bs[b] : k > 1 =>
       /\ ~IsTerminator(code[bs[b][k - 1]].op)
       /\ Here[bs[b][k]] \notin targets

Cut(bs, n) ==
    /\ Unbroken(bs)
    /\ Last(bs) = << >> /\ n > 0 => IsTerminator(code[n].op) /\ n < Len(code)
    /\ Last(bs) # << >> /\ n < Len(code) => ~IsTerminator(code[n].op)

(* There is an edge to the next block from where control goes on to it.      *)
Fallthroughs(bs, es) ==
    /\ \A e \in es : e = <<e[1], e[1] + 1>> /\ e[1] \in 1..(Len(bs) - 1)
    /\ \A b \in 1..(Len(bs) - 1) :
          <<b, b + 1>> \in es <=> FallsThrough(code[Last(bs[b])].op)

(* Each branch target passed labels the block that begins there.             *)
Labelled(bs, n, ls) ==
    /\ DOMAIN ls = {Here[i] : i \in {i \in 1..n : Here[i] \in targets}}
    /\ \A a \in DOMAIN ls :
          /\ ls[a] \in DOMAIN bs /\ bs[ls[a]] # << >>
          /\ Here[bs[ls[a]][1]] = a

(* How many instructions have been made.                                     *)
Made == Len(ops)

Disassembled ==
    /\ instrs = [i \in DOMAIN code |-> [addr |-> Here[i], size |-> SizeOf(i)]]
    /\ targets = {EvaluateBranch(i) : i \in {j \in DOMAIN code : IsDirectBranch(code[j].op)}}

(* Whatever its elements are.                                                *)
IsSequence(s) == Len(s) \in Nat /\ s = [k \in 1..Len(s) |-> s[k]]

SymbolsOf(s) == {s[k][2] : k \in {k \in DOMAIN s : s[k][1] = "symbol"}}

(* The operands of instruction i before the branches are resolved.           *)
OperandsMade(i) ==
    /\ IsSequence(ops[i])
    /\ \A k \in DOMAIN ops[i] : ops[i][k][1] # "block"
    /\ FoundBy(i, SymbolsOf(ops[i]))

FillingInv ==
    /\ Made \in 0..Len(code)
    /\ Laid(blocks, Made) /\ Cut(blocks, Made)
    /\ Fallthroughs(blocks, succ) /\ Labelled(blocks, Made, labels)
    /\ pending = {<<code[i].to, i>> : i \in {i \in 1..Made : IsDirectBranch(code[i].op)}}
    /\ IsSequence(ops)
    /\ \A i \in 1..Made : OperandsMade(i)

NothingMade ==
    blocks = << << >> >> /\ succ = {} /\ ops = << >> /\ labels = << >> /\ pending = {}

(* The block operand of each branch is a successor of its block.             *)
BranchesLinked ==
    /\ DOMAIN ops = DOMAIN code
    /\ \A i \in DOMAIN code : \A k \in DOMAIN ops[i] :
          ops[i][k][1] = "block" => <<BlockOf(i), ops[i][k][2]>> \in succ
    /\ \A e \in succ : e = <<e[1], e[2]>>

(* The query of the relocations meets no unknown symbol.                     *)
AllKnown == \A r \in RelocationsOf(code) : r.sym # "section"

LiftInv ==
    /\ code \in Programs
    /\ attempts \in Nat \ {0}
    /\ phase \in {"disassemble", "lift", "resolve", "failed", "lifted", "cloned"}
    /\ relocs.cached => relocs.table = Filled
    /\ attempts = 1 /\ phase # "failed" /\ relocs.cached => AllKnown
    /\ phase = "disassemble" => NothingMade /\ instrs = << >>
    /\ phase = "failed" => instrs = << >> \/ Disassembled
    /\ phase = "lift" => Disassembled /\ FillingInv /\ Made < Len(code)
    /\ phase = "resolve" => Disassembled /\ FillingInv /\ Made = Len(code)
    /\ Done => BranchesLinked
    /\ ControlFlowLifted /\ RelocationsFound /\ CloneIsomorphic

-----------------------------------------------------------------------------
(* Addresses grow by the length of an instruction, so that an instruction is *)
(* found by its address.                                                     *)
LEMMA Program ==
  ASSUME code \in Programs
  PROVE  /\ code \in Seq(Instr) /\ Len(code) \in Nat \ {0} /\ DOMAIN code = 1..Len(code)
         /\ \A i \in DOMAIN code : /\ code[i] \in Instr
                                   /\ code[i].sym # "none" => code[i].op = "literal"
<1>1. code \in Seq(Instr) /\ code # << >>
      /\ \A i \in DOMAIN code : code[i].sym # "none" => code[i].op = "literal"
  BY CodeLiftingAssumption
<1> DEFINE I == Instr
<1>2. code \in Seq(I) /\ code # << >>
  BY <1>1
<1> HIDE DEF I
<1>3. Len(code) \in Nat \ {0} /\ DOMAIN code = 1..Len(code) /\ \A i \in DOMAIN code : code[i] \in I
  BY <1>2
<1> QED
  BY <1>1, <1>3 DEF I

LEMMA Addresses ==
  ASSUME code \in Programs
  PROVE  /\ \A i \in DOMAIN code : Here[i] \in Nat
         /\ \A i \in DOMAIN code : i + 1 \in DOMAIN code =>
               Here[i + 1] = Here[i] + Words(code[i].op)
         /\ \A i, j \in DOMAIN code : i < j => Here[i] < Here[j]
<1> DEFINE Longs(i) == {j \in 1..(i - 1) : Words(code[j].op) = 2}
<1>1. DOMAIN code = 1..Len(code) /\ Len(code) \in Nat
  BY Program
<1>2. \A i \in DOMAIN code : Here[i] = i - 1 + Cardinality(Longs(i))
  BY DEF Here, Address
<1>3. \A i \in DOMAIN code : IsFiniteSet(Longs(i)) /\ Cardinality(Longs(i)) \in Nat
  <2> TAKE i \in DOMAIN code
  <2>1. i - 1 \in Int
    BY <1>1
  <2>2. IsFiniteSet(1..(i - 1))
    BY <2>1, FS_Interval
  <2>3. Longs(i) \subseteq 1..(i - 1)
    OBVIOUS
  <2>4. IsFiniteSet(Longs(i))
    BY <2>2, <2>3, FS_Subset
  <2> QED
    BY <2>4, FS_CardinalityType
<1>4. \A i \in DOMAIN code : Here[i] \in Nat
  <2> HIDE DEF Longs
  <2> QED
    BY <1>1, <1>2, <1>3
<1>5. ASSUME NEW i \in DOMAIN code, i + 1 \in DOMAIN code
      PROVE  Here[i + 1] = Here[i] + Words(code[i].op)
  <2>1. Words(code[i].op) \in {1, 2}
    BY DEF Words
  <2>2. CASE Words(code[i].op) = 2
    <3>1. Longs(i + 1) = Longs(i) \cup {i} /\ i \notin Longs(i)
      BY <1>1, <2>2
    <3> HIDE DEF Longs
    <3>2. Cardinality(Longs(i + 1)) = Cardinality(Longs(i)) + 1
      BY <1>3, <3>1, FS_AddElement
    <3> QED
      BY <1>1, <1>2, <1>3, <1>5, <2>2, <3>2, SMTT(30)
  <2>3. CASE Words(code[i].op) = 1
    <3>1. Longs(i + 1) = Longs(i)
      BY <1>1, <2>3
    <3> HIDE DEF Longs
    <3> QED
      BY <1>1, <1>2, <1>3, <1>5, <2>3, <3>1
  <2> QED
    BY <2>1, <2>2, <2>3
<1>6. ASSUME NEW i \in DOMAIN code, NEW j \in DOMAIN code, i < j
      PROVE  Here[i] < Here[j]
  <2>1. Longs(i) \subseteq Longs(j)
    BY <1>1, <1>6
  <2> HIDE DEF Longs
  <2>2. Cardinality(Longs(i)) <= Cardinality(Longs(j))
    BY <1>3, <2>1, FS_Subset
  <2> QED
    BY <1>1, <1>2, <1>3, <1>6, <2>2
<1> QED
  BY <1>4, <1>5, <1>6

-----------------------------------------------------------------------------
(* The two things liftFunction does to the blocks.                           *)
Opened(bs) == Append(bs, << >>)
Put(bs, i) == [bs EXCEPT ![Len(bs)] = Append(@, i)]

LEMMA OpenedBlocks ==
  ASSUME NEW bs \in Seq(Seq(Nat)), Len(bs) > 0
  PROVE  /\ Opened(bs) \in Seq(Seq(Nat)) /\ Len(Opened(bs)) = Len(bs) + 1
         /\ DOMAIN Opened(bs) = 1..(Len(bs) + 1)
         /\ \A b \in 1..Len(bs) : Opened(bs)[b] = bs[b]
         /\ Opened(bs)[Len(bs) + 1] = << >>
<1> DEFINE S == Seq(Nat)
<1>1. bs \in Seq(S) /\ << >> \in S
  OBVIOUS
<1> HIDE DEF S
<1>2. /\ Append(bs, << >>) \in Seq(S) /\ Len(Append(bs, << >>)) = Len(bs) + 1
      /\ \A b \in 1..Len(bs) : Append(bs, << >>)[b] = bs[b]
      /\ Append(bs, << >>)[Len(bs) + 1] = << >>
  BY <1>1, AppendProperties
<1>3. DOMAIN Append(bs, << >>) = 1..(Len(bs) + 1)
  BY <1>2, LenProperties
<1> QED
  BY <1>2, <1>3 DEF Opened, S

LEMMA PutBlocks ==
  ASSUME NEW bs \in Seq(Seq(Nat)), Len(bs) > 0, NEW i \in Nat
  PROVE  /\ Put(bs, i) \in Seq(Seq(Nat)) /\ Len(Put(bs, i)) = Len(bs)
         /\ DOMAIN Put(bs, i) = 1..Len(bs) /\ DOMAIN bs = 1..Len(bs) /\ Len(bs) \in Nat
         /\ \A b \in 1..(Len(bs) - 1) : Put(bs, i)[b] = bs[b]
         /\ Put(bs, i)[Len(bs)] # << >>
         /\ Len(Put(bs, i)[Len(bs)]) = Len(bs[Len(bs)]) + 1
         /\ Len(bs[Len(bs)]) \in Nat /\ DOMAIN bs[Len(bs)] = 1..Len(bs[Len(bs)])
         /\ DOMAIN Put(bs, i)[Len(bs)] = 1..(Len(bs[Len(bs)]) + 1)
         /\ \A k \in 1..Len(bs[Len(bs)]) : Put(bs, i)[Len(bs)][k] = bs[Len(bs)][k]
         /\ Put(bs, i)[Len(bs)][Len(bs[Len(bs)]) + 1] = i
<1> DEFINE S == Seq(Nat)
           n == Len(bs)
           new == Append(bs[n], i)
<1>1. n \in Nat /\ DOMAIN bs = 1..n /\ n \in 1..n /\ bs[n] \in S
  BY LenProperties
<1>2. /\ new \in S /\ new # << >> /\ Len(new) = Len(bs[n]) + 1
      /\ \A k \in 1..Len(bs[n]) : new[k] = bs[n][k]
      /\ new[Len(bs[n]) + 1] = i
      /\ Len(bs[n]) \in Nat /\ DOMAIN bs[n] = 1..Len(bs[n]) /\ DOMAIN new = 1..(Len(bs[n]) + 1)
  BY <1>1, AppendProperties, LenProperties, SMTT(30)
<1> HIDE DEF S, new
<1>3. Put(bs, i) = [bs EXCEPT ![n] = new]
  BY DEF Put, new
<1>4. bs \in Seq(S) /\ Len(bs) = n /\ n \in 1..Len(bs)
  BY <1>1 DEF S, n
<1> HIDE DEF n
<1>5. /\ Put(bs, i) \in Seq(S) /\ Len(Put(bs, i)) = n
      /\ \A b \in 1..n : Put(bs, i)[b] = IF b = n THEN new ELSE bs[b]
  BY <1>2, <1>3, <1>4, ExceptSeq
<1>6. DOMAIN Put(bs, i) = 1..n
  BY <1>5, LenProperties
<1>7. Put(bs, i)[n] = new /\ \A b \in 1..(n - 1) : Put(bs, i)[b] = bs[b]
  BY <1>1, <1>5
<1>8. Put(bs, i) \in Seq(Seq(Nat))
  BY <1>5 DEF S
<1> QED
  BY <1>1, <1>2, <1>4, <1>5, <1>6, <1>7, <1>8

LEMMA OpenedLaid ==
  ASSUME NEW n \in Nat, NEW bs, Laid(bs, n), Last(bs) # << >>
  PROVE  Laid(Opened(bs), n) /\ Last(Opened(bs)) = << >>
<1> DEFINE new == Opened(bs)
           m == Len(bs)
<1>1. bs \in Seq(Seq(Nat)) /\ Len(bs) > 0 /\ m \in Nat /\ DOMAIN bs = 1..m
  BY DEF Laid
<1>2. /\ new \in Seq(Seq(Nat)) /\ Len(new) = m + 1 /\ DOMAIN new = 1..(m + 1)
      /\ \A b \in 1..m : new[b] = bs[b]
      /\ new[m + 1] = << >>
  BY <1>1, OpenedBlocks
<1> HIDE DEF new
<1>3. bs[m] # << >> /\ Last(bs) = bs[m]
  BY DEF Last
<1>4. Last(new) = << >>
  BY <1>1, <1>2 DEF Last
<1>5. \A b \in 1..(Len(new) - 1) : new[b] # << >>
  BY <1>1, <1>2, <1>3 DEF Laid
<1>6. \A b \in DOMAIN new : \A k \in DOMAIN new[b] : b \in DOMAIN bs /\ new[b] = bs[b] /\ k \in DOMAIN bs[b]
  <2> TAKE b \in DOMAIN new
  <2> TAKE k \in DOMAIN new[b]
  <2>1. b # m + 1
    BY <1>2
  <2>2. b \in 1..m
    BY <1>1, <1>2, <2>1
  <2>3. new[b] = bs[b]
    BY <1>2, <2>2
  <2> QED
    BY <1>1, <2>2, <2>3
<1>7. \A b \in DOMAIN new : \A k \in DOMAIN new[b] :
         /\ new[b][k] \in 1..n
         /\ k > 1 => new[b][k] = new[b][k - 1] + 1
  <2>1. \A b \in DOMAIN bs : \A k \in DOMAIN bs[b] :
           /\ bs[b][k] \in 1..n
           /\ k > 1 => bs[b][k] = bs[b][k - 1] + 1
    BY DEF Laid
  <2> QED
    BY <1>6, <2>1
<1>8. \A i \in 1..n : \E b \in DOMAIN new : \E k \in DOMAIN new[b] : new[b][k] = i
  <2> TAKE i \in 1..n
  <2>1. PICK b \in DOMAIN bs : \E k \in DOMAIN bs[b] : bs[b][k] = i
    BY DEF Laid
  <2>2. b \in DOMAIN new /\ new[b] = bs[b]
    BY <1>1, <1>2
  <2> QED
    BY <2>1, <2>2
<1>9. \A b, c \in DOMAIN new : \A k \in DOMAIN new[b], l \in DOMAIN new[c] :
         new[b][k] = new[c][l] => b = c /\ k = l
  BY <1>6 DEF Laid
<1>10. \A b \in 1..(Len(new) - 1) :
         new[b + 1] # << >> => new[b + 1][1] = Last(new[b]) + 1
  <2> TAKE b \in 1..(Len(new) - 1)
  <2> HAVE new[b + 1] # << >>
  <2>0. b + 1 # m + 1
    BY <1>2
  <2>1. b \in 1..(m - 1)
    BY <1>1, <1>2, <2>0
  <2>2. b \in 1..m /\ b + 1 \in 1..m
    BY <1>1, <2>1
  <2>3. new[b + 1] = bs[b + 1] /\ new[b] = bs[b]
    BY <1>2, <2>2
  <2> QED
    BY <2>1, <2>3 DEF Laid
<1>11. Last(new[Len(new) - 1]) = n /\ Len(new) # 1
  <2>1. Last(bs[m]) = n
    BY <1>3 DEF Laid
  <2>2. Len(new) - 1 = m /\ new[m] = bs[m]
    BY <1>1, <1>2
  <2> QED
    BY <1>1, <1>2, <2>1, <2>2
<1>12. Laid(new, n)
  BY <1>1, <1>2, <1>4, <1>5, <1>7, <1>8, <1>9, <1>10, <1>11 DEF Laid
<1> QED
  BY <1>4, <1>12 DEF new

LEMMA PutLaid ==
  ASSUME NEW n \in Nat, NEW bs, Laid(bs, n)
  PROVE  Laid(Put(bs, n + 1), n + 1) /\ Last(Put(bs, n + 1)) # << >>
<1> DEFINE new == Put(bs, n + 1)
           m == Len(bs)
           len == Len(bs[m])
<1>1. /\ bs \in Seq(Seq(Nat)) /\ Len(bs) > 0 /\ m \in Nat \ {0} /\ DOMAIN bs = 1..m
      /\ bs[m] \in Seq(Nat)
  BY LenProperties DEF Laid
<1>2. /\ new \in Seq(Seq(Nat)) /\ Len(new) = m /\ DOMAIN new = 1..m
      /\ \A b \in 1..(m - 1) : new[b] = bs[b]
      /\ new[m] # << >> /\ Len(new[m]) = len + 1
      /\ len \in Nat /\ DOMAIN bs[m] = 1..len /\ DOMAIN new[m] = 1..(len + 1)
      /\ \A k \in 1..len : new[m][k] = bs[m][k]
      /\ new[m][len + 1] = n + 1
  <2>1. n + 1 \in Nat
    OBVIOUS
  <2> QED
    BY <1>1, <2>1, PutBlocks, Zenon
<1> HIDE DEF new
<1>3. /\ Last(new) = new[m] /\ Last(bs) = bs[m] /\ Last(new[m]) = n + 1
      /\ bs[m] = << >> <=> len = 0
      /\ len > 0 => Last(bs[m]) = bs[m][len]
  BY <1>1, <1>2 DEF Last
<1> HIDE DEF m, len
<1>4. len > 0 => bs[m][len] = n
  BY <1>3 DEF Laid
<1>5. \A b \in DOMAIN new : \A k \in DOMAIN new[b] :
         \/ b \in DOMAIN bs /\ k \in DOMAIN bs[b] /\ new[b][k] = bs[b][k]
         \/ b = m /\ k = len + 1 /\ new[b][k] = n + 1
  <2> TAKE b \in DOMAIN new
  <2> TAKE k \in DOMAIN new[b]
  <2>1. CASE b \in 1..(m - 1)
    <3>1. new[b] = bs[b] /\ b \in 1..m
      BY <1>1, <1>2, <2>1
    <3> QED
      BY <1>1, <3>1
  <2>2. CASE b = m
    <3>1. k \in 1..len \/ k = len + 1
      BY <1>2, <2>2
    <3>2. m \in 1..m
      BY <1>1
    <3> QED
      BY <1>1, <1>2, <2>2, <3>1, <3>2
  <2>3. b \in 1..m
    BY <1>2
  <2>4. b \in 1..(m - 1) \/ b = m
    BY <1>1, <2>3
  <2> QED
    BY <2>1, <2>2, <2>4
<1>6. \A b \in DOMAIN bs : \A k \in DOMAIN bs[b] :
         /\ b \in DOMAIN new /\ k \in DOMAIN new[b] /\ new[b][k] = bs[b][k]
         /\ bs[b][k] \in 1..n
  <2> TAKE b \in DOMAIN bs
  <2> TAKE k \in DOMAIN bs[b]
  <2>1. bs[b][k] \in 1..n
    BY DEF Laid
  <2>2. CASE b \in 1..(m - 1)
    BY <1>1, <1>2, <2>1, <2>2
  <2>3. CASE b = m
    BY <1>1, <1>2, <2>1, <2>3
  <2> QED
    BY <1>1, <2>2, <2>3
<1>7. \A b \in 1..(Len(new) - 1) : new[b] # << >>
  BY <1>1, <1>2 DEF Laid, m
<1>8. \A b \in DOMAIN new : \A k \in DOMAIN new[b] :
         /\ new[b][k] \in 1..(n + 1)
         /\ k > 1 => new[b][k] = new[b][k - 1] + 1
  <2> TAKE b \in DOMAIN new
  <2> TAKE k \in DOMAIN new[b]
  <2>1. CASE b \in DOMAIN bs /\ k \in DOMAIN bs[b] /\ new[b][k] = bs[b][k]
    <3>1. bs[b][k] \in 1..n
      BY <2>1, <1>6
    <3>2. ASSUME k > 1 PROVE new[b][k] = new[b][k - 1] + 1
      <4>1. bs[b] \in Seq(Nat)
        BY <1>1, <2>1
      <4>2. k - 1 \in DOMAIN bs[b]
        BY <2>1, <3>2, <4>1, LenProperties
      <4>3. new[b][k - 1] = bs[b][k - 1]
        BY <1>6, <2>1, <4>2
      <4> QED
        BY <2>1, <3>2, <4>3 DEF Laid
    <3> QED
      BY <2>1, <3>1, <3>2
  <2>2. CASE b = m /\ k = len + 1 /\ new[b][k] = n + 1
    <3>1. len \in Nat /\ (k > 1 => len > 0 /\ len \in 1..len /\ k - 1 = len)
      BY <1>2, <2>2
    <3>2. k > 1 => new[m][len] = bs[m][len]
      BY <1>2, <3>1
    <3>3. k > 1 => new[b][k - 1] = n
      BY <1>4, <2>2, <3>1, <3>2
    <3> QED
      BY <2>2, <3>3
  <2>3. \/ b \in DOMAIN bs /\ k \in DOMAIN bs[b] /\ new[b][k] = bs[b][k]
        \/ b = m /\ k = len + 1 /\ new[b][k] = n + 1
    BY <1>5, Zenon
  <2> QED
    BY <2>1, <2>2, <2>3, Zenon
<1>9. \A i \in 1..(n + 1) : \E b \in DOMAIN new : \E k \in DOMAIN new[b] : new[b][k] = i
  <2> TAKE i \in 1..(n + 1)
  <2>1. CASE i \in 1..n
    <3>1. PICK b \in DOMAIN bs : \E k \in DOMAIN bs[b] : bs[b][k] = i
      BY <2>1 DEF Laid
    <3> QED
      BY <1>6, <3>1
  <2>2. CASE i = n + 1
    <3>1. m \in DOMAIN new /\ len + 1 \in DOMAIN new[m] /\ new[m][len + 1] = i
      BY <1>1, <1>2, <2>2
    <3> QED
      BY <3>1
  <2> QED
    BY <2>1, <2>2
<1>10. \A b, c \in DOMAIN new : \A k \in DOMAIN new[b], l \in DOMAIN new[c] :
         new[b][k] = new[c][l] => b = c /\ k = l
  <2> TAKE b, c \in DOMAIN new
  <2> TAKE k \in DOMAIN new[b], l \in DOMAIN new[c]
  <2> HAVE new[b][k] = new[c][l]
  <2>1. CASE /\ b \in DOMAIN bs /\ k \in DOMAIN bs[b] /\ new[b][k] = bs[b][k]
             /\ c \in DOMAIN bs /\ l \in DOMAIN bs[c] /\ new[c][l] = bs[c][l]
    <3>1. \A x, y \in DOMAIN bs : \A u \in DOMAIN bs[x], v \in DOMAIN bs[y] :
             bs[x][u] = bs[y][v] => x = y /\ u = v
      BY DEF Laid
    <3>2. bs[b][k] = bs[c][l]
      BY <2>1
    <3>3. \A u \in DOMAIN bs[b], v \in DOMAIN bs[c] : bs[b][u] = bs[c][v] => b = c /\ u = v
      BY <2>1, <3>1
    <3>4. bs[b][k] = bs[c][l] => b = c /\ k = l
      BY <2>1, <3>3
    <3> QED
      BY <3>2, <3>4
  <2>2. \A d \in DOMAIN bs : \A j \in DOMAIN bs[d] : bs[d][j] # n + 1
    BY <1>6
  <2>3. \/ b \in DOMAIN bs /\ k \in DOMAIN bs[b] /\ new[b][k] = bs[b][k]
        \/ b = m /\ k = len + 1 /\ new[b][k] = n + 1
    BY <1>5, Zenon
  <2>4. \/ c \in DOMAIN bs /\ l \in DOMAIN bs[c] /\ new[c][l] = bs[c][l]
        \/ c = m /\ l = len + 1 /\ new[c][l] = n + 1
    BY <1>5, Zenon
  <2> QED
    BY <2>1, <2>2, <2>3, <2>4, Zenon
<1>11. \A b \in 1..(Len(new) - 1) :
         new[b + 1] # << >> => new[b + 1][1] = Last(new[b]) + 1
  <2> TAKE b \in 1..(Len(new) - 1)
  <2> HAVE new[b + 1] # << >>
  <2>0. b \in 1..(m - 1) /\ new[b] = bs[b]
    BY <1>2
  <2>a. bs[b + 1] # << >> => bs[b + 1][1] = Last(bs[b]) + 1
    BY <2>0 DEF Laid, m
  <2>1. CASE b + 1 \in 1..(m - 1)
    BY <1>2, <2>0, <2>a, <2>1
  <2>2. CASE b + 1 = m /\ len > 0
    <3>1. 1 \in 1..len
      BY <1>2, <2>2
    <3>2. new[m][1] = bs[m][1]
      BY <1>2, <3>1
    <3>3. bs[m] # << >>
      BY <1>3, <2>2
    <3> QED
      BY <2>0, <2>a, <2>2, <3>2, <3>3
  <2>3. CASE b + 1 = m /\ len = 0
    <3>1. new[m][1] = n + 1
      BY <1>2, <2>3
    <3>2. m # 1 /\ b = m - 1
      BY <1>1, <2>0, <2>3
    <3>3. Last(bs) = << >>
      BY <1>3, <2>3
    <3>4. Last(bs[m - 1]) = n
      BY <3>2, <3>3 DEF Laid, m
    <3> QED
      BY <2>0, <2>3, <3>1, <3>2, <3>4
  <2>4. b + 1 \in 1..(m - 1) \/ b + 1 = m
    BY <1>1, <2>0
  <2> QED
    BY <1>2, <2>1, <2>2, <2>3, <2>4
<1>12. Laid(new, n + 1)
  BY <1>1, <1>2, <1>3, <1>7, <1>8, <1>9, <1>10, <1>11 DEF Laid
<1> QED
  BY <1>2, <1>3, <1>12 DEF new

(* What stays of the other parts when a block is opened: everything.         *)
LEMMA OpenedRest ==
  ASSUME NEW n \in Nat \ {0}, NEW bs, Laid(bs, n), Last(bs) # << >>,
         NEW es, NEW ls, NEW gone,
         gone = IF FallsThrough(code[n].op) THEN {<<Len(bs), Len(bs) + 1>>} ELSE {}
  PROVE  /\ Unbroken(bs) => Unbroken(Opened(bs))
         /\ Fallthroughs(bs, es) => Fallthroughs(Opened(bs), es \cup gone)
         /\ Labelled(bs, n, ls) => Labelled(Opened(bs), n, ls)
<1> DEFINE new == Opened(bs)
           m == Len(bs)
<1>1. bs \in Seq(Seq(Nat)) /\ Len(bs) > 0 /\ m \in Nat /\ DOMAIN bs = 1..m
  BY DEF Laid
<1>2. /\ new \in Seq(Seq(Nat)) /\ Len(new) = m + 1 /\ DOMAIN new = 1..(m + 1)
      /\ \A b \in 1..m : new[b] = bs[b]
      /\ new[m + 1] = << >>
  BY <1>1, OpenedBlocks
<1>3. Last(bs[m]) = n
  BY DEF Laid, Last
<1>a. gone = IF FallsThrough(code[n].op) THEN {<<m, m + 1>>} ELSE {}
  OBVIOUS
<1> HIDE DEF new, m
<1>4. ASSUME Unbroken(bs) PROVE Unbroken(new)
  <2> SUFFICES ASSUME NEW b \in DOMAIN new, NEW k \in DOMAIN new[b], k > 1
               PROVE  /\ ~IsTerminator(code[new[b][k - 1]].op)
                      /\ Here[new[b][k]] \notin targets
    BY DEF Unbroken
  <2>1. b # m + 1
    BY <1>2
  <2>2. b \in 1..m
    BY <1>1, <1>2, <2>1
  <2>3. new[b] = bs[b] /\ b \in DOMAIN bs
    BY <1>1, <1>2, <2>2
  <2> QED
    BY <1>4, <2>3 DEF Unbroken
<1>5. ASSUME Fallthroughs(bs, es) PROVE Fallthroughs(new, es \cup gone)
  <2>1. \A e \in es \cup gone : e = <<e[1], e[1] + 1>> /\ e[1] \in 1..m
    <3> TAKE e \in es \cup gone
    <3>1. CASE e \in es
      <4>1. e = <<e[1], e[1] + 1>> /\ e[1] \in 1..(m - 1)
        BY <1>5, <3>1 DEF Fallthroughs, m
      <4> QED
        BY <1>1, <4>1
    <3>2. CASE e \in gone
      <4>1. e = <<m, m + 1>>
        BY <1>a, <3>2
      <4> QED
        BY <1>1, <4>1
    <3> QED
      BY <3>1, <3>2
  <2>2. ASSUME NEW b \in 1..m
        PROVE  <<b, b + 1>> \in es \cup gone <=> FallsThrough(code[Last(new[b])].op)
    <3>1. new[b] = bs[b]
      BY <1>2
    <3>2. CASE b \in 1..(m - 1)
      <4>1. <<b, b + 1>> \in es <=> FallsThrough(code[Last(bs[b])].op)
        BY <1>5, <3>2 DEF Fallthroughs, m
      <4>2. <<b, b + 1>> \notin gone
        BY <1>a, <1>1, <3>2
      <4> QED
        BY <3>1, <4>1, <4>2
    <3>3. CASE b = m
      <4>1. <<b, b + 1>> \notin es
        <5>1. \A e \in es : e[1] \in 1..(m - 1)
          BY <1>5 DEF Fallthroughs, m
        <5>2. <<b, b + 1>>[1] = b
          OBVIOUS
        <5>3. b \notin 1..(m - 1)
          BY <1>1, <3>3
        <5> QED
          BY <5>1, <5>2, <5>3
      <4>2. <<b, b + 1>> \in gone <=> FallsThrough(code[n].op)
        BY <1>a, <3>3
      <4> QED
        BY <1>3, <3>1, <3>3, <4>1, <4>2
    <3>4. b \in 1..m
      OBVIOUS
    <3>5. b \in 1..(m - 1) \/ b = m
      BY <1>1, <3>4
    <3> QED
      BY <3>2, <3>3, <3>5
  <2>3. Len(new) - 1 = m
    BY <1>1, <1>2
  <2>4. \A e \in es \cup gone : e = <<e[1], e[1] + 1>> /\ e[1] \in 1..(Len(new) - 1)
    BY <2>1, <2>3, Zenon
  <2>5. \A b \in 1..(Len(new) - 1) :
          <<b, b + 1>> \in es \cup gone <=> FallsThrough(code[Last(new[b])].op)
    BY <2>2, <2>3, Zenon
  <2> QED
    BY <2>4, <2>5, Zenon DEF Fallthroughs
<1>6. ASSUME Labelled(bs, n, ls) PROVE Labelled(new, n, ls)
  <2>1. \A a \in DOMAIN ls : ls[a] \in DOMAIN new /\ new[ls[a]] # << >> /\ Here[new[ls[a]][1]] = a
    <3> TAKE a \in DOMAIN ls
    <3>1. ls[a] \in 1..m /\ bs[ls[a]] # << >> /\ Here[bs[ls[a]][1]] = a
      BY <1>1, <1>6 DEF Labelled
    <3>2. new[ls[a]] = bs[ls[a]] /\ ls[a] \in DOMAIN new
      BY <1>1, <1>2, <3>1
    <3> QED
      BY <3>1, <3>2
  <2> QED
    BY <1>6, <2>1 DEF Labelled
<1> QED
  BY <1>4, <1>5, <1>6 DEF new, m

(* And when the next instruction is put into the last block.                 *)
LEMMA PutRest ==
  ASSUME NEW n \in Nat, NEW bs, Laid(bs, n), NEW es, NEW ls
  PROVE  LET new == Put(bs, n + 1) IN
         /\ Unbroken(bs) /\ (Last(bs) # << >> => /\ ~IsTerminator(code[n].op)
                                                 /\ Here[n + 1] \notin targets)
              => Unbroken(new)
         /\ Fallthroughs(bs, es) => Fallthroughs(new, es)
         /\ Labelled(bs, n, ls) => \A a \in DOMAIN ls : /\ ls[a] \in DOMAIN new
                                                        /\ new[ls[a]] # << >>
                                                        /\ Here[new[ls[a]][1]] = a
         /\ Last(bs) = << >> => new[Len(bs)] = <<n + 1>>
<1> DEFINE new == Put(bs, n + 1)
           m == Len(bs)
           len == Len(bs[m])
<1>1. /\ bs \in Seq(Seq(Nat)) /\ Len(bs) > 0 /\ m \in Nat \ {0} /\ DOMAIN bs = 1..m
      /\ bs[m] \in Seq(Nat)
  BY LenProperties DEF Laid
<1>2. /\ new \in Seq(Seq(Nat)) /\ Len(new) = m /\ DOMAIN new = 1..m
      /\ \A b \in 1..(m - 1) : new[b] = bs[b]
      /\ new[m] # << >> /\ Len(new[m]) = len + 1
      /\ len \in Nat /\ DOMAIN bs[m] = 1..len /\ DOMAIN new[m] = 1..(len + 1)
      /\ \A k \in 1..len : new[m][k] = bs[m][k]
      /\ new[m][len + 1] = n + 1
  <2>1. n + 1 \in Nat
    OBVIOUS
  <2> QED
    BY <1>1, <2>1, PutBlocks, Zenon
<1> HIDE DEF new
<1>3. /\ Last(bs) = bs[m]
      /\ bs[m] = << >> <=> len = 0
      /\ len > 0 => Last(bs[m]) = bs[m][len]
  BY <1>1, <1>2 DEF Last
<1>4. new[m] \in Seq(Nat)
  BY <1>1, <1>2
<1> HIDE DEF m, len
<1>5. len > 0 => bs[m][len] = n
  <2>1. Last(bs) # << >> => Last(Last(bs)) = n
    BY Zenon DEF Laid
  <2>2. len > 0 => len # 0
    BY <1>2
  <2> QED
    BY <1>3, <2>1, <2>2, Zenon
<1>6. ASSUME Unbroken(bs),
             Last(bs) # << >> => ~IsTerminator(code[n].op) /\ Here[n + 1] \notin targets
      PROVE  Unbroken(new)
  <2> SUFFICES ASSUME NEW b \in DOMAIN new, NEW k \in DOMAIN new[b], k > 1
               PROVE  /\ ~IsTerminator(code[new[b][k - 1]].op)
                      /\ Here[new[b][k]] \notin targets
    BY DEF Unbroken
  <2>1. b \in 1..m
    BY <1>2
  <2>2. CASE b \in 1..(m - 1)
    <3>1. new[b] = bs[b] /\ b \in DOMAIN bs
      BY <1>1, <1>2, <2>1, <2>2
    <3> QED
      BY <1>6, <3>1 DEF Unbroken
  <2>3. CASE b = m /\ k \in 1..len
    <3>1. k - 1 \in 1..len
      BY <1>2, <2>3
    <3>2. new[b][k] = bs[b][k] /\ new[b][k - 1] = bs[b][k - 1] /\ b \in DOMAIN bs /\ k \in DOMAIN bs[b]
      BY <1>1, <1>2, <2>1, <2>3, <3>1
    <3> QED
      BY <1>6, <3>2 DEF Unbroken
  <2>4. CASE b = m /\ k = len + 1
    <3>1. len > 0 /\ k - 1 = len /\ len \in 1..len
      BY <1>2, <2>4
    <3>2. new[b][k] = n + 1 /\ new[b][k - 1] = n
      BY <1>2, <1>5, <2>4, <3>1
    <3>3. Last(bs) # << >>
      BY <1>3, <3>1
    <3> QED
      BY <1>6, <3>2, <3>3
  <2>5. b \in 1..(m - 1) \/ b = m
    BY <1>1, <2>1
  <2>6. b = m => k \in 1..len \/ k = len + 1
    BY <1>2
  <2> QED
    BY <2>2, <2>3, <2>4, <2>5, <2>6
<1>7. ASSUME Fallthroughs(bs, es) PROVE Fallthroughs(new, es)
  BY <1>1, <1>2, <1>7 DEF Fallthroughs, m
<1>8. ASSUME Labelled(bs, n, ls), NEW a \in DOMAIN ls
      PROVE  ls[a] \in DOMAIN new /\ new[ls[a]] # << >> /\ Here[new[ls[a]][1]] = a
  <2>1. ls[a] \in 1..m /\ bs[ls[a]] # << >> /\ Here[bs[ls[a]][1]] = a
    BY <1>1, <1>8 DEF Labelled
  <2>2. CASE ls[a] \in 1..(m - 1)
    BY <1>2, <2>1, <2>2
  <2>3. CASE ls[a] = m
    <3>1. len # 0
      BY <1>3, <2>1, <2>3
    <3>2. 1 \in 1..len
      BY <1>2, <3>1
    <3> QED
      BY <1>2, <2>1, <2>3, <3>2
  <2> QED
    BY <1>1, <2>1, <2>2, <2>3
<1>9. ASSUME Last(bs) = << >> PROVE new[m] = <<n + 1>>
  <2>1. len = 0
    BY <1>3, <1>9
  <2>2. Len(new[m]) = 1 /\ new[m][1] = n + 1
    BY <1>2, <2>1
  <2> QED
    BY <1>4, <2>2
<1> QED
  BY <1>6, <1>7, <1>8, <1>9 DEF m, new

-----------------------------------------------------------------------------
(* One turn of the loop.  First the block an instruction goes into.          *)
OpenFor(i) == IF StartsBlock(i) THEN Opened(blocks) ELSE blocks
EdgeInto(i) == IF StartsBlock(i) THEN {<<Len(blocks), Len(blocks) + 1>>} ELSE {}

LEMMA OpenForKept ==
  ASSUME code \in Programs, Disassembled, NEW n \in Nat, n < Len(code), Laid(blocks, n),
         Cut(blocks, n), Fallthroughs(blocks, succ), Labelled(blocks, n, labels)
  PROVE  /\ Laid(OpenFor(n + 1), n) /\ Unbroken(OpenFor(n + 1))
         /\ Fallthroughs(OpenFor(n + 1), succ \cup EdgeInto(n + 1))
         /\ Labelled(OpenFor(n + 1), n, labels)
         /\ Last(OpenFor(n + 1)) # << >> => /\ ~IsTerminator(code[n].op)
                                            /\ Here[n + 1] \notin targets
<1>1. n + 1 \in DOMAIN code /\ instrs[n + 1].addr = Here[n + 1]
  <2>1. n + 1 \in DOMAIN code
    BY Program
  <2> QED
    BY <2>1 DEF Disassembled
<1>2. Last(blocks) # << >> => n \in Nat \ {0} /\ ~IsTerminator(code[n].op)
  <2> SUFFICES ASSUME Last(blocks) # << >> PROVE n \in Nat \ {0} /\ ~IsTerminator(code[n].op)
    OBVIOUS
  <2> DEFINE m == Len(blocks)
  <2>1. blocks[m] # << >> /\ m \in DOMAIN blocks /\ blocks[m] \in Seq(Nat)
    BY LenProperties, SMTT(30) DEF Laid, Last
  <2>2. 1 \in DOMAIN blocks[m]
    BY <2>1
  <2>3. blocks[m][1] \in 1..n
    BY <2>1, <2>2 DEF Laid
  <2> QED
    BY <2>3 DEF Cut
<1>3. CASE StartsBlock(n + 1)
  <2>1. Last(blocks) # << >>
    BY <1>3 DEF StartsBlock
  <2>2. n \in Nat \ {0} /\ ~IsTerminator(code[n].op)
    BY <1>2, <2>1
  <2>3. FallsThrough(code[n].op)
    BY <2>2 DEF FallsThrough, IsTerminator, IsUnconditionalBranch
  <2>4. Laid(Opened(blocks), n) /\ Last(Opened(blocks)) = << >>
    BY <2>1, OpenedLaid
  <2>5. EdgeInto(n + 1) = IF FallsThrough(code[n].op) THEN {<<Len(blocks), Len(blocks) + 1>>} ELSE {}
    BY <1>3, <2>3 DEF EdgeInto
  <2>6. Unbroken(blocks)
    BY DEF Cut
  <2>7. /\ Unbroken(Opened(blocks))
        /\ Fallthroughs(Opened(blocks), succ \cup EdgeInto(n + 1))
        /\ Labelled(Opened(blocks), n, labels)
    BY <2>1, <2>2, <2>5, <2>6, OpenedRest
  <2>8. OpenFor(n + 1) = Opened(blocks)
    BY <1>3 DEF OpenFor
  <2> QED
    BY <2>4, <2>7, <2>8
<1>4. CASE ~StartsBlock(n + 1)
  <2>1. OpenFor(n + 1) = blocks /\ succ \cup EdgeInto(n + 1) = succ
    BY <1>4 DEF OpenFor, EdgeInto
  <2>2. Last(blocks) # << >> => Here[n + 1] \notin targets
    BY <1>1, <1>4 DEF StartsBlock
  <2> QED
    BY <1>2, <2>1, <2>2 DEF Cut
<1> QED
  BY <1>3, <1>4

(* Then the instruction goes in, and a terminator closes the block.          *)
EdgeOutOf(i) == IF Closes(i) /\ FallsThrough(code[i].op)
                THEN {<<Len(OpenFor(i)), Len(OpenFor(i)) + 1>>} ELSE {}

LEMMA TurnOfLoop ==
  ASSUME code \in Programs, Disassembled, Laid(blocks, Made), Made \in Nat, LiftInstr
  PROVE  LET i == Made + 1 IN
         /\ Made < Len(code) => i \in DOMAIN code /\ instrs[i].addr = Here[i]
         /\ blocks' = IF Closes(i) THEN Opened(Put(OpenFor(i), i)) ELSE Put(OpenFor(i), i)
         /\ succ' = succ \cup EdgeInto(i) \cup EdgeOutOf(i)
         /\ labels' = IF instrs[i].addr \in targets
                      THEN [a \in DOMAIN labels \cup {instrs[i].addr} |->
                              IF a = instrs[i].addr THEN Len(OpenFor(i)) ELSE labels[a]]
                      ELSE labels
<1> DEFINE i == Made + 1
<1>1. Made < Len(code) => i \in DOMAIN code /\ instrs[i].addr = Here[i]
  <2> SUFFICES ASSUME Made < Len(code) PROVE i \in DOMAIN code /\ instrs[i].addr = Here[i]
    OBVIOUS
  <2>1. i \in DOMAIN code
    BY Program
  <2> QED
    BY <2>1 DEF Disassembled
<1>2. OpenFor(i) = IF StartsBlock(i) THEN Append(blocks, << >>) ELSE blocks
  BY DEF OpenFor, Opened
<1>3. blocks' = IF Closes(i) THEN Opened(Put(OpenFor(i), i)) ELSE Put(OpenFor(i), i)
  BY <1>2, Zenon DEF LiftInstr, Opened, Put, Made
<1>4. labels' = IF instrs[i].addr \in targets
                THEN [a \in DOMAIN labels \cup {instrs[i].addr} |->
                        IF a = instrs[i].addr THEN Len(OpenFor(i)) ELSE labels[a]]
                ELSE labels
  BY <1>2, Zenon DEF LiftInstr, Made
<1>5. succ' = succ \cup (IF StartsBlock(i) THEN {<<Len(OpenFor(i)) - 1, Len(OpenFor(i))>>} ELSE {})
                   \cup EdgeOutOf(i)
  BY <1>2, Zenon DEF LiftInstr, Made, EdgeOutOf
<1>6. StartsBlock(i) => Len(OpenFor(i)) = Len(blocks) + 1 /\ Len(blocks) \in Nat
  BY OpenedBlocks DEF OpenFor, Laid
<1>7. (IF StartsBlock(i) THEN {<<Len(OpenFor(i)) - 1, Len(OpenFor(i))>>} ELSE {}) = EdgeInto(i)
  <2>1. CASE StartsBlock(i)
    <3>1. Len(OpenFor(i)) - 1 = Len(blocks) /\ Len(OpenFor(i)) = Len(blocks) + 1
      BY <1>6, <2>1
    <3> QED
      BY <2>1, <3>1, Zenon DEF EdgeInto
  <2>2. CASE ~StartsBlock(i)
    BY <2>2, Zenon DEF EdgeInto
  <2> QED
    BY <2>1, <2>2
<1> QED
  BY <1>1, <1>3, <1>4, <1>5, <1>7

LEMMA BlocksKept ==
  ASSUME code \in Programs, Disassembled, Made \in Nat, Made < Len(code), Laid(blocks, Made),
         Cut(blocks, Made), Fallthroughs(blocks, succ), Labelled(blocks, Made, labels),
         LiftInstr
  PROVE  /\ Laid(blocks', Made + 1) /\ Cut(blocks', Made + 1)
         /\ Fallthroughs(blocks', succ') /\ Labelled(blocks', Made + 1, labels')
<1> DEFINE i == Made + 1
           open == OpenFor(i)
           filled == Put(open, i)
           es == succ \cup EdgeInto(i)
<1>1. /\ Laid(open, Made) /\ Unbroken(open) /\ Fallthroughs(open, es)
      /\ Labelled(open, Made, labels)
      /\ Last(open) # << >> => ~IsTerminator(code[Made].op) /\ Here[i] \notin targets
  BY OpenForKept
<1>2. /\ i \in DOMAIN code /\ instrs[i].addr = Here[i]
      /\ blocks' = IF Closes(i) THEN Opened(filled) ELSE filled
      /\ succ' = es \cup EdgeOutOf(i)
      /\ labels' = IF Here[i] \in targets
                   THEN [a \in DOMAIN labels \cup {Here[i]} |->
                           IF a = Here[i] THEN Len(open) ELSE labels[a]]
                   ELSE labels
  BY TurnOfLoop, Zenon
<1>3. i \in Nat \ {0} /\ i <= Len(code) /\ Len(code) \in Nat
  BY Program
<1>4. Laid(filled, i) /\ Last(filled) # << >>
  BY <1>1, PutLaid
<1>5. /\ Unbroken(filled) /\ Fallthroughs(filled, es)
      /\ \A a \in DOMAIN labels : /\ labels[a] \in DOMAIN filled
                                  /\ filled[labels[a]] # << >>
                                  /\ Here[filled[labels[a]][1]] = a
      /\ Last(open) = << >> => filled[Len(open)] = <<i>>
  BY <1>1, PutRest
<1>6. Len(filled) = Len(open) /\ DOMAIN filled = 1..Len(open) /\ Len(open) \in 1..Len(open)
  BY <1>1, <1>3, PutBlocks DEF Laid
<1> HIDE DEF filled, es, open
<1>7. Labelled(filled, i, labels')
  <2>1. DOMAIN labels' = {Here[j] : j \in {j \in 1..i : Here[j] \in targets}}
    <3>1. DOMAIN labels = {Here[j] : j \in {j \in 1..Made : Here[j] \in targets}}
      BY <1>1 DEF Labelled
    <3>2. 1..i = 1..Made \cup {i}
      OBVIOUS
    <3>3. DOMAIN labels' = DOMAIN labels \cup (IF Here[i] \in targets THEN {Here[i]} ELSE {})
      BY <1>2
    <3> HIDE DEF i
    <3>4. {Here[j] : j \in {j \in 1..i : Here[j] \in targets}}
            = {Here[j] : j \in {j \in 1..Made : Here[j] \in targets}}
                \cup (IF Here[i] \in targets THEN {Here[i]} ELSE {})
      BY <3>2, Zenon
    <3> QED
      BY <3>1, <3>3, <3>4
  <2>2. ASSUME NEW a \in DOMAIN labels'
        PROVE  labels'[a] \in DOMAIN filled /\ filled[labels'[a]] # << >> /\ Here[filled[labels'[a]][1]] = a
    <3>1. CASE Here[i] \in targets /\ a = Here[i]
      <4>1. labels'[a] = Len(open)
        BY <1>2, <3>1
      <4>2. filled[Len(open)] = <<i>>
        BY <1>1, <1>5, <3>1
      <4>3. filled[Len(open)] # << >> /\ filled[Len(open)][1] = i
        BY <4>2
      <4> QED
        BY <1>6, <3>1, <4>1, <4>3
    <3>2. CASE ~(Here[i] \in targets /\ a = Here[i])
      <4>1. a \in DOMAIN labels /\ labels'[a] = labels[a]
        BY <1>2, <3>2
      <4> QED
        BY <1>5, <4>1
    <3> QED
      BY <3>1, <3>2
  <2> QED
    BY <2>1, <2>2 DEF Labelled
<1>8. CASE Closes(i)
  <2>1. blocks' = Opened(filled)
    BY <1>2, <1>8
  <2>2. Laid(Opened(filled), i) /\ Last(Opened(filled)) = << >>
    BY <1>3, <1>4, OpenedLaid
  <2>3. EdgeOutOf(i) = IF FallsThrough(code[i].op) THEN {<<Len(filled), Len(filled) + 1>>} ELSE {}
    BY <1>6, <1>8 DEF EdgeOutOf, open
  <2>4. /\ Unbroken(Opened(filled)) /\ Fallthroughs(Opened(filled), es \cup EdgeOutOf(i))
        /\ Labelled(Opened(filled), i, labels')
    BY <1>3, <1>4, <1>5, <1>7, <2>3, OpenedRest
  <2>5. Cut(Opened(filled), i)
    BY <1>8, <2>2, <2>4 DEF Cut, Closes
  <2> QED
    BY <1>2, <2>1, <2>2, <2>4, <2>5
<1>9. CASE ~Closes(i)
  <2>1. blocks' = filled /\ succ' = es
    BY <1>2, <1>9 DEF EdgeOutOf
  <2>2. Cut(filled, i)
    BY <1>3, <1>4, <1>5, <1>9 DEF Cut, Closes
  <2> QED
    BY <1>4, <1>5, <1>7, <2>1, <2>2
<1> QED
  BY <1>8, <1>9

-----------------------------------------------------------------------------
(* The operands of an instruction.                                           *)
LEMMA AppendAny ==
  ASSUME NEW s, IsSequence(s), NEW e
  PROVE  /\ IsSequence(Append(s, e)) /\ Len(Append(s, e)) = Len(s) + 1
         /\ DOMAIN s = 1..Len(s) /\ DOMAIN Append(s, e) = 1..(Len(s) + 1)
         /\ \A k \in 1..Len(s) : Append(s, e)[k] = s[k]
         /\ Append(s, e)[Len(s) + 1] = e
<1> DEFINE n == Len(s)
           S == {s[k] : k \in 1..n} \cup {e}
<1>1. n \in Nat /\ s = [k \in 1..n |-> s[k]]
  BY DEF IsSequence
<1>2. s \in Seq(S) /\ e \in S /\ DOMAIN s = 1..n
  <2>1. s \in [1..n -> S] /\ e \in S
    BY <1>1, Zenon
  <2>a. DOMAIN s = 1..n
    BY <1>1, Zenon
  <2> HIDE DEF S, n
  <2>2. [1..n -> S] \in {[1..k -> S] : k \in Nat}
    BY <1>1
  <2>3. s \in UNION {[1..k -> S] : k \in Nat}
    BY <2>1, <2>2
  <2> QED
    BY <2>1, <2>a, <2>3, SeqDef
<1> HIDE DEF S
<1>3. /\ Append(s, e) \in Seq(S) /\ Len(Append(s, e)) = n + 1
      /\ \A k \in 1..n : Append(s, e)[k] = s[k]
      /\ Append(s, e)[n + 1] = e
  BY <1>2, AppendProperties
<1>4. Append(s, e) \in [1..Len(Append(s, e)) -> S] /\ Len(Append(s, e)) \in Nat
  BY <1>3, LenProperties
<1>5. IsSequence(Append(s, e)) /\ DOMAIN Append(s, e) = 1..Len(Append(s, e))
  BY <1>4, Zenon DEF IsSequence
<1> QED
  BY <1>2, <1>3, <1>5

LEMMA SeqOfAny ==
  ASSUME NEW S, NEW s \in Seq(S)
  PROVE  IsSequence(s) /\ DOMAIN s = 1..Len(s) /\ \A k \in DOMAIN s : s[k] \in S
  BY LenProperties DEF IsSequence

LEMMA ConcatSymbols ==
  ASSUME NEW S, NEW s \in Seq(S), NEW t \in Seq(S)
  PROVE  SymbolsOf(s \o t) = SymbolsOf(s) \cup SymbolsOf(t)
<1>1. /\ s \o t \in Seq(S) /\ Len(s) \in Nat /\ Len(t) \in Nat
      /\ DOMAIN s = 1..Len(s) /\ DOMAIN t = 1..Len(t)
      /\ DOMAIN (s \o t) = 1..(Len(s) + Len(t))
      /\ \A i \in 1..(Len(s) + Len(t)) :
            (s \o t)[i] = IF i <= Len(s) THEN s[i] ELSE t[i - Len(s)]
  BY ConcatProperties, LenProperties
<1> DEFINE u == s \o t
           m == Len(s)
           n == Len(t)
<1>2. /\ DOMAIN s = 1..m /\ DOMAIN t = 1..n /\ DOMAIN u = 1..(m + n) /\ m \in Nat /\ n \in Nat
      /\ \A i \in 1..(m + n) : u[i] = IF i <= m THEN s[i] ELSE t[i - m]
  BY <1>1
<1> HIDE DEF u, m, n
<1>3. ASSUME NEW x \in SymbolsOf(u) PROVE x \in SymbolsOf(s) \cup SymbolsOf(t)
  <2>1. PICK k \in DOMAIN u : u[k][1] = "symbol" /\ u[k][2] = x
    BY <1>3 DEF SymbolsOf
  <2>2. CASE k <= m
    <3>1. k \in DOMAIN s /\ u[k] = s[k]
      BY <1>2, <2>2
    <3> QED
      BY <2>1, <3>1 DEF SymbolsOf
  <2>3. CASE ~(k <= m)
    <3>1. k - m \in DOMAIN t /\ u[k] = t[k - m]
      BY <1>2, <2>3
    <3> QED
      BY <2>1, <3>1 DEF SymbolsOf
  <2> QED
    BY <2>2, <2>3
<1>4. ASSUME NEW x \in SymbolsOf(s) PROVE x \in SymbolsOf(u)
  <2>1. PICK k \in DOMAIN s : s[k][1] = "symbol" /\ s[k][2] = x
    BY <1>4 DEF SymbolsOf
  <2>2. k \in DOMAIN u /\ u[k] = s[k]
    BY <1>2
  <2> QED
    BY <2>1, <2>2 DEF SymbolsOf
<1>5. ASSUME NEW x \in SymbolsOf(t) PROVE x \in SymbolsOf(u)
  <2>1. PICK k \in DOMAIN t : t[k][1] = "symbol" /\ t[k][2] = x
    BY <1>5 DEF SymbolsOf
  <2>2. k + m \in DOMAIN u /\ u[k + m] = t[k]
    <3>1. k + m \in 1..(m + n) /\ ~(k + m <= m) /\ k + m - m = k
      BY <1>2
    <3> QED
      BY <1>2, <3>1
  <2> QED
    BY <2>1, <2>2 DEF SymbolsOf
<1>6. SymbolsOf(u) = SymbolsOf(s) \cup SymbolsOf(t)
  BY <1>3, <1>4, <1>5
<1> QED
  BY <1>6 DEF u

(* LiftOperands: one symbol, if the relocations hit, and never a block.      *)
Nearest(i) == CHOOSE r \in Hits(i) : \A s \in Hits(i) : r.at <= s.at

LEMMA OperandsLifted ==
  ASSUME NEW i
  PROVE  /\ IsSequence(LiftOperands(i))
         /\ \A k \in DOMAIN LiftOperands(i) : LiftOperands(i)[k][1] # "block"
         /\ SymbolsOf(LiftOperands(i)) =
               IF "imm" \in ToSet(Operands(code[i].op)) /\ Hits(i) # {}
               THEN {Nearest(i).sym} ELSE {}
<1> DEFINE x == Nearest(i).sym
           S == {<<"reg">>, <<"imm">>, <<"exec">>, <<"symbol", x>>}
           lifted(kind) == IF kind \in ToSet(Operands(code[i].op))
                           THEN LiftOperand(i, kind) ELSE << >>
           reg == lifted("reg")
           imm == lifted("imm")
           exec == IF ShouldReadExec(code[i].op) THEN << <<"exec">> >> ELSE << >>
<1>1. LiftOperands(i) = reg \o imm \o exec
  BY DEF LiftOperands
<1>2. reg \in {<< >>, << <<"reg">> >>}
  BY DEF LiftOperand
<1>3. imm \in {<< >>, << <<"imm">> >>, << <<"symbol", x>> >>}
  BY DEF LiftOperand, Nearest
<1>4. exec \in {<< >>, << <<"exec">> >>}
  OBVIOUS
<1>5. imm = << <<"symbol", x>> >> <=> "imm" \in ToSet(Operands(code[i].op)) /\ Hits(i) # {}
  BY DEF LiftOperand, Nearest
<1> HIDE DEF reg, imm, exec, x
<1>a. /\ <<"reg">> \in S /\ <<"imm">> \in S /\ <<"exec">> \in S /\ <<"symbol", x>> \in S
      /\ \A o \in S : o[1] # "block"
  OBVIOUS
<1>6. reg \in Seq(S) /\ imm \in Seq(S) /\ exec \in Seq(S)
  <2> HIDE DEF S
  <2>1. \A o \in S : <<o>> \in Seq(S)
    OBVIOUS
  <2>2. << >> \in Seq(S)
    OBVIOUS
  <2> QED
    BY <1>2, <1>3, <1>4, <1>a, <2>1, <2>2, Zenon
<1>7. SymbolsOf(reg) = {} /\ SymbolsOf(exec) = {}
  BY <1>2, <1>4 DEF SymbolsOf
<1>8. SymbolsOf(imm) = IF imm = << <<"symbol", x>> >> THEN {x} ELSE {}
  BY <1>3 DEF SymbolsOf
<1> HIDE DEF S
<1>10. reg \o imm \in Seq(S) /\ reg \o imm \o exec \in Seq(S)
  BY <1>6, ConcatProperties
<1>11. SymbolsOf(reg \o imm \o exec) = SymbolsOf(imm)
  <2>1. SymbolsOf(reg \o imm) = SymbolsOf(reg) \cup SymbolsOf(imm)
    BY <1>6, ConcatSymbols
  <2>2. SymbolsOf(reg \o imm \o exec) = SymbolsOf(reg \o imm) \cup SymbolsOf(exec)
    BY <1>6, <1>10, ConcatSymbols, ZenonT(30)
  <2> QED
    BY <1>7, <2>1, <2>2
<1>12. /\ IsSequence(reg \o imm \o exec)
       /\ \A k \in DOMAIN (reg \o imm \o exec) : (reg \o imm \o exec)[k][1] # "block"
  BY <1>a, <1>10, SeqOfAny
<1> QED
  BY <1>1, <1>5, <1>8, <1>11, <1>12 DEF x

(* Where the relocation of an instruction is.                                *)
Entry(i) == [at |-> Here[i] + 1, sym |-> code[i].sym]

LEMMA Entries ==
  ASSUME code \in Programs
  PROVE  /\ \A j \in DOMAIN code : Entry(j).at = Here[j] + 1 /\ Entry(j).sym = code[j].sym
         /\ \A r : r \in RelocationsOf(code) <=>
               \E j \in DOMAIN code : code[j].sym # "none" /\ r = Entry(j)
  BY DEF Entry, RelocationsOf, Here

(* An instruction is hit by its own relocation, at the second word, unless it*)
(* is the first; by that of the next if it borrows; and by no other.         *)
LEMMA RelocationsHit ==
  ASSUME code \in Programs, Disassembled, Table = Filled, NEW i \in DOMAIN code
  PROVE  /\ \A r \in Hits(i) : \/ code[i].sym # "none" /\ r = Entry(i)
                               \/ Borrows(i) /\ code[i + 1].sym # "none" /\ r = Entry(i + 1)
         /\ i > 1 /\ code[i].sym # "none" /\ Entry(i) \in Filled => Entry(i) \in Hits(i)
<1>1. /\ DOMAIN code = 1..Len(code) /\ Len(code) \in Nat
      /\ \A j \in DOMAIN code : code[j].sym # "none" => code[j].op = "literal"
  BY Program
<1>2. /\ \A j \in DOMAIN code : Here[j] \in Nat
      /\ \A j \in DOMAIN code : j + 1 \in DOMAIN code =>
            Here[j + 1] = Here[j] + Words(code[j].op)
      /\ \A j, k \in DOMAIN code : j < k => Here[j] < Here[k]
  BY Addresses
<1>3. instrs[i].addr = Here[i] /\ instrs[i].size = SizeOf(i)
  BY DEF Disassembled
<1>4. Hits(i) = {r \in Filled : r.at \in Here[i]..(Here[i] + SizeOf(i))}
  BY <1>3 DEF Hits
<1>5. i = 1 => SizeOf(i) = 0
  BY DEF SizeOf
<1>6. i > 1 => i - 1 \in DOMAIN code /\ SizeOf(i) = Words(code[i - 1].op)
  <2> SUFFICES ASSUME i > 1 PROVE i - 1 \in DOMAIN code /\ SizeOf(i) = Words(code[i - 1].op)
    OBVIOUS
  <2>1. i - 1 \in DOMAIN code /\ i - 1 + 1 = i
    BY <1>1
  <2>2. Here[i] = Here[i - 1] + Words(code[i - 1].op)
    BY <1>2, <2>1
  <2>3. Words(code[i - 1].op) \in Nat
    BY DEF Words
  <2> QED
    BY <1>2, <2>1, <2>2, <2>3 DEF SizeOf
<1>7. \A j \in DOMAIN code : Words(code[j].op) = IF code[j].op = "literal" THEN 2 ELSE 1
  BY DEF Words
<1>8. ASSUME NEW j \in DOMAIN code, code[j].sym # "none",
             Here[j] + 1 \in Here[i]..(Here[i] + SizeOf(i))
      PROVE  j = i \/ (Borrows(i) /\ j = i + 1)
  <2>1. code[j].op = "literal" /\ Words(code[j].op) = 2
    BY <1>1, <1>7, <1>8
  <2>2. CASE j < i
    <3>1. j + 1 \in DOMAIN code /\ Here[j + 1] = Here[j] + 2
      BY <1>1, <1>2, <2>1, <2>2
    <3>2. j + 1 = i \/ j + 1 < i
      BY <1>1, <2>2
    <3>3. Here[i] >= Here[j] + 2
      BY <1>2, <3>1, <3>2
    <3> QED
      BY <1>2, <1>8, <3>3
  <2>3. CASE i < j
    <3>1. i + 1 \in DOMAIN code /\ Here[i + 1] = Here[i] + Words(code[i].op)
      BY <1>1, <1>2, <2>3
    <3>2. i + 1 = j \/ i + 1 < j
      BY <1>1, <2>3
    <3>3. Here[j] >= Here[i] + Words(code[i].op) /\ (i + 1 < j => Here[j] > Here[i] + Words(code[i].op))
      BY <1>2, <3>1, <3>2
    <3>4. Words(code[i].op) \in {1, 2} /\ SizeOf(i) \in {0, 1, 2}
      BY <1>1, <1>5, <1>6, <1>7
    <3>5. Here[j] + 1 <= Here[i] + SizeOf(i)
      BY <1>2, <1>8, <3>4
    <3>6. Words(code[i].op) = 1 /\ SizeOf(i) = 2 /\ i + 1 = j
      BY <1>2, <3>2, <3>3, <3>4, <3>5
    <3>7. code[i].op # "literal" /\ i > 1 /\ code[i - 1].op = "literal" /\ i < Len(code)
      <4>1. i > 1
        BY <1>1, <1>5, <3>6
      <4> QED
        BY <1>1, <1>6, <1>7, <3>6, <4>1
    <3>8. code[i + 1].op = "literal"
      BY <2>1, <3>6
    <3> QED
      BY <3>6, <3>7, <3>8 DEF Borrows
  <2> QED
    BY <1>1, <2>2, <2>3
<1>9. ASSUME NEW r \in Hits(i)
      PROVE  \/ code[i].sym # "none" /\ r = Entry(i)
             \/ Borrows(i) /\ code[i + 1].sym # "none" /\ r = Entry(i + 1)
  <2>1. r \in RelocationsOf(code) /\ r.at \in Here[i]..(Here[i] + SizeOf(i))
    BY <1>4, <1>9 DEF Filled
  <2>2. PICK j \in DOMAIN code : code[j].sym # "none" /\ r = Entry(j)
    BY <2>1, Entries
  <2>3. Here[j] + 1 \in Here[i]..(Here[i] + SizeOf(i))
    BY <2>1, <2>2 DEF Entry
  <2> QED
    BY <1>8, <2>2, <2>3
<1>10. ASSUME i > 1, code[i].sym # "none", Entry(i) \in Filled PROVE Entry(i) \in Hits(i)
  <2>1. Here[i] + 1 \in Here[i]..(Here[i] + SizeOf(i))
    BY <1>2, <1>6, <1>7, <1>10
  <2> QED
    BY <1>4, <1>10, <2>1 DEF Entry
<1> QED
  BY <1>9, <1>10

(* The operands made of an instruction have the symbols they should.         *)
LEMMA SymbolsFound ==
  ASSUME code \in Programs, Disassembled, Table = Filled, attempts = 1 => AllKnown,
         NEW i \in DOMAIN code
  PROVE  FoundBy(i, SymbolsOf(LiftOperands(i)))
<1> DEFINE imm == "imm" \in ToSet(Operands(code[i].op))
           symbols == SymbolsOf(LiftOperands(i))
<1>1. symbols = IF imm /\ Hits(i) # {} THEN {Nearest(i).sym} ELSE {}
  BY OperandsLifted
<1>2. /\ DOMAIN code = 1..Len(code) /\ Len(code) \in Nat
      /\ \A j \in DOMAIN code : code[j].sym # "none" => code[j].op = "literal"
      /\ \A j \in DOMAIN code : Here[j] \in Nat
      /\ \A j, k \in DOMAIN code : j < k => Here[j] < Here[k]
  BY Program, Addresses
<1>3. \A j \in DOMAIN code : Entry(j).at = Here[j] + 1 /\ Entry(j).sym = code[j].sym
  BY Entries
<1>4. ASSUME Hits(i) # {}
      PROVE  /\ Nearest(i) \in Hits(i)
             /\ Nearest(i).sym \in ({code[i].sym} \cup IF Borrows(i) THEN {code[i + 1].sym} ELSE {})
                                     \ {"none"}
             /\ code[i].sym # "none" => Nearest(i) = Entry(i)
  <2>1. PICK e : /\ \A r \in Hits(i) : r = e
                 /\ \/ code[i].sym # "none" /\ e = Entry(i)
                    \/ Borrows(i) /\ code[i].sym = "none" /\ code[i + 1].sym # "none"
                       /\ e = Entry(i + 1)
    <3>1. Borrows(i) => code[i].sym = "none" /\ i + 1 \in DOMAIN code
      BY <1>2 DEF Borrows
    <3> QED
      BY <1>4, <3>1, RelocationsHit, Zenon
  <2>2. e \in Hits(i)
    BY <1>4, <2>1
  <2>3. e.at \in Nat /\ e.sym # "none"
    <3>1. Borrows(i) => i + 1 \in DOMAIN code
      BY <1>2 DEF Borrows
    <3>2. \A j \in DOMAIN code : Entry(j).at \in Nat
      BY <1>2, <1>3
    <3> QED
      BY <1>3, <2>1, <3>1, <3>2
  <2>4. e.at <= e.at
    BY <2>3
  <2>5. Nearest(i) = e
    BY <2>1, <2>2, <2>4 DEF Nearest
  <2>6. e.sym = code[i].sym \/ (Borrows(i) /\ e.sym = code[i + 1].sym)
    <3>1. Borrows(i) => i + 1 \in DOMAIN code
      BY <1>2 DEF Borrows
    <3> QED
      BY <1>3, <2>1, <3>1
  <2> QED
    BY <2>1, <2>2, <2>3, <2>5, <2>6
<1>5. ASSUME i > 1, Kept(i) PROVE code[i].sym \in symbols
  <2>1. code[i].sym # "none" /\ imm
    <3>1. code[i].op = "literal" /\ code[i].sym # "none"
      BY <1>2, <1>5 DEF Kept
    <3> QED
      BY <3>1 DEF Operands, ToSet
  <2>2. Entry(i) \in RelocationsOf(code)
    BY <2>1, Entries
  <2>3. ASSUME NEW b \in RelocationsOf(code), b.sym = "section" PROVE Entry(i).at < b.at
    <3>1. PICK j \in DOMAIN code : code[j].sym # "none" /\ b = Entry(j)
      BY Entries
    <3>2. code[j].sym = "section" /\ attempts # 1
      BY <1>3, <2>3, <3>1 DEF AllKnown
    <3>3. j \notin 1..i
      BY <1>5, <3>2 DEF Kept
    <3>4. i < j
      BY <1>2, <3>3
    <3>5. Here[i] < Here[j] /\ Here[i] \in Nat /\ Here[j] \in Nat
      BY <1>2, <3>4
    <3> QED
      BY <1>3, <3>1, <3>5
  <2>4. Entry(i) \in Filled
    BY <2>2, <2>3 DEF Filled
  <2>5. Entry(i) \in Hits(i)
    BY <1>5, <2>1, <2>4, RelocationsHit
  <2> QED
    BY <1>1, <1>3, <1>4, <2>1, <2>5
<1>6. symbols \subseteq ({code[i].sym} \cup IF Borrows(i) THEN {code[i + 1].sym} ELSE {}) \ {"none"}
  BY <1>1, <1>4
<1> QED
  BY <1>5, <1>6 DEF FoundBy

-----------------------------------------------------------------------------
(* How the invariant is kept.                                                *)
LEMMA NothingMadeYet ==
  code \in Programs /\ NothingMade => FillingInv /\ Made < Len(code)
<1> SUFFICES ASSUME code \in Programs, NothingMade
             PROVE  FillingInv /\ Made < Len(code)
  OBVIOUS
<1>1. blocks = << << >> >> /\ succ = {} /\ ops = << >> /\ labels = << >> /\ pending = {}
  BY DEF NothingMade
<1>2. Made = 0 /\ Made < Len(code) /\ Len(code) \in Nat
  BY <1>1, Program DEF Made
<1>3. /\ Len(blocks) = 1 /\ DOMAIN blocks = {1} /\ blocks[1] = << >> /\ Last(blocks) = << >>
      /\ DOMAIN blocks[1] = {} /\ blocks \in Seq(Seq(Nat)) /\ 1..(Len(blocks) - 1) = {}
  BY <1>1 DEF Last
<1>4. Laid(blocks, 0)
  BY <1>3 DEF Laid
<1>5. Cut(blocks, 0)
  BY <1>3 DEF Cut, Unbroken
<1>6. Fallthroughs(blocks, succ)
  BY <1>1, <1>3 DEF Fallthroughs
<1>7. Labelled(blocks, 0, labels)
  BY <1>1 DEF Labelled
<1>8. IsSequence(ops)
  BY <1>1 DEF IsSequence
<1> QED
  BY <1>1, <1>2, <1>4, <1>5, <1>6, <1>7, <1>8 DEF FillingInv

LEMMA SameProgram ==
  ASSUME code' = code
  PROVE  /\ Here' = Here /\ Filled' = Filled /\ AllKnown' = AllKnown
         /\ \A i : SizeOf(i)' = SizeOf(i)
         /\ attempts' = attempts => \A i, z : FoundBy(i, z)' <=> FoundBy(i, z)
<1>1. Here' = Here
  BY DEF Here
<1>2. Filled' = Filled /\ AllKnown' = AllKnown
  BY DEF Filled, AllKnown
<1>3. attempts' = attempts => \A i, z : FoundBy(i, z)' <=> FoundBy(i, z)
  BY DEF FoundBy, Kept, Borrows
<1> QED
  BY <1>1, <1>2, <1>3 DEF SizeOf

LEMMA NotDoneYet == ~Done => ControlFlowLifted /\ RelocationsFound /\ CloneIsomorphic
  BY DEF ControlFlowLifted, RelocationsFound, CloneIsomorphic, Done

LEMMA StillDisassembled ==
  ASSUME UNCHANGED <<code, instrs, targets>>
  PROVE  Disassembled' = Disassembled
  BY SameProgram DEF Disassembled, EvaluateBranch

LEMMA InitLift == Init => LiftInv
<1> SUFFICES ASSUME Init PROVE LiftInv
  OBVIOUS
<1>1. /\ code \in Programs /\ phase = "disassemble" /\ attempts = 1 /\ ~relocs.cached
      /\ NothingMade /\ instrs = << >> /\ ~Done
  BY DEF Init, NothingMade, NoRelocs, Done
<1> QED
  BY <1>1, NotDoneYet DEF LiftInv

LEMMA DisassembleLift == LiftInv /\ Disassemble => LiftInv'
<1> SUFFICES ASSUME LiftInv, Disassemble PROVE LiftInv'
  OBVIOUS
<1>1. /\ code' = code /\ attempts' = attempts /\ relocs' = relocs /\ phase = "disassemble"
      /\ UNCHANGED <<blocks, succ, ops, labels, pending>>
      /\ phase' \in {"lift", "failed"}
  BY DEF Disassemble, mf
<1>2. /\ code' \in Programs /\ attempts' \in Nat \ {0} /\ NothingMade' /\ instrs = << >>
      /\ (relocs.cached => relocs.table = Filled) /\ (attempts = 1 /\ relocs.cached => AllKnown)
  BY <1>1 DEF LiftInv, NothingMade
<1>3. (code \in Programs /\ NothingMade)'
  BY <1>2
<1>4. (FillingInv /\ Made < Len(code))'
  BY <1>3, NothingMadeYet, PTL
<1>5. (~Done)'
  BY <1>1 DEF Done
<1>6. (ControlFlowLifted /\ RelocationsFound /\ CloneIsomorphic)'
  BY <1>5, NotDoneYet, PTL
<1>7. Filled' = Filled /\ AllKnown' = AllKnown
  BY <1>1, SameProgram
<1>8. phase' = "failed" => instrs' = << >> \/ Disassembled'
  BY <1>2 DEF Disassemble
<1>9. phase' = "lift" => Disassembled'
  <2> SUFFICES ASSUME phase' = "lift" PROVE Disassembled'
    OBVIOUS
  <2>1. /\ instrs' = [i \in DOMAIN code |-> [addr |-> Here[i], size |-> SizeOf(i)]]
        /\ targets' = {EvaluateBranch(i) : i \in {j \in DOMAIN code : IsDirectBranch(code[j].op)}}
    BY DEF Disassemble
  <2>2. Here' = Here /\ \A i : SizeOf(i)' = SizeOf(i)
    BY <1>1, SameProgram
  <2> QED
    BY <1>1, <2>1, <2>2 DEF Disassembled, EvaluateBranch
<1> QED
  BY <1>1, <1>2, <1>4, <1>5, <1>6, <1>7, <1>8, <1>9 DEF LiftInv

LEMMA RetryLift == LiftInv /\ Retry => LiftInv'
<1> SUFFICES ASSUME LiftInv, Retry PROVE LiftInv'
  OBVIOUS
<1>1. /\ code' = code /\ UNCHANGED <<instrs, targets, relocs>> /\ phase = "failed"
      /\ attempts' = attempts + 1 /\ NothingMade'
      /\ phase' = IF instrs = << >> THEN "disassemble" ELSE "lift"
  BY DEF Retry, NothingMade
<1>2. code' \in Programs /\ attempts' \in Nat \ {0} /\ attempts' # 1
  BY <1>1 DEF LiftInv
<1>3. (code \in Programs /\ NothingMade)'
  BY <1>1, <1>2
<1>4. (FillingInv /\ Made < Len(code))'
  BY <1>3, NothingMadeYet, PTL
<1>5. (~Done)'
  BY <1>1 DEF Done
<1>6. (ControlFlowLifted /\ RelocationsFound /\ CloneIsomorphic)'
  BY <1>5, NotDoneYet, PTL
<1>7. instrs # << >> => Disassembled'
  BY <1>1, StillDisassembled DEF LiftInv
<1>8. relocs'.cached => relocs'.table = Filled'
  BY <1>1, SameProgram DEF LiftInv
<1> QED
  BY <1>1, <1>2, <1>4, <1>5, <1>6, <1>7, <1>8 DEF LiftInv

LEMMA LiftInstrFailsLift == LiftInv /\ LiftInstrFails => LiftInv'
<1> SUFFICES ASSUME LiftInv, LiftInstrFails PROVE LiftInv'
  OBVIOUS
<1>1. /\ code' = code /\ UNCHANGED <<instrs, targets>> /\ phase = "lift"
      /\ attempts' = attempts /\ phase' = "failed" /\ relocs'.table = Filled
  BY DEF LiftInstrFails
<1>2. code' \in Programs /\ attempts' \in Nat \ {0} /\ Disassembled'
  BY <1>1, StillDisassembled DEF LiftInv
<1>3. (~Done)'
  BY <1>1 DEF Done
<1>4. (ControlFlowLifted /\ RelocationsFound /\ CloneIsomorphic)'
  BY <1>3, NotDoneYet, PTL
<1>5. relocs'.table = Filled'
  BY <1>1, SameProgram
<1> QED
  BY <1>1, <1>2, <1>3, <1>4, <1>5 DEF LiftInv

LEMMA LiftInstrLift == LiftInv /\ LiftInstr => LiftInv'
<1> SUFFICES ASSUME LiftInv, LiftInstr PROVE LiftInv'
  OBVIOUS
<1> DEFINE i == Made + 1
           imm == "imm" \in ToSet(Operands(code[i].op))
<1>1. /\ code' = code /\ UNCHANGED <<instrs, targets>> /\ phase = "lift" /\ attempts' = attempts
      /\ ops' = Append(ops, LiftOperands(i))
      /\ pending' = Unresolved(i)
      /\ phase' = IF i = Len(code) THEN "resolve" ELSE "lift"
      /\ ~(imm /\ QueryFails)
      /\ relocs' = IF imm THEN [cached |-> TRUE, table |-> Table] ELSE relocs
  BY Zenon DEF LiftInstr, Made
<1>2. /\ code \in Programs /\ attempts \in Nat \ {0} /\ Disassembled /\ FillingInv
      /\ Made < Len(code)
      /\ (relocs.cached => relocs.table = Filled) /\ (attempts = 1 /\ relocs.cached => AllKnown)
  BY <1>1 DEF LiftInv
<1>3. /\ Made \in Nat /\ Len(code) \in Nat /\ DOMAIN code = 1..Len(code)
      /\ i \in DOMAIN code /\ i \in Nat \ {0} /\ i <= Len(code)
  BY <1>2, Program DEF FillingInv
<1>4. /\ Laid(blocks', i) /\ Cut(blocks', i)
      /\ Fallthroughs(blocks', succ') /\ Labelled(blocks', i, labels')
  BY <1>2, <1>3, BlocksKept DEF FillingInv
<1>5. /\ IsSequence(ops)' /\ Made' = i /\ ops'[i] = LiftOperands(i)
      /\ \A j \in 1..Made : ops'[j] = ops[j]
  <2>1. IsSequence(ops) /\ Made = Len(ops)
    BY <1>2 DEF FillingInv, Made
  <2>2. /\ IsSequence(Append(ops, LiftOperands(i))) /\ Len(Append(ops, LiftOperands(i))) = Len(ops) + 1
        /\ \A k \in 1..Len(ops) : Append(ops, LiftOperands(i))[k] = ops[k]
        /\ Append(ops, LiftOperands(i))[Len(ops) + 1] = LiftOperands(i)
    BY <2>1, AppendAny
  <2> QED
    BY <1>1, <2>1, <2>2 DEF IsSequence, Made
<1> HIDE DEF i
<1>6. (Laid(blocks, Made) /\ Cut(blocks, Made) /\ Fallthroughs(blocks, succ)
         /\ Labelled(blocks, Made, labels))'
  <2>1. Laid(blocks, Made)'
    BY <1>4, <1>5 DEF Laid
  <2>2. Here' = Here
    BY <1>1, SameProgram
  <2>3. Cut(blocks, Made)'
    BY <1>1, <1>4, <1>5, <2>2 DEF Cut, Unbroken
  <2>4. Fallthroughs(blocks, succ)'
    BY <1>1, <1>4, <1>5 DEF Fallthroughs
  <2>5. Labelled(blocks, Made, labels)'
    BY <1>1, <1>4, <1>5, <2>2 DEF Labelled
  <2> QED
    BY <2>1, <2>3, <2>4, <2>5
<1>7. pending' = {<<code[j].to, j>> : j \in {j \in 1..i : IsDirectBranch(code[j].op)}}
  <2>1. pending = {<<code[j].to, j>> : j \in {j \in 1..Made : IsDirectBranch(code[j].op)}}
    BY <1>2 DEF FillingInv
  <2>2. 1..i = 1..Made \cup {i}
    BY <1>3 DEF i
  <2>3. pending' = IF IsDirectBranch(code[i].op) THEN pending \cup {<<code[i].to, i>>} ELSE pending
    BY <1>1 DEF Unresolved, EvaluateBranch
  <2> QED
    BY <2>1, <2>2, <2>3, Zenon
<1>8. Table = Filled /\ (attempts = 1 /\ imm => AllKnown)
  BY <1>1, <1>2 DEF Table, QueryFails, AllKnown
<1>9. FoundBy(i, SymbolsOf(LiftOperands(i)))
  <2>1. SymbolsOf(LiftOperands(i)) = IF imm /\ Hits(i) # {} THEN {Nearest(i).sym} ELSE {}
    BY OperandsLifted
  <2>2. CASE ~imm
    <3>1. code[i].op # "literal"
      BY <2>2 DEF Operands, ToSet
    <3>2. code[i].sym = "none"
      BY <1>2, <1>3, <3>1, Program
    <3> QED
      BY <2>1, <2>2, <3>2 DEF FoundBy, Kept
  <2>3. CASE imm
    BY <1>2, <1>3, <1>8, <2>3, SymbolsFound
  <2> QED
    BY <2>2, <2>3
<1>10. \A j \in 1..Made' : OperandsMade(j)'
  <2> TAKE j \in 1..Made'
  <2>1. \A k, z : FoundBy(k, z)' <=> FoundBy(k, z)
    BY <1>1, SameProgram
  <2>2. CASE j \in 1..Made
    <3>1. OperandsMade(j) /\ ops'[j] = ops[j]
      BY <1>2, <1>5, <2>2 DEF FillingInv
    <3> QED
      BY <1>1, <2>1, <3>1 DEF OperandsMade
  <2>3. CASE j = i
    <3>1. /\ IsSequence(LiftOperands(i)) /\ ops'[j] = LiftOperands(i)
          /\ \A k \in DOMAIN LiftOperands(i) : LiftOperands(i)[k][1] # "block"
      BY <1>5, <2>3, OperandsLifted
    <3> QED
      BY <1>1, <1>9, <2>1, <2>3, <3>1 DEF OperandsMade
  <2>4. j \in 1..Made \/ j = i
    BY <1>3, <1>5 DEF i
  <2> QED
    BY <2>2, <2>3, <2>4
<1>11. FillingInv'
  BY <1>1, <1>3, <1>5, <1>6, <1>7, <1>10 DEF FillingInv
<1>12. Disassembled'
  BY <1>1, <1>2, StillDisassembled
<1>13. (~Done)'
  BY <1>1 DEF Done
<1>14. (ControlFlowLifted /\ RelocationsFound /\ CloneIsomorphic)'
  BY <1>13, NotDoneYet, PTL
<1>15. Filled' = Filled /\ AllKnown' = AllKnown
  BY <1>1, SameProgram
<1>16. (relocs'.cached => relocs'.table = Filled) /\ (attempts' = 1 /\ relocs'.cached => AllKnown)
  BY <1>1, <1>2, <1>8
<1>17. phase' = "lift" => Made' < Len(code)
  BY <1>1, <1>3, <1>5
<1>18. phase' = "resolve" => Made' = Len(code)
  BY <1>1, <1>5
<1> QED
  BY <1>1, <1>2, <1>11, <1>12, <1>13, <1>14, <1>15, <1>16, <1>17, <1>18 DEF LiftInv

-----------------------------------------------------------------------------
(* The edges of the lifted function are the steps of its code.               *)
LEMMA BlockOfIs ==
  ASSUME NEW n \in Nat, Laid(blocks, n)
  PROVE  /\ \A b \in DOMAIN blocks : \A k \in DOMAIN blocks[b] :
               blocks[b][k] \in 1..n /\ BlockOf(blocks[b][k]) = b
         /\ \A i \in 1..n : /\ BlockOf(i) \in DOMAIN blocks
                            /\ \E k \in DOMAIN blocks[BlockOf(i)] : blocks[BlockOf(i)][k] = i
         /\ \A b \in DOMAIN blocks : /\ Len(blocks[b]) \in Nat
                                     /\ DOMAIN blocks[b] = 1..Len(blocks[b])
                                     /\ blocks[b] # << >> => Len(blocks[b]) > 0
         /\ DOMAIN blocks = 1..Len(blocks) /\ Len(blocks) \in Nat \ {0}
<1>1. ASSUME NEW b \in DOMAIN blocks, NEW k \in DOMAIN blocks[b]
      PROVE  blocks[b][k] \in 1..n /\ BlockOf(blocks[b][k]) = b
  <2> DEFINE i == blocks[b][k]
  <2>1. i \in ToSet(blocks[b])
    BY DEF ToSet
  <2>2. \A c \in DOMAIN blocks : i \in ToSet(blocks[c]) => c = b
    <3> SUFFICES ASSUME NEW c \in DOMAIN blocks, i \in ToSet(blocks[c]) PROVE c = b
      OBVIOUS
    <3>1. PICK l \in DOMAIN blocks[c] : blocks[c][l] = i
      BY DEF ToSet
    <3> QED
      BY <3>1 DEF Laid
  <2>3. blocks[b][k] \in 1..n
    BY DEF Laid
  <2> QED
    BY <2>1, <2>2, <2>3 DEF BlockOf
<1>2. ASSUME NEW i \in 1..n
      PROVE  /\ BlockOf(i) \in DOMAIN blocks
             /\ \E k \in DOMAIN blocks[BlockOf(i)] : blocks[BlockOf(i)][k] = i
  <2>1. PICK b \in DOMAIN blocks : \E k \in DOMAIN blocks[b] : blocks[b][k] = i
    BY DEF Laid
  <2> QED
    BY <1>1, <2>1
<1>3. DOMAIN blocks = 1..Len(blocks) /\ Len(blocks) \in Nat \ {0}
  BY DEF Laid
<1>4. ASSUME NEW b \in DOMAIN blocks
      PROVE  /\ Len(blocks[b]) \in Nat /\ DOMAIN blocks[b] = 1..Len(blocks[b])
             /\ blocks[b] # << >> => Len(blocks[b]) > 0
  <2>1. blocks[b] \in Seq(Nat)
    BY DEF Laid
  <2> QED
    BY <2>1
<1> QED
  BY <1>1, <1>2, <1>3, <1>4

LEMMA InARow ==
  ASSUME NEW s \in Seq(Nat), \A l \in DOMAIN s : l > 1 => s[l] = s[l - 1] + 1,
         NEW k \in 1..(Len(s) - 1)
  PROVE  s[k + 1] = s[k] + 1
<1>1. Len(s) \in Nat /\ DOMAIN s = 1..Len(s)
  BY LenProperties
<1>2. PICK j \in DOMAIN s : j = k + 1 /\ j > 1 /\ j - 1 = k
  BY <1>1
<1>3. s[j] = s[j - 1] + 1
  BY <1>2, Zenon
<1> QED
  BY <1>2, <1>3

(* Where instruction i lies: within its block or at its end.                 *)
LEMMA LastOrNext ==
  ASSUME code \in Programs, FillingInv, Made = Len(code), NEW i \in DOMAIN code
  PROVE  LET b == BlockOf(i) IN
         \/ /\ i < Len(code) /\ BlockOf(i + 1) = b
            /\ ~IsTerminator(code[i].op) /\ Last(blocks[b]) # i
         \/ /\ Last(blocks[b]) = i
            /\ i < Len(code) => /\ b \in 1..(Len(blocks) - 1)
                                /\ blocks[b + 1][1] = i + 1 /\ BlockOf(i + 1) = b + 1
<1> DEFINE b == BlockOf(i)
           m == Len(blocks[b])
<1>1. /\ Len(code) \in Nat /\ DOMAIN code = 1..Len(code) /\ Laid(blocks, Len(code))
      /\ Cut(blocks, Len(code)) /\ i \in 1..Len(code)
  BY Program DEF FillingInv
<1>2. PICK k \in DOMAIN blocks[b] : blocks[b][k] = i
  BY <1>1, BlockOfIs
<1>3. /\ b \in DOMAIN blocks /\ m \in Nat /\ DOMAIN blocks[b] = 1..m
      /\ DOMAIN blocks = 1..Len(blocks) /\ Len(blocks) \in Nat \ {0}
  BY <1>1, BlockOfIs
<1>4. CASE k < m
  <2>1. k + 1 \in DOMAIN blocks[b] /\ k + 1 > 1 /\ k + 1 - 1 = k /\ m \in DOMAIN blocks[b]
    BY <1>3, <1>4
  <2>2. blocks[b][k + 1] = i + 1 /\ blocks[b][k + 1] \in 1..Len(code)
    <3>1. /\ blocks[b] \in Seq(Nat)
          /\ \A l \in DOMAIN blocks[b] : l > 1 => blocks[b][l] = blocks[b][l - 1] + 1
      <4>1. /\ blocks \in Seq(Seq(Nat))
            /\ \A c \in DOMAIN blocks : \A l \in DOMAIN blocks[c] :
                  l > 1 => blocks[c][l] = blocks[c][l - 1] + 1
        BY <1>1, Zenon DEF Laid
      <4>2. blocks[b] \in Seq(Nat)
        BY <1>3, <4>1
      <4>3. \A l \in DOMAIN blocks[b] : l > 1 => blocks[b][l] = blocks[b][l - 1] + 1
        BY <1>3, <4>1, Zenon
      <4> QED
        BY <4>2, <4>3, Zenon
    <3>2. k \in 1..(Len(blocks[b]) - 1)
      BY <1>3, <1>4
    <3>3. blocks[b][k + 1] = i + 1
      BY <1>2, <3>1, <3>2, InARow
    <3>4. blocks[b][k + 1] \in 1..Len(code)
      BY <1>1, <1>3, <2>1, BlockOfIs, Zenon
    <3> QED
      BY <3>3, <3>4
  <2>3. BlockOf(i + 1) = b
    BY <1>1, <1>3, <2>1, <2>2, BlockOfIs
  <2>4. ~IsTerminator(code[blocks[b][k]].op)
    BY <1>1, <1>3, <2>1 DEF Cut, Unbroken
  <2>5. Last(blocks[b]) # i
    <3>1. blocks[b][m] # i
      <4>1. \A l, o \in DOMAIN blocks[b] : blocks[b][l] = blocks[b][o] => l = o
        <5>1. \A x, y \in DOMAIN blocks : \A l \in DOMAIN blocks[x], o \in DOMAIN blocks[y] :
                 blocks[x][l] = blocks[y][o] => x = y /\ l = o
          BY <1>1 DEF Laid
        <5> QED
          BY <1>3, <5>1
      <4> QED
        BY <1>2, <1>3, <1>4, <2>1, <4>1
    <3> QED
      BY <3>1 DEF Last
  <2> QED
    BY <1>1, <1>2, <2>2, <2>3, <2>4, <2>5
<1>5. CASE k = m
  <2>1. Last(blocks[b]) = i
    BY <1>2, <1>5 DEF Last
  <2>2. ASSUME i < Len(code)
        PROVE  b \in 1..(Len(blocks) - 1) /\ blocks[b + 1][1] = i + 1 /\ BlockOf(i + 1) = b + 1
    <3>1. blocks[b] # << >>
      <4>1. k \in 1..m
        BY <1>3
      <4> QED
        BY <1>3, <4>1
    <3>2. b # Len(blocks)
      <4>1. ASSUME b = Len(blocks) PROVE FALSE
        <5>1. Last(blocks) = blocks[b]
          BY <4>1 DEF Last
        <5>2. Last(blocks[b]) = Len(code)
          BY <1>1, <3>1, <5>1 DEF Laid
        <5> QED
          BY <1>1, <2>1, <2>2, <5>2
      <4> QED
        BY <4>1
    <3>3. b \in 1..(Len(blocks) - 1) /\ b + 1 \in DOMAIN blocks
      BY <1>3, <3>2
    <3>4. blocks[b + 1] # << >>
      <4>1. CASE b + 1 \in 1..(Len(blocks) - 1)
        BY <1>1, <4>1 DEF Laid
      <4>2. CASE b + 1 = Len(blocks)
        <5>1. Last(blocks) # << >>
          BY <1>1 DEF Cut
        <5> QED
          BY <4>2, <5>1 DEF Last
      <4> QED
        BY <1>3, <3>3, <4>1, <4>2
    <3>5. blocks[b + 1][1] = i + 1
      BY <1>1, <2>1, <3>3, <3>4 DEF Laid
    <3>6. 1 \in DOMAIN blocks[b + 1]
      BY <1>1, <3>3, <3>4, BlockOfIs
    <3>7. BlockOf(blocks[b + 1][1]) = b + 1
      BY <1>1, <3>3, <3>6, BlockOfIs
    <3> QED
      BY <3>3, <3>5, <3>7
  <2> QED
    BY <2>1, <2>2
<1>6. k < m \/ k = m
  <2>1. k \in 1..m
    BY <1>3
  <2> QED
    BY <1>3, <2>1
<1> QED
  BY <1>4, <1>5, <1>6

(* The block that the label of a branch's target names begins there.         *)
LEMMA BranchResolved ==
  ASSUME code \in Programs, Disassembled, FillingInv, Made = Len(code),
         \A p \in pending : p[1] \in DOMAIN labels,
         NEW i \in DOMAIN code, IsDirectBranch(code[i].op)
  PROVE  LET c == labels[code[i].to] IN
         /\ <<code[i].to, i>> \in pending
         /\ c \in DOMAIN blocks
         /\ blocks[c][1] \in DOMAIN code /\ BlockOf(blocks[c][1]) = c
         /\ Here[blocks[c][1]] = code[i].to
         /\ Last(blocks[BlockOf(i)]) = i
<1> DEFINE to == code[i].to
           c == labels[to]
<1>1. /\ Len(code) \in Nat /\ DOMAIN code = 1..Len(code) /\ Laid(blocks, Len(code))
      /\ Labelled(blocks, Len(code), labels) /\ i \in 1..Made
  BY Program DEF FillingInv
<1>2. <<to, i>> \in pending
  BY <1>1 DEF FillingInv
<1>3. to \in DOMAIN labels
  BY <1>2
<1>4. c \in DOMAIN blocks /\ blocks[c] # << >> /\ Here[blocks[c][1]] = to
  BY <1>1, <1>3 DEF Labelled
<1>5. 1 \in DOMAIN blocks[c]
  BY <1>1, <1>4, BlockOfIs
<1>6. BlockOf(blocks[c][1]) = c /\ blocks[c][1] \in DOMAIN code
  BY <1>1, <1>4, <1>5, BlockOfIs
<1>7. IsTerminator(code[i].op)
  BY DEF IsTerminator, IsDirectBranch
<1>8. Last(blocks[BlockOf(i)]) = i
  BY <1>7, LastOrNext
<1> QED
  BY <1>2, <1>4, <1>6, <1>8

LEMMA StepsHaveEdges ==
  ASSUME code \in Programs, Disassembled, FillingInv, Made = Len(code),
         \A p \in pending : p[1] \in DOMAIN labels,
         NEW i \in DOMAIN code, NEW j \in Flow(i) \ {0}
  PROVE  \/ /\ j = i + 1
            /\ BlockOf(i) = BlockOf(j)
         \/ /\ <<BlockOf(i), BlockOf(j)>> \in Resolved(pending)
            /\ blocks[BlockOf(j)][1] = j
            /\ Last(blocks[BlockOf(i)]) = i
<1>1. /\ Len(code) \in Nat /\ DOMAIN code = 1..Len(code)
      /\ Fallthroughs(blocks, succ)
  BY Program DEF FillingInv
<1>2. CASE j = i + 1 /\ i < Len(code) /\ code[i].op # "branch"
  <2>1. CASE BlockOf(i + 1) = BlockOf(i)
    BY <1>2, <2>1
  <2>2. CASE BlockOf(i + 1) # BlockOf(i)
    <3> DEFINE b == BlockOf(i)
    <3>1. /\ Last(blocks[b]) = i /\ b \in 1..(Len(blocks) - 1)
          /\ blocks[b + 1][1] = i + 1 /\ BlockOf(i + 1) = b + 1
      BY <1>2, <2>2, LastOrNext
    <3>2. FallsThrough(code[Last(blocks[b])].op)
      BY <1>2, <3>1 DEF FallsThrough, IsUnconditionalBranch
    <3>3. <<b, b + 1>> \in succ
      BY <1>1, <3>1, <3>2 DEF Fallthroughs
    <3> QED
      BY <1>2, <3>1, <3>3 DEF Resolved
  <2> QED
    BY <2>1, <2>2
<1>3. CASE code[i].op \in {"branch", "cbranch"} /\ j \in DOMAIN code /\ Here[j] = code[i].to
  <2> DEFINE c == labels[code[i].to]
  <2>1. IsDirectBranch(code[i].op)
    BY <1>3 DEF IsDirectBranch
  <2>2. /\ <<code[i].to, i>> \in pending /\ blocks[c][1] \in DOMAIN code
        /\ BlockOf(blocks[c][1]) = c /\ Here[blocks[c][1]] = code[i].to
        /\ Last(blocks[BlockOf(i)]) = i
    BY <2>1, BranchResolved
  <2>3. blocks[c][1] = j
    <3>1. ~(blocks[c][1] < j) /\ ~(j < blocks[c][1])
      BY <1>3, <2>2, Addresses
    <3> QED
      BY <1>1, <1>3, <2>2, <3>1
  <2>4. <<BlockOf(i), c>> \in Resolved(pending)
    BY <2>2 DEF Resolved
  <2> QED
    BY <2>2, <2>3, <2>4
<1>4. \/ j = i + 1 /\ i < Len(code) /\ code[i].op # "branch"
      \/ code[i].op \in {"branch", "cbranch"} /\ j \in DOMAIN code /\ Here[j] = code[i].to
  BY DEF Flow
<1> QED
  BY <1>2, <1>3, <1>4

LEMMA EdgesAreSteps ==
  ASSUME code \in Programs, Disassembled, FillingInv, Made = Len(code),
         \A p \in pending : p[1] \in DOMAIN labels, NEW e \in Resolved(pending)
  PROVE  LET i == Last(blocks[e[1]])
         IN  /\ e = <<e[1], e[2]>>
             /\ blocks[e[2]][1] \in Flow(i) \/ code[i].op \in {"endpgm", "setpc"}
<1>1. /\ Len(code) \in Nat \ {0} /\ DOMAIN code = 1..Len(code)
      /\ Fallthroughs(blocks, succ) /\ Laid(blocks, Len(code))
  BY Program DEF FillingInv
<1>2. CASE e \in succ
  <2> DEFINE b == e[1]
             i == Last(blocks[b])
  <2>1. e = <<b, b + 1>> /\ b \in 1..(Len(blocks) - 1) /\ FallsThrough(code[i].op)
    BY <1>1, <1>2 DEF Fallthroughs
  <2>2. blocks[b] # << >> /\ b \in DOMAIN blocks /\ b + 1 \in DOMAIN blocks
    <3>1. DOMAIN blocks = 1..Len(blocks) /\ Len(blocks) \in Nat
      BY <1>1, BlockOfIs
    <3>2. b \in DOMAIN blocks /\ b + 1 \in DOMAIN blocks
      BY <2>1, <3>1
    <3>3. \A c \in 1..(Len(blocks) - 1) : blocks[c] # << >>
      BY <1>1, Zenon DEF Laid
    <3> QED
      BY <2>1, <3>2, <3>3, Zenon
  <2>3. /\ Len(blocks[b]) \in DOMAIN blocks[b] /\ i = blocks[b][Len(blocks[b])]
    BY <1>1, <2>2, BlockOfIs DEF Last
  <2>4. i \in DOMAIN code /\ BlockOf(i) = b
    <3>1. \A k \in DOMAIN blocks[b] :
             blocks[b][k] \in 1..Len(code) /\ BlockOf(blocks[b][k]) = b
      BY <1>1, <2>2, BlockOfIs
    <3> QED
      BY <1>1, <2>3, <3>1, Zenon
  <2>5. i < Len(code)
    <3>1. ASSUME i = Len(code) PROVE FALSE
      <4>1. ASSUME Last(blocks) = << >> PROVE FALSE
        BY <1>1, <4>1 DEF Cut, FillingInv
      <4>2. Last(Last(blocks)) = i
        BY <1>1, <3>1, <4>1 DEF Laid
      <4> DEFINE z == Len(blocks)
      <4>3. z \in DOMAIN blocks /\ blocks[z] # << >> /\ Last(blocks[z]) = i
        BY <1>1, <4>1, <4>2, BlockOfIs DEF Last
      <4>4. Len(blocks[z]) \in DOMAIN blocks[z] /\ i = blocks[z][Len(blocks[z])]
        BY <1>1, <4>3, BlockOfIs DEF Last
      <4>5. BlockOf(i) = z
        BY <1>1, <4>3, <4>4, BlockOfIs
      <4> QED
        BY <2>1, <2>4, <4>5
    <3> QED
      BY <1>1, <2>4, <3>1
  <2>6. blocks[b + 1][1] = i + 1
    BY <2>4, <2>5, LastOrNext
  <2>7. i + 1 \in Flow(i) \/ code[i].op \in {"endpgm", "setpc"}
    BY <2>1, <2>5 DEF Flow, FallsThrough, IsUnconditionalBranch
  <2>8. e[2] = b + 1
    BY <2>1
  <2> QED
    BY <2>1, <2>6, <2>7, <2>8
<1>3. CASE e \in {<<BlockOf(p[2]), labels[p[1]]>> : p \in pending}
  <2>1. pending = {<<code[i].to, i>> : i \in {i \in 1..Made : IsDirectBranch(code[i].op)}}
    BY DEF FillingInv
  <2>2. PICK i \in DOMAIN code : /\ IsDirectBranch(code[i].op)
                                 /\ e = <<BlockOf(i), labels[code[i].to]>>
    BY <1>1, <1>3, <2>1
  <2> DEFINE c == labels[code[i].to]
  <2>3. /\ blocks[c][1] \in DOMAIN code /\ Here[blocks[c][1]] = code[i].to
        /\ Last(blocks[BlockOf(i)]) = i
    BY <2>2, BranchResolved
  <2>4. blocks[c][1] \in Flow(i)
    BY <2>2, <2>3 DEF Flow, IsDirectBranch
  <2> QED
    BY <2>2, <2>3, <2>4
<1> QED
  BY <1>2, <1>3 DEF Resolved

LEMMA SameBlocks ==
  ASSUME code' = code, blocks' = blocks
  PROVE  (\A i : Flow(i)' = Flow(i)) /\ (\A i : BlockOf(i)' = BlockOf(i))
<1>1. Here' = Here
  BY SameProgram
<1>2. \A i : Flow(i)' = Flow(i)
  BY <1>1 DEF Flow
<1>3. \A i : BlockOf(i)' = BlockOf(i)
  BY DEF BlockOf
<1> QED
  BY <1>2, <1>3

(* A branch gets one operand more, the block it goes to.                     *)
LEMMA OperandsResolved ==
  ASSUME code \in Programs, FillingInv, Made = Len(code),
         phase = "resolve", ResolveBranches, phase' = "lifted", NEW i \in DOMAIN code
  PROVE  ops'[i] = IF IsDirectBranch(code[i].op)
                   THEN Append(ops[i], <<"block", labels[code[i].to]>>) ELSE ops[i]
<1>1. /\ DOMAIN code = 1..Len(code) /\ Len(code) \in Nat
      /\ DOMAIN ops = DOMAIN code /\ i \in 1..Made
  <2>1. DOMAIN code = 1..Len(code) /\ Len(code) \in Nat
    BY Program
  <2>2. ops = [k \in 1..Len(ops) |-> ops[k]]
    BY DEF FillingInv, IsSequence
  <2>3. DOMAIN ops = 1..Len(ops)
    BY <2>2
  <2> QED
    BY <2>1, <2>3 DEF Made
<1> DEFINE p == {q \in pending : q[2] = i}
<1>2. ops'[i] = IF p = {} THEN ops[i]
                ELSE Append(ops[i], <<"block", labels[(CHOOSE q \in p : TRUE)[1]]>>)
  BY <1>1 DEF ResolveBranches
<1>3. pending = {<<code[j].to, j>> : j \in {j \in 1..Made : IsDirectBranch(code[j].op)}}
  BY DEF FillingInv
<1>4. CASE IsDirectBranch(code[i].op)
  <2> DEFINE own == <<code[i].to, i>>
  <2>1. \A q \in p : q = own
    BY <1>3
  <2>2. own \in p
    BY <1>1, <1>3, <1>4
  <2>3. p = {own} /\ own[1] = code[i].to
    BY <2>1, <2>2
  <2> HIDE DEF own, p
  <2>4. (CHOOSE q \in p : TRUE) = own /\ p # {}
    BY <2>3
  <2> QED
    BY <1>2, <1>4, <2>3, <2>4
<1>5. CASE ~IsDirectBranch(code[i].op)
  <2>1. p = {}
    BY <1>3, <1>5
  <2> QED
    BY <1>2, <1>5, <2>1
<1> QED
  BY <1>4, <1>5

LEMMA ResolveBranchesLift == LiftInv /\ ResolveBranches => LiftInv'
<1> SUFFICES ASSUME LiftInv, ResolveBranches PROVE LiftInv'
  OBVIOUS
<1>1. /\ code' = code /\ UNCHANGED <<instrs, targets, relocs, blocks, labels, pending>>
      /\ phase = "resolve" /\ attempts' = attempts /\ phase' \in {"failed", "lifted"}
  BY DEF ResolveBranches
<1>2. /\ code \in Programs /\ attempts \in Nat \ {0} /\ Disassembled /\ FillingInv
      /\ Made = Len(code)
      /\ (relocs.cached => relocs.table = Filled) /\ (attempts = 1 /\ relocs.cached => AllKnown)
  BY <1>1 DEF LiftInv
<1>3. code' \in Programs /\ attempts' \in Nat \ {0} /\ Disassembled'
  BY <1>1, <1>2, StillDisassembled
<1>4. CASE phase' = "failed"
  <2>1. (~Done)'
    BY <1>4 DEF Done
  <2>2. (ControlFlowLifted /\ RelocationsFound /\ CloneIsomorphic)'
    BY <2>1, NotDoneYet, PTL
  <2>3. relocs'.cached => relocs'.table = Filled'
    BY <1>1, <1>2, SameProgram
  <2> QED
    BY <1>3, <1>4, <2>1, <2>2, <2>3 DEF LiftInv
<1>5. CASE phase' = "lifted"
  <2>1. /\ \A p \in pending : p[1] \in DOMAIN labels
        /\ succ' = Resolved(pending)
        /\ ops' = [i \in DOMAIN ops |->
                     LET p == {q \in pending : q[2] = i}
                     IN IF p = {} THEN ops[i]
                        ELSE Append(ops[i], <<"block", labels[(CHOOSE q \in p : TRUE)[1]]>>)]
    BY <1>5 DEF ResolveBranches
  <2>2. /\ DOMAIN code = 1..Len(code) /\ Len(code) \in Nat
        /\ DOMAIN ops' = DOMAIN code
        /\ \A i \in DOMAIN code : OperandsMade(i)
    <3>1. DOMAIN code = 1..Len(code) /\ Len(code) \in Nat
      BY <1>2, Program
    <3>2. ops = [k \in 1..Len(ops) |-> ops[k]]
      BY <1>2 DEF FillingInv, IsSequence
    <3>3. DOMAIN ops = 1..Len(ops)
      BY <3>2
    <3> QED
      BY <1>2, <2>1, <3>1, <3>3 DEF Made, FillingInv
  <2>3. \A i \in DOMAIN code :
           ops'[i] = IF IsDirectBranch(code[i].op)
                     THEN Append(ops[i], <<"block", labels[code[i].to]>>) ELSE ops[i]
    BY <1>1, <1>2, <1>5, OperandsResolved
  <2>4. /\ (\A i : Flow(i)' = Flow(i)) /\ (\A i : BlockOf(i)' = BlockOf(i))
        /\ Filled' = Filled /\ AllKnown' = AllKnown
        /\ \A i, z : FoundBy(i, z)' <=> FoundBy(i, z)
    BY <1>1, SameBlocks, SameProgram
  <2>5. ControlFlowLifted'
    <3>1. \A i \in DOMAIN code : \A j \in Flow(i) \ {0} :
             \/ /\ j = i + 1
                /\ BlockOf(i) = BlockOf(j)
             \/ /\ <<BlockOf(i), BlockOf(j)>> \in succ'
                /\ blocks[BlockOf(j)][1] = j
                /\ Last(blocks[BlockOf(i)]) = i
      BY <1>2, <2>1, StepsHaveEdges
    <3>2. \A e \in succ' :
             \/ blocks[e[2]][1] \in Flow(Last(blocks[e[1]]))
             \/ code[Last(blocks[e[1]])].op \in {"endpgm", "setpc"}
      BY <1>2, <2>1, EdgesAreSteps
    <3> QED
      BY <1>1, <2>4, <3>1, <3>2 DEF ControlFlowLifted
  <2>6. \A i \in DOMAIN code : FoundBy(i, SymbolsOf(ops'[i]))
    <3> TAKE i \in DOMAIN code
    <3>1. /\ IsSequence(ops[i])
          /\ FoundBy(i, SymbolsOf(ops[i]))
      BY <2>2 DEF OperandsMade
    <3>2. CASE IsDirectBranch(code[i].op)
      <4> DEFINE o == <<"block", labels[code[i].to]>>
                 old == ops[i]
                 new == Append(old, o)
                 n == Len(old)
      <4>1. /\ DOMAIN old = 1..n /\ DOMAIN new = 1..(n + 1) /\ n \in Nat
            /\ \A k \in 1..n : new[k] = old[k]
            /\ new[n + 1] = o
        BY <3>1, AppendAny DEF IsSequence
      <4>2. o[1] # "symbol"
        OBVIOUS
      <4> HIDE DEF new, old, n, o
      <4>3. \A k : k \in DOMAIN new /\ new[k][1] = "symbol" <=> k \in DOMAIN old /\ old[k][1] = "symbol"
        BY <4>1, <4>2
      <4>4. {k \in DOMAIN new : new[k][1] = "symbol"} = {k \in DOMAIN old : old[k][1] = "symbol"}
        BY <4>3
      <4>5. \A k \in {k \in DOMAIN old : old[k][1] = "symbol"} : new[k] = old[k]
        BY <4>1
      <4>6. SymbolsOf(new) = SymbolsOf(old)
        BY <4>4, <4>5 DEF SymbolsOf
      <4>7. ops'[i] = new
        BY <2>3, <3>2 DEF new, old, o
      <4> QED
        BY <3>1, <4>6, <4>7 DEF old
    <3>3. CASE ~IsDirectBranch(code[i].op)
      <4>1. ops'[i] = ops[i]
        BY <2>3, <3>3
      <4> QED
        BY <3>1, <4>1
    <3> QED
      BY <3>2, <3>3
  <2>7. RelocationsFound'
    <3>1. \A i \in DOMAIN code : Symbolic(i)' = SymbolsOf(ops'[i])
      BY DEF Symbolic, SymbolsOf
    <3> QED
      BY <1>1, <2>4, <2>6, <3>1 DEF RelocationsFound
  <2>8. BranchesLinked'
    <3>1. \A e \in succ' : e = <<e[1], e[2]>>
      BY <1>2, <2>1, EdgesAreSteps
    <3>2. ASSUME NEW i \in DOMAIN code, NEW k \in DOMAIN ops'[i], ops'[i][k][1] = "block"
          PROVE  <<BlockOf(i), ops'[i][k][2]>> \in succ'
      <4>1. IsSequence(ops[i]) /\ \A l \in DOMAIN ops[i] : ops[i][l][1] # "block"
        BY <2>2 DEF OperandsMade
      <4>2. CASE IsDirectBranch(code[i].op)
        <5> DEFINE c == labels[code[i].to]
        <5>1. <<code[i].to, i>> \in pending
          BY <1>2, <2>1, <4>2, BranchResolved
        <5>2. <<BlockOf(i), c>> \in succ'
          BY <2>1, <5>1 DEF Resolved
        <5>3. ops'[i] = Append(ops[i], <<"block", c>>)
          BY <2>3, <4>2
        <5>4. /\ DOMAIN ops[i] = 1..Len(ops[i]) /\ DOMAIN ops'[i] = 1..(Len(ops[i]) + 1)
              /\ \A l \in 1..Len(ops[i]) : ops'[i][l] = ops[i][l]
              /\ ops'[i][Len(ops[i]) + 1] = <<"block", c>>
              /\ Len(ops[i]) \in Nat
          BY <4>1, <5>3, AppendAny DEF IsSequence
        <5>5. k \in 1..Len(ops[i]) \/ k = Len(ops[i]) + 1
          BY <5>4
        <5>6. k \notin 1..Len(ops[i])
          BY <3>2, <4>1, <5>4
        <5>7. ops'[i][k] = <<"block", c>>
          BY <5>4, <5>5, <5>6
        <5> QED
          BY <5>2, <5>7
      <4>3. CASE ~IsDirectBranch(code[i].op)
        <5>1. ops'[i] = ops[i]
          BY <2>3, <4>3
        <5> QED
          BY <3>2, <4>1, <5>1
      <4> QED
        BY <4>2, <4>3
    <3> QED
      BY <1>1, <2>2, <2>4, <3>1, <3>2 DEF BranchesLinked
  <2>9. CloneIsomorphic'
    BY <1>5 DEF CloneIsomorphic
  <2> QED
    BY <1>1, <1>2, <1>3, <1>5, <2>4, <2>5, <2>7, <2>8, <2>9 DEF LiftInv
<1> QED
  BY <1>1, <1>4, <1>5

(* The copy relates its blocks as the original does.                         *)
LEMMA CloneLift == LiftInv /\ Clone => LiftInv'
<1> SUFFICES ASSUME LiftInv, Clone PROVE LiftInv'
  OBVIOUS
<1>1. /\ code' = code /\ UNCHANGED <<instrs, targets, relocs, blocks, succ, ops, attempts>>
      /\ phase = "lifted" /\ phase' = "cloned"
  BY DEF Clone, mf
<1>2. /\ code \in Programs /\ attempts \in Nat \ {0} /\ BranchesLinked
      /\ (relocs.cached => relocs.table = Filled) /\ (attempts = 1 /\ relocs.cached => AllKnown)
      /\ ControlFlowLifted /\ RelocationsFound /\ Done
  BY <1>1 DEF LiftInv, Done
<1>3. /\ (\A i : Flow(i)' = Flow(i)) /\ (\A i : BlockOf(i)' = BlockOf(i))
      /\ Filled' = Filled /\ AllKnown' = AllKnown
      /\ \A i, z : FoundBy(i, z)' <=> FoundBy(i, z)
  BY <1>1, SameBlocks, SameProgram
<1>4. ControlFlowLifted' /\ BranchesLinked'
  BY <1>1, <1>2, <1>3 DEF ControlFlowLifted, BranchesLinked, Done
<1>5. RelocationsFound'
  <2>1. \A i : Symbolic(i)' = Symbolic(i)
    BY <1>1 DEF Symbolic
  <2> QED
    BY <1>1, <1>2, <1>3, <2>1 DEF RelocationsFound, Done
<1>6. CloneIsomorphic'
  <2>1. /\ copy'.succ = {<<Src2Dst(e[1]), Src2Dst(e[2])>> : e \in succ}
        /\ copy'.ops = [i \in DOMAIN ops |-> [k \in DOMAIN ops[i] |-> CloneOperand(ops[i][k])]]
        /\ copy'.origin = [i \in DOMAIN ops |-> IF i \in Mapped THEN i ELSE 0]
    BY DEF Clone, CloneMF
  <2>2. ASSUME NEW i \in DOMAIN code, NEW k \in DOMAIN ops[i], ops[i][k][1] = "block"
        PROVE  <<Src2Dst(BlockOf(i)), copy'.ops[i][k][2]>> \in copy'.succ
    <3> DEFINE e == <<BlockOf(i), ops[i][k][2]>>
    <3>1. e \in succ /\ i \in DOMAIN ops
      BY <1>2, <2>2 DEF BranchesLinked
    <3>2. copy'.ops[i][k] = <<"block", Src2Dst(ops[i][k][2])>>
      BY <2>1, <2>2, <3>1 DEF CloneOperand
    <3>3. <<Src2Dst(e[1]), Src2Dst(e[2])>> \in copy'.succ
      BY <2>1, <3>1
    <3> QED
      BY <3>2, <3>3
  <2>3. ASSUME NEW a, NEW b
        PROVE  <<a, b>> \in succ <=> <<Src2Dst(a), Src2Dst(b)>> \in copy'.succ
    <3>1. ASSUME <<a, b>> \in succ PROVE <<Src2Dst(a), Src2Dst(b)>> \in copy'.succ
      <4> DEFINE e == <<a, b>>
      <4>1. <<Src2Dst(e[1]), Src2Dst(e[2])>> \in copy'.succ
        BY <2>1, <3>1
      <4> QED
        BY <4>1
    <3>2. ASSUME <<Src2Dst(a), Src2Dst(b)>> \in copy'.succ PROVE <<a, b>> \in succ
      <4>1. PICK e \in succ : <<Src2Dst(a), Src2Dst(b)>> = <<Src2Dst(e[1]), Src2Dst(e[2])>>
        BY <2>1, <3>2
      <4>2. a = e[1] /\ b = e[2]
        BY <4>1 DEF Src2Dst
      <4>3. e = <<e[1], e[2]>>
        BY <1>2 DEF BranchesLinked
      <4> QED
        BY <4>2, <4>3
    <3> QED
      BY <3>1, <3>2
  <2>4. \A i \in DOMAIN code : ops[i] # << >> => copy'.origin[i] = i
    BY <1>2, <2>1 DEF BranchesLinked, Mapped
  <2> QED
    BY <1>1, <1>3, <2>2, <2>3, <2>4 DEF CloneIsomorphic
<1> QED
  BY <1>1, <1>2, <1>3, <1>4, <1>5, <1>6 DEF LiftInv, Done

LEMMA StillLift == LiftInv /\ UNCHANGED vars => LiftInv'
<1> SUFFICES ASSUME LiftInv, UNCHANGED vars PROVE LiftInv'
  OBVIOUS
<1>1. /\ code' = code /\ phase' = phase /\ attempts' = attempts /\ instrs' = instrs
      /\ targets' = targets /\ relocs' = relocs /\ blocks' = blocks /\ succ' = succ
      /\ ops' = ops /\ labels' = labels /\ pending' = pending /\ copy' = copy
  BY DEF vars, mf
<1>2. /\ (\A i : Flow(i)' = Flow(i)) /\ (\A i : BlockOf(i)' = BlockOf(i)) /\ Here' = Here
      /\ Filled' = Filled /\ AllKnown' = AllKnown
      /\ \A i, z : FoundBy(i, z)' <=> FoundBy(i, z)
  BY <1>1, SameBlocks, SameProgram
<1>3. Disassembled' = Disassembled
  BY <1>1, StillDisassembled
<1>4. /\ Made' = Made /\ Done' = Done /\ NothingMade' = NothingMade
      /\ \A i : Symbolic(i)' = Symbolic(i)
      /\ \A i : OperandsMade(i)' = OperandsMade(i)
  BY <1>1, <1>2 DEF Made, Done, NothingMade, Symbolic, OperandsMade
<1>5. /\ Cut(blocks, Made)' = Cut(blocks, Made)
      /\ Labelled(blocks, Made, labels)' = Labelled(blocks, Made, labels)
      /\ Laid(blocks, Made)' = Laid(blocks, Made)
      /\ Fallthroughs(blocks, succ)' = Fallthroughs(blocks, succ)
  BY <1>1, <1>2, <1>4 DEF Cut, Unbroken, Labelled, Laid, Fallthroughs
<1>6. FillingInv' = FillingInv
  BY <1>1, <1>4, <1>5 DEF FillingInv
<1>7. /\ ControlFlowLifted' = ControlFlowLifted /\ BranchesLinked' = BranchesLinked
      /\ RelocationsFound' = RelocationsFound /\ CloneIsomorphic' = CloneIsomorphic
  BY <1>1, <1>2, <1>4 DEF ControlFlowLifted, BranchesLinked, RelocationsFound,
                          CloneIsomorphic
<1> QED
  BY <1>1, <1>2, <1>3, <1>4, <1>6, <1>7 DEF LiftInv

LEMMA LiftHolds == Spec => []LiftInv
<1>1. LiftInv /\ [Next]_vars => LiftInv'
  BY DisassembleLift, LiftInstrLift, LiftInstrFailsLift, ResolveBranchesLift, RetryLift,
     CloneLift, StillLift DEF Next, Rest
<1> QED
  BY InitLift, <1>1, PTL DEF Spec

-----------------------------------------------------------------------------
(* liftFunction: every step of the machine code stays inside a block or      *)
(* follows an edge of the lifted function, every edge is such a step or      *)
(* leaves a block that ends the program, and no block is entered or left but *)
(* at its ends: for functions of every length and every branch in them.      *)
THEOREM ControlFlowAlwaysLifted == Spec => []ControlFlowLifted
<1>1. LiftInv => ControlFlowLifted
  BY DEF LiftInv
<1> QED
  BY LiftHolds, <1>1, PTL

(* resolveRelocation, in functions of every length, at every attempt: every  *)
(* relocation but that of the first instruction and those behind one that    *)
(* stopped a failed attempt becomes a symbol of its instruction, and no      *)
(* instruction gets a symbol of another one, but a short one between two     *)
(* long ones that of the next.                                               *)
THEOREM RelocationsAlwaysFound == Spec => []RelocationsFound
<1>1. LiftInv => RelocationsFound
  BY DEF LiftInv
<1> QED
  BY LiftHolds, <1>1, PTL

(* cloneRepresentation: the edges and branch targets of the copy are those   *)
(* of the original, and its instructions with operands lead back.            *)
THEOREM CloneAlwaysIsomorphic == Spec => []CloneIsomorphic
<1>1. LiftInv => CloneIsomorphic
  BY DEF LiftInv
<1> QED
  BY LiftHolds, <1>1, PTL
=============================================================================
