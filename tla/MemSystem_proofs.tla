-------------------------- MODULE MemSystem_proofs --------------------------
(***************************************************************************)
(* What the operators of MemSystem do, for every geometry of the cache and *)
(* every size of memory: the arithmetic of tags, sets and offsets, and the *)
(* effect of a write-back, a fill and a hit on what the processor sees.    *)
(***************************************************************************)
EXTENDS MemSystem, TLAPS, WellFoundedInduction

-----------------------------------------------------------------------------
(* Arithmetic.                                                              *)

(* Quotient and remainder by a positive number.                             *)
LEMMA DivMod ==
  ASSUME NEW a \in Nat, NEW b \in Nat \ {0}
  PROVE  a \div b \in Nat /\ a % b \in 0..b-1 /\ a = (a \div b) * b + (a % b)
OBVIOUS

(* A quotient and a remainder determine the number they came from.          *)
LEMMA DivModUnique ==
  ASSUME NEW b \in Nat \ {0}, NEW q \in Nat, NEW r \in 0..b-1
  PROVE  q * b + r \in Nat /\ (q * b + r) \div b = q /\ (q * b + r) % b = r
OBVIOUS

(* Blocks do not overlap.                                                   *)
LEMMA MulStep ==
  ASSUME NEW b \in Nat \ {0}, NEW q \in Nat, NEW p \in Nat, q < p
  PROVE  q * b + b <= p * b
OBVIOUS

(* Sets, ways and blocks are at least one, and blocks cover the memory.     *)
LEMMA GeometryType ==
  /\ Associativity \in Nat \ {0}
  /\ NumSets \in Nat \ {0}
  /\ NumBlocks \in Nat \ {0}
  /\ AllocSize \in Nat
  /\ MemSize <= AllocSize
<1> USE MemAssumption
<1>1. Associativity \in Nat \ {0} /\ NumSets \in Nat \ {0}
  <2>1. CASE CacheType = 2
    <3>1. Associativity = NumCacheLines BY <2>1 DEF Associativity
    <3>2. NumCacheLines \div NumCacheLines = 1 OBVIOUS
    <3> QED BY <3>1, <3>2 DEF NumSets
  <2>2. CASE CacheType = 3
    <3>1. Associativity = 2 BY <2>2 DEF Associativity
    <3>2. NumCacheLines \div 2 \in Nat \ {0} OBVIOUS
    <3> QED BY <3>1, <3>2 DEF NumSets
  <2>3. CASE CacheType \in {0, 1}
    <3>1. Associativity = 1 BY <2>3 DEF Associativity
    <3>2. NumCacheLines \div 1 = NumCacheLines OBVIOUS
    <3> QED BY <3>1, <3>2 DEF NumSets
  <2> QED BY <2>1, <2>2, <2>3
<1>2. NumBlocks \in Nat /\ MemSize <= NumBlocks * BlockSize
  <2> DEFINE a == MemSize + BlockSize - 1
  <2>1. a \in Nat OBVIOUS
  <2>2. /\ a \div BlockSize \in Nat
        /\ a % BlockSize \in 0..BlockSize-1
        /\ a = (a \div BlockSize) * BlockSize + (a % BlockSize)
    BY <2>1, DivMod
  <2>3. NumBlocks = a \div BlockSize BY DEF NumBlocks
  <2>4. NumBlocks * BlockSize \in Nat BY <2>2, <2>3
  <2> HIDE DEF a
  <2>5. a = MemSize + BlockSize - 1 BY DEF a
  <2> QED BY <2>2, <2>3, <2>4, <2>5
<1>3. NumBlocks # 0 BY <1>2
<1> QED BY <1>1, <1>2, <1>3 DEF AllocSize

(* Taking an address apart and putting it together again.                   *)
LEMMA AddrParts ==
  ASSUME NEW a \in Nat
  PROVE  /\ Block(a) \in Nat
         /\ Offset(a) \in Offsets
         /\ SetIdx(a) \in Sets
         /\ TagBits(a) \in Nat
         /\ WritebackBlock(SetIdx(a), TagBits(a)) = Block(a)
         /\ BlockBase(a) \in Nat
         /\ a = BlockBase(a) + Offset(a)
<1> USE MemAssumption, GeometryType
<1>1. /\ Block(a) \in Nat
      /\ Offset(a) \in Offsets
      /\ a = Block(a) * BlockSize + Offset(a)
  BY DivMod DEF Block, Offset, Offsets
<1>2. /\ TagBits(a) \in Nat
      /\ SetIdx(a) \in Sets
      /\ Block(a) = TagBits(a) * NumSets + SetIdx(a)
  BY <1>1, DivMod DEF TagBits, SetIdx, Sets
<1>3. BlockBase(a) \in Nat BY <1>1 DEF BlockBase
<1> QED BY <1>1, <1>2, <1>3 DEF WritebackBlock, BlockBase

(* The bytes of the block of a line are the addresses with its tag and set. *)
LEMMA LineAddr ==
  ASSUME NEW s \in Sets, NEW tag \in Nat, NEW i \in Offsets
  PROVE  /\ WritebackBlock(s, tag) \in Nat
         /\ WritebackAddr(s, tag) + i \in Nat
         /\ Block(WritebackAddr(s, tag) + i) = WritebackBlock(s, tag)
         /\ Offset(WritebackAddr(s, tag) + i) = i
         /\ SetIdx(WritebackAddr(s, tag) + i) = s
         /\ TagBits(WritebackAddr(s, tag) + i) = tag
<1> USE MemAssumption, GeometryType
<1>1. /\ WritebackBlock(s, tag) \in Nat
      /\ WritebackBlock(s, tag) \div NumSets = tag
      /\ WritebackBlock(s, tag) % NumSets = s
  BY DivModUnique DEF WritebackBlock, Sets
<1>2. /\ WritebackAddr(s, tag) + i \in Nat
      /\ Block(WritebackAddr(s, tag) + i) = WritebackBlock(s, tag)
      /\ Offset(WritebackAddr(s, tag) + i) = i
  BY <1>1, DivModUnique DEF WritebackAddr, Offsets, Block, Offset
<1> QED BY <1>1, <1>2 DEF SetIdx, TagBits

(* Whether an address is in a block, as a range and as a quotient.          *)
LEMMA InBlock ==
  ASSUME NEW a \in Nat, NEW b \in Nat
  PROVE  /\ a \in (b * BlockSize)..(b * BlockSize + BlockSize - 1) <=> Block(a) = b
         /\ Block(a) = b => a - b * BlockSize = Offset(a)
<1> USE MemAssumption
<1>1. /\ Block(a) \in Nat /\ Offset(a) \in 0..BlockSize-1
      /\ a = Block(a) * BlockSize + Offset(a)
  BY AddrParts DEF BlockBase, Offsets
<1>2. CASE Block(a) = b BY <1>1, <1>2
<1>3. CASE Block(a) < b
  <2>1. Block(a) * BlockSize + BlockSize <= b * BlockSize BY <1>1, <1>3, MulStep
  <2>2. b * BlockSize \in Nat /\ Block(a) * BlockSize \in Nat BY <1>1
  <2> QED BY <1>1, <1>3, <2>1, <2>2
<1>4. CASE b < Block(a)
  <2>1. b * BlockSize + BlockSize <= Block(a) * BlockSize BY <1>1, <1>4, MulStep
  <2>2. b * BlockSize \in Nat /\ Block(a) * BlockSize \in Nat BY <1>1
  <2> QED BY <1>1, <1>4, <2>1, <2>2
<1>5. Block(a) = b \/ Block(a) < b \/ b < Block(a) BY <1>1
<1> QED BY <1>2, <1>3, <1>4, <1>5

(* The memory is made of whole blocks.                                      *)
LEMMA AllocBlocks ==
  ASSUME NEW a \in Nat
  PROVE  a \in Alloc <=> Block(a) \in Blocks
<1> USE MemAssumption, GeometryType
<1>1. /\ Block(a) \in Nat /\ Offset(a) \in 0..BlockSize-1
      /\ a = Block(a) * BlockSize + Offset(a)
  BY AddrParts DEF BlockBase, Offsets
<1>2. Block(a) * BlockSize \in Nat /\ NumBlocks * BlockSize \in Nat BY <1>1
<1>3. CASE Block(a) < NumBlocks
  <2>1. Block(a) * BlockSize + BlockSize <= NumBlocks * BlockSize BY <1>1, <1>3, MulStep
  <2> QED BY <1>1, <1>2, <1>3, <2>1 DEF Alloc, AllocSize, Blocks
<1>4. CASE Block(a) >= NumBlocks
  <2>1. NumBlocks * BlockSize <= Block(a) * BlockSize BY <1>1, <1>4
  <2> QED BY <1>1, <1>2, <1>4, <2>1 DEF Alloc, AllocSize, Blocks
<1> QED BY <1>1, <1>3, <1>4

-----------------------------------------------------------------------------
(* Choosing a way.                                                          *)

NatOrder == {ss \in Nat \X Nat : ss[1] < ss[2]}

(* The order of the natural numbers, as a set of pairs.                     *)
LEMMA NatOrderWellFounded == IsWellFoundedOn(NatOrder, Nat)
BY NatLessThanWellFounded, Zenon DEF OpToRel, NatOrder

(* First is the least element of a set of natural numbers.                  *)
LEMMA FirstIsLeast ==
  ASSUME NEW S, S \subseteq Nat, S # {}
  PROVE  First(S) \in S /\ \A v \in S : First(S) <= v
<1>1. \E x \in S : \A y \in S : ~ (<<y, x>> \in NatOrder)
  BY NatOrderWellFounded, WFMin
<1>2. ASSUME NEW x \in Nat, NEW y \in Nat, ~ (<<y, x>> \in NatOrder)
      PROVE  x <= y
  BY <1>2 DEF NatOrder
<1>3. \E x \in S : \A y \in S : x <= y
  BY <1>1, <1>2
<1> QED BY <1>3 DEF First

(* A set of lines with a valid one has a least recently used one.           *)
LEMMA OldestExists ==
  ASSUME NEW set \in [Ways -> Line], NEW u \in Ways, set[u].valid
  PROVE  OldestWays(set) # {}
<1> DEFINE T == {set[w].lastused : w \in {v \in Ways : set[v].valid}}
<1>1. T \subseteq Nat /\ T # {}
  BY DEF Line
<1>2. PICK w \in Ways : set[w].valid /\ set[w].lastused = First(T)
  <2> HIDE DEF T
  <2>1. First(T) \in T BY <1>1, FirstIsLeast
  <2> QED BY <2>1 DEF T
<1>3. \A v \in Ways : set[v].valid => First(T) <= set[v].lastused
  <2>1. \A v \in Ways : set[v].valid => set[v].lastused \in T OBVIOUS
  <2> HIDE DEF T
  <2> QED BY <1>1, <2>1, FirstIsLeast
<1> QED BY <1>2, <1>3 DEF OldestWays

(* The victim is a way of the set; a valid line is chosen over an empty one *)
(* only when it comes after it, and an empty one is the first of them.      *)
LEMMA VictimIsWay ==
  ASSUME NEW set \in [Ways -> Line]
  PROVE  /\ Victim(set) \in Ways
         /\ ~set[Victim(set)].valid =>
              \A v \in Ways : v < Victim(set) => set[v].valid
         /\ \A v \in Ways : set[Victim(set)].valid /\ ~set[v].valid =>
              \E e \in Ways : ~set[e].valid /\ e < Victim(set)
<1> DEFINE empty == EmptyWays(set)
           oldest == OldestWays(set)
<1>1. empty \subseteq Ways /\ oldest \subseteq Ways /\ Ways \subseteq Nat
  BY GeometryType DEF EmptyWays, OldestWays, Ways
<1>2. empty # {} \/ oldest # {}
  <2>1. 0 \in Ways BY GeometryType DEF Ways
  <2>2. CASE set[0].valid BY <2>1, <2>2, OldestExists
  <2>3. CASE ~set[0].valid BY <2>1, <2>3 DEF EmptyWays
  <2> QED BY <2>2, <2>3
<1>3. empty # {} => First(empty) \in empty BY <1>1, FirstIsLeast
<1>4. oldest # {} => First(oldest) \in oldest BY <1>1, FirstIsLeast
<1>5. \A v \in Ways : v \in empty <=> ~set[v].valid BY DEF EmptyWays
<1> HIDE DEF empty, oldest
<1>6. Victim(set) = IF empty = {} THEN First(oldest)
                    ELSE IF oldest = {} THEN First(empty)
                    ELSE IF First(empty) > First(oldest) THEN First(empty) ELSE First(oldest)
  BY DEF Victim, empty, oldest
<1>7. Victim(set) \in Ways BY <1>1, <1>2, <1>3, <1>4, <1>6
<1>8. ASSUME NEW v \in Ways, set[Victim(set)].valid, ~set[v].valid
      PROVE  \E e \in Ways : ~set[e].valid /\ e < Victim(set)
  <2>1. empty # {} BY <1>5, <1>8
  <2>2. Victim(set) \notin empty BY <1>5, <1>7, <1>8
  <2>3. Victim(set) = First(oldest) /\ ~(First(empty) > First(oldest)) /\ First(oldest) \in oldest
    BY <2>1, <2>2, <1>3, <1>4, <1>6
  <2>4. First(empty) < Victim(set)
    <3>1. First(empty) \in Nat /\ First(oldest) \in Nat BY <1>1, <1>3, <2>1, <2>3
    <3>2. First(empty) # Victim(set) BY <1>3, <2>1, <2>2
    <3> QED BY <3>1, <3>2, <2>3
  <2> QED BY <1>1, <1>3, <1>5, <2>1, <2>4
<1>9. ASSUME ~set[Victim(set)].valid, NEW v \in Ways, v < Victim(set)
      PROVE  set[v].valid
  <2>1. Victim(set) \in empty BY <1>5, <1>7, <1>9
  <2>2. \A u \in oldest : set[u].valid BY DEF oldest, OldestWays
  <2>3. Victim(set) = First(empty) BY <1>4, <1>6, <1>9, <2>1, <2>2
  <2>4. First(empty) <= v \/ v \notin empty BY <1>1, <2>1, FirstIsLeast
  <2>5. v \in Nat /\ Victim(set) \in Nat BY <1>1, <1>7
  <2>6. v \notin empty BY <1>9, <2>3, <2>4, <2>5
  <2> QED BY <1>5, <2>6
<1> QED BY <1>7, <1>8, <1>9

(* A block held once is found where it is held.                             *)
LEMMA HitUnique ==
  ASSUME NEW m \in MemState, HeldOnce(m), NEW s \in Sets, NEW tag,
         NEW w \in HitWays(m.cache[s], tag)
  PROVE  HitWays(m.cache[s], tag) = {w} /\ First(HitWays(m.cache[s], tag)) = w
<1>1. HitWays(m.cache[s], tag) = {w} BY DEF HitWays, HeldOnce
<1>2. w \in Nat BY GeometryType DEF HitWays, Ways
<1>3. First({w}) \in {w} BY <1>2, FirstIsLeast
<1> QED BY <1>1, <1>3

-----------------------------------------------------------------------------
(* The state a memory is always in.                                         *)

(* Without a cache its lines are never used.                                *)
CacheIdle(m) == CacheType = 0 => \A s \in Sets : \A w \in Ways : ~m.cache[s][w].valid

Coherent(m) == /\ m \in MemState
               /\ HeldOnce(m)
               /\ BlocksInMemory(m)
               /\ CleanAgree(m)
               /\ CacheIdle(m)

(* The processor sees the byte of the line that holds an address.           *)
LEMMA ViewHit ==
  ASSUME NEW m, Coherent(m), NEW a \in Nat,
         NEW w \in Ways, m.cache[SetIdx(a)][w].valid, m.cache[SetIdx(a)][w].tag = TagBits(a)
  PROVE  ViewAt(m, a) = m.cache[SetIdx(a)][w].data[Offset(a)]
<1>1. SetIdx(a) \in Sets BY AddrParts
<1>2. w \in HitWays(m.cache[SetIdx(a)], TagBits(a)) BY DEF HitWays
<1> QED BY <1>1, <1>2, HitUnique DEF ViewAt, Hits, Coherent

(* What ViewAt says, without the choice of a way.                           *)
LEMMA ViewMiss ==
  ASSUME NEW m, NEW a \in Nat,
         \A w \in Ways : ~(m.cache[SetIdx(a)][w].valid /\ m.cache[SetIdx(a)][w].tag = TagBits(a))
  PROVE  ViewAt(m, a) = m.prog_mem[a]
BY DEF ViewAt, Hits, HitWays

(* Replacing one line changes that line only.                               *)
LEMMA SetLineEffect ==
  ASSUME NEW m \in MemState, NEW s \in Sets, NEW w \in Ways, NEW line \in Line
  PROVE  /\ SetLine(m, s, w, line) \in MemState
         /\ SetLine(m, s, w, line).prog_mem = m.prog_mem
         /\ SetLine(m, s, w, line).cycles = m.cycles
         /\ SetLine(m, s, w, line).out = m.out
         /\ SetLine(m, s, w, line).host = m.host
         /\ \A t \in Sets : \A v \in Ways :
              SetLine(m, s, w, line).cache[t][v] =
                IF t = s /\ v = w THEN line ELSE m.cache[t][v]
<1>1. m.cache[s] \in [Ways -> Line] BY DEF MemState
<1>2. [m.cache[s] EXCEPT ![w] = line] \in [Ways -> Line] BY <1>1
<1>3. m.cache \in [Sets -> [Ways -> Line]] BY DEF MemState
<1> DEFINE c == [m.cache EXCEPT ![s] = [m.cache[s] EXCEPT ![w] = line]]
<1>4. c \in [Sets -> [Ways -> Line]] BY <1>2, <1>3
<1>5. \A t \in Sets : \A v \in Ways : c[t][v] = IF t = s /\ v = w THEN line ELSE m.cache[t][v]
  BY <1>1, <1>3
<1>6. SetLine(m, s, w, line) = [m EXCEPT !.cache = c] BY DEF SetLine, MemState
<1> HIDE DEF c
<1> QED BY <1>4, <1>5, <1>6 DEF MemState

(* The cycle counter stays within its width.                                *)
LEMMA TickType ==
  ASSUME NEW c \in 0..CycleMod-1, NEW n \in Nat
  PROVE  Tick(c, n) \in 0..CycleMod-1
BY MemAssumption, DivMod DEF Tick

(* A block takes a number of cycles.                                        *)
LEMMA BlockCyclesType == BlockCycles \in Nat
<1>1. BlockSize \div WordSize \in Nat BY MemAssumption, DivMod
<1> QED BY <1>1 DEF BlockCycles

(* The bytes of a block held by a line are in the memory.                   *)
LEMMA LineInMemory ==
  ASSUME NEW m, Coherent(m), NEW s \in Sets, NEW w \in Ways, m.cache[s][w].valid,
         NEW i \in Offsets
  PROVE  WritebackAddr(s, m.cache[s][w].tag) + i \in Alloc
<1>1. m.cache[s][w].tag \in Nat BY DEF Coherent, MemState, Line
<1>2. WritebackBlock(s, m.cache[s][w].tag) \in Blocks BY DEF Coherent, BlocksInMemory
<1> QED BY <1>1, <1>2, LineAddr, AllocBlocks

-----------------------------------------------------------------------------
(* Writing a dirty line back: the processor sees no difference, and the     *)
(* line may now be dropped.                                                 *)
LEMMA WriteBackEffect ==
  ASSUME NEW m, Coherent(m), NEW s \in Sets, NEW w \in Ways
  PROVE  LET n == WriteBack(m, s, w) IN
         /\ Coherent(n)
         /\ \A a \in Alloc : ViewAt(n, a) = ViewAt(m, a)
         /\ ~(n.cache[s][w].valid /\ n.cache[s][w].dirty)
         /\ n.host = m.host /\ n.out = m.out
         /\ \A t \in Sets : \A v \in Ways : /\ n.cache[t][v].valid = m.cache[t][v].valid
                                            /\ n.cache[t][v].tag = m.cache[t][v].tag
<1> DEFINE n == WriteBack(m, s, w)
           line == m.cache[s][w]
           clean == [line EXCEPT !.dirty = FALSE]
           base == WritebackAddr(s, line.tag)
           bytes == [a \in Alloc |-> IF a \in base..(base + BlockSize - 1)
                                     THEN line.data[a - base] ELSE m.prog_mem[a]]
<1>1. CASE ~(line.valid /\ line.dirty)
  BY <1>1 DEF WriteBack
<1>2. CASE line.valid /\ line.dirty
  <2>1. m \in MemState BY DEF Coherent
  <2>2. line \in Line /\ clean \in Line
    <3>1. line \in Line BY <2>1 DEF MemState
    <3> HIDE DEF line
    <3> QED BY <3>1 DEF Line
  <2>3. /\ base \in Nat /\ base = WritebackBlock(s, line.tag) * BlockSize
        /\ WritebackBlock(s, line.tag) \in Nat
    <3>1. 0 \in Offsets BY MemAssumption DEF Offsets
    <3>2. line.tag \in Nat BY <2>2 DEF Line
    <3>3. WritebackBlock(s, line.tag) \in Nat BY <3>1, <3>2, LineAddr
    <3> QED BY <3>3, MemAssumption DEF WritebackAddr
  <2>4. n = [SetLine(m, s, w, clean) EXCEPT !.cycles = Tick(@, BlockCycles), !.prog_mem = bytes]
    BY <1>2, Zenon DEF WriteBack
  <2>5. bytes \in [Alloc -> Byte]
    <3>1. SUFFICES ASSUME NEW a \in Alloc, a \in base..(base + BlockSize - 1)
                   PROVE  line.data[a - base] \in Byte
      BY <2>1 DEF MemState
    <3>2. a \in Nat BY DEF Alloc
    <3>3. Block(a) = WritebackBlock(s, line.tag) BY <2>3, <3>1, <3>2, InBlock
    <3>4. a - base = Offset(a) BY <2>3, <3>2, <3>3, InBlock
    <3>5. Offset(a) \in Offsets BY <3>2, AddrParts
    <3> QED BY <2>2, <3>4, <3>5 DEF Line
  <2> HIDE DEF n, bytes, clean
  <2>6. Tick(m.cycles, BlockCycles) \in 0..CycleMod-1
    BY <2>1, TickType, BlockCyclesType DEF MemState
  <2>7. /\ n \in MemState
        /\ n.prog_mem = bytes
        /\ n.host = m.host /\ n.out = m.out
        /\ \A t \in Sets : \A v \in Ways :
             n.cache[t][v] = IF t = s /\ v = w THEN clean ELSE m.cache[t][v]
    <3> DEFINE l == SetLine(m, s, w, clean)
    <3>1. /\ l \in MemState /\ l.cycles = m.cycles /\ l.host = m.host /\ l.out = m.out
          /\ \A t \in Sets : \A v \in Ways :
               l.cache[t][v] = IF t = s /\ v = w THEN clean ELSE m.cache[t][v]
      BY <2>1, <2>2, SetLineEffect
    <3>2. n = [l EXCEPT !.cycles = Tick(@, BlockCycles), !.prog_mem = bytes] BY <2>4
    <3> HIDE DEF l
    <3> QED BY <2>5, <2>6, <3>1, <3>2 DEF MemState
  <2>8. /\ clean.valid = line.valid /\ clean.tag = line.tag /\ clean.data = line.data
        /\ clean.dirty = FALSE
    BY <2>2 DEF clean, Line
  <2>9. \A t \in Sets : \A v \in Ways : /\ n.cache[t][v].valid = m.cache[t][v].valid
                                        /\ n.cache[t][v].tag = m.cache[t][v].tag
                                        /\ n.cache[t][v].data = m.cache[t][v].data
    BY <2>7, <2>8
  <2>10. ASSUME NEW a \in Alloc, Block(a) # WritebackBlock(s, line.tag)
         PROVE  bytes[a] = m.prog_mem[a]
    <3>1. a \in Nat BY DEF Alloc
    <3> QED BY <2>3, <2>10, <3>1, InBlock DEF bytes
  <2>11. ASSUME NEW i \in Offsets PROVE bytes[base + i] = line.data[i]
    <3>1. base + i \in Alloc BY <1>2, LineInMemory
    <3>2. (base + i) - base = i /\ base + i \in base..(base + BlockSize - 1)
      BY <2>3, MemAssumption DEF Offsets
    <3> QED BY <3>1, <3>2 DEF bytes
  <2>12. Coherent(n)
    <3>1. HeldOnce(n) BY <2>9 DEF Coherent, HeldOnce
    <3>2. BlocksInMemory(n) BY <2>9 DEF Coherent, BlocksInMemory
    <3>3. CacheIdle(n) BY <2>9 DEF Coherent, CacheIdle
    <3>4. ASSUME NEW t \in Sets, NEW v \in Ways, n.cache[t][v].valid, ~n.cache[t][v].dirty,
                 NEW i \in Offsets
          PROVE  n.cache[t][v].data[i] = n.prog_mem[WritebackAddr(t, n.cache[t][v].tag) + i]
      <4>1. CASE t = s /\ v = w
        BY <2>7, <2>8, <2>11, <4>1
      <4>2. CASE ~(t = s /\ v = w)
        <5> DEFINE addr == WritebackAddr(t, m.cache[t][v].tag) + i
        <5>1. n.cache[t][v] = m.cache[t][v] BY <2>7, <4>2
        <5>2. m.cache[t][v].tag \in Nat /\ line.tag \in Nat BY <2>1, <2>2 DEF MemState, Line
        <5>3. addr \in Alloc BY <3>4, <5>1, LineInMemory
        <5>4. Block(addr) # WritebackBlock(s, line.tag)
          <6>1. /\ Block(addr) = WritebackBlock(t, m.cache[t][v].tag)
                /\ SetIdx(addr) = t /\ TagBits(addr) = m.cache[t][v].tag
            BY <5>2, LineAddr
          <6>2. SUFFICES ASSUME Block(addr) = WritebackBlock(s, line.tag) PROVE FALSE OBVIOUS
          <6>3. Block(base + i) = Block(addr) /\ SetIdx(base + i) = s /\ TagBits(base + i) = line.tag
            BY <5>2, <6>2, LineAddr
          <6>4. s = t /\ line.tag = m.cache[t][v].tag BY <6>1, <6>3 DEF SetIdx, TagBits
          <6> QED BY <1>2, <3>4, <4>2, <5>1, <6>4 DEF Coherent, HeldOnce
        <5>5. m.cache[t][v].data[i] = m.prog_mem[addr]
          BY <3>4, <5>1 DEF Coherent, CleanAgree
        <5> QED BY <2>7, <2>10, <5>1, <5>3, <5>4, <5>5
      <4> QED BY <4>1, <4>2
    <3> QED BY <2>7, <3>1, <3>2, <3>3, <3>4 DEF Coherent, CleanAgree
  <2>13. ASSUME NEW a \in Alloc PROVE ViewAt(n, a) = ViewAt(m, a)
    <3>1. a \in Nat /\ SetIdx(a) \in Sets BY AddrParts DEF Alloc
    <3>2. CASE \E v \in Ways : /\ m.cache[SetIdx(a)][v].valid
                               /\ m.cache[SetIdx(a)][v].tag = TagBits(a)
      BY <2>9, <2>12, <3>1, <3>2, ViewHit
    <3>3. CASE \A v \in Ways : ~(/\ m.cache[SetIdx(a)][v].valid
                                 /\ m.cache[SetIdx(a)][v].tag = TagBits(a))
      <4>1. ViewAt(n, a) = n.prog_mem[a] /\ ViewAt(m, a) = m.prog_mem[a]
        BY <2>9, <3>1, <3>3, ViewMiss
      <4>2. Block(a) # WritebackBlock(s, line.tag)
        <5>1. line.tag \in Nat BY <2>2 DEF Line
        <5>2. Offset(a) \in Offsets BY <3>1, AddrParts
        <5>3. /\ Block(base + Offset(a)) = WritebackBlock(s, line.tag)
              /\ SetIdx(base + Offset(a)) = s /\ TagBits(base + Offset(a)) = line.tag
          BY <5>1, <5>2, LineAddr
        <5> QED BY <1>2, <3>3, <5>3 DEF SetIdx, TagBits
      <4> QED BY <2>7, <2>10, <4>1, <4>2
    <3> QED BY <3>2, <3>3
  <2>14. ~n.cache[s][w].dirty BY <2>7, <2>8
  <2> QED BY <2>7, <2>9, <2>12, <2>13, <2>14 DEF n
<1> QED BY <1>1, <1>2

(* An address is the byte at its offset in the block with its tag and set.  *)
LEMMA AddrOfLine ==
  ASSUME NEW a \in Nat
  PROVE  /\ a = WritebackAddr(SetIdx(a), TagBits(a)) + Offset(a)
         /\ WritebackAddr(SetIdx(a), TagBits(a)) = BlockBase(a)
BY AddrParts DEF WritebackAddr, BlockBase

(* Fetching a block that no line holds into a line whose contents are not   *)
(* needed: the processor sees no difference, and the line holds the block.  *)
LEMMA FillEffect ==
  ASSUME NEW m, Coherent(m), CacheType # 0, NEW a \in Alloc, NEW s \in Sets, s = SetIdx(a),
         NEW w \in Ways, NEW acc,
         \A v \in Ways : ~(m.cache[s][v].valid /\ m.cache[s][v].tag = TagBits(a)),
         ~(m.cache[s][w].valid /\ m.cache[s][w].dirty)
  PROVE  LET n == Fill(m, s, w, a, acc) IN
         /\ Coherent(n)
         /\ \A b \in Alloc : ViewAt(n, b) = ViewAt(m, b)
         /\ n.cache[s][w].valid /\ n.cache[s][w].tag = TagBits(a)
         /\ n.host = m.host /\ n.out = m.out
         /\ \A t \in Sets : \A v \in Ways :
              ~(t = s /\ v = w) => n.cache[t][v] = m.cache[t][v]
<1> DEFINE n == Fill(m, s, w, a, acc)
           line == m.cache[s][w]
           data == [i \in Offsets |-> m.prog_mem[BlockBase(a) + i]]
           filled == Tick(m.cycles, BlockCycles)
           new == [tag |-> TagBits(a), valid |-> TRUE, dirty |-> IsWrite(acc),
                   data |-> data, lastused |-> filled]
<1>1. m \in MemState BY DEF Coherent
<1>2. /\ a \in Nat /\ TagBits(a) \in Nat /\ Block(a) \in Blocks
      /\ WritebackBlock(s, TagBits(a)) = Block(a)
      /\ WritebackAddr(s, TagBits(a)) = BlockBase(a)
  BY AddrParts, AllocBlocks, AddrOfLine DEF Alloc
<1>3. \A i \in Offsets : BlockBase(a) + i \in Alloc
  BY <1>2, LineAddr, AllocBlocks
<1>4. filled \in 0..CycleMod-1
  BY <1>1, TickType, BlockCyclesType DEF MemState
<1>5. new \in Line
  <2>1. data \in [Offsets -> Byte] BY <1>1, <1>3 DEF MemState
  <2>2. filled \in Nat BY <1>4
  <2>3. IsWrite(acc) \in BOOLEAN BY DEF IsWrite
  <2> HIDE DEF data, filled
  <2> QED BY <1>2, <2>1, <2>2, <2>3 DEF Line
<1>6. /\ n \in MemState
      /\ n.prog_mem = m.prog_mem
      /\ n.host = m.host /\ n.out = m.out
      /\ \A t \in Sets : \A v \in Ways :
           n.cache[t][v] = IF t = s /\ v = w THEN new ELSE m.cache[t][v]
  <2> DEFINE l == SetLine(m, s, w, new)
  <2>1. n = [l EXCEPT !.cycles = filled] BY DEF Fill
  <2> HIDE DEF n, new, filled
  <2>2. /\ l \in MemState /\ l.prog_mem = m.prog_mem /\ l.host = m.host /\ l.out = m.out
        /\ \A t \in Sets : \A v \in Ways :
             l.cache[t][v] = IF t = s /\ v = w THEN new ELSE m.cache[t][v]
    BY <1>1, <1>5, SetLineEffect
  <2> HIDE DEF l
  <2> QED BY <1>4, <2>1, <2>2 DEF MemState
<1>7. /\ new.tag = TagBits(a) /\ new.valid
      /\ \A i \in Offsets : new.data[i] = m.prog_mem[BlockBase(a) + i]
  OBVIOUS
<1> HIDE DEF n, new
<1>8. Coherent(n)
  <2>1. HeldOnce(n) BY <1>6, <1>7 DEF Coherent, HeldOnce
  <2>2. BlocksInMemory(n) BY <1>2, <1>6, <1>7 DEF Coherent, BlocksInMemory
  <2>3. CacheIdle(n) BY DEF CacheIdle
  <2>4. CleanAgree(n)
    <3>1. SUFFICES ASSUME NEW t \in Sets, NEW v \in Ways,
                          n.cache[t][v].valid, ~n.cache[t][v].dirty, NEW i \in Offsets
                   PROVE  n.cache[t][v].data[i] =
                            n.prog_mem[WritebackAddr(t, n.cache[t][v].tag) + i]
      BY DEF CleanAgree
    <3>2. CASE t = s /\ v = w BY <1>2, <1>6, <1>7, <3>2
    <3>3. CASE ~(t = s /\ v = w) BY <1>6, <3>1, <3>3 DEF Coherent, CleanAgree
    <3> QED BY <3>2, <3>3
  <2> QED BY <1>6, <2>1, <2>2, <2>3, <2>4 DEF Coherent
<1>9. ASSUME NEW b \in Alloc PROVE ViewAt(n, b) = ViewAt(m, b)
  <2>1. /\ b \in Nat /\ SetIdx(b) \in Sets /\ Offset(b) \in Offsets
        /\ b = WritebackAddr(SetIdx(b), TagBits(b)) + Offset(b)
    BY AddrParts, AddrOfLine DEF Alloc
  <2>2. CASE SetIdx(b) = s /\ TagBits(b) = TagBits(a)
    <3>1. ViewAt(m, b) = m.prog_mem[b] BY <2>1, <2>2, ViewMiss
    <3>2. ViewAt(n, b) = n.cache[s][w].data[Offset(b)]
      BY <1>6, <1>7, <1>8, <2>1, <2>2, ViewHit
    <3> QED BY <1>2, <1>6, <1>7, <2>1, <2>2, <3>1, <3>2
  <2>3. CASE ~(SetIdx(b) = s /\ TagBits(b) = TagBits(a))
    <3>1. CASE \E v \in Ways : /\ m.cache[SetIdx(b)][v].valid
                               /\ m.cache[SetIdx(b)][v].tag = TagBits(b)
      <4>1. PICK v \in Ways : /\ m.cache[SetIdx(b)][v].valid
                              /\ m.cache[SetIdx(b)][v].tag = TagBits(b)
        BY <3>1
      <4>2. ViewAt(m, b) = m.cache[SetIdx(b)][v].data[Offset(b)]
        BY <2>1, <4>1, ViewHit
      <4>3. CASE SetIdx(b) = s /\ v = w
        <5>1. \A u \in Ways : ~(/\ n.cache[SetIdx(b)][u].valid
                                /\ n.cache[SetIdx(b)][u].tag = TagBits(b))
          BY <1>6, <1>7, <2>1, <2>3, <4>1, <4>3 DEF Coherent, HeldOnce
        <5>2. ViewAt(n, b) = m.prog_mem[b] BY <1>6, <2>1, <5>1, ViewMiss
        <5>3. m.cache[SetIdx(b)][v].data[Offset(b)] = m.prog_mem[b]
          BY <2>1, <4>1, <4>3 DEF Coherent, CleanAgree
        <5> QED BY <4>2, <5>2, <5>3
      <4>4. CASE ~(SetIdx(b) = s /\ v = w)
        <5>1. n.cache[SetIdx(b)][v] = m.cache[SetIdx(b)][v] BY <1>6, <2>1, <4>4
        <5> QED BY <1>8, <2>1, <4>1, <4>2, <5>1, ViewHit
      <4> QED BY <4>3, <4>4
    <3>2. CASE \A v \in Ways : ~(/\ m.cache[SetIdx(b)][v].valid
                                 /\ m.cache[SetIdx(b)][v].tag = TagBits(b))
      <4>1. \A v \in Ways : ~(/\ n.cache[SetIdx(b)][v].valid
                              /\ n.cache[SetIdx(b)][v].tag = TagBits(b))
        BY <1>6, <1>7, <2>1, <2>3, <3>2
      <4> QED BY <1>6, <2>1, <3>2, <4>1, ViewMiss
    <3> QED BY <3>1, <3>2
  <2> QED BY <2>2, <2>3
<1>10. n.cache[s][w].valid /\ n.cache[s][w].tag = TagBits(a)
  BY <1>6, <1>7
<1> QED BY <1>6, <1>8, <1>9, <1>10 DEF n

-----------------------------------------------------------------------------
(* Serving an access from a line.                                           *)

AccessSet == [type : {"READBYTE", "READWORD", "WRITEBYTE", "WRITEWORD"},
              word : Word, junk : Word]

(* The accesses that stay inside a line.                                    *)
Fits(a, acc) == Offset(a) + Width(acc) <= BlockSize

(* Bytes close together share their block, set and tag.                     *)
LEMMA SameBlock ==
  ASSUME NEW a \in Nat, NEW i \in Nat, Offset(a) + i < BlockSize
  PROVE  /\ Block(a + i) = Block(a) /\ Offset(a + i) = Offset(a) + i
         /\ SetIdx(a + i) = SetIdx(a) /\ TagBits(a + i) = TagBits(a)
<1>1. /\ Offset(a) \in Offsets /\ Block(a) \in Nat
      /\ SetIdx(a) \in Sets /\ TagBits(a) \in Nat
      /\ WritebackBlock(SetIdx(a), TagBits(a)) = Block(a)
      /\ BlockBase(a) \in Nat /\ a = BlockBase(a) + Offset(a)
  BY AddrParts
<1>2. Offset(a) + i \in Offsets BY <1>1, MemAssumption DEF Offsets
<1>3. a + i = WritebackAddr(SetIdx(a), TagBits(a)) + (Offset(a) + i)
  <2>1. WritebackAddr(SetIdx(a), TagBits(a)) = BlockBase(a) BY AddrOfLine
  <2> QED BY <1>1, <1>2, <2>1 DEF Offsets
<1>4. /\ Block(WritebackAddr(SetIdx(a), TagBits(a)) + (Offset(a) + i)) = Block(a)
      /\ Offset(WritebackAddr(SetIdx(a), TagBits(a)) + (Offset(a) + i)) = Offset(a) + i
      /\ SetIdx(WritebackAddr(SetIdx(a), TagBits(a)) + (Offset(a) + i)) = SetIdx(a)
      /\ TagBits(WritebackAddr(SetIdx(a), TagBits(a)) + (Offset(a) + i)) = TagBits(a)
  BY <1>1, <1>2, LineAddr
<1> QED BY <1>3, <1>4

(* An access is of a byte up to a word.                                     *)
LEMMA WidthType ==
  ASSUME NEW acc \in AccessSet
  PROVE  /\ Width(acc) \in Nat \ {0} /\ Width(acc) <= WordSize
         /\ IsWrite(acc) \in BOOLEAN
BY MemAssumption DEF Width, IsWrite, AccessSet

(* What a line answers is a word.                                           *)
LEMMA LineWordType ==
  ASSUME NEW data \in [Offsets -> Byte], NEW offset \in Offsets, NEW acc \in AccessSet
  PROVE  LineWord(data, offset, acc) \in Word
<1>1. acc.junk \in [WordIdx -> Byte] BY DEF AccessSet, Word
<1>2. 0 \in Byte BY MemAssumption DEF Byte
<1>3. ASSUME NEW i \in WordIdx, offset + i < BlockSize PROVE offset + i \in Offsets
  BY <1>3, MemAssumption DEF WordIdx, Offsets
<1> QED BY <1>1, <1>2, <1>3 DEF LineWord, Word

(* A line written to is made of bytes.                                      *)
LEMMA LineWriteType ==
  ASSUME NEW data \in [Offsets -> Byte], NEW offset \in Offsets, NEW acc \in AccessSet
  PROVE  LineWrite(data, offset, acc) \in [Offsets -> Byte]
<1>1. acc.word \in [WordIdx -> Byte] BY DEF AccessSet, Word
<1>2. ASSUME NEW i \in Offsets, i \in offset..(offset + Width(acc) - 1)
      PROVE  i - offset \in WordIdx
  BY <1>2, MemAssumption, WidthType DEF Offsets, WordIdx
<1> QED BY <1>1, <1>2 DEF LineWrite

(* A stamp overwritten is a number.                                         *)
LEMMA LastUsedWriteType ==
  ASSUME NEW used \in Nat, NEW offset \in Offsets, NEW acc \in AccessSet
  PROVE  LastUsedWrite(used, offset, acc) \in Nat
<1> DEFINE i == BlockSize + LinePadding - offset
<1>1. acc.word \in [WordIdx -> Byte] BY DEF AccessSet, Word
<1>2. i < Width(acc) => acc.word[i] \in Nat
  <2>1. i \in Nat BY MemAssumption DEF Offsets
  <2>2. i < Width(acc) => i \in WordIdx BY <2>1, WidthType, MemAssumption DEF WordIdx
  <2> HIDE DEF i
  <2> QED BY <1>1, <2>2, MemAssumption DEF Byte
<1>3. (used \div ByteMod) * ByteMod \in Nat
  <2>1. used \div ByteMod \in Nat BY MemAssumption, DivMod
  <2> QED BY <2>1, MemAssumption
<1> QED BY <1>2, <1>3 DEF LastUsedWrite

(* A hit changes its own line only, keeps its block and its place, and      *)
(* leaves it dirty after a write.                                           *)
LEMMA HitStep ==
  ASSUME NEW m, m \in MemState, NEW s \in Sets, NEW w \in Ways, m.cache[s][w].valid,
         NEW offset \in Offsets, NEW acc \in AccessSet
  PROVE  LET n == HandleCacheHit(m, s, w, offset, acc) IN
         /\ n \in MemState
         /\ n.prog_mem = m.prog_mem /\ n.host = m.host
         /\ n.out = IF IsWrite(acc) THEN m.out ELSE LineWord(m.cache[s][w].data, offset, acc)
         /\ \A t \in Sets : \A v \in Ways : ~(t = s /\ v = w) => n.cache[t][v] = m.cache[t][v]
         /\ n.cache[s][w].valid /\ n.cache[s][w].tag = m.cache[s][w].tag
         /\ n.cache[s][w].dirty = (m.cache[s][w].dirty \/ IsWrite(acc))
         /\ n.cache[s][w].data = IF IsWrite(acc) THEN LineWrite(m.cache[s][w].data, offset, acc)
                                 ELSE m.cache[s][w].data
<1> DEFINE n == HandleCacheHit(m, s, w, offset, acc)
           line == m.cache[s][w]
           used == IF Associativity > 1 THEN m.cycles ELSE line.lastused
           data == IF IsWrite(acc) THEN LineWrite(line.data, offset, acc) ELSE line.data
           stamp == IF IsWrite(acc) THEN LastUsedWrite(used, offset, acc) ELSE used
           hit == [line EXCEPT !.data = data, !.dirty = line.dirty \/ IsWrite(acc),
                               !.lastused = stamp]
           out == IF IsWrite(acc) THEN m.out ELSE LineWord(line.data, offset, acc)
<1>1. line \in Line BY DEF MemState
<1>2. line.data \in [Offsets -> Byte] /\ line.lastused \in Nat
  <2> HIDE DEF line
  <2> QED BY <1>1 DEF Line
<1>3. used \in Nat BY <1>2 DEF MemState
<1>4. data \in [Offsets -> Byte] /\ stamp \in Nat /\ out \in Word
  <2>1. m.out \in Word BY DEF MemState
  <2> HIDE DEF line, used
  <2> QED BY <1>2, <1>3, <2>1, LineWriteType, LineWordType, LastUsedWriteType
<1>5. IsWrite(acc) \in BOOLEAN BY WidthType
<1> HIDE DEF line, used, data, stamp, out
<1>6. /\ hit \in Line /\ hit.valid = line.valid /\ hit.tag = line.tag
      /\ hit.dirty = (line.dirty \/ IsWrite(acc)) /\ hit.data = data
  BY <1>1, <1>4, <1>5 DEF Line
<1>7. Tick(m.cycles, 1) \in 0..CycleMod-1 BY TickType DEF MemState
<1> DEFINE l == SetLine(m, s, w, hit)
<1>8. n = [l EXCEPT !.cycles = Tick(m.cycles, 1), !.out = out]
  <2>1. l.cycles = m.cycles /\ l.out = m.out BY <1>6, SetLineEffect
  <2> QED BY <2>1 DEF HandleCacheHit, line, used, data, stamp, out
<1> HIDE DEF n, hit
<1>9. /\ l \in MemState /\ l.prog_mem = m.prog_mem /\ l.host = m.host
      /\ \A t \in Sets : \A v \in Ways :
           l.cache[t][v] = IF t = s /\ v = w THEN hit ELSE m.cache[t][v]
  BY <1>6, SetLineEffect
<1> HIDE DEF l
<1>10. n \in MemState /\ n.prog_mem = m.prog_mem /\ n.host = m.host /\ n.out = out
       /\ \A t \in Sets : \A v \in Ways : n.cache[t][v] = l.cache[t][v]
  BY <1>4, <1>7, <1>8, <1>9 DEF MemState
<1>11. \A t \in Sets : \A v \in Ways :
         n.cache[t][v] = IF t = s /\ v = w THEN hit ELSE m.cache[t][v]
  BY <1>9, <1>10
<1>12. n.cache[s][w] = hit BY <1>11
<1>13. n.cache[s][w].valid /\ n.cache[s][w].tag = line.tag
  BY <1>6, <1>12 DEF line
<1>14. /\ n.cache[s][w].dirty = (line.dirty \/ IsWrite(acc))
       /\ n.cache[s][w].data = data
  BY <1>6, <1>12
<1>15. \A t \in Sets : \A v \in Ways : ~(t = s /\ v = w) => n.cache[t][v] = m.cache[t][v]
  BY <1>11
<1>16. n.prog_mem = m.prog_mem BY <1>9, <1>10
<1> QED BY <1>9, <1>10, <1>13, <1>14, <1>15, <1>16 DEF n, line, data, out

(* A hit keeps the memory coherent.                                         *)
LEMMA HitCoherent ==
  ASSUME NEW m, Coherent(m), CacheType # 0, NEW s \in Sets, NEW w \in Ways, m.cache[s][w].valid,
         NEW offset \in Offsets, NEW acc \in AccessSet
  PROVE  Coherent(HandleCacheHit(m, s, w, offset, acc))
<1> DEFINE n == HandleCacheHit(m, s, w, offset, acc)
<1>1. m \in MemState BY DEF Coherent
<1>2. /\ n \in MemState /\ n.prog_mem = m.prog_mem
      /\ \A t \in Sets : \A v \in Ways : ~(t = s /\ v = w) => n.cache[t][v] = m.cache[t][v]
      /\ n.cache[s][w].valid /\ n.cache[s][w].tag = m.cache[s][w].tag
      /\ n.cache[s][w].dirty = (m.cache[s][w].dirty \/ IsWrite(acc))
      /\ ~IsWrite(acc) => n.cache[s][w].data = m.cache[s][w].data
  BY <1>1, HitStep
<1> HIDE DEF n
<1>3. HeldOnce(n)
  <2>1. \A t \in Sets : \A v \in Ways : /\ n.cache[t][v].valid = m.cache[t][v].valid
                                        /\ n.cache[t][v].tag = m.cache[t][v].tag
    <3>1. SUFFICES ASSUME NEW t \in Sets, NEW v \in Ways
                   PROVE  /\ n.cache[t][v].valid = m.cache[t][v].valid
                          /\ n.cache[t][v].tag = m.cache[t][v].tag
      OBVIOUS
    <3>2. CASE t = s /\ v = w
      <4>1. n.cache[s][w] \in Line /\ m.cache[s][w] \in Line BY <1>1, <1>2 DEF MemState
      <4>2. n.cache[s][w].valid = TRUE /\ m.cache[s][w].valid = TRUE BY <1>2, <4>1 DEF Line
      <4> QED BY <1>2, <3>2, <4>2
    <3>3. CASE ~(t = s /\ v = w) BY <1>2, <3>3
    <3> QED BY <3>2, <3>3
  <2> QED BY <2>1 DEF Coherent, HeldOnce
<1>4. BlocksInMemory(n)
  <2>1. SUFFICES ASSUME NEW t \in Sets, NEW v \in Ways, n.cache[t][v].valid
                 PROVE  WritebackBlock(t, n.cache[t][v].tag) \in Blocks
    BY DEF BlocksInMemory
  <2>2. n.cache[t][v].tag = m.cache[t][v].tag /\ m.cache[t][v].valid BY <1>2, <2>1
  <2> QED BY <2>2 DEF Coherent, BlocksInMemory
<1>5. CleanAgree(n)
  <2>1. SUFFICES ASSUME NEW t \in Sets, NEW v \in Ways, n.cache[t][v].valid,
                        ~n.cache[t][v].dirty, NEW i \in Offsets
                 PROVE  n.cache[t][v].data[i] =
                          n.prog_mem[WritebackAddr(t, n.cache[t][v].tag) + i]
    BY DEF CleanAgree
  <2>2. /\ m.cache[t][v].valid /\ ~m.cache[t][v].dirty
        /\ n.cache[t][v].tag = m.cache[t][v].tag /\ n.cache[t][v].data = m.cache[t][v].data
    <3>1. CASE t = s /\ v = w
      <4>1. ~(m.cache[s][w].dirty \/ IsWrite(acc)) BY <1>2, <2>1, <3>1
      <4> QED BY <1>2, <2>1, <3>1, <4>1
    <3>2. CASE ~(t = s /\ v = w) BY <1>2, <2>1, <3>2
    <3> QED BY <3>1, <3>2
  <2>3. m.cache[t][v].data[i] = m.prog_mem[WritebackAddr(t, m.cache[t][v].tag) + i]
    BY <2>2 DEF Coherent, CleanAgree
  <2> QED BY <1>2, <2>2, <2>3
<1>6. CacheIdle(n) BY DEF CacheIdle
<1> QED BY <1>2, <1>3, <1>4, <1>5, <1>6 DEF Coherent, n

(* The bytes an access touches, and what a write leaves at an address.      *)
Touched(a, acc) == a..(a + Width(acc) - 1)
Written(m, a, acc, b) == IF IsWrite(acc) /\ b \in Touched(a, acc)
                         THEN acc.word[b - a] ELSE ViewAt(m, b)
(* What a read of the processor's view returns.                             *)
ReadOut(m, a, acc) == [i \in WordIdx |-> IF i >= Width(acc) THEN 0 ELSE ViewAt(m, a + i)]

(* A hit reads or writes the processor's view of the memory at the address  *)
(* of the access, and nowhere else.                                         *)
LEMMA HitEffect ==
  ASSUME NEW m, Coherent(m), CacheType # 0, NEW a \in Nat, NEW w \in Ways,
         m.cache[SetIdx(a)][w].valid, m.cache[SetIdx(a)][w].tag = TagBits(a),
         NEW acc \in AccessSet, Fits(a, acc)
  PROVE  LET n == HandleCacheHit(m, SetIdx(a), w, Offset(a), acc) IN
         /\ \A b \in Alloc : ViewAt(n, b) = Written(m, a, acc, b)
         /\ ~IsWrite(acc) => n.out = ReadOut(m, a, acc)
<1> DEFINE s == SetIdx(a)
           n == HandleCacheHit(m, s, w, Offset(a), acc)
<1>1. m \in MemState BY DEF Coherent
<1>2. s \in Sets /\ Offset(a) \in Offsets BY AddrParts
<1>3. Coherent(n) BY <1>2, HitCoherent
<1>4. /\ n.prog_mem = m.prog_mem
      /\ n.out = IF IsWrite(acc) THEN m.out ELSE LineWord(m.cache[s][w].data, Offset(a), acc)
      /\ \A t \in Sets : \A v \in Ways : ~(t = s /\ v = w) => n.cache[t][v] = m.cache[t][v]
      /\ n.cache[s][w].valid /\ n.cache[s][w].tag = m.cache[s][w].tag
      /\ n.cache[s][w].data = IF IsWrite(acc)
                              THEN LineWrite(m.cache[s][w].data, Offset(a), acc)
                              ELSE m.cache[s][w].data
  BY <1>1, <1>2, HitStep
<1>5. Width(acc) \in Nat \ {0} /\ Width(acc) <= WordSize BY WidthType
<1> HIDE DEF n
<1>6. ASSUME NEW b \in Alloc PROVE ViewAt(n, b) = Written(m, a, acc, b)
  <2>1. b \in Nat /\ SetIdx(b) \in Sets /\ Offset(b) \in Offsets
    BY AddrParts DEF Alloc
  <2>2. CASE SetIdx(b) = s /\ TagBits(b) = TagBits(a)
    <3>1. ViewAt(n, b) = n.cache[s][w].data[Offset(b)]
      BY <1>3, <1>4, <2>1, <2>2, ViewHit
    <3>2. ViewAt(m, b) = m.cache[s][w].data[Offset(b)]
      BY <2>1, <2>2, ViewHit
    <3>3. b - a = Offset(b) - Offset(a)
      <4>1. BlockBase(b) = BlockBase(a) BY <2>1, <2>2, AddrOfLine
      <4>2. a = BlockBase(a) + Offset(a) /\ BlockBase(a) \in Nat BY AddrParts
      <4>3. b = BlockBase(b) + Offset(b) BY <2>1, AddrParts
      <4>4. Offset(a) \in Nat /\ Offset(b) \in Nat BY <1>2, <2>1, MemAssumption DEF Offsets
      <4> QED BY <4>1, <4>2, <4>3, <4>4
    <3>4. b \in Touched(a, acc) <=> Offset(b) \in Offset(a)..(Offset(a) + Width(acc) - 1)
      BY <1>2, <1>5, <2>1, <3>3, MemAssumption DEF Touched, Offsets
    <3>5. CASE IsWrite(acc)
      <4>1. n.cache[s][w].data[Offset(b)] =
              IF Offset(b) \in Offset(a)..(Offset(a) + Width(acc) - 1)
              THEN acc.word[Offset(b) - Offset(a)] ELSE m.cache[s][w].data[Offset(b)]
        BY <1>4, <2>1, <3>5 DEF LineWrite
      <4> QED BY <3>1, <3>2, <3>3, <3>4, <3>5, <4>1 DEF Written
    <3>6. CASE ~IsWrite(acc)
      BY <1>4, <3>1, <3>2, <3>6 DEF Written
    <3> QED BY <3>5, <3>6
  <2>3. CASE ~(SetIdx(b) = s /\ TagBits(b) = TagBits(a))
    <3>1. b \notin Touched(a, acc)
      <4>1. SUFFICES ASSUME b \in Touched(a, acc) PROVE FALSE OBVIOUS
      <4>2. b - a \in Nat /\ b = a + (b - a) /\ Offset(a) + (b - a) < BlockSize
        BY <1>2, <1>5, <2>1, <4>1, MemAssumption DEF Touched, Fits, Offsets
      <4>3. SetIdx(a + (b - a)) = s /\ TagBits(a + (b - a)) = TagBits(a)
        BY <4>2, SameBlock
      <4> QED BY <2>3, <4>2, <4>3
    <3>2. ViewAt(n, b) = ViewAt(m, b)
      <4>1. CASE \E v \in Ways : /\ m.cache[SetIdx(b)][v].valid
                                 /\ m.cache[SetIdx(b)][v].tag = TagBits(b)
        <5>1. PICK v \in Ways : /\ m.cache[SetIdx(b)][v].valid
                                /\ m.cache[SetIdx(b)][v].tag = TagBits(b)
          BY <4>1
        <5>2. n.cache[SetIdx(b)][v] = m.cache[SetIdx(b)][v]
          BY <1>4, <2>1, <2>3, <5>1
        <5> QED BY <1>3, <2>1, <5>1, <5>2, ViewHit
      <4>2. CASE \A v \in Ways : ~(/\ m.cache[SetIdx(b)][v].valid
                                   /\ m.cache[SetIdx(b)][v].tag = TagBits(b))
        <5>1. \A v \in Ways : ~(/\ n.cache[SetIdx(b)][v].valid
                                /\ n.cache[SetIdx(b)][v].tag = TagBits(b))
          BY <1>4, <2>1, <2>3, <4>2
        <5> QED BY <1>4, <2>1, <4>2, <5>1, ViewMiss
      <4> QED BY <4>1, <4>2
    <3> QED BY <3>1, <3>2 DEF Written
  <2> QED BY <2>2, <2>3
<1>7. ASSUME ~IsWrite(acc) PROVE n.out = ReadOut(m, a, acc)
  <2>1. ASSUME NEW i \in WordIdx, i < Width(acc)
        PROVE  /\ Offset(a) + i < BlockSize
               /\ ViewAt(m, a + i) = m.cache[s][w].data[Offset(a) + i]
    <3>1. i \in Nat /\ Offset(a) + i < BlockSize
      BY <1>2, <1>5, <2>1, MemAssumption DEF Fits, Offsets, WordIdx
    <3>2. a + i \in Nat /\ SetIdx(a + i) = s /\ TagBits(a + i) = TagBits(a)
          /\ Offset(a + i) = Offset(a) + i
      BY <3>1, SameBlock
    <3> QED BY <3>1, <3>2, ViewHit
  <2>2. n.out = LineWord(m.cache[s][w].data, Offset(a), acc) BY <1>4, <1>7
  <2>3. ASSUME NEW i \in WordIdx
        PROVE  (i >= Width(acc)) = ~(i < Width(acc))
    BY <1>5, MemAssumption DEF WordIdx
  <2>4. LineWord(m.cache[s][w].data, Offset(a), acc) = ReadOut(m, a, acc)
    BY <2>1, <2>3, Zenon DEF LineWord, ReadOut
  <2> QED BY <2>2, <2>4
<1> QED BY <1>6, <1>7 DEF n

-----------------------------------------------------------------------------
(* checkCache.                                                              *)

(* An access outside the blocks of the memory touches memory that is not    *)
(* the program's.                                                           *)
LEMMA CheckCacheOutside ==
  ASSUME NEW m, Coherent(m), NEW a \in Nat, a \notin Alloc, NEW acc
  PROVE  LET n == CheckCache(m, a, acc) IN
         /\ Coherent(n) /\ n.host = "undefined"
         /\ n.cache = m.cache /\ n.prog_mem = m.prog_mem
<1> DEFINE n == CheckCache(m, a, acc)
<1>1. n = [m EXCEPT !.host = "undefined"] BY AllocBlocks DEF CheckCache
<1>2. n \in MemState /\ n.cache = m.cache /\ n.prog_mem = m.prog_mem /\ n.host = "undefined"
  BY <1>1 DEF Coherent, MemState
<1> HIDE DEF n
<1>3. Coherent(n)
  BY <1>2 DEF Coherent, HeldOnce, BlocksInMemory, CleanAgree, CacheIdle
<1> QED BY <1>2, <1>3 DEF n

(* What an access does to the ways of a set: a line stays where it is,      *)
(* unless the access misses and takes the place of the victim.              *)
Placed(m, n) ==
  \/ \A t \in Sets : \A v \in Ways : /\ n.cache[t][v].valid = m.cache[t][v].valid
                                     /\ n.cache[t][v].tag = m.cache[t][v].tag
  \/ \E s \in Sets :
       /\ n.cache[s][Victim(m.cache[s])].valid
       /\ \A t \in Sets : \A v \in Ways : ~(t = s /\ v = Victim(m.cache[s])) =>
            /\ n.cache[t][v].valid = m.cache[t][v].valid
            /\ n.cache[t][v].tag = m.cache[t][v].tag

(* An access inside the memory keeps it coherent; if it stays inside a line *)
(* it reads or writes the processor's view of the memory.                   *)
LEMMA CheckCacheInside ==
  ASSUME NEW m, Coherent(m), CacheType # 0, NEW a \in Alloc, NEW acc \in AccessSet
  PROVE  LET n == CheckCache(m, a, acc) IN
         /\ Coherent(n) /\ n.host = m.host
         /\ Placed(m, n)
         /\ Fits(a, acc) => /\ \A b \in Alloc : ViewAt(n, b) = Written(m, a, acc, b)
                            /\ ~IsWrite(acc) => n.out = ReadOut(m, a, acc)
<1> DEFINE s == SetIdx(a)
           n == CheckCache(m, a, acc)
           hits == HitWays(m.cache[s], TagBits(a))
<1>1. a \in Nat /\ s \in Sets /\ Offset(a) \in Offsets /\ Block(a) \in Blocks
  BY AddrParts, AllocBlocks DEF Alloc
<1>2. m \in MemState /\ m.cache[s] \in [Ways -> Line] BY <1>1 DEF Coherent, MemState
<1>3. CASE hits # {}
  <2>1. PICK w \in hits : TRUE BY <1>3
  <2>2. hits = {w} /\ First(hits) = w BY <1>1, <1>2, <2>1, HitUnique DEF Coherent
  <2>3. w \in Ways /\ m.cache[s][w].valid /\ m.cache[s][w].tag = TagBits(a)
    BY <2>1 DEF HitWays
  <2>4. n = HandleCacheHit(m, s, w, Offset(a), acc)
    BY <1>1, <1>3, <2>2 DEF CheckCache
  <2>5. Coherent(n) BY <1>1, <2>3, <2>4, HitCoherent
  <2>6. n.host = m.host BY <1>1, <1>2, <2>3, <2>4, HitStep
  <2>7. Placed(m, n)
    <3>1. n.cache[s][w] \in Line /\ m.cache[s][w] \in Line
      BY <1>1, <2>3, <2>5 DEF Coherent, MemState
    <3>2. n.cache[s][w].valid = m.cache[s][w].valid /\ n.cache[s][w].tag = m.cache[s][w].tag
      <4>1. n.cache[s][w].valid /\ n.cache[s][w].tag = m.cache[s][w].tag
        BY <1>1, <1>2, <2>3, <2>4, HitStep
      <4> QED BY <2>3, <3>1, <4>1 DEF Line
    <3>3. \A t \in Sets : \A v \in Ways : ~(t = s /\ v = w) => n.cache[t][v] = m.cache[t][v]
      BY <1>1, <1>2, <2>3, <2>4, HitStep
    <3> HIDE DEF n
    <3> QED BY <3>2, <3>3 DEF Placed
  <2>8. Fits(a, acc) => /\ \A b \in Alloc : ViewAt(n, b) = Written(m, a, acc, b)
                        /\ ~IsWrite(acc) => n.out = ReadOut(m, a, acc)
    BY <1>1, <2>3, <2>4, HitEffect
  <2> QED BY <2>5, <2>6, <2>7, <2>8
<1>4. CASE hits = {}
  <2> DEFINE w == Victim(m.cache[s])
             m1 == WriteBack(m, s, w)
             m2 == Fill(m1, s, w, a, acc)
  <2>1. w \in Ways BY <1>2, VictimIsWay
  <2>2. n = HandleCacheHit(m2, s, w, Offset(a), acc)
    BY <1>1, <1>4 DEF CheckCache, HandleCacheMiss
  <2>3. \A v \in Ways : ~(m.cache[s][v].valid /\ m.cache[s][v].tag = TagBits(a))
    BY <1>4 DEF HitWays
  <2> HIDE DEF n, w
  <2>4. /\ Coherent(m1)
        /\ \A b \in Alloc : ViewAt(m1, b) = ViewAt(m, b)
        /\ ~(m1.cache[s][w].valid /\ m1.cache[s][w].dirty)
        /\ m1.host = m.host
        /\ \A t \in Sets : \A v \in Ways : /\ m1.cache[t][v].valid = m.cache[t][v].valid
                                           /\ m1.cache[t][v].tag = m.cache[t][v].tag
    BY <1>1, <2>1, WriteBackEffect
  <2>5. \A v \in Ways : ~(m1.cache[s][v].valid /\ m1.cache[s][v].tag = TagBits(a))
    BY <1>1, <2>3, <2>4
  <2> HIDE DEF m1
  <2>6. /\ Coherent(m2)
        /\ \A b \in Alloc : ViewAt(m2, b) = ViewAt(m1, b)
        /\ m2.cache[s][w].valid /\ m2.cache[s][w].tag = TagBits(a)
        /\ m2.host = m1.host
        /\ \A t \in Sets : \A v \in Ways :
             ~(t = s /\ v = w) => m2.cache[t][v] = m1.cache[t][v]
    BY <1>1, <2>1, <2>4, <2>5, FillEffect
  <2> HIDE DEF m2
  <2>7. m2 \in MemState BY <2>6 DEF Coherent
  <2>8. /\ n.host = m2.host
        /\ n.cache[s][w].valid
        /\ \A t \in Sets : \A v \in Ways :
             ~(t = s /\ v = w) => n.cache[t][v] = m2.cache[t][v]
    BY <1>1, <2>1, <2>2, <2>6, <2>7, HitStep
  <2>9. Coherent(n) BY <1>1, <2>1, <2>2, <2>6, HitCoherent
  <2>10. Placed(m, n)
    <3>1. \A t \in Sets : \A v \in Ways : ~(t = s /\ v = w) =>
            /\ n.cache[t][v].valid = m.cache[t][v].valid
            /\ n.cache[t][v].tag = m.cache[t][v].tag
      BY <2>4, <2>6, <2>8
    <3> HIDE DEF s
    <3> QED BY <1>1, <2>8, <3>1 DEF Placed, w
  <2>11. ASSUME Fits(a, acc)
         PROVE  /\ \A b \in Alloc : ViewAt(n, b) = Written(m, a, acc, b)
                /\ ~IsWrite(acc) => n.out = ReadOut(m, a, acc)
    <3>1. /\ \A b \in Alloc : ViewAt(n, b) = Written(m2, a, acc, b)
          /\ ~IsWrite(acc) => n.out = ReadOut(m2, a, acc)
      BY <1>1, <2>1, <2>2, <2>6, <2>11, HitEffect
    <3>2. \A b \in Alloc : Written(m2, a, acc, b) = Written(m, a, acc, b)
      BY <2>4, <2>6 DEF Written
    <3>3. ReadOut(m2, a, acc) = ReadOut(m, a, acc)
      <4>1. ASSUME NEW i \in WordIdx, i < Width(acc) PROVE a + i \in Alloc
        <5>1. i \in Nat /\ Offset(a) + i < BlockSize /\ a + i \in Nat
          BY <1>1, <2>11, <4>1, WidthType, MemAssumption DEF Fits, Offsets, WordIdx
        <5>2. Block(a + i) = Block(a) BY <1>1, <5>1, SameBlock
        <5> QED BY <1>1, <5>1, <5>2, AllocBlocks
      <4>2. ASSUME NEW i \in WordIdx PROVE (i >= Width(acc)) = ~(i < Width(acc))
        BY WidthType, MemAssumption DEF WordIdx
      <4>3. ASSUME NEW i \in WordIdx, i < Width(acc) PROVE ViewAt(m2, a + i) = ViewAt(m, a + i)
        BY <2>4, <2>6, <4>1, <4>3
      <4> QED BY <4>2, <4>3, Zenon DEF ReadOut
    <3> QED BY <3>1, <3>2, <3>3
  <2>12. n.host = m.host BY <2>4, <2>6, <2>8
  <2> QED BY <2>9, <2>10, <2>11, <2>12 DEF n
<1> QED BY <1>3, <1>4

(* Lines keep their order of filling, no line becomes empty, and a line is  *)
(* replaced only in a full set.                                             *)
LEMMA PlacedInOrder ==
  ASSUME NEW m \in MemState, FilledInOrder(m), NEW n, Placed(m, n)
  PROVE  /\ FilledInOrder(n)
         /\ \A t \in Sets : \A v \in Ways : m.cache[t][v].valid => n.cache[t][v].valid
         /\ \A t \in Sets : \A v \in Ways :
              m.cache[t][v].valid /\ n.cache[t][v].tag # m.cache[t][v].tag
                => \A u \in Ways : n.cache[t][u].valid
<1>1. CASE \A t \in Sets : \A v \in Ways : /\ n.cache[t][v].valid = m.cache[t][v].valid
                                           /\ n.cache[t][v].tag = m.cache[t][v].tag
  BY <1>1 DEF FilledInOrder
<1>2. ASSUME NEW s \in Sets, n.cache[s][Victim(m.cache[s])].valid,
             \A t \in Sets : \A v \in Ways : ~(t = s /\ v = Victim(m.cache[s])) =>
                /\ n.cache[t][v].valid = m.cache[t][v].valid
                /\ n.cache[t][v].tag = m.cache[t][v].tag
      PROVE  /\ FilledInOrder(n)
             /\ \A t \in Sets : \A v \in Ways : m.cache[t][v].valid => n.cache[t][v].valid
             /\ \A t \in Sets : \A v \in Ways :
                  m.cache[t][v].valid /\ n.cache[t][v].tag # m.cache[t][v].tag
                    => \A u \in Ways : n.cache[t][u].valid
  <2> DEFINE x == Victim(m.cache[s])
  <2>1. m.cache[s] \in [Ways -> Line] BY DEF MemState
  <2>2. /\ x \in Ways
        /\ ~m.cache[s][x].valid => \A v \in Ways : v < x => m.cache[s][v].valid
        /\ \A v \in Ways : m.cache[s][x].valid /\ ~m.cache[s][v].valid =>
             \E e \in Ways : ~m.cache[s][e].valid /\ e < x
    BY <2>1, VictimIsWay
  <2> HIDE DEF x
  <2>3. \A t \in Sets : \A v \in Ways : ~(t = s /\ v = x) =>
          /\ n.cache[t][v].valid = m.cache[t][v].valid
          /\ n.cache[t][v].tag = m.cache[t][v].tag
    BY <1>2 DEF x
  <2>4. n.cache[s][x].valid BY <1>2 DEF x
  <2>5. \A t \in Sets : \A v \in Ways : m.cache[t][v].valid => n.cache[t][v].valid
    BY <2>3, <2>4
  <2>6. \A v \in Ways : v < x => m.cache[s][v].valid
    BY <2>2 DEF FilledInOrder
  <2>7. FilledInOrder(n)
    <3>1. SUFFICES ASSUME NEW t \in Sets, NEW v \in Ways, NEW u \in Ways,
                          v < u, n.cache[t][u].valid
                   PROVE  n.cache[t][v].valid
      BY DEF FilledInOrder
    <3>2. CASE t = s /\ u = x BY <2>5, <2>6, <3>1, <3>2
    <3>3. CASE ~(t = s /\ u = x)
      <4>1. m.cache[t][u].valid BY <2>3, <3>1, <3>3
      <4> QED BY <2>5, <3>1, <4>1 DEF FilledInOrder
    <3> QED BY <3>2, <3>3
  <2>8. ASSUME NEW t \in Sets, NEW v \in Ways,
               m.cache[t][v].valid, n.cache[t][v].tag # m.cache[t][v].tag,
               NEW u \in Ways
        PROVE  n.cache[t][u].valid
    <3>1. t = s /\ v = x BY <2>3, <2>8
    <3>2. m.cache[s][x].valid BY <2>8, <3>1
    <3>3. m.cache[s][u].valid BY <2>2, <3>2 DEF FilledInOrder
    <3> QED BY <2>5, <3>1, <3>3
  <2> QED BY <2>5, <2>7, <2>8
<1> QED BY <1>1, <1>2 DEF Placed

-----------------------------------------------------------------------------
(* The four access functions.                                               *)

(* Without a cache program memory is all there is.                          *)
LEMMA Uncached ==
  ASSUME NEW m, Coherent(m), CacheType = 0, NEW n \in MemState, n.cache = m.cache
  PROVE  /\ Coherent(n) /\ Placed(m, n)
         /\ \A b \in Nat : ViewAt(n, b) = n.prog_mem[b] /\ ViewAt(m, b) = m.prog_mem[b]
<1>1. \A s \in Sets : \A w \in Ways : ~m.cache[s][w].valid BY DEF Coherent, CacheIdle
<1>2. Coherent(n)
  BY <1>1 DEF Coherent, HeldOnce, BlocksInMemory, CleanAgree, CacheIdle
<1>3. Placed(m, n) BY DEF Placed
<1>4. ASSUME NEW b \in Nat PROVE ViewAt(n, b) = n.prog_mem[b] /\ ViewAt(m, b) = m.prog_mem[b]
  BY <1>1, AddrParts, ViewMiss
<1> QED BY <1>2, <1>3, <1>4

(* Zero, ones and bytes are words.                                          *)
LEMMA WordTypes ==
  /\ 0 \in WordIdx /\ 0 \in Byte
  /\ ZeroWord \in Word /\ AllOnes \in Word
  /\ \A b \in Byte : ByteWord(b) \in Word
<1>1. 0 \in WordIdx /\ 0 \in Byte /\ ByteMod - 1 \in Byte
  BY MemAssumption DEF WordIdx, Byte
<1>2. ASSUME NEW b \in Byte PROVE ByteWord(b) \in Word BY <1>1 DEF ByteWord, Word
<1>3. AllOnes \in Word BY <1>1 DEF AllOnes, Word
<1> QED BY <1>1, <1>2, <1>3 DEF ZeroWord

(* An address in memory is in the blocks that cover it.                     *)
LEMMA AddrInAlloc == \A a \in Addr : a \in Nat /\ a \in Alloc
BY GeometryType, MemAssumption DEF Addr, Alloc

(* readByte returns the byte at the address and changes no byte.            *)
LEMMA ReadByteEffect ==
  ASSUME NEW m, Coherent(m), NEW a \in Nat
  PROVE  LET n == ReadByte(m, a) IN
         /\ Coherent(n) /\ Placed(m, n)
         /\ (CacheType # 0 => a \in Addr) =>
              /\ n.host = m.host
              /\ \A b \in Addr : ViewAt(n, b) = ViewAt(m, b)
              /\ n.out = IF a \in Addr THEN ByteWord(ViewAt(m, a)) ELSE ZeroWord
<1> DEFINE n == ReadByte(m, a)
           acc == Access("READBYTE", ZeroWord, ZeroWord)
<1>1. CASE CacheType # 0
  <2>1. n = CheckCache(m, a, acc) BY <1>1 DEF ReadByte
  <2>2. acc \in AccessSet /\ ~IsWrite(acc) /\ Width(acc) = 1
    BY WordTypes DEF Access, AccessSet, IsWrite, Width
  <2>3. Fits(a, acc) BY <2>2, AddrParts, MemAssumption DEF Fits, Offsets
  <2> HIDE DEF acc, n
  <2>4. CASE a \in Alloc
    <3>1. /\ Coherent(n) /\ n.host = m.host /\ Placed(m, n)
          /\ \A b \in Alloc : ViewAt(n, b) = Written(m, a, acc, b)
          /\ n.out = ReadOut(m, a, acc)
      BY <1>1, <2>1, <2>2, <2>3, <2>4, CheckCacheInside
    <3>2. \A b \in Addr : ViewAt(n, b) = ViewAt(m, b)
      BY <2>2, <3>1, AddrInAlloc DEF Written
    <3>3. n.out = ByteWord(ViewAt(m, a))
      <4>1. ASSUME NEW i \in WordIdx
            PROVE  /\ (i >= 1) = ~(i = 0)
                   /\ i = 0 => a + i = a
        BY MemAssumption DEF WordIdx
      <4> QED BY <2>2, <3>1, <4>1, Zenon DEF ReadOut, ByteWord
    <3> QED BY <1>1, <3>1, <3>2, <3>3 DEF n
  <2>5. CASE a \notin Alloc
    <3>1. Coherent(n) /\ n.cache = m.cache BY <2>1, <2>5, CheckCacheOutside
    <3>2. Placed(m, n) BY <3>1 DEF Placed
    <3> QED BY <1>1, <2>5, <3>1, <3>2, AddrInAlloc DEF n
  <2> QED BY <2>4, <2>5
<1>2. CASE CacheType = 0
  <2> DEFINE out == IF AddrInRange(a, 1) THEN ByteWord(m.prog_mem[a]) ELSE ZeroWord
  <2>1. m \in MemState BY DEF Coherent
  <2>2. AddrInRange(a, 1) <=> a \in Addr BY MemAssumption DEF AddrInRange, Addr
  <2>3. out \in Word BY <2>1, <2>2, WordTypes, AddrInAlloc DEF MemState
  <2>4. Tick(m.cycles, 8) \in 0..CycleMod-1 BY <2>1, TickType DEF MemState
  <2>5. n = [m EXCEPT !.cycles = Tick(m.cycles, 8), !.out = out]
    BY <1>2, <2>1 DEF ReadByte, Load, Spend, MemState
  <2> HIDE DEF n, out
  <2>6. /\ n \in MemState /\ n.cache = m.cache /\ n.prog_mem = m.prog_mem
        /\ n.host = m.host /\ n.out = out
    BY <2>1, <2>3, <2>4, <2>5 DEF MemState
  <2>7. /\ Coherent(n) /\ Placed(m, n)
        /\ \A b \in Nat : ViewAt(n, b) = n.prog_mem[b] /\ ViewAt(m, b) = m.prog_mem[b]
    BY <1>2, <2>6, Uncached
  <2> QED BY <2>2, <2>6, <2>7, AddrInAlloc DEF n, out
<1> QED BY <1>1, <1>2

(* A word access the cache can serve: in memory and within one line.        *)
Served(a) == CacheType # 0 => AddrInRange(a, WordSize) /\ ~Straddles(a)
ViewWord(m, a) == [i \in WordIdx |-> ViewAt(m, a + i)]

(* The bytes of a word in range are in memory.                              *)
LEMMA WordInRange ==
  ASSUME NEW a \in Nat, AddrInRange(a, WordSize)
  PROVE  a \in Addr /\ \A i \in WordIdx : a + i \in Addr
BY MemAssumption DEF AddrInRange, Addr, WordIdx

(* readWord returns the word at the address and changes no byte.            *)
LEMMA ReadWordEffect ==
  ASSUME NEW m, Coherent(m), NEW a \in Nat, NEW second \in BOOLEAN, NEW junk \in Word
  PROVE  LET n == ReadWord(m, a, second, junk) IN
         /\ Coherent(n) /\ Placed(m, n)
         /\ Served(a) =>
              /\ n.host = m.host
              /\ \A b \in Addr : ViewAt(n, b) = ViewAt(m, b)
              /\ n.out = IF AddrInRange(a, WordSize) THEN ViewWord(m, a) ELSE AllOnes
<1> DEFINE n == ReadWord(m, a, second, junk)
           acc == Access("READWORD", ZeroWord, junk)
<1>1. CASE CacheType # 0
  <2>1. n = CheckCache(m, a, acc) BY <1>1 DEF ReadWord
  <2>2. acc \in AccessSet /\ ~IsWrite(acc) /\ Width(acc) = WordSize
    BY WordTypes DEF Access, AccessSet, IsWrite, Width
  <2>3. ~Straddles(a) => Fits(a, acc)
    BY <2>2, AddrParts, MemAssumption DEF Fits, Straddles, Offsets
  <2> HIDE DEF acc, n
  <2>4. CASE a \in Alloc
    <3>1. /\ Coherent(n) /\ n.host = m.host /\ Placed(m, n)
          /\ Fits(a, acc) => /\ \A b \in Alloc : ViewAt(n, b) = Written(m, a, acc, b)
                             /\ n.out = ReadOut(m, a, acc)
      BY <1>1, <2>1, <2>2, <2>4, CheckCacheInside
    <3>2. Fits(a, acc) => \A b \in Addr : ViewAt(n, b) = ViewAt(m, b)
      BY <2>2, <3>1, AddrInAlloc DEF Written
    <3>3. ReadOut(m, a, acc) = ViewWord(m, a)
      <4>1. \A i \in WordIdx : ~(i >= WordSize) BY MemAssumption DEF WordIdx
      <4> QED BY <2>2, <4>1, Zenon DEF ReadOut, ViewWord
    <3> QED BY <1>1, <2>3, <3>1, <3>2, <3>3 DEF n, Served
  <2>5. CASE a \notin Alloc
    <3>1. Coherent(n) /\ n.cache = m.cache BY <2>1, <2>5, CheckCacheOutside
    <3>2. Placed(m, n) BY <3>1 DEF Placed
    <3>3. ~Served(a) BY <1>1, <2>5, WordInRange, AddrInAlloc DEF Served
    <3> QED BY <3>1, <3>2, <3>3 DEF n
  <2> QED BY <2>4, <2>5
<1>2. CASE CacheType = 0
  <2> DEFINE cost == IF second THEN 2 ELSE 8
             out == IF AddrInRange(a, WordSize)
                    THEN [i \in WordIdx |-> m.prog_mem[a + i]] ELSE AllOnes
  <2>1. m \in MemState BY DEF Coherent
  <2>2. out \in Word
    <3>1. AddrInRange(a, WordSize) => \A i \in WordIdx : m.prog_mem[a + i] \in Byte
      BY <2>1, WordInRange, AddrInAlloc DEF MemState
    <3> QED BY <3>1, WordTypes DEF Word
  <2>3. Tick(m.cycles, cost) \in 0..CycleMod-1 BY <2>1, TickType DEF MemState
  <2>4. n = [m EXCEPT !.cycles = Tick(m.cycles, cost), !.out = out]
    BY <1>2, <2>1 DEF ReadWord, Load, Spend, MemState
  <2> HIDE DEF n, out, cost
  <2>5. /\ n \in MemState /\ n.cache = m.cache /\ n.prog_mem = m.prog_mem
        /\ n.host = m.host /\ n.out = out
    BY <2>1, <2>2, <2>3, <2>4 DEF MemState
  <2>6. /\ Coherent(n) /\ Placed(m, n)
        /\ \A b \in Nat : ViewAt(n, b) = n.prog_mem[b] /\ ViewAt(m, b) = m.prog_mem[b]
    BY <1>2, <2>5, Uncached
  <2>7. AddrInRange(a, WordSize) => out = ViewWord(m, a)
    <3>1. \A i \in WordIdx : a + i \in Nat BY DEF WordIdx
    <3> QED BY <2>6, <3>1 DEF out, ViewWord
  <2>8. ~AddrInRange(a, WordSize) => out = AllOnes BY DEF out
  <2> QED BY <2>5, <2>6, <2>7, <2>8, AddrInAlloc DEF n
<1> QED BY <1>1, <1>2

(* writeByte changes the byte at the address and no other.                  *)
LEMMA WriteByteEffect ==
  ASSUME NEW m, Coherent(m), NEW a \in Nat, NEW word \in Word
  PROVE  LET n == WriteByte(m, a, word) IN
         /\ Coherent(n) /\ Placed(m, n)
         /\ (CacheType # 0 => a \in Addr) =>
              /\ n.host = m.host
              /\ \A b \in Addr : ViewAt(n, b) = IF b = a THEN word[0] ELSE ViewAt(m, b)
<1> DEFINE n == WriteByte(m, a, word)
           acc == Access("WRITEBYTE", word, ZeroWord)
<1>1. CASE CacheType # 0
  <2>1. n = CheckCache(m, a, acc) BY <1>1 DEF WriteByte
  <2>2. acc \in AccessSet /\ IsWrite(acc) /\ Width(acc) = 1 /\ acc.word = word
    BY WordTypes DEF Access, AccessSet, IsWrite, Width
  <2>3. Fits(a, acc) BY <2>2, AddrParts, MemAssumption DEF Fits, Offsets
  <2> HIDE DEF acc, n
  <2>4. CASE a \in Alloc
    <3>1. /\ Coherent(n) /\ n.host = m.host /\ Placed(m, n)
          /\ \A b \in Alloc : ViewAt(n, b) = Written(m, a, acc, b)
      BY <1>1, <2>1, <2>2, <2>3, <2>4, CheckCacheInside
    <3>2. ASSUME NEW b \in Addr
          PROVE  ViewAt(n, b) = IF b = a THEN word[0] ELSE ViewAt(m, b)
      <4>1. b \in Alloc /\ b \in Nat BY AddrInAlloc
      <4>2. b \in Touched(a, acc) <=> b = a BY <2>2, <4>1 DEF Touched
      <4>3. b = a => b - a = 0 OBVIOUS
      <4> QED BY <2>2, <3>1, <4>1, <4>2, <4>3 DEF Written
    <3> QED BY <3>1, <3>2 DEF n
  <2>5. CASE a \notin Alloc
    <3>1. Coherent(n) /\ n.cache = m.cache BY <2>1, <2>5, CheckCacheOutside
    <3>2. Placed(m, n) BY <3>1 DEF Placed
    <3> QED BY <1>1, <2>5, <3>1, <3>2, AddrInAlloc DEF n
  <2> QED BY <2>4, <2>5
<1>2. CASE CacheType = 0
  <2> DEFINE bytes == IF AddrInRange(a, 1) THEN [m.prog_mem EXCEPT ![a] = word[0]] ELSE m.prog_mem
  <2>1. m \in MemState BY DEF Coherent
  <2>2. AddrInRange(a, 1) <=> a \in Addr BY MemAssumption DEF AddrInRange, Addr
  <2>3. m.prog_mem \in [Alloc -> Byte] /\ word[0] \in Byte
    BY <2>1, WordTypes DEF MemState, Word
  <2>4. bytes \in [Alloc -> Byte] BY <2>3
  <2>5. Tick(m.cycles, 8) \in 0..CycleMod-1 BY <2>1, TickType DEF MemState
  <2>6. n = [m EXCEPT !.cycles = Tick(m.cycles, 8), !.prog_mem = bytes]
    BY <1>2, <2>1 DEF WriteByte, Spend, MemState
  <2>7. \A b \in Addr : bytes[b] = IF b = a THEN word[0] ELSE m.prog_mem[b]
    BY <2>2, <2>3, AddrInAlloc
  <2> HIDE DEF n, bytes
  <2>8. n \in MemState /\ n.cache = m.cache /\ n.prog_mem = bytes /\ n.host = m.host
    BY <2>1, <2>4, <2>5, <2>6 DEF MemState
  <2>9. /\ Coherent(n) /\ Placed(m, n)
        /\ \A b \in Nat : ViewAt(n, b) = n.prog_mem[b] /\ ViewAt(m, b) = m.prog_mem[b]
    BY <1>2, <2>8, Uncached
  <2> QED BY <2>7, <2>8, <2>9, AddrInAlloc DEF n
<1> QED BY <1>1, <1>2

(* writeWord changes the bytes of the word at the address and no other.     *)
LEMMA WriteWordEffect ==
  ASSUME NEW m, Coherent(m), NEW a \in Nat, NEW word \in Word
  PROVE  LET n == WriteWord(m, a, word) IN
         /\ Coherent(n) /\ Placed(m, n)
         /\ Served(a) =>
              IF AddrInRange(a, WordSize)
              THEN /\ n.host = m.host
                   /\ \A b \in Addr : ViewAt(n, b) = IF b \in a..(a + WordSize - 1)
                                                     THEN word[b - a] ELSE ViewAt(m, b)
              ELSE n.host = "aborted" /\ \A b \in Addr : ViewAt(n, b) = ViewAt(m, b)
<1> DEFINE n == WriteWord(m, a, word)
           acc == Access("WRITEWORD", word, ZeroWord)
<1>1. CASE CacheType # 0
  <2>1. n = CheckCache(m, a, acc) BY <1>1 DEF WriteWord
  <2>2. acc \in AccessSet /\ IsWrite(acc) /\ Width(acc) = WordSize /\ acc.word = word
    BY WordTypes DEF Access, AccessSet, IsWrite, Width
  <2>3. ~Straddles(a) => Fits(a, acc)
    BY <2>2, AddrParts, MemAssumption DEF Fits, Straddles, Offsets
  <2> HIDE DEF acc, n
  <2>4. CASE a \in Alloc
    <3>1. /\ Coherent(n) /\ n.host = m.host /\ Placed(m, n)
          /\ Fits(a, acc) => \A b \in Alloc : ViewAt(n, b) = Written(m, a, acc, b)
      BY <1>1, <2>1, <2>2, <2>4, CheckCacheInside
    <3>2. ASSUME Served(a), NEW b \in Addr
          PROVE  ViewAt(n, b) = IF b \in a..(a + WordSize - 1)
                                THEN word[b - a] ELSE ViewAt(m, b)
      BY <1>1, <2>2, <2>3, <3>1, <3>2, AddrInAlloc DEF Written, Touched, Served
    <3>3. Served(a) => AddrInRange(a, WordSize) BY <1>1 DEF Served
    <3> QED BY <3>1, <3>2, <3>3 DEF n
  <2>5. CASE a \notin Alloc
    <3>1. Coherent(n) /\ n.cache = m.cache BY <2>1, <2>5, CheckCacheOutside
    <3>2. Placed(m, n) BY <3>1 DEF Placed
    <3>3. ~Served(a) BY <1>1, <2>5, WordInRange, AddrInAlloc DEF Served
    <3> QED BY <3>1, <3>2, <3>3 DEF n
  <2> QED BY <2>4, <2>5
<1>2. CASE CacheType = 0 /\ ~AddrInRange(a, WordSize)
  <2>1. m \in MemState BY DEF Coherent
  <2>2. n = [m EXCEPT !.host = "aborted"] BY <1>2 DEF WriteWord
  <2> HIDE DEF n
  <2>3. /\ n \in MemState /\ n.cache = m.cache /\ n.prog_mem = m.prog_mem
        /\ n.host = "aborted"
    BY <2>1, <2>2 DEF MemState
  <2>4. /\ Coherent(n) /\ Placed(m, n)
        /\ \A b \in Nat : ViewAt(n, b) = n.prog_mem[b] /\ ViewAt(m, b) = m.prog_mem[b]
    BY <1>2, <2>3, Uncached
  <2> QED BY <1>2, <2>3, <2>4, AddrInAlloc DEF n
<1>3. CASE CacheType = 0 /\ AddrInRange(a, WordSize)
  <2> DEFINE bytes == [b \in Alloc |-> IF b \in a..(a + WordSize - 1)
                                       THEN word[b - a] ELSE m.prog_mem[b]]
  <2>1. m \in MemState BY DEF Coherent
  <2>2. bytes \in [Alloc -> Byte]
    <3>1. SUFFICES ASSUME NEW b \in Alloc, b \in a..(a + WordSize - 1)
                   PROVE  word[b - a] \in Byte
      BY <2>1 DEF MemState
    <3>2. b - a \in WordIdx BY <3>1, MemAssumption DEF WordIdx
    <3> QED BY <3>2 DEF Word
  <2>3. Tick(m.cycles, 8) \in 0..CycleMod-1 BY <2>1, TickType DEF MemState
  <2>4. n = [m EXCEPT !.cycles = Tick(m.cycles, 8), !.prog_mem = bytes]
    <3>1. n = [Spend(m, 8) EXCEPT !.prog_mem = bytes] BY <1>3, Zenon DEF WriteWord
    <3> HIDE DEF bytes, n
    <3> QED BY <2>1, <3>1 DEF Spend, MemState
  <2>5. \A b \in Addr : bytes[b] = IF b \in a..(a + WordSize - 1)
                                   THEN word[b - a] ELSE m.prog_mem[b]
    BY AddrInAlloc
  <2> HIDE DEF n, bytes
  <2>6. n \in MemState /\ n.cache = m.cache /\ n.prog_mem = bytes /\ n.host = m.host
    BY <2>1, <2>2, <2>3, <2>4 DEF MemState
  <2>7. /\ Coherent(n) /\ Placed(m, n)
        /\ \A b \in Nat : ViewAt(n, b) = n.prog_mem[b] /\ ViewAt(m, b) = m.prog_mem[b]
    BY <1>3, <2>6, Uncached
  <2> QED BY <1>3, <2>5, <2>6, <2>7, AddrInAlloc DEF n
<1> QED BY <1>1, <1>2, <1>3
=============================================================================
