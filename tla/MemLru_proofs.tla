---------------------------- MODULE MemLru_proofs ----------------------------
(***************************************************************************)
(* The cache implements the order of use of LruStack, for every geometry,  *)
(* as long as the cycle counter does not wrap.                             *)
(*                                                                         *)
(* The inductive invariant adds to that of MemAccess_proofs what the time  *)
(* stamps are: those of the lines of a set differ, and all are in the      *)
(* past.  An access is described once, for a hit, for a miss with an empty *)
(* way and for a miss without (Used), and the abstract step is computed    *)
(* from that description.                                                  *)
(***************************************************************************)
EXTENDS MemLru, MemAccess_proofs, FiniteSetTheorems, FunctionTheorems

(* The stamps of the lines in use: all in the past, and apart.              *)
StampsPast(m) == \A s \in Sets : \A w \in Ways :
  m.cache[s][w].valid => m.cache[s][w].lastused < m.cycles
StampsApart(m) == \A s \in Sets : \A v, w \in Ways :
  m.cache[s][v].valid /\ m.cache[s][w].valid /\ v # w
    => m.cache[s][v].lastused # m.cache[s][w].lastused

LruInv(m) == Coherent(m) /\ FilledInOrder(m) /\ StampsPast(m) /\ StampsApart(m)

(* What an access may cost, at most.                                        *)
MissCost == 2 * BlockCycles + 1

(* The access served from way w of set s, with respect to time.             *)
Others(m, n, s, w) == \A t \in Sets : \A v \in Ways :
  ~(t = s /\ v = w) => /\ n.cache[t][v].valid = m.cache[t][v].valid
                       /\ n.cache[t][v].tag = m.cache[t][v].tag
                       /\ n.cache[t][v].dirty = m.cache[t][v].dirty
                       /\ n.cache[t][v].lastused = m.cache[t][v].lastused

Dirty(m, s, w) == m.cache[s][w].valid /\ m.cache[s][w].dirty

Used(m, n, a, w, write) ==
  LET s == SetIdx(a)
      hit == \E v \in Ways : m.cache[s][v].valid /\ m.cache[s][v].tag = TagBits(a)
  IN  /\ Others(m, n, s, w)
      /\ n.cache[s][w].valid /\ n.cache[s][w].tag = TagBits(a)
      /\ n.cache[s][w].lastused < n.cycles
      /\ Associativity > 1 => m.cycles <= n.cache[s][w].lastused
      /\ hit => /\ m.cache[s][w].valid /\ m.cache[s][w].tag = TagBits(a)
                /\ n.cycles = m.cycles + 1
                /\ n.cache[s][w].dirty = (m.cache[s][w].dirty \/ write)
      /\ ~hit => /\ w = Victim(m.cache[s])
                 /\ n.cycles = m.cycles + IF Dirty(m, s, w) THEN MissCost ELSE BlockCycles + 1
                 /\ n.cache[s][w].dirty = write

-----------------------------------------------------------------------------
(* Time.                                                                    *)

(* While the counter has room it counts.                                    *)
LEMMA TickCounts ==
  ASSUME NEW c \in Nat, NEW k \in Nat, c + k < CycleMod
  PROVE  Tick(c, k) = c + k
<1>1. c + k \in Nat /\ CycleMod \in Nat \ {0} BY MemAssumption
<1>2. c + k = 0 * CycleMod + (c + k) /\ c + k \in 0..CycleMod-1 BY <1>1
<1>3. (0 * CycleMod + (c + k)) % CycleMod = c + k BY <1>1, <1>2, DivModUnique
<1> QED BY <1>2, <1>3 DEF Tick

(* A hit takes a cycle, and stamps the line with the time before it.        *)
LEMMA HitClock ==
  ASSUME NEW m, m \in MemState, NEW s \in Sets, NEW w \in Ways, m.cache[s][w].valid,
         NEW a \in Nat, NEW acc \in AccessSet, Fits(a, acc), m.cycles + 1 < CycleMod
  PROVE  LET n == HandleCacheHit(m, s, w, Offset(a), acc) IN
         /\ n.cycles = m.cycles + 1
         /\ n.cache[s][w].lastused = IF Associativity > 1 THEN m.cycles
                                     ELSE m.cache[s][w].lastused
<1> DEFINE offset == Offset(a)
           n == HandleCacheHit(m, s, w, offset, acc)
           line == m.cache[s][w]
           used == IF Associativity > 1 THEN m.cycles ELSE line.lastused
           data == IF IsWrite(acc) THEN LineWrite(line.data, offset, acc) ELSE line.data
           stamp == IF IsWrite(acc) THEN LastUsedWrite(used, offset, acc) ELSE used
           hit == [line EXCEPT !.data = data, !.dirty = line.dirty \/ IsWrite(acc),
                               !.lastused = stamp]
           out == IF IsWrite(acc) THEN m.out ELSE LineWord(line.data, offset, acc)
<1>0. offset \in Offsets BY AddrParts
<1>1. line \in Line /\ m.cycles \in Nat BY DEF MemState
<1>2. line.data \in [Offsets -> Byte] /\ line.lastused \in Nat
  <2> HIDE DEF line
  <2> QED BY <1>1 DEF Line
<1>3. stamp = used
  <2>1. offset \in Nat /\ Width(acc) \in Nat /\ offset + Width(acc) <= BlockSize
    BY <1>0, WidthType DEF Fits, Offsets
  <2>2. ~(BlockSize + LinePadding - offset < Width(acc)) BY <2>1, MemAssumption
  <2> QED BY <2>2 DEF LastUsedWrite
<1>4. used \in Nat BY <1>1, <1>2
<1>5. data \in [Offsets -> Byte] /\ out \in Word
  <2>1. m.out \in Word BY DEF MemState
  <2> HIDE DEF line, used
  <2> QED BY <1>0, <1>2, <2>1, LineWriteType, LineWordType
<1>6. IsWrite(acc) \in BOOLEAN BY WidthType
<1>7. Tick(m.cycles, 1) = m.cycles + 1 BY <1>1, TickCounts
<1> HIDE DEF line, used, data, stamp, out
<1>8. hit \in Line /\ hit.lastused = used BY <1>1, <1>3, <1>4, <1>5, <1>6 DEF Line
<1> DEFINE l == SetLine(m, s, w, hit)
<1>9. n = [l EXCEPT !.cycles = Tick(m.cycles, 1), !.out = out]
  <2>1. l.cycles = m.cycles /\ l.out = m.out BY <1>8, SetLineEffect
  <2> QED BY <2>1 DEF HandleCacheHit, line, used, data, stamp, out
<1> HIDE DEF n, hit
<1>10. l \in MemState /\ l.cache[s][w] = hit BY <1>8, SetLineEffect
<1> HIDE DEF l
<1>11. n.cycles = m.cycles + 1 /\ n.cache[s][w] = hit BY <1>7, <1>9, <1>10 DEF MemState
<1> QED BY <1>8, <1>11 DEF n, used, line, offset

(* A write-back takes the time of a block, if there is one, and leaves the  *)
(* lines as they are but for the dirty bit.                                 *)
LEMMA WriteBackClock ==
  ASSUME NEW m, Coherent(m), NEW s \in Sets, NEW w \in Ways, m.cycles + BlockCycles < CycleMod
  PROVE  LET n == WriteBack(m, s, w) IN
         /\ n.cycles = m.cycles + IF Dirty(m, s, w) THEN BlockCycles ELSE 0
         /\ \A t \in Sets : \A v \in Ways :
              ~(t = s /\ v = w) => n.cache[t][v] = m.cache[t][v]
<1> DEFINE n == WriteBack(m, s, w)
           line == m.cache[s][w]
           clean == [line EXCEPT !.dirty = FALSE]
           l == SetLine(m, s, w, clean)
<1>1. m \in MemState /\ m.cycles \in Nat BY DEF Coherent, MemState
<1>2. line \in Line /\ clean \in Line
  <2>1. line \in Line BY <1>1 DEF MemState
  <2> HIDE DEF line
  <2> QED BY <2>1 DEF Line
<1>3. CASE ~(line.valid /\ line.dirty) BY <1>1, <1>3 DEF WriteBack, Dirty
<1>4. CASE line.valid /\ line.dirty
  <2>1. PICK bytes : n = [l EXCEPT !.cycles = Tick(@, BlockCycles), !.prog_mem = bytes]
    BY <1>4, Zenon DEF WriteBack
  <2> HIDE DEF clean
  <2>2. /\ l \in MemState /\ l.cycles = m.cycles
        /\ \A t \in Sets : \A v \in Ways :
             l.cache[t][v] = IF t = s /\ v = w THEN clean ELSE m.cache[t][v]
    BY <1>1, <1>2, SetLineEffect
  <2>3. Tick(m.cycles, BlockCycles) = m.cycles + BlockCycles BY <1>1, BlockCyclesType, TickCounts
  <2> HIDE DEF l, n
  <2>4. n.cycles = m.cycles + BlockCycles /\ n.cache = l.cache BY <2>1, <2>2, <2>3 DEF MemState
  <2> QED BY <1>4, <2>2, <2>4 DEF n, Dirty
<1> QED BY <1>3, <1>4

(* So does a fill, always, and it stamps the line with the time after it.   *)
LEMMA FillClock ==
  ASSUME NEW m, m \in MemState, NEW s \in Sets, NEW w \in Ways, NEW a \in Alloc, NEW acc,
         m.cycles + BlockCycles < CycleMod
  PROVE  LET n == Fill(m, s, w, a, acc) IN
         /\ n.cycles = m.cycles + BlockCycles
         /\ n.cache[s][w].lastused = n.cycles
         /\ n.cache[s][w].dirty = IsWrite(acc)
<1> DEFINE n == Fill(m, s, w, a, acc)
           data == [i \in Offsets |-> m.prog_mem[BlockBase(a) + i]]
           filled == Tick(m.cycles, BlockCycles)
           new == [tag |-> TagBits(a), valid |-> TRUE, dirty |-> IsWrite(acc),
                   data |-> data, lastused |-> filled]
           l == SetLine(m, s, w, new)
<1>1. m.cycles \in Nat /\ m.cache \in [Sets -> [Ways -> Line]] BY DEF MemState
<1>2. filled = m.cycles + BlockCycles BY <1>1, BlockCyclesType, TickCounts
<1>3. n = [l EXCEPT !.cycles = filled] BY DEF Fill
<1>4. new.lastused = filled /\ new.dirty = IsWrite(acc) OBVIOUS
<1> HIDE DEF n, new, filled
<1>5. l = [m EXCEPT !.cache[s][w] = new] BY DEF SetLine
<1>6. l.cache[s][w] = new /\ DOMAIN l = DOMAIN m BY <1>1, <1>5 DEF MemState
<1>7. n.cycles = filled /\ n.cache = l.cache BY <1>3, <1>6 DEF MemState
<1> QED BY <1>2, <1>4, <1>6, <1>7 DEF n

-----------------------------------------------------------------------------
(* An access, served from one way, takes the time and leaves the stamp that *)
(* Used says.                                                               *)
LEMMA AccessUsed ==
  ASSUME NEW m, Coherent(m), StampsPast(m), CacheType # 0,
         NEW a \in Alloc, NEW acc \in AccessSet, Fits(a, acc), m.cycles + MissCost < CycleMod
  PROVE  \E w \in Ways : Used(m, CheckCache(m, a, acc), a, w, IsWrite(acc))
<1> DEFINE s == SetIdx(a)
           n == CheckCache(m, a, acc)
           hits == HitWays(m.cache[s], TagBits(a))
<1>1. a \in Nat /\ s \in Sets /\ Offset(a) \in Offsets /\ Block(a) \in Blocks
  BY AddrParts, AllocBlocks DEF Alloc
<1>2. m \in MemState /\ m.cache[s] \in [Ways -> Line] /\ m.cycles \in Nat
  BY <1>1 DEF Coherent, MemState
<1>3. BlockCycles \in Nat /\ CycleMod \in Nat BY BlockCyclesType, MemAssumption
<1>4. CASE hits # {}
  <2>1. PICK w \in hits : TRUE BY <1>4
  <2>2. hits = {w} /\ First(hits) = w BY <1>1, <1>2, <2>1, HitUnique DEF Coherent
  <2>3. w \in Ways /\ m.cache[s][w].valid /\ m.cache[s][w].tag = TagBits(a)
    BY <2>1 DEF HitWays
  <2>4. n = HandleCacheHit(m, s, w, Offset(a), acc)
    BY <1>1, <1>4, <2>2 DEF CheckCache
  <2>5. /\ \A t \in Sets : \A v \in Ways : ~(t = s /\ v = w) => n.cache[t][v] = m.cache[t][v]
        /\ n.cache[s][w].valid /\ n.cache[s][w].tag = m.cache[s][w].tag
        /\ n.cache[s][w].dirty = (m.cache[s][w].dirty \/ IsWrite(acc))
    BY <1>1, <1>2, <2>3, <2>4, HitStep
  <2>6. m.cycles + 1 < CycleMod BY <1>2, <1>3 DEF MissCost
  <2>7. /\ n.cycles = m.cycles + 1
        /\ n.cache[s][w].lastused = IF Associativity > 1 THEN m.cycles
                                    ELSE m.cache[s][w].lastused
    BY <1>1, <1>2, <2>3, <2>4, <2>6, HitClock
  <2>8. m.cache[s][w].lastused \in Nat /\ m.cache[s][w].lastused < m.cycles
    BY <1>1, <1>2, <2>3 DEF Line, StampsPast
  <2> HIDE DEF n
  <2>9. /\ n.cache[s][w].lastused < n.cycles
        /\ Associativity > 1 => m.cycles <= n.cache[s][w].lastused
    BY <1>2, <2>7, <2>8, GeometryType
  <2>10. Used(m, n, a, w, IsWrite(acc)) BY <2>3, <2>5, <2>7, <2>9 DEF Used, Others
  <2> QED BY <2>3, <2>10 DEF n
<1>5. CASE hits = {}
  <2> DEFINE w == Victim(m.cache[s])
             m1 == WriteBack(m, s, w)
             m2 == Fill(m1, s, w, a, acc)
  <2>1. w \in Ways BY <1>2, VictimIsWay
  <2>2. n = HandleCacheHit(m2, s, w, Offset(a), acc)
    BY <1>1, <1>5 DEF CheckCache, HandleCacheMiss
  <2>3. \A v \in Ways : ~(m.cache[s][v].valid /\ m.cache[s][v].tag = TagBits(a))
    BY <1>5 DEF HitWays
  <2> HIDE DEF n, w
  <2>4. m.cycles + BlockCycles < CycleMod BY <1>2, <1>3 DEF MissCost
  <2>5. /\ Coherent(m1)
        /\ ~(m1.cache[s][w].valid /\ m1.cache[s][w].dirty)
        /\ \A t \in Sets : \A v \in Ways : /\ m1.cache[t][v].valid = m.cache[t][v].valid
                                           /\ m1.cache[t][v].tag = m.cache[t][v].tag
    BY <1>1, <2>1, WriteBackEffect
  <2>6. /\ m1.cycles = m.cycles + IF Dirty(m, s, w) THEN BlockCycles ELSE 0
        /\ \A t \in Sets : \A v \in Ways :
             ~(t = s /\ v = w) => m1.cache[t][v] = m.cache[t][v]
    BY <1>1, <2>1, <2>4, WriteBackClock
  <2>7. \A v \in Ways : ~(m1.cache[s][v].valid /\ m1.cache[s][v].tag = TagBits(a))
    BY <1>1, <2>3, <2>5
  <2>8. m1 \in MemState BY <2>5 DEF Coherent
  <2> HIDE DEF m1
  <2>9. m1.cycles + BlockCycles < CycleMod BY <1>2, <1>3, <2>6 DEF MissCost
  <2>10. /\ Coherent(m2)
         /\ m2.cache[s][w].valid /\ m2.cache[s][w].tag = TagBits(a)
         /\ \A t \in Sets : \A v \in Ways :
              ~(t = s /\ v = w) => m2.cache[t][v] = m1.cache[t][v]
    BY <1>1, <2>1, <2>5, <2>7, FillEffect
  <2>11. /\ m2.cycles = m1.cycles + BlockCycles
         /\ m2.cache[s][w].lastused = m2.cycles
         /\ m2.cache[s][w].dirty = IsWrite(acc)
    BY <1>1, <2>1, <2>8, <2>9, FillClock
  <2> HIDE DEF m2
  <2>12. m2 \in MemState /\ m2.cycles \in Nat BY <2>10 DEF Coherent, MemState
  <2>13. m2.cycles + 1 = m.cycles + IF Dirty(m, s, w) THEN MissCost ELSE BlockCycles + 1
    BY <1>2, <1>3, <2>6, <2>11 DEF MissCost
  <2>14. m2.cycles + 1 < CycleMod /\ m.cycles <= m2.cycles
    BY <1>2, <1>3, <2>12, <2>13 DEF MissCost
  <2>15. /\ n.cycles = m2.cycles + 1
         /\ n.cache[s][w].lastused = m2.cycles
    BY <1>1, <2>1, <2>2, <2>10, <2>11, <2>12, <2>14, HitClock
  <2>16. /\ \A t \in Sets : \A v \in Ways : ~(t = s /\ v = w) => n.cache[t][v] = m2.cache[t][v]
         /\ n.cache[s][w].valid /\ n.cache[s][w].tag = TagBits(a)
         /\ n.cache[s][w].dirty = (m2.cache[s][w].dirty \/ IsWrite(acc))
    BY <1>1, <2>1, <2>2, <2>10, <2>12, HitStep
  <2>17. n.cache[s][w].dirty = IsWrite(acc)
    <3>1. IsWrite(acc) \in BOOLEAN BY WidthType
    <3> QED BY <2>11, <2>16, <3>1
  <2>18. Others(m, n, s, w) BY <2>6, <2>10, <2>16 DEF Others
  <2>19. n.cache[s][w].lastused < n.cycles /\ m.cycles <= n.cache[s][w].lastused
    BY <2>12, <2>14, <2>15
  <2>20. Used(m, n, a, w, IsWrite(acc))
    BY <2>3, <2>13, <2>15, <2>16, <2>17, <2>18, <2>19 DEF Used, w
  <2> QED BY <2>1, <2>20 DEF n
<1> QED BY <1>4, <1>5

(* Every access keeps the stamps in the past and apart.                     *)
LEMMA UsedStamps ==
  ASSUME NEW m, NEW n, m \in MemState, n \in MemState, StampsPast(m), StampsApart(m), NEW a \in Nat,
         NEW w \in Ways, NEW write, Used(m, n, a, w, write)
  PROVE  /\ StampsPast(n) /\ StampsApart(n)
         /\ m.cycles <= n.cycles /\ n.cycles <= m.cycles + MissCost
<1> DEFINE s == SetIdx(a)
<1>1. BlockCycles \in Nat BY BlockCyclesType
<1>2. /\ m.cycles \in Nat /\ n.cycles \in Nat
      /\ \A t \in Sets : \A v \in Ways : n.cache[t][v].lastused \in Nat /\ m.cache[t][v].lastused \in Nat
  BY DEF MemState, Line
<1>3. m.cycles < n.cycles /\ n.cycles <= m.cycles + MissCost
  BY <1>1, <1>2 DEF Used, MissCost
<1>4. s \in Sets BY AddrParts
<1>5. Others(m, n, s, w) /\ n.cache[s][w].lastused < n.cycles
      /\ (Associativity > 1 => m.cycles <= n.cache[s][w].lastused)
  BY DEF Used
<1> HIDE DEF s
<1>6. StampsPast(n)
  <2> SUFFICES ASSUME NEW t \in Sets, NEW v \in Ways, n.cache[t][v].valid
               PROVE  n.cache[t][v].lastused < n.cycles
    BY DEF StampsPast
  <2>1. CASE t = s /\ v = w BY <1>5, <2>1
  <2>2. CASE ~(t = s /\ v = w)
    <3>1. m.cache[t][v].valid /\ n.cache[t][v].lastused = m.cache[t][v].lastused
      BY <1>5, <2>2 DEF Others
    <3>2. m.cache[t][v].lastused < m.cycles BY <3>1 DEF StampsPast
    <3> QED BY <1>2, <1>3, <3>1, <3>2
  <2> QED BY <2>1, <2>2
<1>7. StampsApart(n)
  <2>1. ASSUME NEW v \in Ways, v # w, n.cache[s][v].valid
        PROVE  n.cache[s][v].lastused # n.cache[s][w].lastused
    <3>1. m.cache[s][v].valid /\ n.cache[s][v].lastused = m.cache[s][v].lastused
      BY <1>4, <1>5, <2>1 DEF Others
    <3>2. n.cache[s][v].lastused < m.cycles BY <1>4, <3>1 DEF StampsPast
    <3>3. Associativity > 1 BY <2>1, GeometryType DEF Ways
    <3> QED BY <1>2, <1>4, <1>5, <3>2, <3>3
  <2>2. ASSUME NEW t \in Sets, NEW u \in Ways, NEW v \in Ways,
               n.cache[t][u].valid, n.cache[t][v].valid, u # v
        PROVE  n.cache[t][u].lastused # n.cache[t][v].lastused
    <3>1. CASE t = s /\ (u = w \/ v = w) BY <2>1, <2>2, <3>1
    <3>2. CASE ~(t = s /\ (u = w \/ v = w))
      BY <1>5, <2>2, <3>2 DEF Others, StampsApart
    <3> QED BY <3>1, <3>2
  <2> QED BY <2>2 DEF StampsApart
<1> QED BY <1>2, <1>3, <1>6, <1>7

-----------------------------------------------------------------------------
(* Ways and blocks.                                                         *)

(* A way in use holds one block, of its own set, that no other way holds.   *)
LEMMA BlockOfWay ==
  ASSUME NEW m, m \in MemState, HeldOnce(m)
  PROVE  /\ \A p \in Held(m) : /\ p[1] \in Sets /\ p[2] \in Ways /\ p = <<p[1], p[2]>>
                               /\ BlockOf(m, p) \in Nat
                               /\ BlockOf(m, p) % NumSets = p[1]
                               /\ Stamp(m, p) \in Nat
         /\ \A p, q \in Held(m) : BlockOf(m, p) = BlockOf(m, q) => p = q
<1>1. ASSUME NEW p \in Held(m)
      PROVE  /\ p[1] \in Sets /\ p[2] \in Ways /\ p = <<p[1], p[2]>>
             /\ m.cache[p[1]][p[2]].valid /\ m.cache[p[1]][p[2]].tag \in Nat
             /\ Stamp(m, p) \in Nat
  BY DEF Held, MemState, Line, Stamp
<1>2. ASSUME NEW p \in Held(m)
      PROVE  /\ BlockOf(m, p) \in Nat /\ BlockOf(m, p) % NumSets = p[1]
             /\ BlockOf(m, p) \div NumSets = m.cache[p[1]][p[2]].tag
  BY <1>1, GeometryType, DivModUnique DEF BlockOf, WritebackBlock, Sets
<1>3. ASSUME NEW p \in Held(m), NEW q \in Held(m), BlockOf(m, p) = BlockOf(m, q)
      PROVE  p = q
  <2>1. p[1] = q[1] /\ m.cache[p[1]][p[2]].tag = m.cache[q[1]][q[2]].tag BY <1>2, <1>3
  <2>2. p[2] = q[2] BY <1>1, <2>1 DEF HeldOnce
  <2> QED BY <1>1, <2>1, <2>2
<1> QED BY <1>1, <1>2, <1>3

(* The block of the access is put into its way, and the others left alone.  *)
Replaced(m, n, a, w) ==
  LET sw == <<SetIdx(a), w>>
      rest == Held(m) \ {sw}
  IN  /\ Held(n) = rest \cup {sw} /\ BlockOf(n, sw) = Block(a)
      /\ \A p \in rest : /\ BlockOf(n, p) = BlockOf(m, p)
                         /\ Stamp(n, p) = Stamp(m, p)
                         /\ n.cache[p[1]][p[2]].dirty = m.cache[p[1]][p[2]].dirty

(* So does every access.                                                   *)
LEMMA UsedReplaced ==
  ASSUME NEW m, NEW n, NEW a \in Nat, NEW w \in Ways, NEW write, Used(m, n, a, w, write)
  PROVE  Replaced(m, n, a, w)
<1> DEFINE s == SetIdx(a)
           sw == <<s, w>>
           rest == Held(m) \ {sw}
<1>1. s \in Sets /\ WritebackBlock(s, TagBits(a)) = Block(a) BY AddrParts
<1>2. Others(m, n, s, w) /\ n.cache[s][w].valid /\ n.cache[s][w].tag = TagBits(a) BY DEF Used
<1> HIDE DEF s
<1>3. sw[1] = s /\ sw[2] = w /\ sw \in Sets \X Ways BY <1>1
<1>4. \A p \in Sets \X Ways : p # sw =>
        /\ p[1] \in Sets /\ p[2] \in Ways /\ ~(p[1] = s /\ p[2] = w)
        /\ n.cache[p[1]][p[2]].valid = m.cache[p[1]][p[2]].valid
        /\ n.cache[p[1]][p[2]].tag = m.cache[p[1]][p[2]].tag
        /\ n.cache[p[1]][p[2]].dirty = m.cache[p[1]][p[2]].dirty
        /\ n.cache[p[1]][p[2]].lastused = m.cache[p[1]][p[2]].lastused
  <2> SUFFICES ASSUME NEW p \in Sets \X Ways, p # sw
               PROVE  p[1] \in Sets /\ p[2] \in Ways /\ ~(p[1] = s /\ p[2] = w)
    BY <1>2 DEF Others
  <2> QED OBVIOUS
<1> HIDE DEF sw
<1>5. Held(n) = rest \cup {sw} BY <1>2, <1>3, <1>4 DEF Held
<1>6. BlockOf(n, sw) = Block(a) BY <1>1, <1>2, <1>3 DEF BlockOf
<1>7. \A p \in rest : /\ BlockOf(n, p) = BlockOf(m, p)
                      /\ Stamp(n, p) = Stamp(m, p)
                      /\ n.cache[p[1]][p[2]].dirty = m.cache[p[1]][p[2]].dirty
  BY <1>4 DEF Held, BlockOf, Stamp
<1> QED BY <1>5, <1>6, <1>7 DEF Replaced, sw, s

(* A set is full when every way of it is in use.                            *)
LEMMA FullSet ==
  ASSUME NEW m, m \in MemState, HeldOnce(m), NEW s \in Sets
  PROVE  LET rivals == {BlockOf(m, p) : p \in {q \in Held(m) : q[1] = s}} IN
         Cardinality(rivals) = Associativity <=> \A v \in Ways : m.cache[s][v].valid
<1> DEFINE rivals == {BlockOf(m, p) : p \in {q \in Held(m) : q[1] = s}}
           used == {v \in Ways : m.cache[s][v].valid}
           f == [v \in used |-> BlockOf(m, <<s, v>>)]
<1>1. IsFiniteSet(Ways) /\ Cardinality(Ways) = Associativity
  <2>1. 0 \in Int /\ Associativity - 1 \in Int /\ ~(0 > Associativity - 1) BY GeometryType
  <2>2. Cardinality(Ways) = (Associativity - 1) - 0 + 1 BY <2>1, FS_Interval DEF Ways
  <2> QED BY <2>1, <2>2, FS_Interval, GeometryType DEF Ways
<1>2. used \in SUBSET Ways OBVIOUS
<1>3. IsFiniteSet(used) /\ (Cardinality(used) = Cardinality(Ways) => used = Ways)
  BY <1>1, <1>2, FS_Subset
<1>4. \A v \in used : <<s, v>> \in Held(m) BY DEF Held
<1>5. f \in [used -> rivals]
  <2> SUFFICES ASSUME NEW v \in used PROVE BlockOf(m, <<s, v>>) \in rivals
    OBVIOUS
  <2> DEFINE p == <<s, v>>
  <2>1. p \in Held(m) /\ p[1] = s BY <1>4
  <2> HIDE DEF p
  <2>2. BlockOf(m, p) \in rivals BY <2>1
  <2> QED BY <2>2 DEF p
<1>6. \A u, v \in used : f[u] = f[v] => u = v
  <2> SUFFICES ASSUME NEW u \in used, NEW v \in used, BlockOf(m, <<s, u>>) = BlockOf(m, <<s, v>>)
               PROVE  u = v
    OBVIOUS
  <2>1. <<s, u>> = <<s, v>> BY <1>4, BlockOfWay
  <2> QED BY <2>1
<1>7. \A b \in rivals : \E v \in used : f[v] = b
  <2> SUFFICES ASSUME NEW p \in Held(m), p[1] = s PROVE \E v \in used : f[v] = BlockOf(m, p)
    OBVIOUS
  <2>1. p = <<s, p[2]>> /\ p[2] \in Ways BY BlockOfWay
  <2>2. p[2] \in used BY <2>1 DEF Held
  <2> QED BY <2>1, <2>2
<1>8. f \in Bijection(used, rivals)
  <2> HIDE DEF used, rivals, f
  <2> QED BY <1>5, <1>6, <1>7 DEF Bijection, Injection, Surjection, IsInjective
<1>9. Cardinality(rivals) = Cardinality(used)
  BY <1>3, <1>8, FS_Bijection DEF ExistsBijection
<1>10. used = Ways <=> \A v \in Ways : m.cache[s][v].valid OBVIOUS
<1> QED BY <1>1, <1>3, <1>9, <1>10

-----------------------------------------------------------------------------
(* The abstract step.                                                       *)

(* The blocks of some ways.                                                 *)
BlocksOf(m, ways) == {BlockOf(m, p) : p \in ways}

(* The order of use, read off the stamps.                                   *)
LEMMA NewerIsLater ==
  ASSUME NEW m, m \in MemState, HeldOnce(m), NEW p \in Held(m), NEW q \in Held(m)
  PROVE  <<BlockOf(m, p), BlockOf(m, q)>> \in Lru(m).newer
           <=> p[1] = q[1] /\ Stamp(m, p) > Stamp(m, q)
<1>1. Lru(m).newer = {<<BlockOf(m, d[1]), BlockOf(m, d[2])>> : d \in UsedLater(m)} BY DEF Lru
<1>2. ASSUME <<BlockOf(m, p), BlockOf(m, q)>> \in Lru(m).newer
      PROVE  p[1] = q[1] /\ Stamp(m, p) > Stamp(m, q)
  <2>1. PICK d \in UsedLater(m) :
          <<BlockOf(m, p), BlockOf(m, q)>> = <<BlockOf(m, d[1]), BlockOf(m, d[2])>>
    BY <1>1, <1>2
  <2>2. /\ d[1] \in Held(m) /\ d[2] \in Held(m)
        /\ d[1][1] = d[2][1] /\ Stamp(m, d[1]) > Stamp(m, d[2])
    BY DEF UsedLater
  <2>3. BlockOf(m, p) = BlockOf(m, d[1]) /\ BlockOf(m, q) = BlockOf(m, d[2]) BY <2>1
  <2>4. p = d[1] /\ q = d[2] BY <2>2, <2>3, BlockOfWay
  <2> QED BY <2>2, <2>4
<1>3. ASSUME p[1] = q[1], Stamp(m, p) > Stamp(m, q)
      PROVE  <<BlockOf(m, p), BlockOf(m, q)>> \in Lru(m).newer
  <2> DEFINE d == <<p, q>>
  <2>1. d \in UsedLater(m) BY <1>3 DEF UsedLater
  <2>2. d[1] = p /\ d[2] = q OBVIOUS
  <2> HIDE DEF d
  <2> QED BY <1>1, <2>1, <2>2
<1> QED BY <1>2, <1>3

(* The rivals of a block are the blocks of the ways of its set.             *)
LEMMA RivalsOfSet ==
  ASSUME NEW m, m \in MemState, HeldOnce(m), NEW ways, ways \subseteq Held(m), NEW a \in Nat
  PROVE  Stack!Rivals(BlocksOf(m, ways), Block(a))
           = BlocksOf(m, {p \in ways : p[1] = SetIdx(a)})
<1>1. \A p \in ways : BlockOf(m, p) % NumSets = p[1] BY BlockOfWay
<1> QED BY <1>1 DEF Stack!Rivals, BlocksOf, SetIdx

(* In a full set the block used longest ago is that of the victim.          *)
LEMMA OldestIsVictim ==
  ASSUME NEW m, LruInv(m), NEW a \in Nat, NEW w \in Ways, w = Victim(m.cache[SetIdx(a)]),
         \A v \in Ways : m.cache[SetIdx(a)][v].valid
  PROVE  Stack!Oldest(Lru(m), Block(a)) = {BlockOf(m, <<SetIdx(a), w>>)}
<1> DEFINE s == SetIdx(a)
           set == m.cache[s]
           sw == <<s, w>>
<1>1. s \in Sets /\ m \in MemState /\ HeldOnce(m) /\ StampsApart(m)
  BY AddrParts DEF LruInv, Coherent
<1>2. set \in [Ways -> Line] BY <1>1 DEF MemState
<1>3. EmptyWays(set) = {} BY DEF EmptyWays
<1>4. w \in OldestWays(set)
  <2>1. OldestWays(set) # {} BY <1>2, OldestExists
  <2>2. OldestWays(set) \subseteq Nat BY DEF OldestWays, Ways
  <2>3. w = First(OldestWays(set)) BY <1>3 DEF Victim
  <2> QED BY <2>1, <2>2, <2>3, FirstIsLeast
<1>5. \A v \in Ways : set[v].lastused \in Nat /\ set[w].lastused <= set[v].lastused
  BY <1>2, <1>4 DEF OldestWays, Line
<1>6. \A v \in Ways : v # w => set[w].lastused < set[v].lastused
  <2> SUFFICES ASSUME NEW v \in Ways, v # w PROVE set[w].lastused # set[v].lastused
    BY <1>5
  <2> QED BY <1>1 DEF StampsApart
<1> HIDE DEF s
<1> DEFINE mine == {p \in Held(m) : p[1] = s}
<1>7. /\ sw \in mine
      /\ \A p \in mine : p \in Held(m) /\ p[2] \in Ways /\ p = <<s, p[2]>>
                         /\ Stamp(m, p) = set[p[2]].lastused
  <2>1. sw \in Sets \X Ways /\ sw[1] = s /\ sw[2] = w BY <1>1
  <2>2. sw \in mine
    <3>1. m.cache[s][w].valid BY DEF s
    <3> HIDE DEF sw
    <3> QED BY <2>1, <3>1 DEF Held
  <2>3. ASSUME NEW p \in mine
        PROVE  p \in Held(m) /\ p[2] \in Ways /\ p = <<s, p[2]>> /\ p[1] = s
    BY <1>1, BlockOfWay
  <2> QED BY <2>2, <2>3 DEF Stamp
<1>8. \A p, q \in mine :
        <<BlockOf(m, p), BlockOf(m, q)>> \in Lru(m).newer <=> Stamp(m, p) > Stamp(m, q)
  BY <1>1, NewerIsLater
<1>9. Stamp(m, sw) = set[w].lastused BY <1>7
<1>10. \A p \in mine : ~(Stamp(m, sw) > Stamp(m, p)) BY <1>5, <1>7, <1>9
<1>11. \A p \in mine : p # sw => Stamp(m, p) > Stamp(m, sw) BY <1>5, <1>6, <1>7, <1>9
<1>12. Stack!Rivals(Lru(m).held, Block(a)) = BlocksOf(m, mine)
  <2>1. Lru(m).held = BlocksOf(m, Held(m)) BY DEF Lru, BlocksOf
  <2>2. Held(m) \subseteq Held(m) OBVIOUS
  <2> QED BY <1>1, <2>1, <2>2, RivalsOfSet DEF s
<1> HIDE DEF mine, sw
<1>13. ASSUME NEW p \in mine
       PROVE  (\A d \in BlocksOf(m, mine) : <<BlockOf(m, p), d>> \notin Lru(m).newer) <=> p = sw
  <2>1. CASE p = sw BY <1>8, <1>10, <2>1 DEF BlocksOf
  <2>2. CASE p # sw
    <3>1. BlockOf(m, sw) \in BlocksOf(m, mine) BY <1>7 DEF BlocksOf
    <3> QED BY <1>7, <1>8, <1>11, <2>2, <3>1
  <2> QED BY <2>1, <2>2
<1>14. Stack!Oldest(Lru(m), Block(a))
         = {c \in BlocksOf(m, mine) : \A d \in BlocksOf(m, mine) : <<c, d>> \notin Lru(m).newer}
  BY <1>12 DEF Stack!Oldest
<1>15. Stack!Oldest(Lru(m), Block(a)) = {BlockOf(m, sw)} BY <1>7, <1>13, <1>14 DEF BlocksOf
<1> QED BY <1>15 DEF sw, s

(* The instance counts as the module does.                                  *)
LEMMA SameCount == \A S : Stack!Cardinality(S) = Cardinality(S)
BY DEF Stack!Cardinality, Cardinality

(* An access finds its block, or drops some to make room.                   *)
Found(m, a) == Block(a) \in Lru(m).held
Dropped(m, a) ==
  IF ~Found(m, a) /\ Cardinality(Stack!Rivals(Lru(m).held, Block(a))) = Associativity
  THEN Stack!Oldest(Lru(m), Block(a)) ELSE {}

(* The blocks that stay, by whichever way the access is served: all but the *)
(* one of that way.                                                         *)
LEMMA OthersStay ==
  ASSUME NEW m, LruInv(m), NEW n, NEW a \in Nat, NEW w \in Ways, NEW write, Used(m, n, a, w, write)
  PROVE  /\ Found(m, a) <=> \E v \in Ways : /\ m.cache[SetIdx(a)][v].valid
                                            /\ m.cache[SetIdx(a)][v].tag = TagBits(a)
         /\ Dropped(m, a) = IF ~Found(m, a) /\ m.cache[SetIdx(a)][w].valid
                            THEN {BlockOf(m, <<SetIdx(a), w>>)} ELSE {}
         /\ (Lru(m).held \ Dropped(m, a)) \ {Block(a)} = BlocksOf(m, Held(m) \ {<<SetIdx(a), w>>})
<1> DEFINE l == Lru(m)
           b == Block(a)
           s == SetIdx(a)
           sw == <<s, w>>
           hit == \E v \in Ways : m.cache[s][v].valid /\ m.cache[s][v].tag = TagBits(a)
           full == Cardinality(Stack!Rivals(l.held, b)) = Associativity
           dropped == Dropped(m, a)
<1>0. dropped = IF b \notin l.held /\ full THEN Stack!Oldest(l, b) ELSE {} BY DEF Dropped, Found
<1>1. m \in MemState /\ HeldOnce(m) /\ FilledInOrder(m) BY DEF LruInv, Coherent
<1>2. s \in Sets /\ TagBits(a) \in Nat /\ WritebackBlock(s, TagBits(a)) = b BY AddrParts
<1>3. l.held = BlocksOf(m, Held(m)) BY DEF Lru, BlocksOf
<1>4. \A v \in Ways : /\ <<s, v>> \in Held(m) <=> m.cache[s][v].valid
                      /\ BlockOf(m, <<s, v>>) = WritebackBlock(s, m.cache[s][v].tag)
  BY <1>2 DEF Held, BlockOf
<1>5. b \in l.held <=> hit
  <2>1. ASSUME NEW v \in Ways, m.cache[s][v].valid, m.cache[s][v].tag = TagBits(a)
        PROVE  b \in l.held
    BY <1>2, <1>3, <1>4, <2>1 DEF BlocksOf
  <2>2. ASSUME NEW p \in Held(m), BlockOf(m, p) = b
        PROVE  hit
    <3>1. p[1] = s BY <1>1, <2>2, BlockOfWay DEF SetIdx
    <3>2. p[2] \in Ways /\ m.cache[s][p[2]].valid /\ m.cache[s][p[2]].tag \in Nat
      BY <1>1, <1>2, <3>1 DEF Held, MemState, Line
    <3>3. WritebackBlock(s, m.cache[s][p[2]].tag) = WritebackBlock(s, TagBits(a))
      BY <1>2, <2>2, <3>1 DEF BlockOf
    <3>4. s \in Nat /\ NumSets \in Nat \ {0} /\ s \in 0..NumSets-1 BY <1>2, GeometryType DEF Sets
    <3>5. m.cache[s][p[2]].tag = (m.cache[s][p[2]].tag * NumSets + s) \div NumSets
          /\ TagBits(a) = (TagBits(a) * NumSets + s) \div NumSets
      BY <1>2, <3>2, <3>4, DivModUnique
    <3> QED BY <3>2, <3>3, <3>5 DEF WritebackBlock
  <2> QED BY <1>3, <2>1, <2>2 DEF BlocksOf
<1>6. full <=> \A v \in Ways : m.cache[s][v].valid
  <2>1. Held(m) \subseteq Held(m) OBVIOUS
  <2>2. Stack!Rivals(l.held, b) = {BlockOf(m, p) : p \in {q \in Held(m) : q[1] = s}}
    BY <1>1, <1>3, <2>1, RivalsOfSet DEF BlocksOf
  <2> QED BY <1>1, <1>2, <2>2, FullSet
<1>7. \A p \in Held(m) : p # sw /\ sw \in Held(m) => BlockOf(m, p) # BlockOf(m, sw)
  BY <1>1, BlockOfWay
<1>8. CASE hit
  <2>1. sw \in Held(m) /\ BlockOf(m, sw) = b
    <3>1. m.cache[s][w].valid /\ m.cache[s][w].tag = TagBits(a) BY <1>8 DEF Used
    <3> QED BY <1>2, <1>4, <3>1
  <2>2. dropped = {} BY <1>0, <1>5, <1>8
  <2> HIDE DEF sw, dropped, b, hit
  <2>3. (l.held \ dropped) \ {b} = BlocksOf(m, Held(m) \ {sw})
    BY <1>3, <1>7, <2>1, <2>2 DEF BlocksOf
  <2> QED BY <1>5, <1>8, <2>2, <2>3 DEF sw, dropped, b, hit, Found
<1>9. CASE ~hit /\ m.cache[s][w].valid
  <2>1. w = Victim(m.cache[s]) BY <1>9 DEF Used
  <2>2. m.cache[s] \in [Ways -> Line] BY <1>1, <1>2 DEF MemState
  <2>3. \A v \in Ways : m.cache[s][v].valid
    <3> SUFFICES ASSUME NEW v \in Ways, ~m.cache[s][v].valid PROVE FALSE
      OBVIOUS
    <3>1. PICK e \in Ways : ~m.cache[s][e].valid /\ e < w
      BY <1>9, <2>1, <2>2, VictimIsWay
    <3> QED BY <1>1, <1>2, <1>9, <3>1 DEF FilledInOrder
  <2>4. dropped = {BlockOf(m, sw)}
    BY <1>0, <1>5, <1>6, <1>9, <2>1, <2>3, OldestIsVictim
  <2>5. sw \in Held(m) BY <1>4, <1>9
  <2> HIDE DEF sw, dropped, b, hit
  <2>6. (l.held \ dropped) \ {b} = BlocksOf(m, Held(m) \ {sw})
    BY <1>3, <1>5, <1>7, <1>9, <2>4, <2>5 DEF BlocksOf
  <2> QED BY <1>5, <1>9, <2>4, <2>6 DEF sw, dropped, b, hit, Found
<1>10. CASE ~hit /\ ~m.cache[s][w].valid
  <2>1. dropped = {} BY <1>0, <1>6, <1>10
  <2>2. sw \notin Held(m) BY <1>4, <1>10
  <2> HIDE DEF sw, dropped, b, hit
  <2>3. (l.held \ dropped) \ {b} = BlocksOf(m, Held(m) \ {sw})
    BY <1>3, <1>5, <1>10, <2>1, <2>2 DEF BlocksOf
  <2> QED BY <1>5, <1>10, <2>1, <2>3 DEF sw, dropped, b, hit, Found
<1> QED BY <1>8, <1>9, <1>10

(* An access changes the order of use as LruStack says it does.             *)
LEMMA AccessIsUse ==
  ASSUME NEW m, LruInv(m), NEW n, n \in MemState, HeldOnce(n), NEW a \in Nat, NEW w \in Ways,
         NEW write, write \in BOOLEAN, Used(m, n, a, w, write)
  PROVE  Lru(n) = Stack!Access(Lru(m), Block(a), write)
<1> DEFINE l == Lru(m)
           b == Block(a)
           s == SetIdx(a)
           sw == <<s, w>>
           rest == Held(m) \ {sw}
           hit == \E v \in Ways : m.cache[s][v].valid /\ m.cache[s][v].tag = TagBits(a)
           dropped == Dropped(m, a)
           others == (l.held \ dropped) \ {b}
           cost == IF Found(m, a) THEN 1
                   ELSE IF dropped \cap l.dirty # {} THEN MissCost ELSE BlockCycles + 1
<1>1. /\ m \in MemState /\ HeldOnce(m) /\ StampsPast(m)
      /\ s \in Sets /\ BlockCycles \in Nat /\ m.cycles \in Nat
  <2>1. m \in MemState /\ HeldOnce(m) /\ StampsPast(m) BY DEF LruInv, Coherent
  <2>2. m.cycles \in Nat BY <2>1 DEF MemState
  <2> QED BY <2>1, <2>2, AddrParts, BlockCyclesType
<1>2. /\ Held(n) = rest \cup {sw} /\ BlockOf(n, sw) = b
      /\ \A p \in rest : /\ BlockOf(n, p) = BlockOf(m, p)
                         /\ Stamp(n, p) = Stamp(m, p)
                         /\ n.cache[p[1]][p[2]].dirty = m.cache[p[1]][p[2]].dirty
  <2>1. Replaced(m, n, a, w) BY UsedReplaced
  <2> QED BY <2>1 DEF Replaced
<1>3. /\ Found(m, a) <=> hit
      /\ dropped = IF ~Found(m, a) /\ m.cache[s][w].valid THEN {BlockOf(m, sw)} ELSE {}
      /\ others = BlocksOf(m, rest)
  BY OthersStay
<1>4. Stack!Access(l, b, write)
        = [held  |-> others \cup {b},
           newer |-> (l.newer \cap (others \X others)) \cup ({b} \X Stack!Rivals(others, b)),
           dirty |-> (l.dirty \ dropped) \cup (IF write THEN {b} ELSE {}),
           clock |-> l.clock + cost]
  BY SameCount DEF Stack!Access, MissCost, Found, Dropped
<1>5. /\ \A p \in Held(m) : p[1] \in Sets /\ p[2] \in Ways /\ p = <<p[1], p[2]>>
                            /\ BlockOf(m, p) \in Nat /\ Stamp(m, p) \in Nat
      /\ \A p, q \in Held(m) : BlockOf(m, p) = BlockOf(m, q) => p = q
  BY <1>1, BlockOfWay
<1>6. /\ sw[1] = s /\ sw[2] = w
      /\ sw \in Held(m) <=> m.cache[s][w].valid
  BY <1>1 DEF Held
<1>7. /\ hit => /\ m.cache[s][w].valid /\ m.cache[s][w].tag = TagBits(a)
                /\ n.cycles = m.cycles + 1
                /\ n.cache[s][w].dirty = (m.cache[s][w].dirty \/ write)
      /\ ~hit => /\ n.cycles = m.cycles + IF Dirty(m, s, w) THEN MissCost ELSE BlockCycles + 1
                 /\ n.cache[s][w].dirty = write
      /\ Associativity > 1 => m.cycles <= n.cache[s][w].lastused
  BY DEF Used
<1>8. hit => BlockOf(m, sw) = b
  BY <1>6, <1>7, AddrParts DEF BlockOf
<1>9. l.dirty = {BlockOf(m, p) : p \in {q \in Held(m) : m.cache[q[1]][q[2]].dirty}}
      /\ l.clock = m.cycles
  BY DEF Lru
<1>10. n.cache[s][w].lastused \in Nat /\ Associativity \in Nat \ {0}
  BY <1>1, GeometryType DEF MemState, Line
<1> HIDE DEF l, b, s, sw, hit, dropped, cost
<1>11. Lru(n).held = others \cup {b}
  <2>1. Lru(n).held = {BlockOf(n, p) : p \in rest \cup {sw}} BY <1>2 DEF Lru
  <2>2. {BlockOf(n, p) : p \in rest \cup {sw}} = BlocksOf(m, rest) \cup {b}
    BY <1>2 DEF BlocksOf
  <2> QED BY <1>3, <2>1, <2>2
<1>12. Lru(n).dirty = (l.dirty \ dropped) \cup (IF write THEN {b} ELSE {})
  <2>1. Lru(n).dirty = {BlockOf(n, p) : p \in {q \in rest \cup {sw} : n.cache[q[1]][q[2]].dirty}}
    BY <1>2 DEF Lru
  <2> DEFINE stay == {q \in rest : m.cache[q[1]][q[2]].dirty}
  <2>2. Lru(n).dirty = BlocksOf(m, stay) \cup (IF n.cache[s][w].dirty THEN {b} ELSE {})
    BY <1>2, <1>6, <2>1 DEF BlocksOf
  <2>3. CASE hit
    <3>1. sw \in Held(m) /\ dropped = {} BY <1>3, <1>6, <1>7, <2>3
    <3>2. l.dirty = BlocksOf(m, stay) \cup (IF m.cache[s][w].dirty THEN {b} ELSE {})
      BY <1>6, <1>8, <1>9, <2>3, <3>1 DEF BlocksOf
    <3> QED BY <1>7, <2>2, <2>3, <3>1, <3>2
  <2>4. CASE ~hit /\ sw \in Held(m)
    <3>1. dropped = {BlockOf(m, sw)} BY <1>3, <1>6, <2>4
    <3>2. l.dirty \ dropped = BlocksOf(m, stay)
      BY <1>5, <1>9, <2>4, <3>1 DEF BlocksOf
    <3> QED BY <1>7, <2>2, <2>4, <3>2
  <2>5. CASE ~hit /\ sw \notin Held(m)
    <3>1. dropped = {} BY <1>3, <1>6, <2>5
    <3>2. l.dirty = BlocksOf(m, stay)
      BY <1>9, <2>5 DEF BlocksOf
    <3> QED BY <1>7, <2>2, <2>5, <3>1, <3>2
  <2> QED BY <2>3, <2>4, <2>5
<1>13. Lru(n).clock = l.clock + cost
  <2>1. Lru(n).clock = n.cycles BY DEF Lru
  <2>2. CASE hit BY <1>3, <1>7, <1>9, <2>1, <2>2 DEF cost
  <2>3. CASE ~hit
    <3>1. dropped \cap l.dirty # {} <=> Dirty(m, s, w)
      <4>1. CASE sw \notin Held(m) BY <1>3, <1>6, <2>3, <4>1 DEF Dirty
      <4>2. CASE sw \in Held(m)
        <5>1. dropped = {BlockOf(m, sw)} BY <1>3, <1>6, <2>3, <4>2
        <5>2. BlockOf(m, sw) \in l.dirty <=> m.cache[s][w].dirty BY <1>5, <1>6, <1>9, <4>2
        <5> QED BY <1>6, <4>2, <5>1, <5>2 DEF Dirty
      <4> QED BY <4>1, <4>2
    <3> QED BY <1>3, <1>7, <1>9, <2>1, <2>3, <3>1 DEF cost
  <2> QED BY <2>2, <2>3
<1>14. \A p \in Held(n) : p[1] = s /\ p # sw => Stamp(n, p) < Stamp(n, sw)
  <2> SUFFICES ASSUME NEW p \in Held(n), p[1] = s, p # sw
               PROVE  Stamp(n, p) < Stamp(n, sw)
    OBVIOUS
  <2>1. p \in rest /\ p \in Held(m) /\ Stamp(n, p) = Stamp(m, p) BY <1>2
  <2>2. p[2] \in Ways /\ p = <<s, p[2]>> BY <1>5, <2>1
  <2>3. p[2] # w BY <2>2 DEF sw
  <2>4. Associativity > 1 BY <1>10, <2>2, <2>3 DEF Ways
  <2>5. Stamp(m, p) \in Nat /\ Stamp(m, p) < m.cycles
    BY <1>1, <1>5, <2>1 DEF StampsPast, Held, Stamp
  <2>6. Stamp(n, sw) = n.cache[s][w].lastused BY <1>6 DEF Stamp
  <2> QED BY <1>1, <1>7, <1>10, <2>1, <2>4, <2>5, <2>6
<1>15. Stack!Rivals(others, b) = BlocksOf(m, {p \in rest : p[1] = s})
  <2>1. rest \subseteq Held(m) OBVIOUS
  <2>2. Stack!Rivals(BlocksOf(m, rest), b) = BlocksOf(m, {p \in rest : p[1] = s})
    <3> HIDE DEF rest
    <3> QED BY <1>1, <2>1, RivalsOfSet DEF b, s
  <2> QED BY <1>3, <2>2
<1> DEFINE newer == (l.newer \cap (others \X others)) \cup ({b} \X Stack!Rivals(others, b))
<1>16. Lru(n).newer = newer
  <2>1. \A p, q \in Held(n) : <<BlockOf(n, p), BlockOf(n, q)>> \in Lru(n).newer
                                <=> p[1] = q[1] /\ Stamp(n, p) > Stamp(n, q)
    BY NewerIsLater
  <2>2. \A p, q \in rest : <<BlockOf(m, p), BlockOf(m, q)>> \in l.newer
                             <=> p[1] = q[1] /\ Stamp(m, p) > Stamp(m, q)
    BY <1>1, NewerIsLater DEF l
  <2>3. ASSUME NEW z \in Lru(n).newer PROVE z \in newer
    <3>1. PICK p \in Held(n), q \in Held(n) :
            /\ z = <<BlockOf(n, p), BlockOf(n, q)>>
            /\ p[1] = q[1] /\ Stamp(n, p) > Stamp(n, q)
      <4>1. PICK d \in UsedLater(n) : z = <<BlockOf(n, d[1]), BlockOf(n, d[2])>> BY DEF Lru
      <4>2. /\ d[1] \in Held(n) /\ d[2] \in Held(n) /\ d[1][1] = d[2][1]
            /\ Stamp(n, d[1]) > Stamp(n, d[2])
        BY DEF UsedLater
      <4> QED BY <4>1, <4>2
    <3>2. Stamp(n, p) \in Nat /\ Stamp(n, q) \in Nat BY BlockOfWay
    <3>3. CASE p \in rest /\ q \in rest
      <4>1. z = <<BlockOf(m, p), BlockOf(m, q)>> BY <1>2, <3>1, <3>3
      <4>2. z \in l.newer BY <1>2, <2>2, <3>1, <3>3, <4>1
      <4>3. BlockOf(m, p) \in others /\ BlockOf(m, q) \in others BY <1>3, <3>3 DEF BlocksOf
      <4> QED BY <4>1, <4>2, <4>3
    <3>4. CASE p = sw /\ q \in rest
      <4>1. z = <<b, BlockOf(m, q)>> BY <1>2, <3>1, <3>4
      <4>2. BlockOf(m, q) \in Stack!Rivals(others, b)
        BY <1>6, <1>15, <3>1, <3>4 DEF BlocksOf
      <4> QED BY <4>1, <4>2
    <3>5. CASE q = sw
      <4>1. p[1] = s BY <1>6, <3>1, <3>5
      <4> QED BY <1>14, <3>1, <3>2, <3>5, <4>1
    <3> QED BY <1>2, <3>3, <3>4, <3>5
  <2>4. ASSUME NEW z \in newer PROVE z \in Lru(n).newer
    <3>1. CASE z \in l.newer \cap (others \X others)
      <4>1. PICK p \in rest, q \in rest : z = <<BlockOf(m, p), BlockOf(m, q)>>
        <5>1. PICK x \in others, y \in others : z = <<x, y>> BY <3>1
        <5> QED BY <1>3, <5>1 DEF BlocksOf
      <4>2. p[1] = q[1] /\ Stamp(m, p) > Stamp(m, q) BY <2>2, <3>1, <4>1
      <4>3. p \in Held(n) /\ q \in Held(n) /\ z = <<BlockOf(n, p), BlockOf(n, q)>>
        BY <1>2, <4>1
      <4> QED BY <1>2, <2>1, <4>2, <4>3
    <3>2. CASE z \in {b} \X Stack!Rivals(others, b)
      <4>1. PICK q \in rest : q[1] = s /\ z = <<b, BlockOf(m, q)>>
        <5>1. PICK c \in Stack!Rivals(others, b) : z = <<b, c>> BY <3>2
        <5> QED BY <1>15, <5>1 DEF BlocksOf
      <4>2. sw \in Held(n) /\ q \in Held(n) /\ z = <<BlockOf(n, sw), BlockOf(n, q)>>
        BY <1>2, <4>1
      <4>3. Stamp(n, q) < Stamp(n, sw) BY <1>14, <4>1, <4>2
      <4>4. Stamp(n, sw) \in Nat /\ Stamp(n, q) \in Nat BY <4>2, BlockOfWay
      <4> QED BY <1>6, <2>1, <4>1, <4>2, <4>3, <4>4
    <3> QED BY <3>1, <3>2
  <2> QED BY <2>3, <2>4
<1>17. Lru(n) = [held |-> Lru(n).held, newer |-> Lru(n).newer,
                 dirty |-> Lru(n).dirty, clock |-> Lru(n).clock]
  BY DEF Lru
<1> HIDE DEF newer, others
<1> QED BY <1>4, <1>11, <1>12, <1>13, <1>16, <1>17 DEF newer, l, b

-----------------------------------------------------------------------------
(* The refinement.                                                          *)

(* An access inside a line keeps the invariant and is one use of its block. *)
LEMMA CheckCacheUses ==
  ASSUME NEW m, LruInv(m), CacheType # 0, NEW a \in Addr, NEW acc \in AccessSet, Fits(a, acc),
         m.cycles + MissCost < CycleMod
  PROVE  LET n == CheckCache(m, a, acc) IN
         /\ LruInv(n) /\ n.host = m.host
         /\ n.cycles <= m.cycles + MissCost
         /\ Lru(n) = Stack!Access(Lru(m), Block(a), IsWrite(acc))
<1> DEFINE n == CheckCache(m, a, acc)
<1>1. a \in Nat /\ a \in Alloc BY AddrInAlloc
<1>2. Coherent(m) /\ m \in MemState /\ FilledInOrder(m) /\ StampsPast(m) /\ StampsApart(m)
  BY DEF LruInv, Coherent
<1>3. Coherent(n) /\ n.host = m.host /\ Placed(m, n)
  BY <1>1, <1>2, CheckCacheInside
<1>4. PICK w \in Ways : Used(m, n, a, w, IsWrite(acc))
  BY <1>1, <1>2, AccessUsed
<1> DEFINE write == IsWrite(acc)
<1>5. write \in BOOLEAN BY WidthType
<1>6. Used(m, n, a, w, write) BY <1>4
<1> HIDE DEF n, write
<1>7. n \in MemState /\ HeldOnce(n) BY <1>3 DEF Coherent
<1>8. FilledInOrder(n) BY <1>2, <1>3, PlacedInOrder
<1>9. StampsPast(n) /\ StampsApart(n) /\ n.cycles <= m.cycles + MissCost
  BY <1>1, <1>2, <1>6, <1>7, UsedStamps
<1>10. Lru(n) = Stack!Access(Lru(m), Block(a), write)
  BY <1>1, <1>5, <1>6, <1>7, AccessIsUse
<1>11. LruInv(n) BY <1>3, <1>8, <1>9 DEF LruInv
<1> QED BY <1>3, <1>9, <1>10, <1>11 DEF n, write

(* The counter has room for the accesses of one request.                    *)
ClockHasRoom == MaxCycles + 2 * MissCost <= CycleMod

(* The accesses a cache serves.                                             *)
LEMMA ServedFits ==
  ASSUME NEW a \in Nat, NEW acc \in AccessSet, CacheType # 0,
         (Width(acc) = 1 /\ a \in Addr) \/ Served(a)
  PROVE  a \in Addr /\ Fits(a, acc)
<1>1. Offset(a) \in 0..BlockSize-1 BY AddrParts DEF Offsets
<1>2. CASE Width(acc) = 1 /\ a \in Addr BY <1>1, <1>2, MemAssumption DEF Fits
<1>3. CASE Served(a)
  <2>1. AddrInRange(a, WordSize) /\ Offset(a) + WordSize <= BlockSize
    BY <1>1, <1>3, MemAssumption DEF Served, Straddles
  <2>2. a \in Addr BY <2>1, WordInRange
  <2>3. Width(acc) \in Nat /\ Width(acc) <= WordSize BY WidthType
  <2> QED BY <1>1, <2>1, <2>2, <2>3, MemAssumption DEF Fits
<1> QED BY <1>2, <1>3

(* At first nothing is held, and no time has passed.                        *)
LEMMA LruInit == Init => LruInv(ms) /\ Stack!Init
<1> SUFFICES ASSUME Init PROVE LruInv(ms) /\ Stack!Init OBVIOUS
<1>1. IInv BY InitIInv
<1>2. PICK bytes \in InitBytes : ms = InitMem(bytes) BY DEF Init
<1>3. ms.cycles = 0 /\ \A s \in Sets : \A w \in Ways : ~ms.cache[s][w].valid
  BY <1>2 DEF InitMem, BadLine
<1>4. LruInv(ms) BY <1>1, <1>3 DEF LruInv, IInv, StampsPast, StampsApart
<1>5. Held(ms) = {} BY <1>3 DEF Held
<1>6. Lru(ms) = [held |-> {}, newer |-> {}, dirty |-> {}, clock |-> 0]
  <2>1. UsedLater(ms) = {} BY <1>5 DEF UsedLater
  <2> QED BY <1>3, <1>5, <2>1 DEF Lru
<1>7. resp.op = "none" BY DEF Init, Answer
<1> QED BY <1>4, <1>6, <1>7 DEF Stack!Init

(* Every request is the use of a block, or of two.                          *)
LEMMA LruNext ==
  ASSUME ServedRequests, CacheType # 0, ClockHasRoom, LruInv(ms), Next
  PROVE  LruInv(ms') /\ Stack!Next
<1> USE RequestAssumption
<1>1. /\ MissCost \in Nat /\ CycleMod \in Nat /\ MaxCycles \in Nat
      /\ MaxCycles + MissCost + MissCost <= CycleMod
  BY BlockCyclesType, MemAssumption DEF ClockHasRoom, MissCost
<1>2. ms.cycles \in Nat BY DEF LruInv, Coherent, MemState
<1>3. Running => ms.cycles + MissCost < CycleMod /\ ms.cycles + MissCost + MissCost < CycleMod
  BY <1>1, <1>2 DEF Running
<1>4. ASSUME NEW a \in Nat, NEW acc \in AccessSet, ms' = CheckCache(ms, a, acc), Running,
             (Width(acc) = 1 /\ a \in Addr) \/ Served(a)
      PROVE  /\ LruInv(ms') /\ ms'.host = "ok"
             /\ Lru(ms') = Stack!Access(Lru(ms), Block(a), IsWrite(acc))
  <2>1. a \in Addr /\ Fits(a, acc) BY <1>4, ServedFits
  <2>2. ms.host = "ok" BY <1>4 DEF Running
  <2> QED BY <1>3, <1>4, <2>1, <2>2, CheckCacheUses
<1>5. \A a \in Nat : Block(a) = Stack!Block(a) BY DEF Block, Stack!Block
<1>6. ASSUME NEW a \in ByteAddrs, DoReadByte(a) PROVE LruInv(ms') /\ Stack!Next
  <2> DEFINE acc == Access("READBYTE", ZeroWord, ZeroWord)
  <2>1. acc \in AccessSet /\ IsWrite(acc) = FALSE /\ Width(acc) = 1
    BY WordTypes DEF Access, AccessSet, IsWrite, Width
  <2>2. a \in Nat /\ a \in Addr /\ Running /\ ms' = CheckCache(ms, a, acc)
    BY <1>6 DEF DoReadByte, ServedRequests, ReadByte
  <2> HIDE DEF acc
  <2>3. LruInv(ms') /\ ms'.host = "ok" /\ Lru(ms') = Stack!Access(Lru(ms), Block(a), FALSE)
    BY <1>4, <2>1, <2>2
  <2>4. resp' = Answer("readByte", a, <<ms'.out>>) BY <1>6, <2>3 DEF DoReadByte, Respond
  <2>5. Stack!One(a, "readByte", FALSE) BY <1>5, <2>2, <2>3, <2>4 DEF Stack!One, Answer
  <2> QED BY <2>3, <2>5 DEF Stack!Next
<1>7. ASSUME NEW a \in ByteAddrs, NEW b \in Byte, DoWriteByte(a, b)
      PROVE  LruInv(ms') /\ Stack!Next
  <2> DEFINE acc == Access("WRITEBYTE", ByteWord(b), ZeroWord)
  <2>1. acc \in AccessSet /\ IsWrite(acc) = TRUE /\ Width(acc) = 1
    BY WordTypes DEF Access, AccessSet, IsWrite, Width
  <2>2. a \in Nat /\ a \in Addr /\ Running /\ ms' = CheckCache(ms, a, acc)
    BY <1>7 DEF DoWriteByte, ServedRequests, WriteByte
  <2> HIDE DEF acc
  <2>3. LruInv(ms') /\ ms'.host = "ok" /\ Lru(ms') = Stack!Access(Lru(ms), Block(a), TRUE)
    BY <1>4, <2>1, <2>2
  <2>4. resp' = Answer("writeByte", a, <<>>) BY <1>7, <2>3 DEF DoWriteByte, Respond
  <2>5. Stack!One(a, "writeByte", TRUE) BY <1>5, <2>2, <2>3, <2>4 DEF Stack!One, Answer
  <2> QED BY <2>3, <2>5 DEF Stack!Next
<1>8. ASSUME NEW a \in WordAddrs, DoReadWord(a) PROVE LruInv(ms') /\ Stack!Next
  <2>1. PICK junk \in Word : ms' = ReadWord(ms, a, FALSE, junk)
    BY <1>8, JunkType DEF DoReadWord
  <2> DEFINE acc == Access("READWORD", ZeroWord, junk)
  <2>2. acc \in AccessSet /\ IsWrite(acc) = FALSE
    BY WordTypes DEF Access, AccessSet, IsWrite
  <2>3. a \in Nat /\ Served(a) /\ Running /\ ms' = CheckCache(ms, a, acc)
    BY <1>8, <2>1 DEF DoReadWord, ServedRequests, ReadWord
  <2> HIDE DEF acc
  <2>4. LruInv(ms') /\ ms'.host = "ok" /\ Lru(ms') = Stack!Access(Lru(ms), Block(a), FALSE)
    BY <1>4, <2>2, <2>3
  <2>5. resp' = Answer("readWord", a, <<ms'.out>>) BY <1>8, <2>4 DEF DoReadWord, Respond
  <2>6. Stack!One(a, "readWord", FALSE) BY <1>5, <2>3, <2>4, <2>5 DEF Stack!One, Answer
  <2> QED BY <2>4, <2>6 DEF Stack!Next
<1>9. ASSUME NEW a \in WordAddrs, NEW word \in Word, DoWriteWord(a, word)
      PROVE  LruInv(ms') /\ Stack!Next
  <2> DEFINE acc == Access("WRITEWORD", word, ZeroWord)
  <2>1. acc \in AccessSet /\ IsWrite(acc) = TRUE
    BY WordTypes DEF Access, AccessSet, IsWrite
  <2>2. a \in Nat /\ Served(a) /\ Running /\ ms' = CheckCache(ms, a, acc)
    BY <1>9 DEF DoWriteWord, ServedRequests, WriteWord
  <2> HIDE DEF acc
  <2>3. LruInv(ms') /\ ms'.host = "ok" /\ Lru(ms') = Stack!Access(Lru(ms), Block(a), TRUE)
    BY <1>4, <2>1, <2>2
  <2>4. resp' = Answer("writeWord", a, <<>>) BY <1>9, <2>3 DEF DoWriteWord, Respond
  <2>5. Stack!One(a, "writeWord", TRUE) BY <1>5, <2>2, <2>3, <2>4 DEF Stack!One, Answer
  <2> QED BY <2>3, <2>5 DEF Stack!Next
<1>10. ASSUME NEW a \in WordAddrs, DoFetch(a) PROVE LruInv(ms') /\ Stack!Next
  <2>1. /\ a \in Nat /\ a + WordSize \in Nat /\ Running
        /\ Served(a) /\ Served(a + WordSize)
    BY <1>10, MemAssumption DEF DoFetch, ServedRequests
  <2>2. PICK junk1 \in Word, junk2 \in Word :
          LET first  == ReadWord(ms, a, FALSE, junk1)
              second == ReadWord(first, a + WordSize, CacheType = 0, junk2)
          IN  ms' = second /\ Respond("fetch", a, <<first.out, second.out>>)
    BY <1>10, <2>1, JunkType DEF DoFetch
  <2> DEFINE acc1 == Access("READWORD", ZeroWord, junk1)
             acc2 == Access("READWORD", ZeroWord, junk2)
             first == CheckCache(ms, a, acc1)
  <2>3. ms' = CheckCache(first, a + WordSize, acc2) BY <2>2 DEF ReadWord
  <2>4. \E out : Respond("fetch", a, out) BY <2>2
  <2>5. /\ acc1 \in AccessSet /\ IsWrite(acc1) = FALSE
        /\ acc2 \in AccessSet /\ IsWrite(acc2) = FALSE
    BY WordTypes DEF Access, AccessSet, IsWrite
  <2> HIDE DEF acc1, acc2
  <2>6. a \in Addr /\ Fits(a, acc1) /\ a + WordSize \in Addr /\ Fits(a + WordSize, acc2)
    BY <2>1, <2>5, ServedFits
  <2>7. /\ LruInv(first) /\ first.host = ms.host
        /\ first.cycles <= ms.cycles + MissCost
        /\ Lru(first) = Stack!Access(Lru(ms), Block(a), FALSE)
    BY <1>3, <2>1, <2>5, <2>6, CheckCacheUses
  <2> HIDE DEF first
  <2>8. first.cycles \in Nat BY <2>7 DEF LruInv, Coherent, MemState
  <2>9. first.cycles + MissCost < CycleMod BY <1>1, <1>2, <1>3, <2>1, <2>7, <2>8
  <2>10. /\ LruInv(ms') /\ ms'.host = first.host
         /\ Lru(ms') = Stack!Access(Lru(first), Block(a + WordSize), FALSE)
    BY <2>3, <2>5, <2>6, <2>7, <2>9, CheckCacheUses
  <2>11. ms'.host = "ok" BY <2>1, <2>7, <2>10 DEF Running
  <2>12. resp'.op = "fetch" /\ resp'.addr = a BY <2>4, <2>11 DEF Respond, Answer
  <2>13. Stack!Two(a) BY <1>5, <2>1, <2>7, <2>10, <2>12 DEF Stack!Two
  <2> QED BY <2>10, <2>13 DEF Stack!Next
<1> QED BY <1>6, <1>7, <1>8, <1>9, <1>10 DEF Next

(* For requests a cache can serve, and while the cycle counter has room,    *)
(* the time stamps and the victim loop keep the blocks of a set in their    *)
(* order of use, drop the one used longest ago, and charge each access what *)
(* LruStack says: for every geometry of the cache, and any requests.        *)
THEOREM LruRefinement ==
  ASSUME ServedRequests, CacheType # 0, ClockHasRoom
  PROVE  Spec => ImplementsLruStack
<1> DEFINE OrderInv == LruInv(ms)
<1>1. Init => OrderInv /\ Stack!Init BY LruInit
<1>2. OrderInv /\ [Next]_vars => OrderInv' /\ [Stack!Next]_(Stack!vars)
  <2>1. CASE Next BY <2>1, LruNext
  <2>2. CASE UNCHANGED vars
    <3>1. ms' = ms /\ resp' = resp BY <2>2 DEF vars
    <3>2. Lru(ms') = Lru(ms) BY <3>1
    <3> QED BY <3>1, <3>2 DEF Stack!vars
  <2> QED BY <2>1, <2>2
<1> HIDE DEF OrderInv
<1> QED BY <1>1, <1>2, PTL DEF Spec, ImplementsLruStack, Stack!Spec
=============================================================================
