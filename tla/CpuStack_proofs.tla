--------------------------- MODULE CpuStack_proofs ---------------------------
(***************************************************************************)
(* The refinement CpuStack.tla states: to a program the processor with a   *)
(* cache is the processor without one.  The mapping keeps every variable   *)
(* but the memory, which becomes what is seen through the cache, with no   *)
(* lines and no clock.  Where a word lies partly in the next line the      *)
(* cache does not answer as memory does, and past the last line of memory  *)
(* it does not stop as memory does; hence the two conditions.              *)
(*                                                                         *)
(* And of the stack the module keeps beside the processor: what is pushed  *)
(* stays on it, through the cache, until it is popped, and a return goes   *)
(* back to its call.                                                       *)
(***************************************************************************)
EXTENDS CpuStack, Cpu_proofs

(* The two processors have the same addresses, bytes and words; but without *)
(* a cache a read finds no junk.                                            *)
LEMMA PlainMemory ==
  /\ Plain!Alloc = Alloc /\ Plain!Addr = Addr
  /\ Plain!ZeroWord = ZeroWord /\ Plain!AllOnes = AllOnes /\ Plain!WordIdx = WordIdx
  /\ Plain!Byte = Byte /\ Plain!Word = Word
  /\ \A a, n : Plain!AddrInRange(a, n) <=> AddrInRange(a, n)
  /\ \A b : Plain!ByteWord(b) = ByteWord(b)
  /\ \A a : Plain!JunkWords(a) = {ZeroWord}
BY DEF Plain!Alloc, Alloc, Plain!Addr, Addr, Plain!AllocSize, AllocSize, Plain!NumBlocks,
   NumBlocks, Plain!ZeroWord, ZeroWord, Plain!AllOnes, AllOnes, Plain!WordIdx, WordIdx,
   Plain!Byte, Byte, Plain!Word, Word, Plain!AddrInRange, AddrInRange, Plain!ByteWord,
   ByteWord, Plain!JunkWords

(* They have the same numbers and instructions,                             *)
LEMMA PlainIsa ==
  /\ Plain!ValMod = ValMod /\ Plain!Val = Val
  /\ \A w : Plain!WordVal(w) = WordVal(w)
  /\ \A v : Plain!ValWord(v) = ValWord(v)
  /\ \A v : Plain!Wrap(v) = Wrap(v)
  /\ \A v : Plain!Signed(v) = Signed(v)
  /\ \A b : Plain!Mnemonic(b) = Mnemonic(b)
  /\ \A f, s : Plain!Control(f, s) = Control(f, s)
BY DEF Plain!ValMod, ValMod, Plain!Val, Val, Plain!WordVal, WordVal, Plain!ValWord,
   ValWord, Plain!Wrap, Wrap, Plain!Mnemonic, Mnemonic, Plain!Opcodes, Opcodes,
   Plain!Control, Control, Plain!WordIdx, WordIdx, Plain!Signed, Signed

(* the same registers and groups of instructions,                           *)
LEMMA PlainNames ==
  /\ Plain!R3 = R3 /\ Plain!PC = PC /\ Plain!SL = SL /\ Plain!SB = SB /\ Plain!SP = SP
  /\ Plain!FP = FP /\ Plain!HP = HP /\ Plain!Reg = Reg
  /\ Plain!Branches = Branches /\ Plain!Arithmetic = Arithmetic
BY DEF R3, PC, SL, SB, SP, FP, HP, Reg, Plain!R3, Plain!PC, Plain!SL, Plain!SB, Plain!SP,
   Plain!FP, Plain!HP, Plain!Reg,
  Branches, Plain!Branches, Arithmetic, Plain!Arithmetic, ThreeRegs, Plain!ThreeRegs,
  RegAndImm, Plain!RegAndImm, Compares, Plain!Compares

(* decode accepts the same instructions,                                    *)
LEMMA PlainDecode == \A c : Plain!Decodes(c) <=> Decodes(c)
BY PlainIsa DEF Decodes, Plain!Decodes, Direct, Plain!Direct, Indirect, Plain!Indirect,
   StackOps, Plain!StackOps,
 Branches, Plain!Branches, RegAndImm, Plain!RegAndImm, ThreeRegs, Plain!ThreeRegs,
 ValidAddr, Plain!ValidAddr, ValidRg, Plain!ValidRg, Igr, Plain!Igr, Reg, Plain!Reg, HP,
 Plain!HP

(* and takes the same values from the register file,                        *)
LEMMA PlainData == \A c, r, d : Plain!DataRegs(c, r, d) = DataRegs(c, r, d)
BY PlainIsa, PlainNames DEF DataRegs, Plain!DataRegs, ThreeRegs, Plain!ThreeRegs

(* and they take the same branches                                          *)
LEMMA PlainTaken == \A o, v : Plain!Taken(o, v) <=> Taken(o, v)
BY PlainIsa DEF Taken, Plain!Taken

(* and compute the same results.                                            *)
LEMMA PlainResult == \A o, a, b : Plain!Result(o, a, b) = Result(o, a, b)
<1>1. \A a : Plain!Abs(a) = Abs(a) BY DEF Abs, Plain!Abs
<1>2. \A a, b : Plain!Quotient(a, b) = Quotient(a, b) BY <1>1 DEF Quotient, Plain!Quotient
<1>3. \A p : Plain!Flag(p) = Flag(p) BY DEF Flag, Plain!Flag
<1>4. \A a, b : Plain!Compared(a, b) = Compared(a, b)
  BY PlainIsa DEF Compared, Plain!Compared
<1>5. Plain!Compares = Compares BY DEF Compares, Plain!Compares
<1> SUFFICES ASSUME NEW o, NEW a, NEW b PROVE Plain!Result(o, a, b) = Result(o, a, b) OBVIOUS
<1>6. Plain!Flag(a # 0 /\ b # 0) = Flag(a # 0 /\ b # 0) /\ Plain!Flag(a # 0 \/ b # 0) = Flag(a # 0 \/ b # 0)
  BY DEF Flag, Plain!Flag
<1> QED BY <1>2, <1>4, <1>5, <1>6, PlainIsa, Zenon DEF Result, Plain!Result

(* An instruction starts from the same operands and addresses,              *)
LEMMA PlainState ==
  /\ Plain!op = op /\ Plain!rd = rd /\ Plain!imm = imm /\ Plain!val1 = val1 /\ Plain!val2 = val2
  /\ Plain!Operand = Operand /\ Plain!LoadAddr = LoadAddr /\ Plain!StoreAddr = StoreAddr
  /\ Plain!SizeAddr = SizeAddr /\ Plain!StackWidth = StackWidth
  /\ \A i : Plain!CharAddr(i) = CharAddr(i)
  /\ Plain!Alive = Alive
BY PlainIsa, PlainNames DEF Plain!op, op, Plain!rd, rd, Plain!imm, imm, Plain!val1, val1,
   Plain!val2, val2,
  Plain!Operand, Operand, Plain!LoadAddr, LoadAddr, Plain!StoreAddr, StoreAddr,
  Plain!SizeAddr, SizeAddr,
  Plain!StackWidth, StackWidth, Plain!CharAddr, CharAddr, Plain!Alive, Alive, PlainMem

(* is refused on the same conditions,                                       *)
LEMMA PlainAccepted == Plain!Accepted <=> Accepted
BY PlainIsa, PlainNames, PlainMemory, PlainState DEF Plain!Accepted, Accepted,
   Plain!HeapFits, HeapFits, Plain!DividesByZero, DividesByZero

(* and executed on the same ones.                                           *)
LEMMA PlainExecutes == \A ops : Plain!Executes(ops) <=> Executes(ops)
BY PlainState, PlainAccepted DEF Executes, Plain!Executes

(* The input traps read the same numbers and characters.                    *)
LEMMA PlainInput ==
  /\ \A s, c : Plain!Run(s, c) = Run(s, c)
  /\ \A s, n : Plain!After(s, n) = After(s, n)
  /\ \A s : Plain!SkipBlanks(s) = SkipBlanks(s)
  /\ \A s : Plain!Number(s) = Number(s)
  /\ Plain!Digits = Digits
  /\ \A m : Plain!ByteOut(m) = ByteOut(m)
<1>0. \A S : Plain!First(S) = First(S) BY DEF First, Plain!First
<1>1. \A s, c : Plain!Run(s, c) = Run(s, c) BY <1>0 DEF Run, Plain!Run
<1>2. \A s, n : Plain!After(s, n) = After(s, n) BY DEF After, Plain!After
<1>3. \A s : Plain!SkipBlanks(s) = SkipBlanks(s) BY <1>1, <1>2 DEF SkipBlanks, Plain!SkipBlanks
<1>4. \A s : Plain!Number(s) = Number(s) BY DEF Number, Plain!Number
<1>5. Plain!Digits = Digits BY DEF Digits, Plain!Digits
<1>6. \A m : Plain!ByteOut(m) = ByteOut(m) BY PlainIsa DEF ByteOut, Plain!ByteOut
<1> QED BY <1>1, <1>2, <1>3, <1>4, <1>5, <1>6

-----------------------------------------------------------------------------
(* A write through the cache leaves the word read last alone.               *)
LEMMA WriteKeepsOut ==
  ASSUME NEW m, Coherent(m), CacheType # 0, NEW a \in Nat, NEW acc \in AccessSet, IsWrite(acc)
  PROVE  CheckCache(m, a, acc).out = m.out
<1> DEFINE s == SetIdx(a)
           n == CheckCache(m, a, acc)
           hits == HitWays(m.cache[s], TagBits(a))
<1>1. s \in Sets /\ Offset(a) \in Offsets BY AddrParts
<1>2. m \in MemState /\ m.cache[s] \in [Ways -> Line] BY <1>1 DEF Coherent, MemState
<1>3. CASE Block(a) \notin Blocks BY <1>2, <1>3 DEF CheckCache, MemState
<1>4. CASE Block(a) \in Blocks /\ hits # {}
  <2>1. PICK w \in hits : TRUE BY <1>4
  <2>2. First(hits) = w BY <1>1, <1>2, <2>1, HitUnique DEF Coherent
  <2>3. w \in Ways /\ m.cache[s][w].valid BY <2>1 DEF HitWays
  <2>4. n = HandleCacheHit(m, s, w, Offset(a), acc) BY <1>4, <2>2 DEF CheckCache
  <2> HIDE DEF n, s
  <2> QED BY <1>1, <1>2, <2>3, <2>4, HitStep DEF n
<1>5. CASE Block(a) \in Blocks /\ hits = {}
  <2> DEFINE w == Victim(m.cache[s])
             m1 == WriteBack(m, s, w)
             m2 == Fill(m1, s, w, a, acc)
  <2>0. a \in Alloc BY <1>5, AllocBlocks
  <2>1. w \in Ways BY <1>2, VictimIsWay
  <2>2. n = HandleCacheHit(m2, s, w, Offset(a), acc) BY <1>5 DEF CheckCache, HandleCacheMiss
  <2>3. \A v \in Ways : ~(m.cache[s][v].valid /\ m.cache[s][v].tag = TagBits(a))
    BY <1>5 DEF HitWays
  <2> HIDE DEF n, w
  <2>4. /\ Coherent(m1) /\ m1.out = m.out
        /\ ~(m1.cache[s][w].valid /\ m1.cache[s][w].dirty)
        /\ \A t \in Sets : \A v \in Ways : /\ m1.cache[t][v].valid = m.cache[t][v].valid
                                           /\ m1.cache[t][v].tag = m.cache[t][v].tag
    BY <1>1, <2>1, WriteBackEffect
  <2>5. \A v \in Ways : ~(m1.cache[s][v].valid /\ m1.cache[s][v].tag = TagBits(a))
    BY <1>1, <2>3, <2>4
  <2> HIDE DEF m1
  <2>6. Coherent(m2) /\ m2.out = m1.out /\ m2.cache[s][w].valid
    BY <1>1, <2>0, <2>1, <2>4, <2>5, FillEffect
  <2>7. m2 \in MemState BY <2>6 DEF Coherent
  <2> HIDE DEF m2, s
  <2>8. n.out = m2.out BY <1>1, <2>1, <2>2, <2>6, <2>7, HitStep
  <2> QED BY <2>4, <2>6, <2>8 DEF n
<1> QED BY <1>3, <1>4, <1>5

(* A memory, by its fields; and the lines of the processor without a cache. *)
Memory(p, c, y, o, h) == [prog_mem |-> p, cache |-> c, cycles |-> y, out |-> o, host |-> h]
PlainLines == [s \in 0..NumCacheLines-1 |-> [w \in {0} |-> BadLine]]

(* What changing a field of a memory gives.                                 *)
LEMMA MemoryFields ==
  ASSUME NEW p, NEW c, NEW y, NEW o, NEW h, NEW v
  PROVE  /\ [Memory(p, c, y, o, h) EXCEPT !.prog_mem = v] = Memory(v, c, y, o, h)
         /\ [Memory(p, c, y, o, h) EXCEPT !.cycles = v] = Memory(p, c, v, o, h)
         /\ [Memory(p, c, y, o, h) EXCEPT !.out = v] = Memory(p, c, y, v, h)
         /\ Memory(p, c, y, o, h).prog_mem = p /\ Memory(p, c, y, o, h).cycles = y
         /\ Memory(p, c, y, o, h).out = o /\ Memory(p, c, y, o, h).host = h
BY DEF Memory

(* What the plain processor has for its memory.                             *)
LEMMA PlainFields ==
  ASSUME NEW m
  PROVE  PlainMem(m) = Memory(View(m), PlainLines, 0, m.out, m.host)
BY DEF PlainMem, PlainLines, Memory

(* An access that changes no byte is a read to the plain processor.         *)
LEMMA PlainAfterRead ==
  ASSUME NEW m, NEW n, n.host = m.host, \A b \in Addr : ViewAt(n, b) = ViewAt(m, b)
  PROVE  PlainMem(n) = [PlainMem(m) EXCEPT !.out = n.out]
<1>1. View(n) = View(m) BY DEF View
<1>2. /\ PlainMem(n) = Memory(View(n), PlainLines, 0, n.out, n.host)
      /\ PlainMem(m) = Memory(View(m), PlainLines, 0, m.out, m.host)
  BY PlainFields
<1>3. [Memory(View(m), PlainLines, 0, m.out, m.host) EXCEPT !.out = n.out]
        = Memory(View(m), PlainLines, 0, n.out, m.host)
  BY MemoryFields
<1> QED BY <1>1, <1>2, <1>3, Zenon

(* The plain processor has no clock.                                        *)
LEMMA PlainSpend == \A m : \A c \in Nat : Plain!Spend(PlainMem(m), c) = PlainMem(m)
<1>1. \A c \in Nat : Plain!Tick(0, c) = 0 BY DEF Plain!Tick
<1> QED BY <1>1, PlainFields, MemoryFields DEF Plain!Spend

(* A read of it sets the word read and nothing else.                        *)
LEMMA PlainLoad ==
  ASSUME NEW m, NEW c \in Nat, NEW word
  PROVE  Plain!Load(Plain!Spend(PlainMem(m), c), word) = [PlainMem(m) EXCEPT !.out = word]
BY PlainSpend DEF Plain!Load

(* A byte read through the cache is the byte the plain processor reads.     *)
LEMMA PlainReadByte ==
  ASSUME NEW m, Coherent(m), NEW a \in Nat, MemSize = AllocSize, ReadByte(m, a).host = "ok"
  PROVE  Plain!ReadByte(PlainMem(m), a) = PlainMem(ReadByte(m, a))
<1> DEFINE n == ReadByte(m, a)
<1>1. CacheType # 0 => a \in Addr
  <2>1. Addr = Alloc BY DEF Addr, Alloc
  <2> QED BY <2>1, CheckCacheOutside DEF ReadByte
<1>2. /\ n.host = m.host
      /\ \A b \in Addr : ViewAt(n, b) = ViewAt(m, b)
      /\ n.out = IF a \in Addr THEN ByteWord(ViewAt(m, a)) ELSE ZeroWord
  BY <1>1, ReadByteEffect
<1> HIDE DEF n
<1>3. PlainMem(n) = [PlainMem(m) EXCEPT !.out = n.out] BY <1>2, PlainAfterRead
<1>4. a \in Addr <=> AddrInRange(a, 1) BY MemAssumption DEF Addr, AddrInRange
<1>5. a \in Addr => PlainMem(m).prog_mem[a] = ViewAt(m, a) BY DEF PlainMem, View
<1>6. Plain!ReadByte(PlainMem(m), a) = [PlainMem(m) EXCEPT !.out =
        IF AddrInRange(a, 1) THEN ByteWord(PlainMem(m).prog_mem[a]) ELSE ZeroWord]
  BY PlainMemory, PlainLoad DEF Plain!ReadByte
<1> QED BY <1>2, <1>3, <1>4, <1>5, <1>6 DEF n

(* A word read through the cache is the word the plain processor reads, if  *)
(* it lies within a line.                                                   *)
LEMMA PlainReadWord ==
  ASSUME NEW m, Coherent(m), NEW a \in Nat, NEW second \in BOOLEAN, NEW junk \in Word,
         MemSize = AllocSize, CacheType # 0 => ~Straddles(a),
         ReadWord(m, a, second, junk).host = "ok"
  PROVE  /\ ReadWord(m, a, second, junk).host = m.host
         /\ \A s \in BOOLEAN :
              Plain!ReadWord(PlainMem(m), a, s, ZeroWord) = PlainMem(ReadWord(m, a, second, junk))
<1> DEFINE n == ReadWord(m, a, second, junk)
<1>2. /\ n.host = m.host
      /\ \A b \in Addr : ViewAt(n, b) = ViewAt(m, b)
      /\ n.out = IF AddrInRange(a, WordSize) THEN ViewWord(m, a) ELSE AllOnes
  BY ReadWithinLine
<1> HIDE DEF n
<1>3. PlainMem(n) = [PlainMem(m) EXCEPT !.out = n.out] BY <1>2, PlainAfterRead
<1>4. AddrInRange(a, WordSize) => [i \in WordIdx |-> PlainMem(m).prog_mem[a + i]] = ViewWord(m, a)
  BY WordInRange DEF PlainMem, View, ViewWord
<1>5. ASSUME NEW s \in BOOLEAN
      PROVE  Plain!ReadWord(PlainMem(m), a, s, ZeroWord) = [PlainMem(m) EXCEPT !.out =
        IF AddrInRange(a, WordSize) THEN [i \in WordIdx |-> PlainMem(m).prog_mem[a + i]] ELSE AllOnes]
  BY PlainMemory, PlainLoad DEF Plain!ReadWord
<1> QED BY <1>2, <1>3, <1>4, <1>5 DEF n

(* After a write the plain memory holds what is seen through the cache.     *)
LEMMA PlainAfterWrite ==
  ASSUME NEW m, NEW n, n.host = m.host, n.out = m.out, MemSize = AllocSize
  PROVE  PlainMem(n) = [PlainMem(m) EXCEPT !.prog_mem = [b \in Alloc |-> ViewAt(n, b)]]
<1>1. Addr = Alloc BY DEF Addr, Alloc
<1>2. View(n) = [b \in Alloc |-> ViewAt(n, b)] BY <1>1 DEF View
<1>3. /\ PlainMem(n) = Memory(View(n), PlainLines, 0, n.out, n.host)
      /\ PlainMem(m) = Memory(View(m), PlainLines, 0, m.out, m.host)
  BY PlainFields
<1>4. [Memory(View(m), PlainLines, 0, m.out, m.host) EXCEPT !.prog_mem = View(n)]
        = Memory(View(n), PlainLines, 0, m.out, m.host)
  BY MemoryFields
<1> QED BY <1>2, <1>3, <1>4, Zenon

(* A byte written through the cache is written to the plain memory.         *)
LEMMA PlainWriteByte ==
  ASSUME NEW m, Coherent(m), NEW a \in Nat, NEW word \in Word, MemSize = AllocSize,
         WriteByte(m, a, word).host = "ok"
  PROVE  Plain!WriteByte(PlainMem(m), a, word) = PlainMem(WriteByte(m, a, word))
<1> DEFINE n == WriteByte(m, a, word)
<1>0. Addr = Alloc BY DEF Addr, Alloc
<1>1. CacheType # 0 => a \in Addr BY <1>0, CheckCacheOutside DEF WriteByte
<1>2. n.host = m.host /\ \A b \in Addr : ViewAt(n, b) = IF b = a THEN word[0] ELSE ViewAt(m, b)
  BY <1>1, WriteByteEffect
<1>3. n.out = m.out
  <2>1. CASE CacheType = 0 BY <2>1 DEF WriteByte, Spend
  <2>2. CASE CacheType # 0
    <3> DEFINE acc == Access("WRITEBYTE", word, ZeroWord)
    <3>1. acc \in AccessSet BY AccessType
    <3>2. IsWrite(acc) BY DEF IsWrite, Access
    <3>3. n = CheckCache(m, a, acc) BY <2>2 DEF WriteByte
    <3> HIDE DEF acc, n
    <3> QED BY <2>2, <3>1, <3>2, <3>3, WriteKeepsOut
  <2> QED BY <2>1, <2>2
<1> HIDE DEF n
<1>4. PlainMem(n) = [PlainMem(m) EXCEPT !.prog_mem = [b \in Alloc |-> ViewAt(n, b)]]
  BY <1>2, <1>3, PlainAfterWrite
<1>5. a \in Addr <=> Plain!AddrInRange(a, 1) BY PlainMemory, MemAssumption DEF Addr, AddrInRange
<1>6. CASE a \in Addr
  <2>1. Plain!WriteByte(PlainMem(m), a, word) = [PlainMem(m) EXCEPT !.prog_mem[a] = word[0]]
    BY <1>5, <1>6, PlainSpend DEF Plain!WriteByte
  <2>2. [b \in Alloc |-> ViewAt(n, b)] = [View(m) EXCEPT ![a] = word[0]]
    BY <1>0, <1>2, <1>6 DEF View
  <2> QED BY <1>4, <2>1, <2>2 DEF n, PlainMem
<1>7. CASE a \notin Addr
  <2>1. Plain!WriteByte(PlainMem(m), a, word) = PlainMem(m)
    BY <1>5, <1>7, PlainSpend DEF Plain!WriteByte
  <2>2. View(n) = View(m) BY <1>2, <1>7 DEF View
  <2> QED BY <1>2, <1>3, <2>1, <2>2 DEF n, PlainMem
<1> QED BY <1>6, <1>7

(* So is a word, if it lies within a line.                                  *)
LEMMA PlainWriteWord ==
  ASSUME NEW m, Coherent(m), NEW a \in Nat, NEW word \in Word, MemSize = AllocSize,
         CacheType # 0 => ~Straddles(a), WriteWord(m, a, word).host = "ok"
  PROVE  Plain!WriteWord(PlainMem(m), a, word) = PlainMem(WriteWord(m, a, word))
<1> DEFINE n == WriteWord(m, a, word)
<1>0. Addr = Alloc BY DEF Addr, Alloc
<1>2. AddrInRange(a, WordSize) BY WriteWithinLine
<1>3. /\ n.host = m.host
      /\ \A b \in Addr : ViewAt(n, b) = IF b \in a..(a + WordSize - 1) THEN word[b - a] ELSE ViewAt(m, b)
  BY WriteWithinLine
<1>4. n.out = m.out
  <2>1. CASE CacheType = 0 BY <1>2, <2>1 DEF WriteWord, Spend
  <2>2. CASE CacheType # 0
    <3> DEFINE acc == Access("WRITEWORD", word, ZeroWord)
    <3>1. acc \in AccessSet BY WordTypes DEF Access, AccessSet
    <3>2. IsWrite(acc) BY DEF IsWrite, Access
    <3>3. n = CheckCache(m, a, acc) BY <2>2 DEF WriteWord
    <3> HIDE DEF acc, n
    <3> QED BY <2>2, <3>1, <3>2, <3>3, WriteKeepsOut
  <2> QED BY <2>1, <2>2
<1> HIDE DEF n
<1>5. PlainMem(n) = [PlainMem(m) EXCEPT !.prog_mem = [b \in Alloc |-> ViewAt(n, b)]]
  BY <1>3, <1>4, PlainAfterWrite
<1> DEFINE mem == [b \in Alloc |-> IF b \in a..(a + WordSize - 1) THEN word[b - a] ELSE PlainMem(m).prog_mem[b]]
<1>6. Plain!WriteWord(PlainMem(m), a, word) = [PlainMem(m) EXCEPT !.prog_mem = mem]
  BY <1>2, PlainMemory, PlainSpend DEF Plain!WriteWord
<1>7. [b \in Alloc |-> ViewAt(n, b)] = mem BY <1>0, <1>3 DEF PlainMem, View
<1> QED BY <1>5, <1>6, <1>7 DEF n

-----------------------------------------------------------------------------
(* The parts of actions that do not touch memory are the same.              *)
LEMMA PlainFrames ==
  /\ Plain!NextInstruction <=> NextInstruction
  /\ Plain!Invalid <=> Invalid
  /\ Plain!NoTrap <=> NoTrap
  /\ Plain!NoFetch <=> NoFetch
  /\ \A r, v : Plain!SetReg(r, v) <=> SetReg(r, v)
  /\ \A n : Plain!Trap(n) <=> Trap(n)
BY PlainExecutes, PlainState DEF NextInstruction, Invalid, NoTrap, NoFetch, SetReg, Trap,
  Plain!NextInstruction, Plain!Invalid, Plain!NoTrap, Plain!NoFetch, Plain!SetReg,
  Plain!Trap

(* What leaves memory and cache alone leaves the plain memory alone.        *)
LEMMA PlainSame == UNCHANGED ms => UNCHANGED PlainMem(ms)
BY DEF PlainMem, View, ViewAt, Hits, HitWays

(* Decode and the refusals are the same steps without a cache,              *)
LEMMA PlainStuck == Decode \/ Malformed \/ Refuse => Plain!Decode \/ Plain!Malformed \/ Plain!Refuse
<1>1. Decode => Plain!Decode
  BY PlainState, PlainDecode, PlainData, PlainSame DEF Decode, Plain!Decode
<1>2. Malformed => Plain!Malformed
  BY PlainState, PlainDecode, PlainSame, PlainNames, PlainMemory DEF Malformed,
     Plain!Malformed, CanFetch, Plain!CanFetch, InstrSize, Plain!InstrSize
<1>3. Refuse => Plain!Refuse
  BY PlainState, PlainAccepted, PlainFrames, PlainSame DEF Refuse, Plain!Refuse
<1> QED BY <1>1, <1>2, <1>3

(* so are the instructions that do not touch memory,                        *)
LEMMA PlainSimple ==
  /\ Jump => Plain!Jump
  /\ Branch => Plain!Branch
  /\ Move => Plain!Move
  /\ Compute => Plain!Compute
  /\ DivisionFault => Plain!DivisionFault
  /\ AllocateImmediate => Plain!AllocateImmediate
<1> USE PlainState, PlainExecutes, PlainFrames, PlainSame, PlainNames
<1>1. Jump => Plain!Jump BY DEF Jump, Plain!Jump
<1>2. Branch => Plain!Branch BY PlainTaken DEF Branch, Plain!Branch
<1>3. Move => Plain!Move BY DEF Move, Plain!Move
<1>4. \A o, a, b : Plain!DivisionTraps(o, a, b) <=> DivisionTraps(o, a, b)
  BY PlainIsa DEF DivisionTraps, Plain!DivisionTraps
<1>5. Compute => Plain!Compute BY <1>4, PlainResult DEF Compute, Plain!Compute
<1>6. DivisionFault => Plain!DivisionFault BY <1>4 DEF DivisionFault, Plain!DivisionFault
<1>7. AllocateImmediate => Plain!AllocateImmediate
  BY DEF AllocateImmediate, Plain!AllocateImmediate, Allocate, Plain!Allocate
<1> QED BY <1>1, <1>2, <1>3, <1>5, <1>6, <1>7

(* the traps that do not,                                                   *)
LEMMA PlainTraps ==
  /\ TrapStop => Plain!TrapStop
  /\ TrapWrite => Plain!TrapWrite
  /\ TrapReadInt => Plain!TrapReadInt
  /\ TrapReadChar => Plain!TrapReadChar
  /\ TrapReadLine => Plain!TrapReadLine
<1> USE PlainState, PlainFrames, PlainSame, PlainNames, PlainInput
<1>1. TrapStop => Plain!TrapStop BY DEF TrapStop, Plain!TrapStop
<1>2. TrapWrite => Plain!TrapWrite BY DEF TrapWrite, Plain!TrapWrite
<1>3. TrapReadInt => Plain!TrapReadInt BY PlainIsa DEF TrapReadInt, Plain!TrapReadInt
<1>4. TrapReadChar => Plain!TrapReadChar BY PlainIsa DEF TrapReadChar, Plain!TrapReadChar
<1>5. TrapReadLine => Plain!TrapReadLine BY PlainMemory DEF TrapReadLine, Plain!TrapReadLine
<1> QED BY <1>1, <1>2, <1>3, <1>4, <1>5

(* and the end of the process.                                              *)
LEMMA PlainEnded == Ended => Plain!Ended
BY PlainSame, PlainState DEF Ended, Plain!Ended, vars, Plain!vars

-----------------------------------------------------------------------------
(* Every access a step makes to memory is the access of the plain           *)
(* processor.                                                               *)
LEMMA PlainAccess ==
  ASSUME CpuInv, Alive', MemSize = AllocSize, NEW a \in Nat
  PROVE  /\ ms' = ReadByte(ms, a) => PlainMem(ms)' = Plain!ReadByte(PlainMem(ms), a)
         /\ \A word \in Word :
              ms' = WriteByte(ms, a, word) => PlainMem(ms)' = Plain!WriteByte(PlainMem(ms), a, word)
         /\ (CacheType # 0 => ~Straddles(a)) =>
              /\ (\E junk \in JunkWords(a) : ms' = ReadWord(ms, a, FALSE, junk)) =>
                   \E junk \in Plain!JunkWords(a) :
                     PlainMem(ms)' = Plain!ReadWord(PlainMem(ms), a, FALSE, junk)
              /\ \A word \in Word :
                   ms' = WriteWord(ms, a, word) => PlainMem(ms)' = Plain!WriteWord(PlainMem(ms), a, word)
         /\ PlainMem(ms)'.out = ms'.out
<1>1. Coherent(ms) /\ ms'.host = "ok" BY DEF CpuInv, Alive
<1>2. PlainMem(ms)' = PlainMem(ms') OBVIOUS
<1>3. ms' = ReadByte(ms, a) => PlainMem(ms)' = Plain!ReadByte(PlainMem(ms), a)
  BY <1>1, <1>2, PlainReadByte
<1>4. \A word \in Word :
        ms' = WriteByte(ms, a, word) => PlainMem(ms)' = Plain!WriteByte(PlainMem(ms), a, word)
  BY <1>1, <1>2, PlainWriteByte
<1>5. ASSUME CacheType # 0 => ~Straddles(a), NEW junk \in JunkWords(a), ms' = ReadWord(ms, a, FALSE, junk)
      PROVE  \E j \in Plain!JunkWords(a) : PlainMem(ms)' = Plain!ReadWord(PlainMem(ms), a, FALSE, j)
  <2>1. junk \in Word BY JunkType
  <2>2. Plain!ReadWord(PlainMem(ms), a, FALSE, ZeroWord) = PlainMem(ms')
    BY <1>1, <1>5, <2>1, PlainReadWord
  <2> QED BY <1>2, <2>2, PlainMemory
<1>6. ASSUME CacheType # 0 => ~Straddles(a), NEW word \in Word, ms' = WriteWord(ms, a, word)
      PROVE  PlainMem(ms)' = Plain!WriteWord(PlainMem(ms), a, word)
  BY <1>1, <1>2, <1>6, PlainWriteWord
<1>7. PlainMem(ms)'.out = ms'.out BY <1>2 DEF PlainMem
<1> QED BY <1>3, <1>4, <1>5, <1>6, <1>7

(* So the loads, the stores and the allocations are the same steps,         *)
LEMMA PlainLoadStore ==
  ASSUME CpuInv, Alive', MemSize = AllocSize, WordsInLines
  PROVE  /\ LoadRegister => Plain!LoadRegister
         /\ StoreRegister => Plain!StoreRegister
         /\ AllocateFromMemory => Plain!AllocateFromMemory
<1> USE PlainState, PlainExecutes, PlainFrames, PlainNames, PlainIsa
<1>1. LoadAddr \in Nat /\ StoreAddr \in Nat /\ SizeAddr \in Nat
  BY RegisterValues DEF LoadAddr, StoreAddr, SizeAddr
<1>2. ValWord(val1) \in Word /\ ByteWord(val1 % ByteMod) \in Word BY OperandTypes, ConstantValues
<1>3. ASSUME LoadRegister PROVE Plain!LoadRegister
  <2>1. CacheType # 0 => ~Straddles(LoadAddr) \/ op \notin {"LDR", "ILDR"}
    BY <1>3 DEF WordsInLines, LoadRegister, Executes
  <2>2. CASE /\ Executes({"LDR", "ILDR"})
             /\ \E junk \in JunkWords(LoadAddr) : ms' = ReadWord(ms, LoadAddr, FALSE, junk)
    BY <1>1, <1>3, <2>1, <2>2, PlainAccess DEF LoadRegister, Plain!LoadRegister, Executes
  <2>3. CASE Executes({"LDB", "ILDB"}) /\ ms' = ReadByte(ms, LoadAddr)
    BY <1>1, <1>3, <2>3, PlainAccess DEF LoadRegister, Plain!LoadRegister
  <2> QED BY <1>3, <2>2, <2>3 DEF LoadRegister
<1>4. ASSUME StoreRegister PROVE Plain!StoreRegister
  <2>1. CASE Executes({"STR", "ISTR"}) /\ ms' = WriteWord(ms, StoreAddr, ValWord(val1))
    <3>1. CacheType # 0 => ~Straddles(StoreAddr) BY <2>1 DEF WordsInLines, Executes
    <3> QED BY <1>1, <1>2, <1>4, <2>1, <3>1, PlainAccess DEF StoreRegister, Plain!StoreRegister
  <2>2. CASE Executes({"STB", "ISTB"}) /\ ms' = WriteByte(ms, StoreAddr, ByteWord(val1 % ByteMod))
    BY <1>1, <1>2, <1>4, <2>2, PlainAccess, PlainMemory DEF StoreRegister,
       Plain!StoreRegister
  <2> QED BY <1>4, <2>1, <2>2 DEF StoreRegister
<1>5. ASSUME AllocateFromMemory PROVE Plain!AllocateFromMemory
  <2>1. CacheType # 0 => ~Straddles(SizeAddr) BY <1>5 DEF WordsInLines, AllocateFromMemory, Executes
  <2>2. Plain!NoRoom <=> NoRoom BY DEF NoRoom, Plain!NoRoom
  <2>3. \A h : (Plain!Allocate(h) <=> Allocate(h)) /\ (Plain!HeapFits(h) <=> HeapFits(h))
    BY DEF Allocate, Plain!Allocate, HeapFits, Plain!HeapFits
  <2> QED BY <1>1, <1>5, <2>1, <2>2, <2>3, PlainAccess DEF AllocateFromMemory, Plain!AllocateFromMemory
<1> QED BY <1>3, <1>4, <1>5

(* the instructions of the stack are,                                       *)
LEMMA PlainStack ==
  ASSUME CpuInv, Alive', MemSize = AllocSize, WordsInLines
  PROVE  /\ Push => Plain!Push
         /\ Pop => Plain!Pop
         /\ Call => Plain!Call
         /\ Return => Plain!Return
<1> USE PlainState, PlainExecutes, PlainFrames, PlainNames, PlainIsa
<1>1. \A r, sp : Plain!StackHolds(r, sp) <=> StackHolds(r, sp) BY DEF StackHolds, Plain!StackHolds
<1>2. \A a : Plain!ValidAddr(a) <=> ValidAddr(a) BY DEF ValidAddr, Plain!ValidAddr
<1>3. /\ ValWord(val1) \in Word /\ ByteWord(val1 % ByteMod) \in Word /\ ValWord(reg[PC]) \in Word
      /\ Wrap(reg[SP] - StackWidth) \in Nat /\ Wrap(reg[SP] - WordSize) \in Nat /\ reg[SP] \in Nat
  <2>1. StackWidth \in Nat BY RegisterValues DEF StackWidth
  <2> QED BY <2>1, OperandTypes, RegisterValues, ConstantValues
<1>4. ASSUME Push PROVE Plain!Push
  <2> DEFINE newSP == Wrap(reg[SP] - StackWidth)
  <2>1. ms' = Pushed(newSP) => PlainMem(ms)' = Plain!Pushed(newSP)
    <3>1. CASE op = "PSHR"
      <4>1. CacheType # 0 => ~Straddles(newSP) BY <1>4, <3>1 DEF WordsInLines, Push, Executes, StackWidth
      <4> QED BY <1>3, <3>1, <4>1, PlainAccess DEF Pushed, Plain!Pushed
    <3>2. CASE op # "PSHR" BY <1>3, <3>2, PlainAccess, PlainMemory DEF Pushed, Plain!Pushed
    <3> QED BY <3>1, <3>2
  <2> QED BY <1>1, <1>4, <2>1, PlainSame DEF Push, Plain!Push
<1>5. ASSUME Pop PROVE Plain!Pop
  <2>1. op = "POPR" => (CacheType # 0 => ~Straddles(reg[SP])) BY <1>5 DEF WordsInLines, Pop, Executes
  <2>2. IF op = "POPR"
        THEN \E junk \in Plain!JunkWords(reg[SP]) :
               PlainMem(ms)' = Plain!ReadWord(PlainMem(ms), reg[SP], FALSE, junk)
        ELSE PlainMem(ms)' = Plain!ReadByte(PlainMem(ms), reg[SP])
    BY <1>3, <1>5, <2>1, PlainAccess DEF Pop
  <2>3. PlainMem(ms)'.out = ms'.out BY <1>3, PlainAccess
  <2> QED BY <1>1, <1>5, <2>2, <2>3 DEF Pop, Plain!Pop
<1>6. ASSUME Call PROVE Plain!Call
  <2> DEFINE newSP == Wrap(reg[SP] - WordSize)
  <2>1. CacheType # 0 => ~Straddles(newSP) BY <1>6 DEF WordsInLines, Call, Executes
  <2>2. ms' = WriteWord(ms, newSP, ValWord(reg[PC])) =>
          PlainMem(ms)' = Plain!WriteWord(PlainMem(ms), newSP, ValWord(reg[PC]))
    BY <1>3, <2>1, PlainAccess
  <2> QED BY <1>2, <1>6, <2>2, PlainSame DEF Call, Plain!Call
<1>7. ASSUME Return PROVE Plain!Return
  <2>1. CacheType # 0 => ~Straddles(reg[SP]) BY <1>7 DEF WordsInLines, Return, Executes
  <2>2. \E junk \in Plain!JunkWords(reg[SP]) :
          PlainMem(ms)' = Plain!ReadWord(PlainMem(ms), reg[SP], FALSE, junk)
    BY <1>3, <1>7, <2>1, PlainAccess DEF Return
  <2>3. PlainMem(ms)'.out = ms'.out BY <1>3, PlainAccess
  <2> QED BY <1>2, <1>7, <2>2, <2>3 DEF Return, Plain!Return
<1> QED BY <1>4, <1>5, <1>6, <1>7

(* and the steps of the string traps.                                       *)
LEMMA PlainStrings ==
  ASSUME CpuInv, Alive', MemSize = AllocSize
  PROVE  /\ TrapPrint => Plain!TrapPrint
         /\ PrintChar => Plain!PrintChar
         /\ PrintEnd => Plain!PrintEnd
         /\ StoreChar => Plain!StoreChar
<1> USE PlainState, PlainFrames, PlainInput
<1>1. \A i \in Int : CharAddr(i) \in Nat BY CharAddrType
<1>2. PlainMem(ms)'.out = ms'.out /\ Plain!ByteOut(PlainMem(ms)') = ByteOut(ms')
  <2>1. 0 \in Nat OBVIOUS
  <2>2. PlainMem(ms)'.out = ms'.out BY <2>1, PlainAccess
  <2> QED BY <2>2, PlainIsa DEF ByteOut, Plain!ByteOut
<1>3. ASSUME TrapPrint PROVE Plain!TrapPrint
  <2>1. CharAddr(0) \in Nat BY <1>1
  <2>2. PlainMem(ms)' = Plain!ReadByte(PlainMem(ms), CharAddr(0))
    BY <1>3, <2>1, PlainAccess DEF TrapPrint
  <2> QED BY <1>2, <1>3, <2>2 DEF TrapPrint, Plain!TrapPrint
<1>4. ASSUME PrintChar PROVE Plain!PrintChar
  <2>1. pos \in Int BY DEF CpuInv, TypeOK
  <2> QED BY <1>1, <1>2, <1>4, <2>1, PlainAccess DEF PrintChar, Plain!PrintChar
<1>5. ASSUME PrintEnd PROVE Plain!PrintEnd
  <2>1. Len(text) = 1 BY <1>5 DEF CpuInv, PrintEnd
  <2>2. text[1] + 1 \in Int BY <2>1, LengthByte
  <2> QED BY <1>1, <1>2, <1>5, <2>2, PlainAccess DEF PrintEnd, Plain!PrintEnd
<1>6. ASSUME StoreChar PROVE Plain!StoreChar
  <2>1. pos \in 1..Len(text) /\ text \in Seq(Byte) BY <1>6 DEF CpuInv, TypeOK, StoreChar
  <2>2. ByteWord(text[pos]) \in Word /\ pos - 1 \in Int BY <2>1, WordTypes
  <2>3. ms' = WriteByte(ms, CharAddr(pos - 1), ByteWord(text[pos])) BY <1>6 DEF StoreChar
  <2>4. PlainMem(ms)' = Plain!WriteByte(PlainMem(ms), CharAddr(pos - 1), ByteWord(text[pos]))
    BY <1>1, <2>2, <2>3, PlainAccess
  <2> QED BY <1>6, <2>4, PlainMemory DEF StoreChar, Plain!StoreChar
<1> QED BY <1>3, <1>4, <1>5, <1>6

(* With the cache empty the processor sees the memory itself.               *)
LEMMA PlainEmpty ==
  ASSUME NEW m \in MemState, CacheEmpty(m), MemSize = AllocSize
  PROVE  PlainMem(m).prog_mem = m.prog_mem
<1>1. Addr = Alloc BY DEF Addr, Alloc
<1>2. \A a \in Addr : a \in Nat /\ SetIdx(a) \in Sets BY AddrInAlloc, AddrParts
<1>3. \A a \in Addr : ViewAt(m, a) = m.prog_mem[a] BY <1>2, ViewMiss DEF CacheEmpty
<1>4. m.prog_mem \in [Alloc -> Byte] BY DEF MemState
<1> QED BY <1>1, <1>3, <1>4 DEF PlainMem, View

(* So load_binary, which does not go through the cache, loads the same      *)
(* memory:                                                                  *)
LEMMA PlainWithBytes ==
  ASSUME CpuInv, stage = "load", NEW bytes \in Seq(Byte), NEW n \in 0..Len(bytes),
         MemSize = AllocSize
  PROVE  Plain!WithBytes(bytes, n) = PlainMem(WithBytes(bytes, n))
<1> DEFINE m == WithBytes(bytes, n)
           mem == [a \in Alloc |-> IF a < n THEN bytes[a + 1] ELSE ms.prog_mem[a]]
<1>1. ms \in MemState /\ CacheEmpty(ms) BY DEF CpuInv, TypeOK
<1>2. /\ m.prog_mem = mem /\ m.cache = ms.cache /\ m.out = ms.out /\ m.host = ms.host
      /\ m.cycles = ms.cycles
  BY <1>1 DEF WithBytes, MemState
<1>3. m \in MemState /\ CacheEmpty(m)
  <2>1. m \in MemState BY WithBytesEffect DEF Coherent
  <2> QED BY <1>1, <1>2, <2>1 DEF CacheEmpty
<1> HIDE DEF m
<1>4. View(ms) = ms.prog_mem /\ View(m) = m.prog_mem
  BY <1>1, <1>3, PlainEmpty DEF PlainMem
<1>5. Plain!WithBytes(bytes, n) = [PlainMem(ms) EXCEPT !.prog_mem = mem]
  <2>1. PlainMem(ms).prog_mem = ms.prog_mem BY <1>4 DEF PlainMem
  <2> QED BY <2>1, PlainMemory DEF Plain!WithBytes
<1> HIDE DEF mem
<1>6. PlainMem(ms) = Memory(View(ms), PlainLines, 0, ms.out, ms.host)
      /\ PlainMem(m) = Memory(View(m), PlainLines, 0, m.out, m.host)
  BY PlainFields
<1>7. [Memory(View(ms), PlainLines, 0, ms.out, ms.host) EXCEPT !.prog_mem = mem]
        = Memory(mem, PlainLines, 0, ms.out, ms.host)
  BY MemoryFields
<1>8. PlainMem(m) = Memory(mem, PlainLines, 0, ms.out, ms.host) BY <1>2, <1>4, <1>6
<1> QED BY <1>5, <1>6, <1>7, <1>8, Zenon DEF m

(* its outcomes are those without a cache.                                  *)
LEMMA PlainLoading ==
  ASSUME CpuInv, MemSize = AllocSize
  PROVE  /\ LoadRefused => Plain!LoadRefused
         /\ LoadIncomplete => Plain!LoadIncomplete
         /\ LoadProgram => Plain!LoadProgram
<1> USE PlainSame, PlainNames
<1>1. \A bytes : Plain!FirstWord(bytes) = FirstWord(bytes)
  BY PlainIsa, PlainMemory DEF FirstWord, Plain!FirstWord
<1>2. \A f : Plain!LoadResult(f) = LoadResult(f) BY <1>1 DEF LoadResult, Plain!LoadResult
<1>3. file.bytes \in Seq(Byte) /\ Len(file.bytes) \in 0..Len(file.bytes) BY DEF CpuInv, TypeOK
<1>4. ASSUME stage = "load"
      PROVE  \A n \in 0..Len(file.bytes) :
               Plain!WithBytes(file.bytes, n) = PlainMem(WithBytes(file.bytes, n))
  BY <1>3, <1>4, PlainWithBytes
<1>5. PlainMem(ms)' = PlainMem(ms') OBVIOUS
<1>6. LoadRefused => Plain!LoadRefused BY <1>2 DEF LoadRefused, Plain!LoadRefused
<1>7. LoadIncomplete => Plain!LoadIncomplete
  BY <1>2, <1>3, <1>4, <1>5 DEF LoadIncomplete, Plain!LoadIncomplete
<1>8. LoadProgram => Plain!LoadProgram
  BY <1>1, <1>2, <1>3, <1>4, <1>5 DEF LoadProgram, Plain!LoadProgram
<1> QED BY <1>6, <1>7, <1>8

(* A fetch reads the same two words, in whichever way it is charged for     *)
(* them.                                                                    *)
LEMMA PlainFetch ==
  ASSUME CpuInv, Alive', MemSize = AllocSize, WordsInLines
  PROVE  Fetch => Plain!Fetch
<1> SUFFICES ASSUME Fetch PROVE Plain!Fetch OBVIOUS
<1>1. PICK junk1 \in JunkWords(reg[PC]), junk2 \in JunkWords(reg[PC] + WordSize) :
        LET first  == ReadWord(ms, reg[PC], FALSE, junk1)
            second == ReadWord(first, reg[PC] + WordSize, CacheType = 0, junk2)
        IN  ms' = second /\ cntrl' = Control(first.out, second.out)
  BY DEF Fetch
<1> DEFINE first  == ReadWord(ms, reg[PC], FALSE, junk1)
           second == ReadWord(first, reg[PC] + WordSize, CacheType = 0, junk2)
<1>2. Coherent(ms) /\ ms'.host = "ok" BY DEF CpuInv, Alive
<1>3. /\ reg[PC] \in Nat /\ reg[PC] + WordSize \in Nat /\ (CacheType = 0) \in BOOLEAN
      /\ junk1 \in Word /\ junk2 \in Word
  BY RegisterValues, JunkType
<1>4. CacheType # 0 => ~Straddles(reg[PC]) /\ ~Straddles(reg[PC] + WordSize)
  BY DEF WordsInLines, Fetch
<1>5. Coherent(first) BY <1>2, <1>3, ReadWordEffect
<1>6. ms' = second /\ cntrl' = Control(first.out, second.out) BY <1>1
<1>7. second.host = "ok" BY <1>2, <1>6
<1>8. /\ second.host = first.host
      /\ \A s \in BOOLEAN :
           Plain!ReadWord(PlainMem(first), reg[PC] + WordSize, s, ZeroWord) = PlainMem(second)
  BY <1>3, <1>4, <1>5, <1>7, PlainReadWord
<1>9. \A s \in BOOLEAN : Plain!ReadWord(PlainMem(ms), reg[PC], s, ZeroWord) = PlainMem(first)
  <2>1. first.host = "ok" /\ FALSE \in BOOLEAN BY <1>7, <1>8
  <2> QED BY <1>2, <1>3, <1>4, <2>1, PlainReadWord
<1> HIDE DEF first, second
<1>10. PlainMem(ms)' = PlainMem(second) BY <1>6
<1>11. PlainMem(first).out = first.out /\ PlainMem(second).out = second.out BY DEF PlainMem
<1>12. /\ PlainMem(ms)' = Plain!ReadWord(Plain!ReadWord(PlainMem(ms), reg[PC], FALSE, ZeroWord),
                                         reg[PC] + WordSize, TRUE, ZeroWord)
       /\ cntrl' = Plain!Control(Plain!ReadWord(PlainMem(ms), reg[PC], FALSE, ZeroWord).out, PlainMem(ms)'.out)
  BY <1>6, <1>8, <1>9, <1>10, <1>11, PlainIsa
<1>13. ZeroWord \in Plain!JunkWords(reg[PC]) /\ ZeroWord \in Plain!JunkWords(reg[PC] + WordSize)
  BY PlainMemory
<1>14. Plain!CanFetch /\ Plain!Wrap(reg[PC] + Plain!InstrSize) = Wrap(reg[PC] + InstrSize)
  BY PlainMemory, PlainNames, PlainIsa DEF Fetch, CanFetch, Plain!CanFetch, InstrSize,
     Plain!InstrSize
<1> QED BY <1>12, <1>13, <1>14, PlainNames, PlainState DEF Fetch, Plain!Fetch

(* The plain processor starts where this one starts.                        *)
LEMMA PlainStart == ASSUME Init, MemSize = AllocSize PROVE Plain!Init
<1>1. PICK bytes \in InitBytes : ms = InitMem(bytes) BY DEF Init
<1>2. ms \in MemState /\ CacheEmpty(ms) BY InitCpuInv DEF CpuInv, TypeOK, Init
<1>3. View(ms) = bytes BY <1>1, <1>2, PlainEmpty DEF PlainMem, InitMem
<1>4. PlainMem(ms) = Memory(bytes, PlainLines, 0, ZeroWord, "ok")
  BY <1>1, <1>3, PlainFields DEF InitMem
<1>5. Plain!InitMem(bytes) = Memory(bytes, PlainLines, 0, ZeroWord, "ok")
  <2>1. Plain!Associativity = 1 BY DEF Plain!Associativity
  <2>2. Plain!NumSets = NumCacheLines BY <2>1, MemAssumption DEF Plain!NumSets
  <2>3. Plain!Sets = 0..NumCacheLines-1 BY <2>2 DEF Plain!Sets
  <2>4. Plain!Ways = {0} BY <2>1 DEF Plain!Ways
  <2>5. Plain!BadLine = BadLine BY DEF Plain!BadLine, BadLine, Plain!Offsets, Offsets
  <2> QED BY <2>3, <2>4, <2>5, PlainMemory DEF Plain!InitMem, PlainLines, Memory
<1>6. \E b \in InitBytes : PlainMem(ms) = Plain!InitMem(b) BY <1>4, <1>5
<1> QED BY <1>6, PlainNames DEF Init, Plain!Init, NoData, Plain!NoData

(* Every step that leaves the process alive is a step without a cache.      *)
LEMMA PlainStep ==
  ASSUME CpuInv, Alive', MemSize = AllocSize, WordsInLines, Next
  PROVE  Plain!Next
BY PlainLoading, PlainFetch, PlainStuck, PlainSimple, PlainLoadStore, PlainStack,
   PlainTraps,
   PlainStrings, PlainEnded DEF Next, Plain!Next

(* A run with the history of the stack is a run of the processor.           *)
LEMMA StackRefines == StackSpec => Spec
<1>1. StackInit => Init BY DEF StackInit
<1>2. [StackNext]_stackVars => [Next]_vars BY DEF StackNext, stackVars, vars
<1> QED BY <1>1, <1>2, PTL DEF StackSpec, Spec

(* No program whose words lie within lines can tell whether there is a      *)
(* cache, its kind, its size or what evictions it causes, if the memory is  *)
(* a whole number of blocks.                                                *)
THEOREM CacheAlwaysTransparent ==
  ASSUME MemSize = AllocSize
  PROVE  StackSpec /\ []WordsInLines => CacheIsTransparent
<1>1. Init => Plain!Init BY PlainStart
<1>2. CpuInv /\ WordsInLines /\ [Next]_vars => [Alive' => Plain!Next]_vars BY PlainStep
<1> QED BY <1>1, <1>2, StackRefines, CpuInvariance, PTL DEF Spec, CacheIsTransparent

-----------------------------------------------------------------------------
(* The stack holds what was pushed, and RET and POPR find it, for every     *)
(* program that leaves SP and SB to the stack instructions and stores       *)
(* nowhere between them.                                                    *)

(* The stages the loop of the emulator goes through.                        *)
Running == stage \in {"load", "fetch", "decode", "execute", "print", "store"}

(* Registers r and memory m hold the bytes p on the stack, the top first.   *)
Stacked(r, m, p) ==
  /\ r[SB] = MemSize /\ r[SP] \in Nat /\ p \in Seq(Byte)
  /\ r[SP] + Len(p) = MemSize
  /\ \A i \in 1..Len(p) : ViewAt(m, r[SP] + i - 1) = p[i]

(* The inductive invariant: nothing is pushed before the program is loaded, *)
(* what is executed was decoded, and the stack holds what was pushed in     *)
(* every stage of a process that is alive.                                  *)
StackInv ==
  /\ stage = "load" => pushed = <<>>
  /\ stage = "execute" => Decodes(cntrl)
  /\ Running /\ Alive => Stacked(reg, ms, pushed)

(* What every step starts from.                                             *)
StackStart == CpuInv /\ StackInv /\ WordsInLines /\ LeavesStackAlone /\ MemSize = AllocSize

(* It holds at the start.                                                   *)
LEMMA InitStackInv == StackInit => StackInv
<1> SUFFICES ASSUME StackInit PROVE StackInv OBVIOUS
<1>1. reg[SB] = MemSize /\ reg[SP] = MemSize /\ pushed = <<>> /\ stage = "load"
  BY DEF StackInit, Init, SB, SP, Reg
<1>2. MemSize \in Nat BY MemAssumption
<1>3. pushed \in Seq(Byte) /\ Len(pushed) = 0 BY <1>1
<1> QED BY <1>1, <1>2, <1>3 DEF StackInv, Stacked

(* A byte of the stack is in memory.                                        *)
LEMMA StackInMemory ==
  ASSUME Stacked(reg, ms, pushed), NEW i \in 1..Len(pushed)
  PROVE  reg[SP] + i - 1 \in Addr
<1>1. Len(pushed) \in Nat /\ reg[SP] \in Nat BY DEF Stacked
<1> QED BY <1>1, MemAssumption DEF Stacked, Addr

(* A step that leaves the two registers and the bytes between them alone    *)
(* keeps the stack.                                                         *)
LEMMA StackedSame ==
  ASSUME Stacked(reg, ms, pushed), reg'[SP] = reg[SP], reg'[SB] = reg[SB], pushed' = pushed,
         \A b \in Addr : reg[SP] <= b => ViewAt(ms', b) = ViewAt(ms, b)
  PROVE  Stacked(reg', ms', pushed')
<1>1. \A i \in 1..Len(pushed) : ViewAt(ms', reg[SP] + i - 1) = pushed[i]
  <2> SUFFICES ASSUME NEW i \in 1..Len(pushed) PROVE ViewAt(ms', reg[SP] + i - 1) = pushed[i]
    OBVIOUS
  <2>1. reg[SP] + i - 1 \in Addr BY StackInMemory
  <2>2. reg[SP] <= reg[SP] + i - 1
    <3>1. reg[SP] \in Nat /\ Len(pushed) \in Nat BY DEF Stacked
    <3> QED BY <3>1
  <2> QED BY <2>1, <2>2 DEF Stacked
<1> QED BY <1>1 DEF Stacked

(* A push puts its bytes on top of it.                                      *)
LEMMA StackedPush ==
  ASSUME Stacked(reg, ms, pushed), NEW n \in Nat, NEW q \in Seq(Byte), Len(q) = n,
         reg'[SP] = reg[SP] - n, reg'[SP] \in Nat, reg'[SB] = reg[SB], pushed' = q \o pushed,
         \A b \in Addr : ViewAt(ms', b) = IF b \in reg'[SP]..(reg'[SP] + n - 1)
                                          THEN q[b - reg'[SP] + 1] ELSE ViewAt(ms, b)
  PROVE  Stacked(reg', ms', pushed')
<1>1. reg[SP] \in Nat /\ pushed \in Seq(Byte) /\ Len(pushed) \in Nat /\ reg[SP] + Len(pushed) = MemSize
  BY DEF Stacked
<1>2. /\ pushed' \in Seq(Byte) /\ Len(pushed') = n + Len(pushed)
      /\ \A i \in 1..n + Len(pushed) : pushed'[i] = IF i <= n THEN q[i] ELSE pushed[i - n]
  BY <1>1, ConcatProperties
<1>3. ASSUME NEW i \in 1..n + Len(pushed)
      PROVE  ViewAt(ms', reg'[SP] + i - 1) = pushed'[i]
  <2>1. i \in Nat /\ i >= 1 /\ i <= n + Len(pushed) BY <1>1
  <2>2. reg'[SP] + i - 1 \in Addr
    <3>1. reg'[SP] + i - 1 \in 0..MemSize-1 BY <1>1, <2>1, MemAssumption
    <3> QED BY <3>1 DEF Addr
  <2>3. CASE i <= n
    <3>1. reg'[SP] + i - 1 \in reg'[SP]..(reg'[SP] + n - 1) BY <2>1, <2>3
    <3>2. (reg'[SP] + i - 1) - reg'[SP] + 1 = i BY <2>1
    <3> QED BY <1>2, <2>2, <2>3, <3>1, <3>2
  <2>4. CASE ~(i <= n)
    <3>1. reg'[SP] + i - 1 \notin reg'[SP]..(reg'[SP] + n - 1) BY <2>1, <2>4
    <3>2. i - n \in 1..Len(pushed) /\ reg'[SP] + i - 1 = reg[SP] + (i - n) - 1
      BY <1>1, <2>1, <2>4
    <3>3. ViewAt(ms, reg[SP] + (i - n) - 1) = pushed[i - n] BY <3>2 DEF Stacked
    <3> QED BY <1>2, <2>2, <2>4, <3>1, <3>2, <3>3
  <2> QED BY <2>3, <2>4
<1>4. reg'[SP] + Len(pushed') = MemSize BY <1>1, <1>2
<1>5. reg'[SB] = MemSize BY DEF Stacked
<1> QED BY <1>2, <1>3, <1>4, <1>5 DEF Stacked

(* A pop takes its bytes off it.                                            *)
LEMMA StackedPop ==
  ASSUME Stacked(reg, ms, pushed), NEW n \in Nat, n <= Len(pushed),
         reg'[SP] = reg[SP] + n, reg'[SB] = reg[SB],
         pushed' = SubSeq(pushed, n + 1, Len(pushed)),
         \A b \in Addr : ViewAt(ms', b) = ViewAt(ms, b)
  PROVE  Stacked(reg', ms', pushed')
<1>1. reg[SP] \in Nat /\ pushed \in Seq(Byte) /\ Len(pushed) \in Nat /\ reg[SP] + Len(pushed) = MemSize
  BY DEF Stacked
<1>2. \A i \in n+1..Len(pushed) : pushed[i] \in Byte BY <1>1
<1>3. /\ pushed' \in Seq(Byte) /\ Len(pushed') = Len(pushed) - n
      /\ \A i \in 1..Len(pushed) - n : pushed'[i] = pushed[n + i]
  <2>1. /\ SubSeq(pushed, n + 1, Len(pushed)) \in Seq(Byte)
        /\ Len(SubSeq(pushed, n + 1, Len(pushed))) =
             IF n + 1 <= Len(pushed) THEN Len(pushed) - (n + 1) + 1 ELSE 0
        /\ \A i \in 1..Len(pushed) - (n + 1) + 1 :
             SubSeq(pushed, n + 1, Len(pushed))[i] = pushed[n + 1 + i - 1]
    <3> HIDE DEF Byte
    <3>1. n + 1 \in Int /\ Len(pushed) \in Int BY <1>1
    <3> QED BY <1>2, <3>1, SubSeqProperties
  <2> DEFINE t == SubSeq(pushed, n + 1, Len(pushed))
             l == Len(pushed)
  <2> HIDE DEF t, l
  <2>2. l \in Nat /\ pushed' = t BY <1>1 DEF l, t
  <2>3. /\ t \in Seq(Byte) /\ Len(t) = IF n + 1 <= l THEN l - (n + 1) + 1 ELSE 0
        /\ \A i \in 1..l - (n + 1) + 1 : t[i] = pushed[n + 1 + i - 1]
    BY <2>1 DEF t, l
  <2>4. l - (n + 1) + 1 = l - n /\ n <= l /\ \A i \in Int : n + 1 + i - 1 = n + i
    BY <2>2 DEF l
  <2>5. Len(t) = l - n BY <2>2, <2>3, <2>4
  <2>6. \A i \in 1..l - n : t[i] = pushed[n + i]
    <3> SUFFICES ASSUME NEW i \in 1..l - n PROVE t[i] = pushed[n + i] OBVIOUS
    <3>1. i \in Int /\ n + 1 + i - 1 = n + i BY <2>2
    <3> QED BY <2>3, <2>4, <3>1
  <2> QED BY <2>2, <2>3, <2>5, <2>6 DEF l
<1>4. ASSUME NEW i \in 1..Len(pushed) - n
      PROVE  ViewAt(ms', reg'[SP] + i - 1) = pushed'[i]
  <2>1. n + i \in 1..Len(pushed) /\ reg'[SP] + i - 1 = reg[SP] + (n + i) - 1 BY <1>1
  <2>2. reg[SP] + (n + i) - 1 \in Addr BY <2>1, StackInMemory
  <2>3. ViewAt(ms, reg[SP] + (n + i) - 1) = pushed[n + i] BY <2>1 DEF Stacked
  <2> QED BY <1>3, <2>1, <2>2, <2>3
<1>5. reg'[SP] \in Nat /\ reg'[SP] + Len(pushed') = MemSize
  <2>1. Len(pushed') = Len(pushed) - n BY <1>3
  <2>2. reg[SP] \in Nat /\ Len(pushed) \in Nat /\ reg[SP] + Len(pushed) = MemSize BY <1>1
  <2> QED BY <2>1, <2>2
<1>6. reg'[SB] = MemSize BY DEF Stacked
<1>7. \A i \in 1..Len(pushed') : ViewAt(ms', reg'[SP] + i - 1) = pushed'[i] BY <1>3, <1>4
<1> QED BY <1>3, <1>5, <1>6, <1>7 DEF Stacked

-----------------------------------------------------------------------------
(* The history changes with the instructions of the stack only.             *)
LEMMA HistoryKept ==
  ASSUME Next, pushed' = History, ~(Push \/ Pop \/ Call \/ Return)
  PROVE  pushed' = pushed
<1> SUFFICES ASSUME stage = "execute", stage' = "fetch",
                    op \in {"PSHR", "PSHB", "CALL", "POPR", "RET", "POPB"}
             PROVE  FALSE
  BY DEF History
<1> USE DEF Executes, Trap
<1>1. CASE LoadRefused \/ LoadIncomplete \/ LoadProgram \/ Fetch \/ Decode \/ Malformed \/ Refuse
  BY <1>1 DEF LoadRefused, LoadIncomplete, LoadProgram, Fetch, Decode, Malformed, Refuse, Invalid
<1>2. CASE Jump \/ Branch \/ Move \/ Compute \/ DivisionFault
  BY <1>2 DEF Jump, Branch, Move, Compute, DivisionFault, Branches, Arithmetic, ThreeRegs,
              RegAndImm, Compares
<1>3. CASE LoadRegister \/ StoreRegister \/ AllocateImmediate \/ AllocateFromMemory
  BY <1>3 DEF LoadRegister, StoreRegister, AllocateImmediate, AllocateFromMemory
<1>4. CASE TrapStop \/ TrapWrite \/ TrapReadInt \/ TrapReadChar \/ TrapPrint \/ TrapReadLine
  BY <1>4 DEF TrapStop, TrapWrite, TrapReadInt, TrapReadChar, TrapPrint, TrapReadLine
<1>5. CASE PrintChar \/ PrintEnd \/ StoreChar \/ Ended
  BY <1>5 DEF PrintChar, PrintEnd, StoreChar, Ended, vars
<1> QED BY <1>1, <1>2, <1>3, <1>4, <1>5 DEF Next

(* An instruction that writes another register leaves SP and SB alone.      *)
LEMMA OtherRegister ==
  ASSUME CpuInv, NEW r, r \notin {SP, SB},
         \/ \E v : reg' = [reg EXCEPT ![r] = v]
         \/ \E v, u : reg' = [reg EXCEPT ![r] = v, ![HP] = u]
  PROVE  reg'[SP] = reg[SP] /\ reg'[SB] = reg[SB]
<1>1. reg \in [Reg -> Val] /\ SP \in Reg /\ SB \in Reg /\ HP \notin {SP, SB}
  BY OperandTypes DEF SP, SB, HP, Reg
<1>2. ASSUME NEW v, reg' = [reg EXCEPT ![r] = v] PROVE reg'[SP] = reg[SP] /\ reg'[SB] = reg[SB]
  BY <1>1, <1>2
<1>3. ASSUME NEW v, NEW u, reg' = [reg EXCEPT ![r] = v, ![HP] = u]
      PROVE  reg'[SP] = reg[SP] /\ reg'[SB] = reg[SB]
  BY <1>1, <1>3
<1> QED BY <1>2, <1>3

(* The steps that do not touch memory leave the two registers alone.        *)
LEMMA QuietStep ==
  ASSUME StackStart,
         \/ Decode \/ Malformed \/ Refuse \/ Jump \/ Branch \/ Move \/ Compute \/ DivisionFault
         \/ AllocateImmediate \/ TrapStop \/ TrapWrite \/ TrapReadInt \/ TrapReadChar
         \/ TrapReadLine
  PROVE  reg'[SP] = reg[SP] /\ reg'[SB] = reg[SB] /\ UNCHANGED ms
<1>1. CpuInv /\ PC \notin {SP, SB} /\ R3 \notin {SP, SB}
  BY DEF StackStart, PC, R3, SP, SB
<1>2. CASE Decode \/ Malformed \/ Refuse \/ DivisionFault \/ TrapStop \/ TrapWrite \/ TrapReadLine
  BY <1>2 DEF Decode, Malformed, Refuse, DivisionFault, TrapStop, TrapWrite, TrapReadLine
<1>3. CASE Jump \/ Branch \/ TrapReadInt \/ TrapReadChar
  <2>1. UNCHANGED ms BY <1>3 DEF Jump, Branch, TrapReadInt, TrapReadChar
  <2>2. CASE Jump \/ Branch
    <3>1. \E v : reg' = [reg EXCEPT ![PC] = v] BY <2>2 DEF Jump, Branch, SetReg
    <3> QED BY <1>1, <2>1, <3>1, OtherRegister
  <2>3. CASE TrapReadInt \/ TrapReadChar
    <3>1. UNCHANGED reg \/ \E v : reg' = [reg EXCEPT ![R3] = v]
      BY <2>3 DEF TrapReadInt, TrapReadChar, SetReg
    <3> QED BY <1>1, <2>1, <3>1, OtherRegister
  <2> QED BY <1>3, <2>2, <2>3
<1>4. CASE Move \/ Compute \/ AllocateImmediate
  <2>1. rd \notin {SP, SB}
    BY <1>4 DEF StackStart, LeavesStackAlone, WritesRegister, Move, Compute, AllocateImmediate,
                Executes
  <2>2. \/ \E v : reg' = [reg EXCEPT ![rd] = v]
        \/ \E v, u : reg' = [reg EXCEPT ![rd] = v, ![HP] = u]
    BY <1>4 DEF Move, Compute, AllocateImmediate, Allocate, SetReg
  <2>3. UNCHANGED ms BY <1>4 DEF Move, Compute, AllocateImmediate
  <2> QED BY <1>1, <2>1, <2>2, <2>3, OtherRegister
<1> QED BY <1>2, <1>3, <1>4

(* Those that read memory leave it as it is seen.                           *)
LEMMA ReadingStep ==
  ASSUME StackStart,
         Fetch \/ LoadRegister \/ AllocateFromMemory \/ TrapPrint \/ PrintChar \/ PrintEnd
  PROVE  /\ reg'[SP] = reg[SP] /\ reg'[SB] = reg[SB]
         /\ \A b \in Addr : ViewAt(ms', b) = ViewAt(ms, b)
<1>1. CpuInv /\ Coherent(ms) BY DEF StackStart, CpuInv
<1>2. CASE Fetch
  <2>1. PICK junk1 \in JunkWords(reg[PC]), junk2 \in JunkWords(reg[PC] + WordSize) :
          ms' = ReadWord(ReadWord(ms, reg[PC], FALSE, junk1), reg[PC] + WordSize, CacheType = 0, junk2)
    BY <1>2 DEF Fetch
  <2> DEFINE first == ReadWord(ms, reg[PC], FALSE, junk1)
  <2>2. /\ reg[PC] \in Nat /\ reg[PC] + WordSize \in Nat /\ junk1 \in Word /\ junk2 \in Word
        /\ (CacheType = 0) \in BOOLEAN
    BY <1>1, RegisterValues, JunkType
  <2>3. Coherent(first) /\ \A b \in Addr : ViewAt(first, b) = ViewAt(ms, b)
    <3>1. Coherent(first) BY <1>1, <2>2, ReadWordEffect
    <3> QED BY <1>1, <2>2, <3>1, ReadWordView
  <2> HIDE DEF first
  <2>4. ms' = ReadWord(first, reg[PC] + WordSize, CacheType = 0, junk2) BY <2>1 DEF first
  <2>5. ASSUME CacheType = 0 PROVE \A b \in Addr : ViewAt(ms', b) = ViewAt(first, b)
    <3>1. Served(reg[PC] + WordSize) BY <2>5 DEF Served
    <3> QED BY <2>2, <2>3, <2>4, <3>1, ReadWordEffect
  <2>6. ASSUME CacheType # 0 PROVE \A b \in Addr : ViewAt(ms', b) = ViewAt(first, b)
    <3>1. ms' = ReadWord(first, reg[PC] + WordSize, FALSE, junk2) BY <2>4, <2>6
    <3> QED BY <2>2, <2>3, <3>1, ReadWordView
  <2>7. \A b \in Addr : ViewAt(ms', b) = ViewAt(ms, b) BY <2>3, <2>5, <2>6
  <2>8. reg'[SP] = reg[SP] /\ reg'[SB] = reg[SB]
    <3>1. \E v : reg' = [reg EXCEPT ![PC] = v] BY <1>2 DEF Fetch
    <3>2. PC \notin {SP, SB} BY DEF PC, SP, SB
    <3> QED BY <1>1, <3>1, <3>2, OtherRegister
  <2> QED BY <2>7, <2>8
<1>3. CASE LoadRegister \/ AllocateFromMemory
  <2>1. rd \notin {SP, SB}
    BY <1>3 DEF StackStart, LeavesStackAlone, WritesRegister, LoadRegister, AllocateFromMemory,
                Executes
  <2>2. reg'[SP] = reg[SP] /\ reg'[SB] = reg[SB]
    <3>1. \/ UNCHANGED reg
          \/ \E v : reg' = [reg EXCEPT ![rd] = v]
          \/ \E v, u : reg' = [reg EXCEPT ![rd] = v, ![HP] = u]
      BY <1>3 DEF LoadRegister, AllocateFromMemory, Allocate, NoRoom, SetReg
    <3> QED BY <1>1, <2>1, <3>1, OtherRegister
  <2>3. LoadAddr \in Nat /\ SizeAddr \in Nat BY <1>1, RegisterValues DEF LoadAddr, SizeAddr
  <2>4. \E a \in Nat : \/ \E junk \in JunkWords(a) : ms' = ReadWord(ms, a, FALSE, junk)
                       \/ ms' = ReadByte(ms, a)
    BY <1>3, <2>3 DEF LoadRegister, AllocateFromMemory
  <2> QED BY <1>1, <2>2, <2>4, ReadKeeps
<1>4. CASE TrapPrint \/ PrintChar \/ PrintEnd
  <2>1. \A i \in Int : CharAddr(i) \in Nat BY <1>1, CharAddrType
  <2>2. PrintEnd => text[1] + 1 \in Int
    <3>1. PrintEnd => Len(text) = 1 BY <1>1 DEF CpuInv, PrintEnd
    <3> QED BY <1>1, <3>1, LengthByte
  <2>3. pos \in Int BY <1>1 DEF CpuInv, TypeOK
  <2>4. \E a \in Nat : ms' = ReadByte(ms, a)
    BY <1>4, <2>1, <2>2, <2>3 DEF TrapPrint, PrintChar, PrintEnd
  <2>5. UNCHANGED reg BY <1>4 DEF TrapPrint, PrintChar, PrintEnd
  <2> QED BY <1>1, <2>4, <2>5, ReadKeeps
<1> QED BY <1>2, <1>3, <1>4

(* A store outside the stack changes no byte of it.                         *)
LEMMA StoringStep ==
  ASSUME StackStart, Alive', Stacked(reg, ms, pushed), StoreRegister \/ StoreChar
  PROVE  /\ reg'[SP] = reg[SP] /\ reg'[SB] = reg[SB]
         /\ \A b \in Addr : reg[SP] <= b => ViewAt(ms', b) = ViewAt(ms, b)
<1>1. /\ CpuInv /\ Coherent(ms) /\ MemSize = AllocSize /\ ms'.host = "ok"
      /\ reg[SB] = MemSize /\ reg[SP] \in Nat
  BY DEF StackStart, CpuInv, Alive, Stacked
<1>2. UNCHANGED reg BY DEF StoreRegister, StoreChar
<1>3. ASSUME NEW a \in Nat, NEW word \in Word, ms' = WriteByte(ms, a, word),
             a + 1 <= reg[SP] \/ reg[SB] <= a, NEW b \in Addr, reg[SP] <= b
      PROVE  ViewAt(ms', b) = ViewAt(ms, b)
  <2>1. b # a BY <1>1, <1>3, MemAssumption DEF Addr
  <2> QED BY <1>1, <1>3, <2>1, WriteByteView
<1>4. ASSUME NEW a \in Nat, NEW word \in Word, ms' = WriteWord(ms, a, word),
             CacheType # 0 => ~Straddles(a),
             a + WordSize <= reg[SP] \/ reg[SB] <= a, NEW b \in Addr, reg[SP] <= b
      PROVE  ViewAt(ms', b) = ViewAt(ms, b)
  <2>1. b \notin a..(a + WordSize - 1) BY <1>1, <1>4, MemAssumption DEF Addr
  <2> QED BY <1>1, <1>4, <2>1, WriteWithinLine
<1>5. CASE StoreRegister
  <2>1. StoreAddr \in Nat BY <1>1, RegisterValues DEF StoreAddr
  <2>2. ValWord(val1) \in Word /\ ByteWord(val1 % ByteMod) \in Word
    BY <1>1, OperandTypes, ConstantValues
  <2>3. CASE Executes({"STR", "ISTR"}) /\ ms' = WriteWord(ms, StoreAddr, ValWord(val1))
    <3>1. /\ CacheType # 0 => ~Straddles(StoreAddr)
          /\ StoreAddr + WordSize <= reg[SP] \/ reg[SB] <= StoreAddr
      BY <2>3 DEF StackStart, WordsInLines, LeavesStackAlone, Executes
    <3> QED BY <1>2, <1>4, <2>1, <2>2, <2>3, <3>1
  <2>4. CASE Executes({"STB", "ISTB"}) /\ ms' = WriteByte(ms, StoreAddr, ByteWord(val1 % ByteMod))
    <3>1. StoreAddr + 1 <= reg[SP] \/ reg[SB] <= StoreAddr
      BY <2>4 DEF StackStart, LeavesStackAlone, Executes
    <3> QED BY <1>2, <1>3, <2>1, <2>2, <2>4, <3>1
  <2> QED BY <1>5, <2>3, <2>4 DEF StoreRegister
<1>6. CASE StoreChar
  <2>1. pos \in 1..Len(text) /\ text \in Seq(Byte) BY <1>1, <1>6 DEF CpuInv, TypeOK, StoreChar
  <2>2. ByteWord(text[pos]) \in Word /\ pos - 1 \in Int BY <2>1, WordTypes
  <2>3. CharAddr(pos - 1) \in Nat BY <1>1, <2>2, CharAddrType
  <2>4. /\ ms' = WriteByte(ms, CharAddr(pos - 1), ByteWord(text[pos]))
        /\ CharAddr(pos - 1) + 1 <= reg[SP] \/ reg[SB] <= CharAddr(pos - 1)
    BY <1>6 DEF StackStart, LeavesStackAlone, StoreChar
  <2> QED BY <1>2, <1>3, <2>2, <2>3, <2>4
<1> QED BY <1>5, <1>6

-----------------------------------------------------------------------------
(* The bytes a value takes on the stack.                                    *)
LEMMA BytesOfType ==
  ASSUME NEW v \in Val, NEW n \in 1..WordSize
  PROVE  /\ BytesOf(v, n) \in Seq(Byte) /\ Len(BytesOf(v, n)) = n
         /\ \A j \in 0..n-1 : BytesOf(v, n)[j + 1] = ValWord(v)[j]
<1>1. ValWord(v) \in Word /\ WordSize = 4 BY ConstantValues
<1>2. \A i \in 1..n : ValWord(v)[i - 1] \in Byte BY <1>1 DEF Word, WordIdx
<1>3. n \in Nat BY <1>1
<1> HIDE DEF Byte
<1> QED BY <1>2, <1>3 DEF BytesOf

(* An address that is taken down wraps below zero only.                     *)
LEMMA WrapDown ==
  ASSUME NEW x \in 0..MemSize, NEW n \in 0..WordSize
  PROVE  /\ x - n >= 0 => Wrap(x - n) = x - n
         /\ x - n < 0  => Wrap(x - n) = x - n + ValMod
         /\ Wrap(x - n) \in Nat /\ ValMod \in Nat /\ MemSize < ValMod
<1>1. ValMod \in Nat \ {0} /\ MemSize < ValMod /\ MemSize \in Nat /\ WordSize = 4
  BY PowersType, CpuAssumption, MemAssumption, IsaConstants
<1>2. ValMod > 40
  <2>1. ValMod = (ByteMod * ByteMod * ByteMod) * ByteMod BY DEF ValMod
  <2>2. ByteMod * ByteMod * ByteMod \in Nat \ {0} /\ ByteMod \in Nat /\ ByteMod > 40
    BY PowersType, IsaConstants
  <2>3. \A p, b \in Nat : p > 0 /\ b > 40 => p * b > 40 OBVIOUS
  <2> QED BY <2>1, <2>2, <2>3
<1> DEFINE d == x - n
<1>3. d \in Int /\ -4 <= d /\ d < ValMod BY <1>1
<1> HIDE DEF d
<1>4. d >= 0 => d % ValMod = d BY <1>1, <1>3
<1>5. d < 0 => d % ValMod = d + ValMod BY <1>1, <1>2, <1>3
<1>6. d % ValMod \in Nat BY <1>1, <1>3
<1> QED BY <1>1, <1>4, <1>5, <1>6 DEF Wrap, d

(* What a push writes is on top of the stack.                               *)
LEMMA PushStep ==
  ASSUME StackStart, MemSize + WordSize < ValMod, Alive', Stacked(reg, ms, pushed),
         Push, stage' = "fetch", pushed' = History
  PROVE  Stacked(reg', ms', pushed')
<1> DEFINE n == StackWidth
           newSP == Wrap(reg[SP] - n)
           q == BytesOf(val1, n)
<1>1. /\ CpuInv /\ Coherent(ms) /\ MemSize = AllocSize /\ ms'.host = "ok"
      /\ reg[SB] = MemSize /\ reg[SP] \in Nat /\ reg[SP] <= MemSize
  <2>1. Len(pushed) \in Nat BY DEF Stacked
  <2> QED BY <2>1, MemAssumption DEF StackStart, CpuInv, Alive, Stacked
<1>2. /\ op \in {"PSHR", "PSHB"} /\ n \in 1..WordSize /\ WordSize = 4
      /\ op = "PSHR" => n = WordSize
      /\ op = "PSHB" => n = 1
      /\ val1 \in Val
  BY <1>1, ConstantValues, OperandTypes DEF Push, Executes, StackWidth
<1>3. newSP <= reg[SB] /\ reg' = [reg EXCEPT ![SP] = newSP] /\ ms' = Pushed(newSP)
  BY DEF Push, StackHolds, SetReg, Invalid
<1>4. newSP = reg[SP] - n /\ newSP \in Nat
  <2>1. reg[SP] \in 0..MemSize /\ n \in 0..WordSize BY <1>1, <1>2, MemAssumption
  <2>2. /\ reg[SP] - n >= 0 => newSP = reg[SP] - n
        /\ reg[SP] - n < 0  => newSP = reg[SP] - n + ValMod
        /\ newSP \in Nat /\ ValMod \in Nat
    BY <2>1, WrapDown
  <2>3. newSP <= MemSize BY <1>1, <1>3
  <2> HIDE DEF newSP, n
  <2> QED BY <1>1, <1>2, <2>2, <2>3, MemAssumption
<1>5. reg'[SP] = newSP /\ reg'[SB] = reg[SB]
  BY <1>1, <1>3, OperandTypes DEF SP, SB
<1>6. q \in Seq(Byte) /\ Len(q) = n /\ \A j \in 0..n-1 : q[j + 1] = ValWord(val1)[j]
  BY <1>2, BytesOfType
<1>7. pushed' = q \o pushed
  BY <1>2 DEF History, Push, Executes, StackWidth
<1>8. ASSUME NEW b \in Addr
      PROVE  ViewAt(ms', b) = IF b \in newSP..(newSP + n - 1) THEN q[b - newSP + 1] ELSE ViewAt(ms, b)
  <2>1. b \in Int BY AddrInAlloc
  <2>2. CASE op = "PSHR"
    <3>1. CacheType # 0 => ~Straddles(newSP)
      BY <1>2, <2>2 DEF StackStart, WordsInLines, Push, Executes
    <3>2. ValWord(val1) \in Word BY <1>2, ConstantValues
    <3>3. ms' = WriteWord(ms, newSP, ValWord(val1)) BY <1>3, <2>2 DEF Pushed
    <3>4. ViewAt(ms', b) = IF b \in newSP..(newSP + WordSize - 1) THEN ValWord(val1)[b - newSP]
                           ELSE ViewAt(ms, b)
      BY <1>1, <1>4, <3>1, <3>2, <3>3, WriteWithinLine
    <3>5. b \in newSP..(newSP + n - 1) => b - newSP \in 0..n-1 BY <1>2, <1>4, <2>1
    <3> HIDE DEF newSP, n, q
    <3> QED BY <1>2, <1>6, <2>2, <3>4, <3>5
  <2>3. CASE op = "PSHB"
    <3>1. ByteWord(val1 % ByteMod) \in Word /\ val1 % ByteMod \in Byte BY <1>2, ConstantValues
    <3>2. ms' = WriteByte(ms, newSP, ByteWord(val1 % ByteMod)) BY <1>3, <2>3 DEF Pushed
    <3>3. ViewAt(ms', b) = IF b = newSP THEN ByteWord(val1 % ByteMod)[0] ELSE ViewAt(ms, b)
      BY <1>1, <1>4, <3>1, <3>2, WriteByteView
    <3>4. ByteWord(val1 % ByteMod)[0] = ValWord(val1)[0]
      BY WordTypes DEF ByteWord, ValWord
    <3>5. q[0 + 1] = ValWord(val1)[0] BY <1>2, <1>6, <2>3
    <3>6. n = 1 BY <1>2, <2>3
    <3>7. b \in newSP..(newSP + n - 1) <=> b = newSP BY <1>4, <2>1, <3>6
    <3>8. b = newSP => b - newSP + 1 = 0 + 1 BY <2>1
    <3> HIDE DEF newSP, n, q
    <3> QED BY <3>3, <3>4, <3>5, <3>7, <3>8
  <2> QED BY <1>2, <2>2, <2>3
<1> HIDE DEF newSP, n, q
<1>9. n \in Nat BY <1>2
<1> QED BY <1>4, <1>5, <1>6, <1>7, <1>8, <1>9, StackedPush

(* The return address is on top of the stack after a call.                  *)
LEMMA CallStep ==
  ASSUME StackStart, Alive', Stacked(reg, ms, pushed), Call, stage' = "fetch", pushed' = History
  PROVE  Stacked(reg', ms', pushed')
<1> DEFINE newSP == Wrap(reg[SP] - WordSize)
           q == BytesOf(reg[PC], WordSize)
<1>1. /\ CpuInv /\ Coherent(ms) /\ MemSize = AllocSize /\ ms'.host = "ok"
      /\ reg[SB] = MemSize /\ reg[SP] \in Nat /\ reg[SP] <= MemSize /\ WordSize = 4
      /\ reg[PC] \in Val
  <2>1. /\ CpuInv /\ Coherent(ms) /\ MemSize = AllocSize /\ ms'.host = "ok"
        /\ reg[SB] = MemSize /\ reg[SP] \in Nat
    BY DEF StackStart, CpuInv, Alive, Stacked
  <2>2. Len(pushed) \in Nat /\ reg[SP] + Len(pushed) = MemSize BY DEF Stacked
  <2>3. reg[SP] <= MemSize BY <2>1, <2>2
  <2>4. reg[PC] \in Val BY <2>1, RegisterValues
  <2> QED BY <2>1, <2>3, <2>4, IsaConstants
<1>2. /\ newSP + WordSize <= reg[SB] /\ reg' = [reg EXCEPT ![SP] = newSP, ![PC] = imm]
      /\ ms' = WriteWord(ms, newSP, ValWord(reg[PC])) /\ op = "CALL"
  BY DEF Call, Executes, SetReg, Invalid
<1>3. newSP = reg[SP] - WordSize /\ newSP \in Nat
  <2>1. reg[SP] \in 0..MemSize /\ WordSize \in 0..WordSize BY <1>1, MemAssumption
  <2>2. /\ reg[SP] - WordSize >= 0 => newSP = reg[SP] - WordSize
        /\ reg[SP] - WordSize < 0  => newSP = reg[SP] - WordSize + ValMod
        /\ newSP \in Nat /\ ValMod \in Nat /\ MemSize < ValMod
    BY <2>1, WrapDown
  <2>3. newSP + WordSize <= MemSize BY <1>1, <1>2
  <2> HIDE DEF newSP
  <2> QED BY <1>1, <2>2, <2>3, MemAssumption
<1>4. reg'[SP] = newSP /\ reg'[SB] = reg[SB]
  BY <1>1, <1>2, OperandTypes DEF SP, SB, PC
<1>5. q \in Seq(Byte) /\ Len(q) = WordSize /\ \A j \in 0..WordSize-1 : q[j + 1] = ValWord(reg[PC])[j]
  <2>1. reg[PC] \in Val /\ WordSize \in 1..WordSize BY <1>1
  <2> QED BY ONLY <2>1, BytesOfType DEF q
<1>6. pushed' = q \o pushed BY <1>2 DEF History, Call, Executes
<1>7. ASSUME NEW b \in Addr
      PROVE  ViewAt(ms', b) = IF b \in newSP..(newSP + WordSize - 1) THEN q[b - newSP + 1]
                              ELSE ViewAt(ms, b)
  <2>1. b \in Int BY AddrInAlloc
  <2>2. CacheType # 0 => ~Straddles(newSP)
    BY <1>2 DEF StackStart, WordsInLines, Call, Executes
  <2>3. ValWord(reg[PC]) \in Word BY <1>1, ConstantValues
  <2>4. ViewAt(ms', b) = IF b \in newSP..(newSP + WordSize - 1) THEN ValWord(reg[PC])[b - newSP]
                         ELSE ViewAt(ms, b)
    BY <1>1, <1>2, <1>3, <2>2, <2>3, WriteWithinLine
  <2>5. b \in newSP..(newSP + WordSize - 1) => b - newSP \in 0..WordSize-1 BY <1>1, <1>3, <2>1
  <2> HIDE DEF newSP, q
  <2> QED BY <1>5, <2>4, <2>5
<1> HIDE DEF newSP, q
<1>8. WordSize \in Nat BY <1>1
<1> QED BY <1>3, <1>4, <1>5, <1>6, <1>7, <1>8, StackedPush

(* A word read from the stack is the word that was pushed last.             *)
LEMMA TopWord ==
  ASSUME StackStart, Stacked(reg, ms, pushed), Len(pushed) >= WordSize,
         CacheType # 0 => ~Straddles(reg[SP]),
         NEW junk \in JunkWords(reg[SP]), ms' = ReadWord(ms, reg[SP], FALSE, junk)
  PROVE  BytesOf(WordVal(ms'.out), WordSize) = SubSeq(pushed, 1, WordSize)
<1> DEFINE v == WordVal(ms'.out)
<1>1. /\ CpuInv /\ Coherent(ms) /\ WordSize = 4 /\ reg[SP] \in Nat /\ pushed \in Seq(Byte)
      /\ Len(pushed) \in Nat /\ reg[SP] + Len(pushed) = MemSize
  BY ConstantValues DEF StackStart, CpuInv, Stacked
<1>2. AddrInRange(reg[SP], WordSize) BY <1>1, MemAssumption DEF AddrInRange
<1>3. ms'.out = ViewWord(ms, reg[SP])
  <2>1. junk \in Word BY JunkType
  <2>2. Served(reg[SP]) BY <1>2 DEF Served
  <2> QED BY <1>1, <1>2, <2>1, <2>2, ReadWordEffect
<1>4. ASSUME NEW j \in 0..WordSize-1 PROVE ms'.out[j] = pushed[j + 1] /\ ms'.out[j] \in Byte
  <2>1. j \in WordIdx /\ j + 1 \in 1..Len(pushed) /\ reg[SP] + j = reg[SP] + (j + 1) - 1
    BY <1>1 DEF WordIdx
  <2>2. ms'.out[j] = ViewAt(ms, reg[SP] + j) BY <1>3, <2>1 DEF ViewWord
  <2>3. ViewAt(ms, reg[SP] + (j + 1) - 1) = pushed[j + 1] BY <2>1 DEF Stacked
  <2>4. pushed[j + 1] \in Byte BY <1>1, <2>1
  <2> QED BY <2>1, <2>2, <2>3, <2>4
<1>5. ms'.out \in Word
  <2>1. WordIdx = 0..WordSize-1 BY DEF WordIdx
  <2> QED BY <1>3, <1>4, <2>1 DEF ViewWord, Word
<1>6. ValWord(v) = ms'.out BY <1>5, WordOfValue
<1>7. v \in Val
  <2>1. Coherent(ms') BY <1>1, JunkType, ReadKeeps
  <2> QED BY <2>1, ReadOutType
<1>8. /\ BytesOf(v, WordSize) \in Seq(Byte) /\ Len(BytesOf(v, WordSize)) = WordSize
      /\ \A j \in 0..WordSize-1 : BytesOf(v, WordSize)[j + 1] = pushed[j + 1]
  <2>1. WordSize \in 1..WordSize BY <1>1
  <2> HIDE DEF v
  <2>2. /\ BytesOf(v, WordSize) \in Seq(Byte) /\ Len(BytesOf(v, WordSize)) = WordSize
        /\ \A j \in 0..WordSize-1 : BytesOf(v, WordSize)[j + 1] = ValWord(v)[j]
    BY <1>7, <2>1, BytesOfType
  <2> QED BY <1>4, <1>6, <2>2
<1> HIDE DEF v
<1>9. ASSUME NEW i \in 1..WordSize PROVE BytesOf(v, WordSize)[i] = pushed[i]
  <2>1. i - 1 \in 0..WordSize-1 /\ (i - 1) + 1 = i BY <1>1
  <2> QED BY <1>8, <2>1
<1>10. BytesOf(v, WordSize) = [i \in 1..WordSize |-> pushed[i]]
  BY <1>9 DEF BytesOf
<1>11. SubSeq(pushed, 1, WordSize) = [i \in 1..WordSize |-> pushed[i]]
  BY <1>1
<1> QED BY <1>10, <1>11 DEF v

(* RET and POPR are handed the word pushed last, and what is popped is off. *)
LEMMA PopStep ==
  ASSUME StackStart, MemSize + WordSize < ValMod, Stacked(reg, ms, pushed),
         Pop \/ Return, stage' = "fetch"
  PROVE  /\ op \in {"RET", "POPR"} =>
              /\ Len(pushed) >= WordSize
              /\ BytesOf(IF op = "RET" THEN reg'[PC] ELSE reg'[rd], WordSize)
                   = SubSeq(pushed, 1, WordSize)
         /\ Alive' /\ pushed' = History => Stacked(reg', ms', pushed')
<1> DEFINE n == IF op = "RET" THEN WordSize ELSE StackWidth
           newSP == Wrap(reg[SP] + n)
<1>1. /\ CpuInv /\ Coherent(ms) /\ Decodes(cntrl)
      /\ reg[SB] = MemSize /\ reg[SP] \in Nat
      /\ Len(pushed) \in Nat /\ reg[SP] + Len(pushed) = MemSize
  <2>1. CpuInv /\ Coherent(ms) BY DEF StackStart, CpuInv
  <2>2. Decodes(cntrl)
    <3>1. stage = "execute" BY DEF Pop, Return, Executes
    <3> QED BY <3>1 DEF StackStart, StackInv
  <2>3. /\ reg[SB] = MemSize /\ reg[SP] \in Nat
        /\ Len(pushed) \in Nat /\ reg[SP] + Len(pushed) = MemSize
    BY DEF Stacked
  <2> QED BY <2>1, <2>2, <2>3
<1>2. /\ op \in {"POPR", "POPB", "RET"} /\ n \in 1..WordSize
      /\ op \in {"RET", "POPR"} => n = WordSize
      /\ op = "POPB" => n = 1
  <2>1. op \in {"POPR", "POPB", "RET"} BY DEF Pop, Return, Executes
  <2>2. WordSize \in 1..WordSize /\ 1 \in 1..WordSize
    <3>1. WordSize = 4 BY IsaConstants
    <3> QED BY <3>1
  <2> QED BY <2>1, <2>2 DEF StackWidth
<1>3. Pop => op \in {"POPR", "POPB"} /\ rd \notin {SP, SB} /\ rd \in Reg
  <2>1. Pop => op \in {"POPR", "POPB"} BY DEF Pop, Executes
  <2>2. Pop => rd \notin {SP, SB}
    BY <2>1 DEF StackStart, LeavesStackAlone, WritesRegister, Pop, Executes
  <2>3. Pop => rd \in Reg
    BY <1>1, <2>1 DEF Decodes, StackOps, Branches, Direct, Indirect, RegAndImm, ThreeRegs,
                      Igr, ValidRg, op, rd
  <2> QED BY <2>1, <2>2, <2>3
<1>4. Return => op = "RET" BY DEF Return, Executes
<1>5. newSP <= MemSize
  <2>1. Pop => newSP <= reg[SB]
    <3>1. [reg EXCEPT ![rd] = WordVal(ms'.out)][SB] = reg[SB] \/ ~Pop
      BY <1>1, <1>3, OperandTypes DEF SB
    <3> QED BY <1>3, <3>1 DEF Pop, StackHolds, Invalid
  <2>2. Return => newSP <= reg[SB] BY <1>4 DEF Return, Invalid
  <2> QED BY <1>1, <2>1, <2>2
<1>6. newSP = reg[SP] + n /\ n \in Nat /\ WordSize = 4
  <2>1. n \in Nat /\ n <= WordSize /\ WordSize = 4 BY <1>2, IsaConstants
  <2>2. reg[SP] + n \in 0..ValMod-1 /\ ValMod \in Nat
    BY <1>1, <2>1, PowersType, MemAssumption
  <2> HIDE DEF n
  <2> QED BY <2>1, <2>2 DEF Wrap
<1>7. n <= Len(pushed) BY <1>1, <1>5, <1>6
<1>8. /\ Pop => reg' = [[reg EXCEPT ![rd] = WordVal(ms'.out)] EXCEPT ![SP] = newSP]
      /\ Return => reg' = [reg EXCEPT ![SP] = newSP, ![PC] = WordVal(ms'.out)]
  BY <1>3, <1>4 DEF Pop, Return, Invalid
<1> HIDE DEF newSP, n
<1>9. /\ reg'[SP] = newSP /\ reg'[SB] = reg[SB]
      /\ Pop => reg'[rd] = WordVal(ms'.out)
      /\ Return => reg'[PC] = WordVal(ms'.out)
  <2>1. reg \in [Reg -> Val] BY <1>1, OperandTypes
  <2> QED BY <1>3, <1>8, <2>1 DEF SP, SB, PC, Reg
<1>10. ASSUME op \in {"RET", "POPR"}
       PROVE  BytesOf(WordVal(ms'.out), WordSize) = SubSeq(pushed, 1, WordSize)
  <2>1. CacheType # 0 => ~Straddles(reg[SP])
    BY <1>10 DEF StackStart, WordsInLines, Pop, Return, Executes
  <2>2. PICK junk \in JunkWords(reg[SP]) : ms' = ReadWord(ms, reg[SP], FALSE, junk)
    BY <1>10 DEF Pop, Return, Executes
  <2>3. Len(pushed) >= WordSize BY <1>2, <1>7, <1>10
  <2> QED BY <2>1, <2>2, <2>3, TopWord
<1>11. op \in {"RET", "POPR"} =>
         /\ Len(pushed) >= WordSize
         /\ BytesOf(IF op = "RET" THEN reg'[PC] ELSE reg'[rd], WordSize)
              = SubSeq(pushed, 1, WordSize)
  <2>1. op \in {"RET", "POPR"} => Len(pushed) >= WordSize BY <1>1, <1>2, <1>6, <1>7
  <2>2. op \in {"RET", "POPR"} => (IF op = "RET" THEN reg'[PC] ELSE reg'[rd]) = WordVal(ms'.out)
    BY <1>3, <1>4, <1>9
  <2> QED BY <1>10, <2>1, <2>2
<1>12. ASSUME Alive', pushed' = History PROVE Stacked(reg', ms', pushed')
  <2>1. pushed' = SubSeq(pushed, n + 1, Len(pushed))
    <3>1. stage = "execute" BY DEF Pop, Return, Executes
    <3>2. CASE op = "POPB" BY <1>2, <1>12, <3>1, <3>2 DEF History
    <3>3. CASE op \in {"RET", "POPR"} BY <1>2, <1>12, <3>1, <3>3 DEF History
    <3> QED BY <1>2, <3>2, <3>3
  <2>2. \A b \in Addr : ViewAt(ms', b) = ViewAt(ms, b)
    <3>1. \/ \E junk \in JunkWords(reg[SP]) : ms' = ReadWord(ms, reg[SP], FALSE, junk)
          \/ ms' = ReadByte(ms, reg[SP])
      BY DEF Pop, Return
    <3> QED BY <1>1, <3>1, ReadKeeps
  <2>3. reg'[SP] = reg[SP] + n BY <1>6, <1>9
  <2> QED BY <1>6, <1>7, <1>9, <2>1, <2>2, <2>3, StackedPop
<1> QED BY <1>11, <1>12

(* The invariant is kept by every step of such a program.                   *)
LEMMA StepStackInv ==
  StackStart /\ MemSize + WordSize < ValMod /\ [StackNext]_stackVars => StackInv'
<1> SUFFICES ASSUME StackStart, MemSize + WordSize < ValMod, [StackNext]_stackVars
             PROVE  StackInv'
  OBVIOUS
<1>1. CpuInv /\ StackInv BY DEF StackStart
<1>2. CASE UNCHANGED stackVars
  <2>1. Stacked(reg, ms, pushed) => Stacked(reg', ms', pushed') BY <1>2 DEF stackVars, vars
  <2> QED BY <1>1, <1>2, <2>1 DEF StackInv, Running, Alive, stackVars, vars
<1>3. CASE StackNext
  <2>1. Next /\ pushed' = History BY <1>3 DEF StackNext
  <2>2. CASE Ended
    <3>1. UNCHANGED vars BY <2>2 DEF Ended
    <3>2. pushed' = pushed BY <2>1, <3>1 DEF History, vars
    <3> QED BY <1>2, <3>1, <3>2 DEF stackVars
  <2>3. CASE LoadRefused \/ LoadIncomplete \/ LoadProgram
    <3>1. stage = "load" BY <2>3 DEF LoadRefused, LoadIncomplete, LoadProgram
    <3>2. pushed' = pushed BY <2>1, <3>1 DEF History
    <3>3. pushed = <<>> BY <1>1, <3>1 DEF StackInv
    <3>4. stage' \in {"fetch", "refused"} /\ ms'.host = ms.host
      <4>1. \A bytes, n : WithBytes(bytes, n).host = ms.host
        BY <1>1 DEF WithBytes, CpuInv, TypeOK, MemState
      <4> QED BY <2>3, <4>1 DEF LoadRefused, LoadIncomplete, LoadProgram
    <3>5. ASSUME Alive' PROVE Stacked(reg', ms', pushed')
      <4>1. Stacked(reg, ms, pushed) BY <1>1, <3>1, <3>4, <3>5 DEF StackInv, Running, Alive
      <4>2. Len(pushed) = 0 /\ reg[SB] = MemSize /\ reg[SP] = MemSize
        BY <3>3, <4>1 DEF Stacked
      <4>3. reg'[SB] = MemSize /\ reg'[SP] = MemSize
        <5>1. reg \in [Reg -> Val] BY <1>1, OperandTypes
        <5> QED BY <2>3, <4>2, <5>1
                DEF LoadRefused, LoadIncomplete, LoadProgram, Reg, SB, SP, SL, HP, PC
      <4> QED BY <3>2, <3>3, <4>1, <4>2, <4>3 DEF Stacked
    <3> QED BY <3>4, <3>5 DEF StackInv
  <2>4. CASE ~(Ended \/ LoadRefused \/ LoadIncomplete \/ LoadProgram)
    <3>1. stage \in {"fetch", "decode", "execute", "print", "store"} /\ Alive
      BY <2>1, <2>4 DEF Next, Fetch, Decode, Malformed, Refuse, Jump, Branch, Move, Compute,
         DivisionFault, LoadRegister, StoreRegister, AllocateImmediate, AllocateFromMemory, Push,
         Pop, Call, Return, TrapStop, TrapWrite, TrapReadInt, TrapReadChar, TrapPrint, PrintChar,
         PrintEnd, TrapReadLine, StoreChar, Executes, Trap
    <3>2. Stacked(reg, ms, pushed) BY <1>1, <3>1 DEF StackInv, Running
    <3>3. stage' # "load" /\ (stage' = "execute" => Decodes(cntrl'))
      BY <2>1, <2>4, <3>1 DEF Next, Fetch, Decode, Malformed, Refuse, Jump, Branch, Move, Compute,
         DivisionFault, LoadRegister, StoreRegister, AllocateImmediate, AllocateFromMemory, Push,
         Pop, Call, Return, TrapStop, TrapWrite, TrapReadInt, TrapReadChar, TrapPrint, PrintChar,
         PrintEnd, TrapReadLine, StoreChar, Allocate, NoRoom, NextInstruction, Invalid
    <3>4. ASSUME Running', Alive' PROVE Stacked(reg', ms', pushed')
      <4>1. CASE Push \/ Pop \/ Call \/ Return
        <5>1. stage' = "fetch"
          BY <3>4, <4>1 DEF Running, Push, Pop, Call, Return, NextInstruction, Invalid
        <5> QED BY <2>1, <3>2, <3>4, <4>1, <5>1, PushStep, PopStep, CallStep
      <4>2. CASE ~(Push \/ Pop \/ Call \/ Return)
        <5>1. pushed' = pushed BY <2>1, <4>2, HistoryKept
        <5>2. /\ reg'[SP] = reg[SP] /\ reg'[SB] = reg[SB]
              /\ \A b \in Addr : reg[SP] <= b => ViewAt(ms', b) = ViewAt(ms, b)
          BY <2>1, <2>4, <3>2, <3>4, <4>2, QuietStep, ReadingStep, StoringStep DEF Next
        <5> QED BY <3>2, <5>1, <5>2, StackedSame
      <4> QED BY <4>1, <4>2
    <3> QED BY <3>3, <3>4 DEF StackInv
  <2> QED BY <2>2, <2>3, <2>4
<1> QED BY <1>2, <1>3

ReturnStep == stage = "execute" /\ stage' = "fetch" /\ op \in {"RET", "POPR"} =>
                /\ Len(pushed) >= WordSize
                /\ BytesOf(IF op = "RET" THEN reg'[PC] ELSE reg'[rd], WordSize)
                     = SubSeq(pushed, 1, WordSize)

(* Every step that completes a return or a pop finds what was pushed.       *)
LEMMA ReturnStepHolds ==
  StackStart /\ MemSize + WordSize < ValMod /\ [StackNext]_stackVars => [ReturnStep]_stackVars
<1> SUFFICES ASSUME StackStart, MemSize + WordSize < ValMod, StackNext,
                    stage = "execute", stage' = "fetch", op \in {"RET", "POPR"}
             PROVE  ReturnStep
  BY DEF ReturnStep
<1>1. Pop \/ Return
  <2>1. Next BY DEF StackNext
  <2> USE DEF Executes, Trap
  <2>2. ~(LoadRefused \/ LoadIncomplete \/ LoadProgram \/ Fetch \/ Decode \/ Malformed \/ Refuse)
    BY DEF LoadRefused, LoadIncomplete, LoadProgram, Fetch, Decode, Malformed, Refuse, Invalid
  <2>3. ~(Jump \/ Branch \/ Move \/ Compute \/ DivisionFault \/ Push \/ Call)
    BY DEF Jump, Branch, Move, Compute, DivisionFault, Branches, Arithmetic, ThreeRegs,
           RegAndImm, Compares, Push, Call
  <2>4. ~(LoadRegister \/ StoreRegister \/ AllocateImmediate \/ AllocateFromMemory)
    BY DEF LoadRegister, StoreRegister, AllocateImmediate, AllocateFromMemory
  <2>5. ~(TrapStop \/ TrapWrite \/ TrapReadInt \/ TrapReadChar \/ TrapPrint \/ TrapReadLine)
    BY DEF TrapStop, TrapWrite, TrapReadInt, TrapReadChar, TrapPrint, TrapReadLine
  <2>6. ~(PrintChar \/ PrintEnd \/ StoreChar \/ Ended)
    BY DEF PrintChar, PrintEnd, StoreChar, Ended, vars
  <2> QED BY <2>1, <2>2, <2>3, <2>4, <2>5, <2>6 DEF Next
<1>2. Stacked(reg, ms, pushed)
  BY <1>1 DEF StackStart, StackInv, Running, Pop, Return, Executes
<1> QED BY <1>1, <1>2, PopStep DEF ReturnStep

-----------------------------------------------------------------------------
(* Whatever a program pushes stays on its stack, through calls, allocations *)
(* and evictions, until it is popped: for every memory, cache and program,  *)
(* if the program leaves SP and SB alone and stores nowhere between them.   *)
THEOREM StackAlwaysHolds ==
  ASSUME MemSize = AllocSize, MemSize + WordSize < ValMod
  PROVE  StackSpec /\ []WordsInLines /\ []LeavesStackAlone => []StackHoldsPushed
<1>1. CpuInv /\ StackInv /\ WordsInLines /\ LeavesStackAlone /\ [StackNext]_stackVars => StackInv'
  BY StepStackInv DEF StackStart
<1>2. StackInv => StackHoldsPushed BY DEF StackInv, StackHoldsPushed, Running, Stacked
<1> QED BY <1>1, <1>2, InitStackInv, StackRefines, CpuInvariance, PTL DEF StackSpec

(* So every RET goes back to the instruction after its call, and every POPR *)
(* loads the word pushed last.                                              *)
THEOREM AlwaysReturnsToCaller ==
  ASSUME MemSize = AllocSize, MemSize + WordSize < ValMod
  PROVE  StackSpec /\ []WordsInLines /\ []LeavesStackAlone => ReturnsToCaller
<1>1. CpuInv /\ StackInv /\ WordsInLines /\ LeavesStackAlone /\ [StackNext]_stackVars => StackInv'
  BY StepStackInv DEF StackStart
<1>2. CpuInv /\ StackInv /\ WordsInLines /\ LeavesStackAlone /\ [StackNext]_stackVars
        => [ReturnStep]_stackVars
  BY ReturnStepHolds DEF StackStart
<1>3. [][ReturnStep]_stackVars => ReturnsToCaller BY PTL DEF ReturnStep, ReturnsToCaller
<1> QED BY <1>1, <1>2, <1>3, InitStackInv, StackRefines, CpuInvariance, PTL DEF StackSpec
=============================================================================
