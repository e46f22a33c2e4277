------------------------------ MODULE MemSystem ------------------------------
(***************************************************************************)
(* The memory of the emulator: program memory, the write-back cache in     *)
(* front of it, and the cycle counter, with the four access functions      *)
(* every instruction goes through (src/emu4380.cpp:159-515).               *)
(*                                                                         *)
(* The globals the functions share are one record m:                       *)
(*    prog_mem   the bytes of program memory                               *)
(*    cache      cache[set][way], a Line each                              *)
(*    cycles     mem_cycle_cntr                                            *)
(*    out        the word the latest read handed back (outWord)            *)
(*    host       "ok", or what became of the emulator process itself:      *)
(*               "aborted" by std::abort, "undefined" after touching host  *)
(*               memory that is not the program's                          *)
(* An access function is an operator from a record to a record, so that an *)
(* instruction that accesses memory several times composes them.           *)
(*                                                                         *)
(* A word is the function from byte positions to bytes that the shifts of  *)
(* the code take apart and put together, least significant byte first.     *)
(***************************************************************************)
EXTENDS Integers, FiniteSets

CONSTANTS
  MemSize,         \* mem_size, the -m argument
  BlockSize,       \* BLOCK_SIZE, bytes in a cache line (16)
  NumCacheLines,   \* NUM_CACHE_LINES, lines in the cache (64)
  CacheType,       \* the -c argument, 0..3
  WordSize,        \* bytes in a word (4)
  ByteMod,         \* values of a byte (256)
  CycleMod,        \* values of the cycle counter (2^32)
  LinePadding      \* unused bytes between Line::data and Line::lastused (2)

ASSUME MemAssumption ==
  /\ MemSize \in Nat \ {0}
  /\ BlockSize \in Nat \ {0}
  /\ NumCacheLines \in Nat \ {0} /\ NumCacheLines >= 2
  /\ CacheType \in 0..3
  /\ WordSize \in Nat \ {0} /\ WordSize <= BlockSize
  /\ ByteMod \in Nat \ {0}
  /\ CycleMod \in Nat \ {0}
  /\ LinePadding \in Nat

-----------------------------------------------------------------------------
(* Types and geometry.                                                      *)

Byte == 0..ByteMod-1
WordIdx == 0..WordSize-1
Word == [WordIdx -> Byte]
ByteWord(b) == [i \in WordIdx |-> IF i = 0 THEN b ELSE 0]
AllOnes == [i \in WordIdx |-> ByteMod - 1]
ZeroWord == ByteWord(0)

(* init_cache: lines per set.  Without a cache the value is never read.     *)
Associativity == IF CacheType = 2 THEN NumCacheLines ELSE IF CacheType = 3 THEN 2 ELSE 1
NumSets == NumCacheLines \div Associativity

Sets == 0..NumSets-1
Ways == 0..Associativity-1
Offsets == 0..BlockSize-1

(* The cache moves whole blocks, so a memory whose size is no multiple of  *)
(* the block size is used together with the few heap bytes that follow it. *)
NumBlocks == (MemSize + BlockSize - 1) \div BlockSize
Blocks == 0..NumBlocks-1
AllocSize == NumBlocks * BlockSize
Addr == 0..MemSize-1
Alloc == 0..AllocSize-1

Line == [tag : Nat, valid : BOOLEAN, dirty : BOOLEAN,
         data : [Offsets -> Byte], lastused : Nat]

MemState == [prog_mem : [Alloc -> Byte],
             cache    : [Sets -> [Ways -> Line]],
             cycles   : 0..CycleMod-1,
             out      : Word,
             host     : {"ok", "aborted", "undefined"}]

(* badline() on a line fresh from new[].                                    *)
BadLine == [tag |-> 0, valid |-> FALSE, dirty |-> FALSE,
            data |-> [i \in Offsets |-> 0], lastused |-> 0]

(* init_mem and init_cache: malloc leaves the bytes as they happen to be.   *)
InitMem(bytes) == [prog_mem |-> bytes,
                   cache    |-> [s \in Sets |-> [w \in Ways |-> BadLine]],
                   cycles   |-> 0,
                   out      |-> ZeroWord,
                   host     |-> "ok"]

-----------------------------------------------------------------------------
(* Taking an address apart.                                                 *)

Block(a)   == a \div BlockSize
Offset(a)  == a % BlockSize
SetIdx(a)  == Block(a) % NumSets
(* A mutant: the whole block number is kept as the tag. *)
TagBits_block(a) == Block(a)
TagBits(a) == Block(a) \div NumSets
BlockBase(a) == Block(a) * BlockSize

(* The block a line holds, from its tag and the set it sits in.             *)
(* (A mutant leaves the set out.) *)
WritebackBlock_dropset(s, tag) == tag * NumSets
WritebackBlock(s, tag) == tag * NumSets + s
WritebackAddr(s, tag) == WritebackBlock(s, tag) * BlockSize

(* addr_in_range: the sum is taken in 64 bits, so it does not wrap.         *)
AddrInRange(a, bytes) == a + bytes <= MemSize

-----------------------------------------------------------------------------
(* One access: its type, the word or byte to be written, and the bytes a   *)
(* read finds where a word runs past the end of a line (handleCacheHit     *)
(* indexes past Line::data, so they can be anything).                       *)

Access(type, word, junk) == [type |-> type, word |-> word, junk |-> junk]
IsWrite(acc) == acc.type \in {"WRITEBYTE", "WRITEWORD"}
Width(acc) == IF acc.type \in {"READBYTE", "WRITEBYTE"} THEN 1 ELSE WordSize

Straddles(a) == Offset(a) + WordSize > BlockSize
JunkWords(a) == IF CacheType # 0 /\ Straddles(a) THEN Word ELSE {ZeroWord}

SetLine(m, s, w, line) == [m EXCEPT !.cache[s][w] = line]

(* The counter is 32 bits wide; a mutant makes it wider. *)
Tick_wide(c, n) == c + n
Tick(c, n) == (c + n) % CycleMod

(* cyclesneeded(WORDS_PER_BLOCK): 8 for the first word, 2 for each after.   *)
BlockCycles == 6 + 2 * (BlockSize \div WordSize)

(* What a line answers to a read at an offset.                              *)
LineWord(data, offset, acc) ==
  [i \in WordIdx |-> IF i >= Width(acc) THEN 0
                     ELSE IF offset + i < BlockSize THEN data[offset + i]
                     ELSE acc.junk[i]]

(* A line's bytes after a write at an offset; what runs past them is lost.  *)
LineWrite(data, offset, acc) ==
  [i \in Offsets |-> IF i \in offset..(offset + Width(acc) - 1)
                     THEN acc.word[i - offset] ELSE data[i]]

(* The byte of a word written past the padding is the low byte of lastused. *)
LastUsedWrite(lastused, offset, acc) ==
  LET i == BlockSize + LinePadding - offset IN
  IF i < Width(acc) THEN (lastused \div ByteMod) * ByteMod + acc.word[i] ELSE lastused

(* Mutants: a write hit leaves the line clean; a hit leaves lastused alone. *)
HandleCacheHit_clean(m, s, w, offset, acc) ==
  LET line == m.cache[s][w] IN
  [SetLine(m, s, w, [line EXCEPT !.data = IF IsWrite(acc) THEN LineWrite(@, offset, acc) ELSE @])
   EXCEPT !.cycles = Tick(@, 1),
          !.out    = IF IsWrite(acc) THEN @ ELSE LineWord(line.data, offset, acc)]
HandleCacheHit_untouched(m, s, w, offset, acc) ==
  LET line == m.cache[s][w] IN
  [SetLine(m, s, w, [line EXCEPT
      !.data = IF IsWrite(acc) THEN LineWrite(@, offset, acc) ELSE @,
      !.dirty = line.dirty \/ IsWrite(acc)])
   EXCEPT !.cycles = Tick(@, 1),
          !.out = IF IsWrite(acc) THEN @ ELSE LineWord(line.data, offset, acc)]

HandleCacheHit(m, s, w, offset, acc) ==
  LET line == m.cache[s][w]
      used == IF Associativity > 1 THEN m.cycles ELSE line.lastused
      hit  == [line EXCEPT
                 !.data     = IF IsWrite(acc) THEN LineWrite(@, offset, acc) ELSE @,
                 !.dirty    = line.dirty \/ IsWrite(acc),
                 !.lastused = IF IsWrite(acc) THEN LastUsedWrite(used, offset, acc) ELSE used]
  IN  IF ~line.valid THEN m
      ELSE [SetLine(m, s, w, hit) EXCEPT
              !.cycles = Tick(@, 1),
              !.out    = IF IsWrite(acc) THEN @ ELSE LineWord(line.data, offset, acc)]

-----------------------------------------------------------------------------
(* handleCacheMiss, in its order: write the victim back if it is dirty,     *)
(* fetch the block, then serve the access as a hit.                         *)

(* A mutant: the victim is not written back. *)
WriteBack_skip(m, s, w) == m

WriteBack(m, s, w) ==
  LET line == m.cache[s][w]
      base == WritebackAddr(s, line.tag)
  IN  IF ~(line.valid /\ line.dirty) THEN m
      ELSE [SetLine(m, s, w, [line EXCEPT !.dirty = FALSE]) EXCEPT
              !.cycles   = Tick(@, BlockCycles),
              !.prog_mem = [a \in Alloc |-> IF a \in base..(base + BlockSize - 1)
                                            THEN line.data[a - base] ELSE m.prog_mem[a]]]

Fill(m, s, w, a, acc) ==
  LET filled == Tick(m.cycles, BlockCycles) IN
  [SetLine(m, s, w, [tag      |-> TagBits(a),
                     valid    |-> TRUE,
                     dirty    |-> IsWrite(acc),
                     data     |-> [i \in Offsets |-> m.prog_mem[BlockBase(a) + i]],
                     lastused |-> filled])
   EXCEPT !.cycles = filled]

(* The line MISS that it writes to stdout (emu4380.cpp:248) is left out.     *)
HandleCacheMiss(m, s, w, a, acc) ==
  HandleCacheHit(Fill(WriteBack(m, s, w), s, w, a, acc), s, w, Offset(a), acc)

-----------------------------------------------------------------------------
(* checkCache: the loop over the ways of a set, as what it computes.  The   *)
(* loop itself is WayScan.tla, which shows that it computes this.           *)

First(S) == CHOOSE w \in S : \A v \in S : w <= v

(* (A mutant looks at the first way only.) *)
HitWays_oneway(set, tag) == {w \in {0} : set[w].valid /\ set[w].tag = tag}
HitWays(set, tag) == {w \in Ways : set[w].valid /\ set[w].tag = tag}
EmptyWays(set) == {w \in Ways : ~set[w].valid}
OldestWays(set) ==
  {w \in Ways : set[w].valid /\ \A v \in Ways : set[v].valid => set[w].lastused <= set[v].lastused}

(* The victim is whichever the loop chose last: the first empty way or the  *)
(* first of the least recently used ones, whichever comes later.            *)
(* Mutants: always the first way; the last empty way; the newest line.      *)
Victim_zero(set) == 0
Victim_lastempty(set) ==
  IF EmptyWays(set) = {} THEN First(OldestWays(set))
  ELSE CHOOSE w \in EmptyWays(set) : \A v \in EmptyWays(set) : v <= w
Victim_newest(set) ==
  IF EmptyWays(set) # {} THEN First(EmptyWays(set))
  ELSE CHOOSE w \in Ways : \A v \in Ways : set[w].lastused >= set[v].lastused
Victim(set) ==
  LET empty == EmptyWays(set)
      oldest == OldestWays(set)
  IN  IF empty = {} THEN First(oldest)
      ELSE IF oldest = {} THEN First(empty)
      ELSE IF First(empty) > First(oldest) THEN First(empty) ELSE First(oldest)

CheckCache(m, a, acc) ==
  LET s == SetIdx(a)
      hits == HitWays(m.cache[s], TagBits(a))
  IN  IF Block(a) \notin Blocks THEN [m EXCEPT !.host = "undefined"]
      ELSE IF hits # {} THEN HandleCacheHit(m, s, First(hits), Offset(a), acc)
      ELSE HandleCacheMiss(m, s, Victim(m.cache[s]), a, acc)

-----------------------------------------------------------------------------
(* The four access functions.  `second' is the fetching_second flag, which  *)
(* fetch sets while it reads the second word of an instruction uncached.    *)

Spend(m, n) == [m EXCEPT !.cycles = Tick(@, n)]
Load(m, word) == [m EXCEPT !.out = word]

ReadByte(m, a) ==
  IF CacheType # 0 THEN CheckCache(m, a, Access("READBYTE", ZeroWord, ZeroWord))
  ELSE Load(Spend(m, 8), IF AddrInRange(a, 1) THEN ByteWord(m.prog_mem[a]) ELSE ZeroWord)

ReadWord(m, a, second, junk) ==
  IF CacheType # 0 THEN CheckCache(m, a, Access("READWORD", ZeroWord, junk))
  ELSE Load(Spend(m, IF second THEN 2 ELSE 8),
            IF AddrInRange(a, WordSize) THEN [i \in WordIdx |-> m.prog_mem[a + i]] ELSE AllOnes)

WriteByte(m, a, word) ==
  IF CacheType # 0 THEN CheckCache(m, a, Access("WRITEBYTE", word, ZeroWord))
  ELSE IF AddrInRange(a, 1) THEN [Spend(m, 8) EXCEPT !.prog_mem[a] = word[0]]
  ELSE Spend(m, 8)

WriteWord(m, a, word) ==
  IF CacheType # 0 THEN CheckCache(m, a, Access("WRITEWORD", word, ZeroWord))
  ELSE IF ~AddrInRange(a, WordSize) THEN [m EXCEPT !.host = "aborted"]
  ELSE [Spend(m, 8) EXCEPT
          !.prog_mem = [b \in Alloc |-> IF b \in a..(a + WordSize - 1) THEN word[b - a] ELSE m.prog_mem[b]]]

-----------------------------------------------------------------------------
(* What the processor sees at an address: the cached byte if a line of its  *)
(* set holds its block, else the byte in program memory.                    *)
Hits(m, a) == HitWays(m.cache[SetIdx(a)], TagBits(a))
ViewAt(m, a) == IF Hits(m, a) = {} THEN m.prog_mem[a]
                ELSE m.cache[SetIdx(a)][First(Hits(m, a))].data[Offset(a)]
View(m) == [a \in Addr |-> ViewAt(m, a)]

(* No block is held by two ways of a set.                                   *)
HeldOnce(m) == \A s \in Sets : \A v, w \in Ways :
  /\ m.cache[s][v].valid /\ m.cache[s][w].valid
  /\ m.cache[s][v].tag = m.cache[s][w].tag
  => v = w

(* The block of every valid line lies within the memory.                    *)
BlocksInMemory(m) == \A s \in Sets : \A w \in Ways :
  m.cache[s][w].valid => WritebackBlock(s, m.cache[s][w].tag) \in Blocks

(* A valid line that is not dirty agrees with program memory.               *)
CleanAgree(m) == \A s \in Sets : \A w \in Ways :
  m.cache[s][w].valid /\ ~m.cache[s][w].dirty =>
    \A i \in Offsets :
      m.cache[s][w].data[i] = m.prog_mem[WritebackAddr(s, m.cache[s][w].tag) + i]

(* The valid ways of a set come before its empty ones.                      *)
FilledInOrder(m) == \A s \in Sets : \A v, w \in Ways :
  v < w /\ m.cache[s][w].valid => m.cache[s][v].valid
=============================================================================
