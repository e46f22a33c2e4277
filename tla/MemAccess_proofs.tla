-------------------------- MODULE MemAccess_proofs --------------------------
(***************************************************************************)
(* Theorems about the memory under any stream of requests, for every       *)
(* geometry of the cache, every size of memory and every range of values.  *)
(*                                                                         *)
(* The inductive invariant is IInv: the memory is Coherent (each block is  *)
(* held once, inside the memory, and clean lines agree with it) and the    *)
(* ways of a set are filled in order.  Each access function keeps it by    *)
(* the lemmas of MemSystem_proofs.                                         *)
(***************************************************************************)
EXTENDS MemAccess, MemSystem_proofs

IInv == Coherent(ms) /\ FilledInOrder(ms)

(* What one request does to the memory, whatever it is.                     *)
Step(m, n) ==
  /\ Coherent(n) /\ FilledInOrder(n)
  /\ \A t \in Sets : \A v \in Ways : m.cache[t][v].valid => n.cache[t][v].valid
  /\ \A t \in Sets : \A v \in Ways :
       m.cache[t][v].valid /\ n.cache[t][v].tag # m.cache[t][v].tag
         => \A u \in Ways : n.cache[t][u].valid

(* An access that places its block is a step of the lines.                  *)
LEMMA PlacedIsStep ==
  ASSUME NEW m, NEW n, Coherent(m), FilledInOrder(m), Coherent(n), Placed(m, n)
  PROVE  Step(m, n)
<1>1. m \in MemState BY DEF Coherent
<1> QED BY <1>1, PlacedInOrder DEF Step

(* Two steps are a step.                                                    *)
LEMMA StepTransitive ==
  ASSUME NEW m, NEW n, NEW p, Step(m, n), Step(n, p)
  PROVE  Step(m, p)
BY Zenon DEF Step

(* What a word that runs past its line may find is a word.                  *)
LEMMA JunkType == \A a \in Nat : JunkWords(a) \subseteq Word
BY WordTypes DEF JunkWords

-----------------------------------------------------------------------------
(* The invariant holds at first.                                            *)
LEMMA InitIInv == Init => IInv
<1> SUFFICES ASSUME Init PROVE IInv OBVIOUS
<1>1. PICK bytes \in InitBytes : ms = InitMem(bytes) BY DEF Init
<1>2. BadLine \in Line /\ ~BadLine.valid
  BY WordTypes, MemAssumption DEF BadLine, Line
<1>3. /\ ms.prog_mem \in [Alloc -> Byte]
      /\ ms.cache = [s \in Sets |-> [w \in Ways |-> BadLine]]
      /\ ms.cycles \in 0..CycleMod-1 /\ ms.out \in Word /\ ms.host = "ok"
      /\ ms = [prog_mem |-> ms.prog_mem, cache |-> ms.cache, cycles |-> ms.cycles,
               out |-> ms.out, host |-> ms.host]
  BY <1>1, RequestAssumption, WordTypes, MemAssumption DEF InitMem
<1>4. ms.cache \in [Sets -> [Ways -> Line]] BY <1>2, <1>3
<1>5. ms \in MemState BY <1>3, <1>4 DEF MemState
<1>6. \A s \in Sets : \A w \in Ways : ~ms.cache[s][w].valid BY <1>2, <1>3
<1> QED BY <1>5, <1>6 DEF IInv, Coherent, HeldOnce, BlocksInMemory, CleanAgree, CacheIdle,
                          FilledInOrder

(* Every access is a step of the lines.                                     *)
LEMMA NextStep ==
  ASSUME IInv, Next
  PROVE  Step(ms, ms')
<1> USE RequestAssumption DEF IInv
<1>1. ASSUME NEW a \in ByteAddrs, DoReadByte(a) PROVE Step(ms, ms')
  <2>1. a \in Nat /\ ms' = ReadByte(ms, a) BY <1>1 DEF DoReadByte
  <2>2. Coherent(ms') /\ Placed(ms, ms') BY <2>1, ReadByteEffect
  <2> QED BY <2>2, PlacedIsStep
<1>2. ASSUME NEW a \in ByteAddrs, NEW b \in Byte, DoWriteByte(a, b) PROVE Step(ms, ms')
  <2>1. a \in Nat /\ ms' = WriteByte(ms, a, ByteWord(b)) /\ ByteWord(b) \in Word
    BY <1>2, WordTypes DEF DoWriteByte
  <2>2. Coherent(ms') /\ Placed(ms, ms') BY <2>1, WriteByteEffect
  <2> QED BY <2>2, PlacedIsStep
<1>3. ASSUME NEW a \in WordAddrs, DoReadWord(a) PROVE Step(ms, ms')
  <2>1. PICK junk \in Word : a \in Nat /\ ms' = ReadWord(ms, a, FALSE, junk)
    BY <1>3, JunkType DEF DoReadWord
  <2>2. Coherent(ms') /\ Placed(ms, ms') BY <2>1, ReadWordEffect
  <2> QED BY <2>2, PlacedIsStep
<1>4. ASSUME NEW a \in WordAddrs, NEW word \in Word, DoWriteWord(a, word) PROVE Step(ms, ms')
  <2>1. a \in Nat /\ ms' = WriteWord(ms, a, word) BY <1>4 DEF DoWriteWord
  <2>2. Coherent(ms') /\ Placed(ms, ms') BY <2>1, WriteWordEffect
  <2> QED BY <2>2, PlacedIsStep
<1>5. ASSUME NEW a \in WordAddrs, DoFetch(a) PROVE Step(ms, ms')
  <2>1. a \in Nat /\ a + WordSize \in Nat BY MemAssumption
  <2>2. PICK junk1 \in Word, junk2 \in Word :
          ms' = ReadWord(ReadWord(ms, a, FALSE, junk1), a + WordSize, CacheType = 0, junk2)
    BY <1>5, <2>1, JunkType DEF DoFetch
  <2> DEFINE first == ReadWord(ms, a, FALSE, junk1)
  <2>3. Coherent(first) /\ Placed(ms, first) BY <2>1, ReadWordEffect
  <2>4. Step(ms, first) BY <2>3, PlacedIsStep
  <2>5. ms' = ReadWord(first, a + WordSize, CacheType = 0, junk2) BY <2>2
  <2>6. (CacheType = 0) \in BOOLEAN OBVIOUS
  <2> HIDE DEF first
  <2>7. Coherent(ms') /\ Placed(first, ms') BY <2>1, <2>3, <2>5, <2>6, ReadWordEffect
  <2>8. Step(first, ms') BY <2>3, <2>4, <2>7, PlacedIsStep DEF Step
  <2> QED BY <2>4, <2>8, StepTransitive
<1> QED BY <1>1, <1>2, <1>3, <1>4, <1>5 DEF Next

(* Every access keeps the invariant.                                        *)
LEMMA NextIInv == IInv /\ [Next]_vars => IInv'
<1>1. CASE Next BY <1>1, NextStep DEF Step, IInv
<1>2. CASE UNCHANGED vars BY <1>2 DEF vars, IInv
<1> QED BY <1>1, <1>2

(* The inductive invariant holds throughout.                                *)
THEOREM Invariance == Spec => []IInv
BY InitIInv, NextIInv, PTL DEF Spec

(* The memory, the cache and the counter keep their types under every       *)
(* request, including words that straddle lines and addresses past the end. *)
THEOREM TypeCorrect == Spec => []TypeOK
<1>1. IInv => TypeOK BY DEF IInv, Coherent, TypeOK
<1> QED BY <1>1, Invariance, PTL

(* No block is ever held by two ways of a set.                              *)
THEOREM OneCopyAlways == Spec => []OneCopy
<1>1. IInv => OneCopy BY DEF IInv, Coherent, OneCopy
<1> QED BY <1>1, Invariance, PTL

(* A write-back never touches a byte outside the blocks of the memory.      *)
THEOREM LinesInMemoryAlways == Spec => []LinesInMemory
<1>1. IInv => LinesInMemory BY DEF IInv, Coherent, LinesInMemory
<1> QED BY <1>1, Invariance, PTL

(* A clean line always agrees with program memory.                          *)
THEOREM CleanLinesAgreeAlways == Spec => []CleanLinesAgree
<1>1. IInv => CleanLinesAgree BY DEF IInv, Coherent, CleanLinesAgree
<1> QED BY <1>1, Invariance, PTL

(* The ways of a set are always filled in order.                            *)
THEOREM ValidWaysFirstAlways == Spec => []ValidWaysFirst
<1>1. IInv => ValidWaysFirst BY DEF IInv, ValidWaysFirst
<1> QED BY <1>1, Invariance, PTL

(* No request evicts a block while a way of its set is empty.               *)
THEOREM EvictsOnlyWhenFullAlways == Spec => EvictsOnlyWhenFull
<1> DEFINE A == \A s \in Sets : \A w \in Ways :
                  ms.cache[s][w].valid /\ ms'.cache[s][w].tag # ms.cache[s][w].tag
                    => \A v \in Ways : ms'.cache[s][v].valid
<1>1. IInv /\ [Next]_vars => [A]_vars
  BY NextStep DEF Step
<1> QED BY <1>1, Invariance, PTL DEF Spec, EvictsOnlyWhenFull

-----------------------------------------------------------------------------
(* Requests a cache can serve: inside the memory, and never across the end  *)
(* of a line.  Without a cache there is no restriction.                     *)
ServedRequests ==
  /\ CacheType # 0 => ByteAddrs \subseteq Addr
  /\ \A a \in WordAddrs : Served(a)
  /\ \A a \in WordAddrs : AddrInRange(a, 2 * WordSize) => Served(a + WordSize)

(* The flat memory reads an instruction as two words.                       *)
LEMMA FlatFetchReads ==
  ASSUME NEW m, NEW n, NEW a \in Nat, AddrInRange(a, 2 * WordSize),
         \A b \in Addr : ViewAt(n, b) = ViewAt(m, b)
  PROVE  /\ AddrInRange(a, WordSize) /\ AddrInRange(a + WordSize, WordSize)
         /\ ViewWord(n, a + WordSize) = ViewWord(m, a + WordSize)
<1>1. /\ AddrInRange(a, WordSize) /\ AddrInRange(a + WordSize, WordSize)
      /\ a + WordSize \in Nat
  BY MemAssumption DEF AddrInRange
<1>2. \A i \in WordIdx : (a + WordSize) + i \in Addr BY <1>1, WordInRange
<1> QED BY <1>1, <1>2 DEF ViewWord

(* The first states are first states of the flat memory.                    *)
LEMMA FlatInit == Init => Flat!Init
<1> SUFFICES ASSUME Init PROVE Flat!Init OBVIOUS
<1>1. IInv BY InitIInv
<1>2. PICK bytes \in InitBytes : ms = InitMem(bytes) BY DEF Init
<1>3. \A s \in Sets : \A w \in Ways : ~ms.cache[s][w].valid
  BY <1>2 DEF InitMem, BadLine
<1>4. \A a \in Addr : ViewAt(ms, a) = ms.prog_mem[a] /\ ms.prog_mem[a] \in Byte
  <2>1. ms.prog_mem \in [Alloc -> Byte] BY <1>1 DEF IInv, Coherent, MemState
  <2> QED BY <1>3, <2>1, AddrInAlloc, AddrParts, ViewMiss
<1>5. View(ms) \in [Addr -> Byte] BY <1>4 DEF View
<1> QED BY <1>5 DEF Init, Flat!Init, Flat!Addr, Flat!Byte, Addr, Byte, Answer, Flat!Answer

(* Every request reads or writes the flat memory the processor sees.        *)
LEMMA FlatNext ==
  ASSUME ServedRequests, IInv, Next
  PROVE  [Flat!Next]_(Flat!vars)
<1> USE RequestAssumption
<1>1. ms.host = "ok" => Coherent(ms) BY DEF IInv
<1>2. \A a : Flat!LoadByte(a) = IF a \in Addr THEN ByteWord(ViewAt(ms, a)) ELSE ZeroWord
  BY DEF Flat!LoadByte, Flat!ByteWord, ByteWord, ZeroWord, View, Flat!Addr, Addr,
         Flat!WordIdx, WordIdx
<1>3. \A a \in Nat : Flat!LoadWord(a) = IF AddrInRange(a, WordSize) THEN ViewWord(ms, a) ELSE AllOnes
  <2>1. SUFFICES ASSUME NEW a \in Nat
                 PROVE  Flat!LoadWord(a) = IF AddrInRange(a, WordSize) THEN ViewWord(ms, a)
                                           ELSE AllOnes
    OBVIOUS
  <2>2. AddrInRange(a, WordSize) => \A i \in WordIdx : View(ms)[a + i] = ViewAt(ms, a + i)
    BY WordInRange DEF View
  <2> QED BY <2>2 DEF Flat!LoadWord, AddrInRange, ViewWord, AllOnes, Flat!WordIdx, WordIdx
<1>4. ASSUME NEW a \in ByteAddrs, DoReadByte(a) PROVE [Flat!Next]_(Flat!vars)
  <2>1. /\ a \in Nat /\ ms' = ReadByte(ms, a) /\ Coherent(ms) /\ ms.host = "ok"
        /\ CacheType # 0 => a \in Addr
    BY <1>4 DEF DoReadByte, Running, IInv, ServedRequests
  <2>2. /\ ms'.host = ms.host
        /\ \A b \in Addr : ViewAt(ms', b) = ViewAt(ms, b)
        /\ ms'.out = IF a \in Addr THEN ByteWord(ViewAt(ms, a)) ELSE ZeroWord
    BY <2>1, ReadByteEffect
  <2>3. View(ms') = View(ms) BY <2>2 DEF View
  <2>4. resp' = Answer("readByte", a, <<ms'.out>>) BY <1>4, <2>1, <2>2 DEF DoReadByte, Respond
  <2>5. Flat!ReadByte(a) BY <1>2, <2>2, <2>3, <2>4 DEF Flat!ReadByte, Answer, Flat!Answer
  <2> QED BY <2>5 DEF Flat!Next
<1>5. ASSUME NEW a \in ByteAddrs, NEW b \in Byte, DoWriteByte(a, b)
      PROVE  [Flat!Next]_(Flat!vars)
  <2>1. /\ a \in Nat /\ ms' = WriteByte(ms, a, ByteWord(b)) /\ Coherent(ms) /\ ms.host = "ok"
        /\ CacheType # 0 => a \in Addr
    BY <1>5 DEF DoWriteByte, Running, IInv, ServedRequests
  <2>2. ByteWord(b) \in Word BY WordTypes
  <2>3. /\ ms'.host = ms.host
        /\ \A c \in Addr : ViewAt(ms', c) = IF c = a THEN ByteWord(b)[0] ELSE ViewAt(ms, c)
    BY <2>1, <2>2, WriteByteEffect
  <2>4. View(ms') = Flat!Store(a, 1, ByteWord(b))
    <3>1. ASSUME NEW c \in Addr
          PROVE  /\ c \in a..(a + 1 - 1) <=> c = a
                 /\ c = a => c - a = 0
      BY <2>1, AddrInAlloc
    <3> QED BY <2>3, <3>1 DEF View, Flat!Store, Flat!Addr, Addr
  <2>5. resp' = Answer("writeByte", a, <<>>) BY <1>5, <2>1, <2>3 DEF DoWriteByte, Respond
  <2>6. ByteWord(b) = Flat!ByteWord(b) BY DEF ByteWord, Flat!ByteWord, WordIdx, Flat!WordIdx
  <2>7. Flat!WriteByte(a, Flat!ByteWord(b))
    BY <2>4, <2>5, <2>6 DEF Flat!WriteByte, Answer, Flat!Answer
  <2> QED BY <2>7 DEF Flat!Next, Byte, Flat!Byte
<1>6. ASSUME NEW a \in WordAddrs, DoReadWord(a) PROVE [Flat!Next]_(Flat!vars)
  <2>1. PICK junk \in Word : ms' = ReadWord(ms, a, FALSE, junk)
    BY <1>6, JunkType DEF DoReadWord
  <2>2. a \in Nat /\ Coherent(ms) /\ ms.host = "ok" /\ Served(a)
    BY <1>6 DEF DoReadWord, Running, IInv, ServedRequests
  <2>3. /\ ms'.host = ms.host
        /\ \A b \in Addr : ViewAt(ms', b) = ViewAt(ms, b)
        /\ ms'.out = IF AddrInRange(a, WordSize) THEN ViewWord(ms, a) ELSE AllOnes
    BY <2>1, <2>2, ReadWordEffect
  <2>4. View(ms') = View(ms) BY <2>3 DEF View
  <2>5. resp' = Answer("readWord", a, <<ms'.out>>) BY <1>6, <2>2, <2>3 DEF DoReadWord, Respond
  <2>6. Flat!ReadWord(a)
    BY <1>3, <2>2, <2>3, <2>4, <2>5 DEF Flat!ReadWord, Answer, Flat!Answer
  <2> QED BY <2>6 DEF Flat!Next
<1>7. ASSUME NEW a \in WordAddrs, NEW word \in Word, DoWriteWord(a, word)
      PROVE  [Flat!Next]_(Flat!vars)
  <2>1. a \in Nat /\ Coherent(ms) /\ ms.host = "ok" /\ Served(a) /\ ms' = WriteWord(ms, a, word)
    BY <1>7 DEF DoWriteWord, Running, IInv, ServedRequests
  <2>2. CASE AddrInRange(a, WordSize)
    <3>1. /\ ms'.host = ms.host
          /\ \A b \in Addr : ViewAt(ms', b) = IF b \in a..(a + WordSize - 1)
                                              THEN word[b - a] ELSE ViewAt(ms, b)
      BY <2>1, <2>2, WriteWordEffect
    <3>2. View(ms') = Flat!Store(a, WordSize, word)
      BY <3>1 DEF View, Flat!Store, Flat!Addr, Addr
    <3>3. resp' = Answer("writeWord", a, <<>>) BY <1>7, <2>1, <3>1 DEF DoWriteWord, Respond
    <3>4. Flat!WriteWord(a, word)
      BY <2>2, <3>2, <3>3 DEF Flat!WriteWord, AddrInRange, Answer, Flat!Answer
    <3> QED BY <3>4 DEF Flat!Next, Word, Flat!Word, WordIdx, Flat!WordIdx, Byte, Flat!Byte
  <2>3. CASE ~AddrInRange(a, WordSize)
    <3>1. ms'.host = "aborted" /\ \A b \in Addr : ViewAt(ms', b) = ViewAt(ms, b)
      BY <2>1, <2>3, WriteWordEffect
    <3>2. View(ms') = View(ms) BY <3>1 DEF View
    <3>3. resp' = resp BY <1>7, <3>1 DEF DoWriteWord, Respond
    <3> QED BY <3>2, <3>3 DEF Flat!vars
  <2> QED BY <2>2, <2>3
<1>8. ASSUME NEW a \in WordAddrs, DoFetch(a) PROVE [Flat!Next]_(Flat!vars)
  <2>1. /\ a \in Nat /\ a + WordSize \in Nat /\ Coherent(ms) /\ ms.host = "ok"
        /\ AddrInRange(a, 2 * WordSize) /\ Served(a) /\ Served(a + WordSize)
    BY <1>8, MemAssumption DEF DoFetch, Running, IInv, ServedRequests
  <2>2. PICK junk1 \in Word, junk2 \in Word :
          LET first  == ReadWord(ms, a, FALSE, junk1)
              second == ReadWord(first, a + WordSize, CacheType = 0, junk2)
          IN  ms' = second /\ Respond("fetch", a, <<first.out, second.out>>)
    BY <1>8, <2>1, JunkType DEF DoFetch
  <2> DEFINE first == ReadWord(ms, a, FALSE, junk1)
  <2>3. ms' = ReadWord(first, a + WordSize, CacheType = 0, junk2)
    BY <2>2
  <2>12. Respond("fetch", a, <<first.out, ms'.out>>)
    BY <2>2
  <2>4. /\ Coherent(first) /\ first.host = ms.host
        /\ \A b \in Addr : ViewAt(first, b) = ViewAt(ms, b)
        /\ first.out = IF AddrInRange(a, WordSize) THEN ViewWord(ms, a) ELSE AllOnes
    BY <2>1, ReadWordEffect
  <2>5. (CacheType = 0) \in BOOLEAN OBVIOUS
  <2> HIDE DEF first
  <2>6. /\ ms'.host = first.host
        /\ \A b \in Addr : ViewAt(ms', b) = ViewAt(first, b)
        /\ ms'.out = IF AddrInRange(a + WordSize, WordSize)
                     THEN ViewWord(first, a + WordSize) ELSE AllOnes
    <3>1. Coherent(first) /\ a + WordSize \in Nat /\ Served(a + WordSize) BY <2>1, <2>4
    <3> QED BY <2>3, <2>5, <3>1, ReadWordEffect
  <2>7. View(ms') = View(ms) BY <2>4, <2>6 DEF View
  <2>8. /\ AddrInRange(a, WordSize) /\ AddrInRange(a + WordSize, WordSize)
        /\ ViewWord(first, a + WordSize) = ViewWord(ms, a + WordSize)
    BY <2>1, <2>4, FlatFetchReads
  <2>9. first.out = Flat!LoadWord(a) /\ ms'.out = Flat!LoadWord(a + WordSize)
    BY <1>3, <2>1, <2>4, <2>6, <2>8
  <2>10. resp' = Answer("fetch", a, <<first.out, ms'.out>>)
    BY <2>1, <2>4, <2>6, <2>12 DEF Respond
  <2>11. Flat!Fetch(a)
    BY <2>1, <2>7, <2>9, <2>10 DEF Flat!Fetch, AddrInRange, Answer, Flat!Answer
  <2> QED BY <2>11 DEF Flat!Next
<1> QED BY <1>4, <1>5, <1>6, <1>7, <1>8 DEF Next

(* For requests that stay inside the memory and inside a line, the memory   *)
(* with any cache, or with none, is the flat memory the header promises.    *)
THEOREM FlatRefinement ==
  ASSUME ServedRequests
  PROVE  Spec => ImplementsFlatMemory
<1>1. Init => Flat!Init BY FlatInit
<1>2. IInv /\ [Next]_vars => [Flat!Next]_(Flat!vars)
  <2>1. CASE Next BY <2>1, FlatNext
  <2>2. CASE UNCHANGED vars BY <2>2 DEF vars, Flat!vars
  <2> QED BY <2>1, <2>2
<1> QED BY <1>1, <1>2, Invariance, PTL DEF Spec, ImplementsFlatMemory, Flat!Spec
=============================================================================
