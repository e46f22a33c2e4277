------------------------------ MODULE MemAccess ------------------------------
(***************************************************************************)
(* The memory driven by an arbitrary stream of requests: each step is one  *)
(* call of readByte, readWord, writeByte or writeWord, or the two calls    *)
(* fetch makes for one instruction.  Any program run by the emulator is    *)
(* one such stream, so what holds here holds under every program.          *)
(***************************************************************************)
EXTENDS MemSystem, Sequences

CONSTANTS ByteAddrs,     \* addresses byte requests are made at
          WordAddrs,     \* addresses word requests are made at
          InitBytes,     \* the memory images the run starts from
          MaxCycles      \* bound on the cycle counter, for TLC

ASSUME RequestAssumption ==
  /\ ByteAddrs \subseteq Nat
  /\ WordAddrs \subseteq Nat
  /\ InitBytes \subseteq [Alloc -> Byte]
  /\ MaxCycles \in Nat

VARIABLES ms,      \* the memory, a MemState
          resp     \* the latest request and what it was answered

vars == <<ms, resp>>

Answer(op, a, words) == [op |-> op, addr |-> a, words |-> words]

Init == /\ \E bytes \in InitBytes : ms = InitMem(bytes)
        /\ resp = Answer("none", 0, <<>>)

(* The emulator process is alive and below the bound.                       *)
Running == ms.host = "ok" /\ ms.cycles < MaxCycles

(* A request that brings the process down gets no answer.                   *)
Respond(op, a, words) ==
  resp' = IF ms'.host = "ok" THEN Answer(op, a, words) ELSE resp

DoReadByte(a) == 
  /\ Running
  /\ ms' = ReadByte(ms, a)
  /\ Respond("readByte", a, <<ms'.out>>)

DoReadWord(a) ==
  /\ Running
  /\ \E junk \in JunkWords(a) : ms' = ReadWord(ms, a, FALSE, junk)
  /\ Respond("readWord", a, <<ms'.out>>)

DoWriteByte(a, b) ==
  /\ Running
  /\ ms' = WriteByte(ms, a, ByteWord(b))
  /\ Respond("writeByte", a, <<>>)

DoWriteWord(a, word) ==
  /\ Running
  /\ ms' = WriteWord(ms, a, word)
  /\ Respond("writeWord", a, <<>>)

(* fetch: an instruction is two words, and its bound is checked first.      *)
DoFetch(a) ==
  /\ Running
  /\ AddrInRange(a, 2 * WordSize)
  /\ \E junk1 \in JunkWords(a), junk2 \in JunkWords(a + WordSize) :
       LET first  == ReadWord(ms, a, FALSE, junk1)
           second == ReadWord(first, a + WordSize, CacheType = 0, junk2)
       IN  /\ ms' = second
           /\ Respond("fetch", a, <<first.out, second.out>>)

Next == \/ \E a \in ByteAddrs : DoReadByte(a)
        \/ \E a \in ByteAddrs, b \in Byte : DoWriteByte(a, b)
        \/ \E a \in WordAddrs : DoReadWord(a)
        \/ \E a \in WordAddrs, word \in Word : DoWriteWord(a, word)
        \/ \E a \in WordAddrs : DoFetch(a)

Spec == Init /\ [][Next]_vars

-----------------------------------------------------------------------------
(* The state keeps its shape.                                               *)
TypeOK == ms \in MemState

(* No block is held by two ways of a set: the loop of checkCache takes the  *)
(* first way that matches, so a second copy would be stale.                 *)
OneCopy == HeldOnce(ms)

(* A line's block lies within the memory, so that writing it back does not  *)
(* touch anything else (the memcpy to writebackaddr).                       *)
LinesInMemory == BlocksInMemory(ms)

(* A valid line that is not dirty agrees with program memory: evicting it   *)
(* without a write-back loses nothing.                                      *)
CleanLinesAgree == CleanAgree(ms)

(* The valid ways of a set come before its empty ones.  The victim loop     *)
(* overwrites its choice of an empty way with any older valid way it meets  *)
(* later; only this order makes it prefer the empty way.                    *)
ValidWaysFirst == FilledInOrder(ms)

(* readWord returns the word located at the address (emu4380.h readWord).   *)
ReadWordIsMemory ==
  resp.op = "readWord" /\ AddrInRange(resp.addr, WordSize) =>
    resp.words = <<[i \in WordIdx |-> ViewAt(ms, resp.addr + i)]>>

(* A block is evicted only from a set with no empty way left.  (The state   *)
(* after the step is the one looked at because a fetch makes two accesses.) *)
EvictsOnlyWhenFull ==
  [][\A s \in Sets : \A w \in Ways :
       ms.cache[s][w].valid /\ ms'.cache[s][w].tag # ms.cache[s][w].tag
         => \A v \in Ways : ms'.cache[s][v].valid]_vars

(* The four functions read and write one flat memory, whatever the cache.   *)
Flat == INSTANCE FlatMemory WITH mem <- View(ms)
ImplementsFlatMemory == Flat!Spec
=============================================================================
