----------------------------- MODULE FlatMemory -----------------------------
(***************************************************************************)
(* What readByte, readWord, writeByte and writeWord promise their callers  *)
(* (include/emu4380.h:479-502): a flat array of MemSize bytes, words laid  *)
(* out in it least significant byte first, every read returning what the   *)
(* latest write left there.  There is no cache here, and no clock.         *)
(*                                                                         *)
(* `resp' is the answer to the latest request: which function was called,  *)
(* at which address, and the words it returned.  Carrying the address is   *)
(* what makes the specification strong: an implementation may not answer a *)
(* request with the contents of some other address.                        *)
(***************************************************************************)
EXTENDS Integers, Sequences

CONSTANTS MemSize,     \* bytes of program memory
          WordSize,    \* bytes in a word
          ByteMod,     \* values a byte can take
          ByteAddrs,   \* addresses byte requests are made at
          WordAddrs    \* addresses word requests are made at

VARIABLES mem, resp

vars == <<mem, resp>>

Byte == 0..ByteMod-1
WordIdx == 0..WordSize-1
Word == [WordIdx -> Byte]
Addr == 0..MemSize-1

(* A byte zero-extended to a word, as readByte's result reaches a register. *)
ByteWord(b) == [i \in WordIdx |-> IF i = 0 THEN b ELSE 0]

Answer(op, a, words) == [op |-> op, addr |-> a, words |-> words]

(* The outcome of an access outside the memory is fixed too: a read gives  *)
(* a null byte or an all-ones word, a byte write does nothing.              *)
LoadByte(a) == IF a \in Addr THEN ByteWord(mem[a]) ELSE ByteWord(0)

LoadWord(a) == IF a + WordSize <= MemSize
               THEN [i \in WordIdx |-> mem[a + i]]
               ELSE [i \in WordIdx |-> ByteMod - 1]

Store(a, n, word) ==
  LET old == mem IN
  [b \in Addr |-> IF b \in a..(a+n-1) THEN word[b-a] ELSE old[b]]

ReadByte(a) == /\ resp' = Answer("readByte", a, <<LoadByte(a)>>)
               /\ UNCHANGED mem

ReadWord(a) == /\ resp' = Answer("readWord", a, <<LoadWord(a)>>)
               /\ UNCHANGED mem

WriteByte(a, word) == /\ mem' = Store(a, 1, word)
                      /\ resp' = Answer("writeByte", a, <<>>)

WriteWord(a, word) == /\ a + WordSize <= MemSize
                      /\ mem' = Store(a, WordSize, word)
                      /\ resp' = Answer("writeWord", a, <<>>)

Fetch(a) == /\ a + 2 * WordSize <= MemSize
            /\ resp' = Answer("fetch", a, <<LoadWord(a), LoadWord(a + WordSize)>>)
            /\ UNCHANGED mem

Init == /\ mem \in [Addr -> Byte]
        /\ resp = Answer("none", 0, <<>>)

Next == \/ \E a \in ByteAddrs : ReadByte(a) \/ \E b \in Byte : WriteByte(a, ByteWord(b))
        \/ \E a \in WordAddrs : \/ ReadWord(a)
                                \/ Fetch(a)
                                \/ \E word \in Word : WriteWord(a, word)

Spec == Init /\ [][Next]_vars
=============================================================================
