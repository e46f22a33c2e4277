---------------------------- MODULE MCMemAccess ----------------------------
(* Small instances of MemAccess and MemLru for TLC. *)
EXTENDS MemLru

MCZeroBytes == {[a \in Alloc |-> 0]}

(* The addresses at which a word fits in one line. *)
MCAlignedWords == {a \in 0..(MemSize - WordSize) : ~Straddles(a)}
MCAnyWords == 0..(MemSize - WordSize)
MCAnyBytes == 0..(MemSize - 1)

(* Three blocks that share the second of two sets: a word, with another     *)
(* behind it, in the first of them, and a byte in each of the others. *)
MCSharedSetBytes == {a \in Addr : Offset(a) = 0 /\ SetIdx(a) = 1} \ {BlockSize}
MCSharedSetWord == {BlockSize}

MCNone == {}

MCOneBytePerBlock == {a \in Addr : Offset(a) = 0}
=============================================================================
