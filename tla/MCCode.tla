------------------------------- MODULE MCCode -------------------------------
(* Programs as the files the emulator loads, for the instances of Cpu. *)
EXTENDS Isa, SequencesExt

Opcode(name) == CHOOSE b \in 1..40 : Opcodes[b] = name
WordBytes(v) == [i \in 1..WordSize |-> ValWord(v)[i - 1]]
Ins(name, o1, o2, o3, v) == <<Opcode(name), o1, o2, o3>> \o WordBytes(v)

(* A program: the entry point, and the instructions from there on.          *)
Image(entry, code) == WordBytes(entry) \o FlattenSeq(code)
File(bytes) == [opens |-> TRUE, reads |-> TRUE, bytes |-> bytes]

MinInt == ValMod \div 2
MinusOne == ValMod - 1
=============================================================================
