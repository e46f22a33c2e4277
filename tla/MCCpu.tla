------------------------------- MODULE MCCpu -------------------------------
(* Small instances of Cpu: bytes of six bits, a memory of 64 bytes, and      *)
(* every program over a menu of instructions.                               *)
EXTENDS Cpu, MCCode

(* Files that are not programs: missing, unreadable, too short, too long,   *)
(* and with an entry point outside memory.                                  *)
MCOddFiles == {
  [opens |-> FALSE, reads |-> FALSE, bytes |-> <<>>],
  [opens |-> TRUE, reads |-> FALSE, bytes |-> WordBytes(0)],
  File(<<4, 0, 0>>), File([i \in 1..(MemSize + 1) |-> 0]),
  File(Image(MemSize, <<Ins("TRP", 0, 0, 0, 1)>>))}

(* Registers for what follows.                                              *)
MCSetups == {Ins("MOVI", 3, 0, 0, 40), Ins("MOVI", 3, 0, 0, MinInt)}
MCFirst == {Ins("MOVI", 3, 0, 0, MinusOne), Ins("MOVI", 1, 0, 0, MemSize - 2),
            Ins("MOVI", SP, 0, 0, 30), Ins("MOVI", HP, 0, 0, MemSize + 1)}

(* Every instruction, the forms that are refused among them.                *)
MCBody == {
  Ins("JMP", 0, 0, 0, 20), Ins("JMP", 0, 0, 0, MemSize), Ins("JMR", 1, 0, 0, 0),
  Ins("BNZ", 3, 0, 0, 28), Ins("BGT", 3, 0, 0, 28), Ins("BLT", 3, 0, 0, 28),
  Ins("BRZ", 3, 0, 0, MemSize - 2),
  Ins("MOV", 1, 3, 0, 0), Ins("MOV", HP, 3, 0, 0), Ins("LDA", 2, 0, 0, 36),
  Ins("STR", 3, 0, 0, 44), Ins("LDR", 2, 0, 0, 4), Ins("STB", 3, 0, 0, 44),
  Ins("LDB", 2, 0, 0, 5), Ins("ISTR", 3, 1, 0, 0), Ins("ILDR", 2, 3, 0, 0),
  Ins("ISTB", 3, 1, 0, 0), Ins("ILDB", 2, 1, 0, 0),
  Ins("ADD", 2, 3, 3, 0), Ins("ADDI", 3, 3, 0, 1), Ins("SUBI", 3, 3, 0, 1),
  Ins("DIV", 2, 3, 1, 0), Ins("DIVI", 2, 3, 0, MinusOne), Ins("DIVI", 2, 3, 0, 2),
  Ins("CMP", 2, 3, 1, 0), Ins("CMPI", 2, 3, 0, 5), Ins("AND", 2, 3, 1, 0),
  Ins("TRP", 0, 0, 0, 0), Ins("TRP", 0, 0, 0, 1), Ins("TRP", 0, 0, 0, 2),
  Ins("TRP", 0, 0, 0, 3), Ins("TRP", 0, 0, 0, 4), Ins("TRP", 0, 0, 0, 5),
  Ins("TRP", 0, 0, 0, 6), Ins("TRP", 0, 0, 0, 7), Ins("TRP", 0, 0, 0, 98),
  Ins("ALCI", 2, 0, 0, 8), Ins("ALCI", 2, 0, 0, MinusOne), Ins("ALLC", 2, 0, 0, 0), Ins("ALLC", 2, 0, 0, MemSize - 3),
  Ins("IALLC", 2, 1, 0, 0), Ins("PSHR", 3, 0, 0, 0), Ins("PSHB", 3, 0, 0, 0),
  Ins("POPR", 2, 0, 0, 0), Ins("POPB", 2, 0, 0, 0),
  Ins("CALL", 0, 0, 0, 20), Ins("CALL", 0, 0, 0, MemSize), Ins("RET", 0, 0, 0, 0)}

(* The stack moved past the memory, where writeWord aborts.                 *)
MCMovedStack ==
  {File(Image(4, <<Ins("MOVI", SB, 0, 0, MemSize + 8), Ins("MOVI", SP, 0, 0, MemSize + 8), c>>)) :
     c \in {Ins("PSHR", 3, 0, 0, 0), Ins("PSHB", 3, 0, 0, 0), Ins("CALL", 0, 0, 0, 20)}}

MCPrograms == MCOddFiles \cup MCMovedStack \cup
  {File(Image(4, <<a, b, c>>)) : a \in MCSetups, b \in MCFirst \cup MCBody, c \in MCBody}

(* The last of them is a line whose length is more than a byte.             *)
MCInputs == {<<>>, <<11, 10, 25, 20>>, <<17, 19, 10, 18>>, [i \in 1..ByteMod+1 |-> 30]}
MCZeroBytes == {[a \in Alloc |-> 0]}
=============================================================================
