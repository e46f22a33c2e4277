--------------------------------- MODULE Isa ---------------------------------
(***************************************************************************)
(* The instruction set: registers, operation codes, what decode accepts    *)
(* and takes from the register file, and what the arithmetic computes      *)
(* (include/emu4380.h:60-143, src/emu4380.cpp:159-174, 543-1019,           *)
(* 1547-1776).  Pure operators; the processor that uses them is Cpu.tla.   *)
(*                                                                         *)
(* A register holds a number; a word of memory is the bytes of one.        *)
(***************************************************************************)
EXTENDS MemSystem, Sequences

(* An instruction is two words of four bytes, and a byte holds any opcode.  *)
ASSUME IsaAssumption == WordSize = 4 /\ ByteMod > 40

ValMod == ByteMod * ByteMod * ByteMod * ByteMod
Val == 0..ValMod-1

WordVal(word) == word[0] + ByteMod * word[1] + ByteMod * ByteMod * word[2]
                         + ByteMod * ByteMod * ByteMod * word[3]
ValWord(v) == [i \in WordIdx |->
  (IF i = 0 THEN v
   ELSE IF i = 1 THEN v \div ByteMod
   ELSE IF i = 2 THEN v \div (ByteMod * ByteMod)
   ELSE v \div (ByteMod * ByteMod * ByteMod)) % ByteMod]

(* Unsigned arithmetic wraps; static_cast<int32_t> is two's complement.     *)
(* (A mutant lets a register grow.) *)
Wrap_wide(n) == n
Wrap(n) == n % ValMod
Signed(v) == IF 2 * v >= ValMod THEN v - ValMod ELSE v

-----------------------------------------------------------------------------
(* Registers.  igr leaves HP out, so most instructions cannot name it.      *)

R3 == 3
PC == 16
SL == 17
SB == 18
SP == 19
FP == 20
HP == 21
Reg == 0..21

ValidRg(r) == r \in Reg
Igr(r) == r \in Reg /\ r < HP
ValidAddr(a) == a < MemSize

-----------------------------------------------------------------------------
(* Operation codes, from 1 up, and the groups decode treats alike.          *)

Opcodes == <<"JMP", "JMR", "BNZ", "BGT", "BLT", "BRZ", "MOV", "MOVI", "LDA",
             "STR", "LDR", "STB", "LDB", "ISTR", "ILDR", "ISTB", "ILDB",
             "ADD", "ADDI", "SUB", "SUBI", "MUL", "MULI", "DIV", "SDIV", "DIVI",
             "AND", "OR", "CMP", "CMPI", "TRP", "ALCI", "ALLC", "IALLC",
             "PSHR", "PSHB", "POPR", "POPB", "CALL", "RET">>
Mnemonic(b) == IF b \in 1..40 THEN Opcodes[b] ELSE "none"

Branches  == {"BNZ", "BGT", "BLT", "BRZ"}
ThreeRegs == {"ADD", "SUB", "MUL", "DIV", "SDIV", "AND", "OR"}
RegAndImm == {"ADDI", "SUBI", "MULI", "DIVI"}
Compares  == {"CMP", "CMPI"}
Direct    == {"STR", "LDR", "STB", "LDB"}
Indirect  == {"ISTR", "ILDR", "ISTB", "ILDB"}
StackOps  == {"PSHR", "PSHB", "POPR", "POPB"}
Arithmetic == ThreeRegs \cup RegAndImm \cup Compares

(* The control registers: the bytes of an instruction's first word, and its *)
(* second word as a number.                                                 *)
ControlRegs == [op : Byte, o1 : Byte, o2 : Byte, o3 : Byte, imm : Val]
Control(first, second) == [op |-> first[0], o1 |-> first[1], o2 |-> first[2],
                           o3 |-> first[3], imm |-> WordVal(second)]

(* decode: which control registers are an instruction.                      *)
Decodes(c) ==
  LET op == Mnemonic(c.op) IN
  \/ op \in {"CALL", "RET"}
  \/ op = "JMP" /\ ValidAddr(c.imm)
  \/ op \in {"JMR", "MOVI"} \cup Direct /\ ValidRg(c.o1)
  \/ op \in {"LDA"} \cup Branches /\ ValidRg(c.o1) /\ ValidAddr(c.imm)
  \/ op \in {"CMPI"} \cup Indirect /\ ValidRg(c.o1) /\ ValidRg(c.o2)
  \/ op = "CMP" /\ ValidRg(c.o1) /\ ValidRg(c.o2) /\ ValidRg(c.o3)
  \/ op \in {"ALCI", "ALLC"} \cup StackOps /\ Igr(c.o1)
  \/ op \in {"MOV", "IALLC"} \cup RegAndImm /\ Igr(c.o1) /\ Igr(c.o2)
  \/ op \in ThreeRegs /\ Igr(c.o1) /\ Igr(c.o2) /\ Igr(c.o3)
  \/ op = "TRP" /\ c.imm \in 0..6 \cup {98}

(* decode: the register values an accepted instruction is handed.  The data *)
(* registers it does not use keep what the previous instruction left.       *)
DataRegs(c, reg, data) ==
  LET op == Mnemonic(c.op) IN
  [val1 |-> IF op \in {"JMR", "STR", "ISTR", "ISTB", "PSHR", "PSHB"} \cup Branches
            THEN reg[c.o1]
            ELSE IF op = "STB" THEN reg[c.o1] % ByteMod
            ELSE IF op \in {"MOV", "ILDR", "ILDB", "IALLC"} \cup Arithmetic THEN reg[c.o2]
            ELSE data.val1,
   val2 |-> IF op \in {"ISTR", "ISTB"} THEN reg[c.o2]
            ELSE IF op \in {"CMP"} \cup ThreeRegs THEN reg[c.o3]
            ELSE data.val2]

-----------------------------------------------------------------------------
(* What the branches and the arithmetic compute.                            *)

Taken(op, v) ==
  \/ op = "BNZ" /\ v # 0
  \/ op = "BGT" /\ Signed(v) > 0
  \/ op = "BLT" /\ Signed(v) < 0
  \/ op = "BRZ" /\ v = 0

Abs(n) == IF n < 0 THEN -n ELSE n

(* Signed division truncates towards zero.                                  *)
Quotient(a, b) == IF (a < 0) = (b < 0) THEN Abs(a) \div Abs(b) ELSE -(Abs(a) \div Abs(b))

(* The one quotient of 32-bit integers that is not one: dividing it traps.  *)
DivisionTraps(op, a, b) ==
  op \in {"SDIV", "DIVI"} /\ 2 * a = ValMod /\ b = ValMod - 1

DividesByZero(op, b) == op \in {"DIV", "SDIV", "DIVI"} /\ b = 0

Flag(p) == IF p THEN 1 ELSE 0

Compared(a, b) == IF a > b THEN 1 ELSE IF a < b THEN ValMod - 1 ELSE 0

Result(op, a, b) ==
  CASE op \in {"ADD", "ADDI"}  -> Wrap(a + b)
    [] op \in {"SUB", "SUBI"}  -> Wrap(a - b)
    [] op \in {"MUL", "MULI"}  -> Wrap(a * b)
    [] op = "DIV"              -> a \div b
    [] op \in {"SDIV", "DIVI"} -> Wrap(Quotient(Signed(a), Signed(b)))
    [] op = "AND"              -> Flag(a # 0 /\ b # 0)
    [] op = "OR"               -> Flag(a # 0 \/ b # 0)
    [] op \in Compares         -> Compared(Signed(a), Signed(b))
=============================================================================
