----------------------------- MODULE SourceImage -----------------------------
(***************************************************************************)
(* What an assembly source means: the image that the emulator is to be     *)
(* given, from the emulator's own account of its instruction set (Isa.tla) *)
(* and of the file it loads.  There is no scanning here, and no order in   *)
(* which anything is found: a program is a sequence of statements, and its *)
(* image is a function of it.                                              *)
(*                                                                         *)
(* A statement is a directive or an instruction, with a label or without   *)
(* one (NoLabel).  An operand is a number, a character, a name, or, of the *)
(* directive STR, a text.                                                  *)
(***************************************************************************)
EXTENDS Isa, SequencesExt

CONSTANTS Names,        \* of labels, operations and registers
          Chars,        \* the characters of texts
          CharBytes,    \* the byte that stands for a character
          NoLabel

VARIABLES program,      \* the source, << >> if the file is none
          image         \* the output file, << >> before there is one

sourceVars == <<program, image>>

Directives == {".INT", ".BYT", ".BTS", ".STR"}
Operand == [form : {"num", "char", "name", "text"}, num : Int, name : Names \cup Chars, text : Seq(Chars)]
Statement == [label : Names \cup {NoLabel}, op : Directives \cup Range(Opcodes), args : Seq(Operand)]
IsCode(s) == s.op \notin Directives

(* The bytes decode looks at, in the order a source names them.             *)
Registers(op) ==
  IF op \in {"JMP", "CALL", "RET", "TRP"} THEN 0
  ELSE IF op \in ThreeRegs \cup {"CMP"} THEN 3
  ELSE IF op \in {"MOV", "CMPI", "IALLC"} \cup RegAndImm \cup Indirect THEN 2
  ELSE 1
UsesImm(op) ==
  op \in {"JMP", "CALL", "TRP", "MOVI", "LDA", "CMPI", "ALCI", "ALLC"} \cup Branches \cup Direct \cup RegAndImm

RegisterNames == <<"R0", "R1", "R2", "R3", "R4", "R5", "R6", "R7", "R8", "R9", "R10", "R11",
                   "R12", "R13", "R14", "R15", "PC", "SL", "SB", "SP", "FP", "HP">>
IsRegister(name) == \E r \in Reg : RegisterNames[r + 1] = name
RegisterNumber(name) == (CHOOSE r \in Reg : RegisterNames[r + 1] = name)

(* The operands a statement has: an instruction its registers, and then an  *)
(* immediate value if it uses one.                                          *)
HasOperands(s) ==
  LET one == Len(s.args) = 1
      form == s.args[1].form
      byte == form = "num" /\ s.args[1].num \in Byte
  IN
  CASE s.op = ".INT" -> s.args = << >> \/ (one /\ form = "num")
    [] s.op = ".BYT" -> s.args = << >> \/ (one /\ (byte \/ form = "char"))
    [] s.op = ".BTS" -> one /\ form = "num" /\ s.args[1].num >= 0
    [] s.op = ".STR" -> one /\ (byte \/ (form = "text" /\ Len(s.args[1].text) \in Byte))
    [] IsCode(s) ->
         /\ Len(s.args) = Registers(s.op) + (IF UsesImm(s.op) THEN 1 ELSE 0)
         /\ \A i \in DOMAIN s.args :
              IF i <= Registers(s.op) THEN s.args[i].form = "name" /\ IsRegister(s.args[i].name)
              ELSE s.args[i].form # "text"

(* How many bytes a statement takes.                                        *)
Size(s) ==
  CASE s.op = ".INT" -> WordSize
    [] s.op = ".BYT" -> 1
    [] s.op = ".BTS" -> s.args[1].num
    [] s.op = ".STR" -> 2 + (IF s.args[1].form = "text" THEN Len(s.args[1].text) ELSE s.args[1].num)
    [] IsCode(s)     -> 2 * WordSize

(* Where statement i begins; the entry point comes before the first one.    *)
Start(i) == LET start[j \in 1..i] == IF j = 1 THEN WordSize ELSE start[j - 1] + Size(program[j - 1])
            IN  start[i]

(* A label is the address of the statement it is on, the last one that has  *)
(* it.                                                                      *)
Labelled(l) == {i \in DOMAIN program : program[i].label = l}
LabelAddr(l) == Start(CHOOSE i \in Labelled(l) : \A j \in Labelled(l) : j <= i)

(* What an operand stands for.  The name of a register is never a label.    *)
Meaning(arg) ==
  CASE arg.form = "num"  -> Wrap(arg.num)
    [] arg.form = "char" -> CharBytes[arg.name]
    [] arg.form = "name" -> IF IsRegister(arg.name) THEN RegisterNumber(arg.name) ELSE LabelAddr(arg.name)

WordSeq(v) == [i \in 1..WordSize |-> ValWord(v)[i - 1]]

DataBytes(s) ==
  LET arg == s.args[1] IN
  CASE s.op = ".INT" -> WordSeq(IF s.args = << >> THEN 0 ELSE Meaning(arg))
    [] s.op = ".BYT" -> <<IF s.args = << >> THEN 0 ELSE Meaning(arg)>>
    [] s.op = ".BTS" -> [i \in 1..arg.num |-> 0]
    [] s.op = ".STR" -> IF arg.form = "text"
                        THEN <<Len(arg.text)>> \o [i \in 1..Len(arg.text) |-> CharBytes[arg.text[i]]] \o <<0>>
                        ELSE <<arg.num>> \o [i \in 1..arg.num + 1 |-> 0]

(* The control registers that fetch is to make of an instruction.           *)
Instruction(s) ==
  LET register(i) == IF i <= Registers(s.op) THEN Meaning(s.args[i]) ELSE 0
  IN  [op  |-> CHOOSE b \in 1..40 : Opcodes[b] = s.op,
       o1  |-> register(1), o2 |-> register(2), o3 |-> register(3),
       imm |-> IF UsesImm(s.op) THEN Meaning(s.args[Registers(s.op) + 1]) ELSE 0]

CodeBytes(c) == <<c.op, c.o1, c.o2, c.o3>> \o WordSeq(c.imm)

Bytes(s) == IF IsCode(s) THEN CodeBytes(Instruction(s)) ELSE DataBytes(s)

(* The entry point is the first instruction, if there is one.               *)
Code == {i \in DOMAIN program : IsCode(program[i])}
EntryPoint == IF Code = {} THEN 0 ELSE Start(CHOOSE i \in Code : \A j \in Code : i <= j)

Image == WordSeq(EntryPoint) \o FlattenSeq([i \in DOMAIN program |-> Bytes(program[i])])

-----------------------------------------------------------------------------
(* The statements of a source have their operands, and what these name is   *)
(* there.                                                                   *)
Defined(arg) ==
  /\ arg.form = "char" => arg.name \in Chars
  /\ arg.form = "name" => IsRegister(arg.name) \/ Labelled(arg.name) # {}
IsSource ==
  /\ program \in Seq(Statement)
  /\ \A i \in DOMAIN program :
       HasOperands(program[i]) /\ \A k \in DOMAIN program[i].args : Defined(program[i].args[k])

SourceInit == IsSource /\ image = << >>

Publish ==
  /\ program # << >> /\ image = << >>
  /\ image' = Image
  /\ UNCHANGED program

(* Nothing is said of a file that is no source.                             *)
PublishAny ==
  /\ program = << >> /\ image = << >>
  /\ image' \in Seq(Byte)
  /\ UNCHANGED program

SourceSpec == SourceInit /\ [][Publish \/ PublishAny]_sourceVars
=============================================================================
