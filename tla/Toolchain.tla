------------------------------ MODULE Toolchain ------------------------------
(***************************************************************************)
(* The assembler and the emulator, one after the other: the image that     *)
(* asm4380.py writes (main, 1347-1361) is the file that the emulator loads *)
(* (src/main.cpp:87-109).  A source file is given together with the        *)
(* program it spells, so that what comes out can be compared with it.      *)
(***************************************************************************)
EXTENDS Assembler

CONSTANTS
  Sources,        \* pairs of a program and a file; << >> for a file that is none
  NoLabel,
  MemSize, BlockSize, NumCacheLines, CacheType, WordSize, CycleMod, LinePadding,
  InitBytes, Inputs, ZeroChar, Newline, Blanks

VARIABLES
  program,                                      \* what the file spells
  reg, cntrl, data, ms, stage, text, emuPos, stdin, stdout    \* the emulator

emuVars == <<reg, cntrl, data, ms, stage, text, emuPos, stdin, stdout>>
toolVars == <<asmVars, program, emuVars>>

(* The file the assembler wrote.                                            *)
BinFile(bytes) == [opens |-> TRUE, reads |-> TRUE, bytes |-> bytes]

Emu == INSTANCE Cpu WITH file <- BinFile(output), pos <- emuPos,
                         Files <- {BinFile(<< >>)}

(* The characters that are a byte each.                                     *)
ByteChar == {s \in OneChar : Codes[s][1] \in Byte}

Source == INSTANCE SourceImage WITH
  Chars     <- ByteChar,
  CharBytes <- [s \in ByteChar |-> Codes[s][1]],
  image     <- output

ASSUME ToolAssumption ==
  Emu!MemAssumption /\ Emu!IsaAssumption /\ Emu!CpuAssumption

ToolInit ==
  /\ \E s \in Sources : program = s[1] /\ file = s[2]
  /\ AsmInit
  /\ Emu!Init

Assemble == AsmNext /\ UNCHANGED <<program, emuVars>>
Run == phase = "written" /\ UNCHANGED <<asmVars, program>> /\ Emu!Next

ToolNext == Assemble \/ Run
ToolSpec == ToolInit /\ [][ToolNext]_toolVars

(* The assembler waits for nothing.                                         *)
ToolFairSpec == ToolSpec /\ WF_asmVars(Assemble)

-----------------------------------------------------------------------------
(* What a source may have by the documents and the assembler does not take: *)
(* a sign in the operand of .INT (README.md:117), which is refused; and two *)
(* endings of a line at which the assembler hangs, a comment behind an .INT *)
(* without operand (asm4380.py:271) and, behind an operation, the end of    *)
(* the file.                                                                *)
SignedInt == \E i \in DOMAIN program :
               program[i].op = ".INT" /\ program[i].args # << >> /\ program[i].args[1].num < 0
HangsInSource == /\ Hangs
                 /\ \/ state = "INT_DIRECTIVE" /\ Peek(NextToken) = ";"
                    \/ state = "BEGIN_CODE"

(* Whatever the assembler writes for a source is the image that the source  *)
(* means, by the emulator's tables of operation codes, registers and        *)
(* operands; and it writes one for every source but those above.  Files     *)
(* that end behind a directive without operand are not among Sources, the   *)
(* assembler drops it: OperandOptional is violated by one.                  *)
ImplementsSource ==
  /\ Source!SourceSpec
  /\ program # << >> /\ ~SignedInt => <>(phase = "written" \/ HangsInSource)

(* The operand and the comment of an .INT are optional, and no operand is a *)
(* zero (README.md:117, asm4380.py:271): such a source is assembled.        *)
OperandOptional == <>(output = Source!Image)

(* The processor executes the source and nothing else: what it decodes is   *)
(* an instruction of the source, its labels resolved, for programs that     *)
(* jump to labels only and do not write into their code.                    *)
RunsTheSource ==
  stage = "decode" /\ program # << >> /\ Source!Code # {} =>
    \E i \in Source!Code :
      reg[16] = Source!Start(i) + 8 /\ cntrl = Source!Instruction(program[i])

(* What a program must not do, if it is to run as its source says.          *)

CodeAt(i) == Source!Start(i)..(Source!Start(i) + 7)
IsInstruction(a) == \E i \in Source!Code : a = Source!Start(i)

(* It stores nothing over its instructions.                                 *)
LeavesCodeAlone == \A i \in Source!Code : Emu!StoresTo \cap CodeAt(i) = {}

(* It jumps, calls and returns to its instructions only, and goes on from   *)
(* one instruction to another, unless it jumps or stops.                    *)
ReturnAddr == Emu!WordVal([i \in Emu!WordIdx |-> Emu!ViewAt(ms, reg[Emu!SP] + i)])

StaysInCode ==
  stage = "execute" /\ Emu!Accepted =>
    /\ Emu!op \in {"JMP", "CALL"} \cup Emu!Branches => IsInstruction(Emu!imm)
    /\ Emu!op = "JMR" => IsInstruction(Emu!val1)
    /\ Emu!op = "RET" /\ Emu!AddrInRange(reg[Emu!SP], WordSize) => IsInstruction(ReturnAddr)
    /\ Emu!op \in Emu!WritesRegister => Emu!rd # Emu!PC
    /\ IsInstruction(reg[Emu!PC]) \/ Emu!op \in {"JMP", "JMR", "CALL", "RET"}
         \/ (Emu!op = "TRP" /\ Emu!imm = 0)
=============================================================================
