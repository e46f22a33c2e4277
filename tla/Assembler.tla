------------------------------ MODULE Assembler ------------------------------
(***************************************************************************)
(* The assembler (assembler/asm4380.py): a scanner that goes through a     *)
(* source file a state at a time, emitting data and reserving eight bytes  *)
(* for each instruction, and an emitter that fills them in afterwards.     *)
(*                                                                         *)
(* A step is one call of a handler of `run', one turn of the loop inside   *)
(* _gather_tokens or _parse_str_string, or one call of an emitter.         *)
(* `phase' says how far the process is:                                    *)
(*    "scanning"    in the loop of run                                     *)
(*    "emitting"    in _assemble_entries                                   *)
(*    "written"     the image is in the output file                        *)
(*    "rejected"    _print_error called sys.exit(2)                        *)
(*    "crashed"     an exception nobody catches                            *)
(*                                                                         *)
(* A file is a sequence of symbols.  A symbol is one character, or a word: *)
(* a whole run of digits, or of letters and digits that a letter starts.   *)
(* Words lie next to each other only where the scanner itself cuts a run   *)
(* of letters in two: after the three letters of a directive, after the    *)
(* letter of an escape sequence, and after the digits of a directive.      *)
(* Names are in the case the code compares them in.  The underscore, which *)
(* a label may have and int() takes between digits, is no symbol.          *)
(***************************************************************************)
EXTENDS Integers, SequencesExt

CONSTANTS
  Names,          \* words that start with a letter
  NumeralValue,   \* the runs of digits, and what int() makes of them
  OtherChars,     \* characters that have no meaning outside quotes
  Codes,          \* ord() of each character of a symbol
  Escapes,        \* ESCAPES: the characters that may follow a backslash
  ByteMod,        \* values of a byte (256)
  MaxLength       \* the longest string of a .STR directive (255)

Numerals == DOMAIN NumeralValue
Marks == {"\n", " ", ";", ".", "#", ",", "-", "'", "\"", "\\"}
Symbols == Names \cup Numerals \cup Marks \cup OtherChars
OneChar == {s \in Symbols : Len(Codes[s]) = 1}
EOF == ""       \* what reading past the end of a Python file gives

ASSUME AssemblerAssumption ==
  /\ ByteMod \in Nat /\ ByteMod > 40 /\ MaxLength \in 0..ByteMod-1
  /\ NumeralValue \in [Numerals -> Nat]
  /\ Codes \in [Symbols -> Seq(Nat)]
  /\ DOMAIN Escapes \subseteq OneChar /\ Escapes \in [DOMAIN Escapes -> 0..ByteMod-1]
  /\ Names \cap Numerals = {} /\ Marks \cap (Names \cup Numerals \cup OtherChars) = {}
  /\ OtherChars \cap (Names \cup Numerals) = {} /\ Marks \subseteq OneChar
  /\ EOF \notin Symbols /\ "_" \notin OtherChars

VARIABLES
  file,              \* the source file
  state, pos,        \* the state of the scanner and its place in the file
  location_counter,
  symbol_table,      \* from labels to addresses
  data_bytes,        \* the image, as far as it is built
  data_possible,     \* no instruction has been seen
  entries,           \* the instructions: operation, operands, address
  sb,                \* the characters of the string being parsed
  phase,
  emitted,           \* how many entries have been emitted
  fixups,            \* operands that are no label: [addr, label]
  output             \* what is in the output file

layout == <<location_counter, data_bytes>>
tables == <<symbol_table, data_possible, entries>>
asmVars == <<file, state, pos, layout, tables, sb, phase, emitted, fixups, output>>

Byte == 0..ByteMod-1
Zeros(n) == [i \in 1..n |-> 0]

(* split_to_bytes, for the widths that have a value.                        *)
Weight == <<1, ByteMod, ByteMod * ByteMod, ByteMod * ByteMod * ByteMod>>
(* (A mutant keeps the high bits.) *)
SplitToBytes_whole(value, width) == [i \in 1..width |-> value \div Weight[i]]
SplitToBytes(value, width) == [i \in 1..width |-> (value \div Weight[i]) % ByteMod]

AsmInit ==
  /\ file \in Seq(Symbols)
  /\ state = "START_LINE" /\ pos = 1
  /\ location_counter = 4 /\ data_bytes = Zeros(4)
  /\ symbol_table = << >> /\ data_possible = TRUE /\ entries = << >>
  /\ sb = << >> /\ phase = "scanning"
  /\ emitted = 0 /\ fixups = {} /\ output = << >>

-----------------------------------------------------------------------------
(* CharStream.                                                              *)

Peek(p) == IF p <= Len(file) THEN file[p] ELSE EOF

Least(S) == CHOOSE n \in S : \A m \in S : n <= m

(* The first place from p on that is at none, or at one, of some symbols.   *)
After(p, chars) == Least({q \in p..Len(file)+1 : Peek(q) \notin chars})
Until(p, chars) == Least({q \in p..Len(file)+1 : Peek(q) \in chars \cup {EOF}})

Blank == {" "}
NextToken == After(pos, Blank)      \* where consume_white stops
AlphaNumeric(p) == Peek(p) \in Names \cup Numerals
EndsLine(p) == Peek(p) \in {"\n", ";"}

-----------------------------------------------------------------------------
(* What the handlers do.                                                    *)

InHandler(s) ==
  /\ phase = "scanning" /\ state = s /\ pos <= Len(file)
  /\ UNCHANGED <<file, emitted, fixups, output>>

Goto(s, p) == state' = s /\ pos' = p /\ UNCHANGED phase

(* sys.exit(2), or an exception: nothing is written.                        *)
Exit(how) == phase' = how /\ UNCHANGED <<state, pos, layout, tables, sb>>
Reject == Exit("rejected")

(* _store_number_in_byte_list, the bytes and the width it counts.           *)
(* (A mutant counts a word.) *)
Store_word(bytes, width) ==
  /\ data_bytes' = data_bytes \o bytes
  /\ location_counter' = location_counter + 4
Store(bytes, width) ==
  /\ data_bytes' = data_bytes \o bytes
  /\ location_counter' = location_counter + width

(* An operation: there is no data from here on.                             *)
(* (A mutant lets data follow code.) *)
EnterCode_open(p) == Goto("BEGIN_CODE", p) /\ UNCHANGED <<layout, tables, sb>>
EnterCode(p) ==
  /\ Goto("BEGIN_CODE", p) /\ data_possible' = FALSE
  /\ UNCHANGED <<layout, symbol_table, entries, sb>>

(* A line starts with a label, a directive or an operation, or is empty.    *)
(* Any other character is left where it is.                                 *)
StartLine ==
  LET p == NextToken IN
  /\ InHandler("START_LINE")
  /\ \/ /\ AlphaNumeric(pos)
        /\ Goto("START_OF_LABEL", pos) /\ UNCHANGED <<layout, tables, sb>>
     \/ /\ ~AlphaNumeric(pos)
        /\ \/ EndsLine(p) /\ Goto("LINE_FINISHED", p) /\ UNCHANGED <<layout, tables, sb>>
           \/ /\ Peek(p) = "." /\ data_possible
              /\ Goto("BEGIN_DIRECTIVE", p + 1) /\ UNCHANGED <<layout, tables, sb>>
           \/ Peek(p) = "." /\ ~data_possible /\ Reject
           \/ AlphaNumeric(p) /\ EnterCode(p)
           \/ /\ ~EndsLine(p) /\ Peek(p) # "." /\ ~AlphaNumeric(p)
              /\ Goto("START_LINE", p) /\ UNCHANGED <<layout, tables, sb>>

StartOfLabel ==
  LET label == file[pos] IN
  /\ InHandler("START_OF_LABEL")
  /\ symbol_table' = [l \in DOMAIN symbol_table \cup {label} |->
                        IF l = label THEN location_counter ELSE symbol_table[l]]
  /\ Goto("LABEL_FOUND", pos + 1)
  /\ UNCHANGED <<layout, data_possible, entries, sb>>

LabelFound ==
  LET p == NextToken IN
  /\ InHandler("LABEL_FOUND")
  /\ \/ /\ Peek(p) = "." /\ data_possible
        /\ Goto("BEGIN_DIRECTIVE", p + 1) /\ UNCHANGED <<layout, tables, sb>>
     \/ AlphaNumeric(p) /\ EnterCode(p)
     \/ ~(Peek(p) = "." /\ data_possible) /\ ~AlphaNumeric(p) /\ Reject

(* (A mutant stays at the end of the line.) *)
LineFinished_stuck ==
  /\ InHandler("LINE_FINISHED")
  /\ Goto("START_LINE", IF Peek(pos) = ";" THEN Until(pos, {"\n"}) ELSE pos)
  /\ UNCHANGED <<layout, tables, sb>>

(* A comment is skipped with the end of its line, if it has one.            *)
LineFinished ==
  LET end == Until(pos, {"\n"}) IN
  /\ InHandler("LINE_FINISHED")
  /\ Goto("START_LINE", IF Peek(end) = EOF THEN end ELSE end + 1)
  /\ UNCHANGED <<layout, tables, sb>>

-----------------------------------------------------------------------------
(* Directives.                                                              *)

DirectiveState(word) ==
  CASE word = "INT" -> "INT_DIRECTIVE" [] word = "BYT" -> "BYT_DIRECTIVE"
    [] word = "BTS" -> "BTS_DIRECTIVE" [] word = "STR" -> "STR_DIRECTIVE"

BeginDirective ==
  LET known == data_possible /\ Peek(pos) \in {"INT", "BYT", "BTS", "STR"} IN
  /\ InHandler("BEGIN_DIRECTIVE")
  /\ \/ known /\ Goto(DirectiveState(Peek(pos)), pos + 1) /\ UNCHANGED <<layout, tables, sb>>
     \/ ~known /\ Reject

(* Anything but a # or the end of the line is left where it is.             *)
IntDirective ==
  LET p == NextToken IN
  /\ InHandler("INT_DIRECTIVE")
  /\ \/ Peek(p) = "#" /\ Goto("NUMBER_FOUND", p) /\ UNCHANGED layout
     \/ Peek(p) = "\n" /\ Goto("LINE_FINISHED", p) /\ Store(Zeros(4), 4)
     \/ Peek(p) \notin {"#", "\n"} /\ Goto("INT_DIRECTIVE", p) /\ UNCHANGED layout
  /\ UNCHANGED <<tables, sb>>

NumberFound ==
  LET digits == Peek(pos + 1) IN
  /\ InHandler("NUMBER_FOUND")
  /\ \/ /\ digits \in Numerals
        /\ Store(SplitToBytes(NumeralValue[digits], 4), 4)
        /\ Goto("DIRECTIVE_DONE", pos + 2) /\ UNCHANGED <<tables, sb>>
     \/ digits \notin Numerals /\ Reject

(* A character in quotes from p on: its code, and how many symbols it is.   *)
IsChar(p) == Peek(p) = "'" /\ Peek(p + 1) \in OneChar \ {"\\"} /\ Peek(p + 2) = "'"
IsEscape(p) == /\ Peek(p) = "'" /\ Peek(p + 1) = "\\"
               /\ Peek(p + 2) \in DOMAIN Escapes /\ Peek(p + 3) = "'"

(* The digits of a .BYT are all letters and digits there are: int() raises  *)
(* an exception that nobody catches if one is no digit.                     *)
BytDirective ==
  LET p == NextToken
      r == IF Peek(p) = "#" THEN p + 1 ELSE p
  IN
  /\ InHandler("BYT_DIRECTIVE")
  /\ \/ /\ \/ /\ Peek(r) \in Numerals /\ ~AlphaNumeric(r + 1)
              /\ Store(SplitToBytes(NumeralValue[Peek(r)], 1), 1) /\ Goto("DIRECTIVE_DONE", r + 1)
           \/ /\ IsChar(r)
              /\ Store(SplitToBytes(Codes[Peek(r + 1)][1], 1), 1) /\ Goto("DIRECTIVE_DONE", r + 3)
           \/ /\ IsEscape(r)
              /\ Store(<<Escapes[Peek(r + 2)]>>, 1) /\ Goto("DIRECTIVE_DONE", r + 4)
           \/ EndsLine(r) /\ Store(<<0>>, 1) /\ Goto("DIRECTIVE_DONE", r)
        /\ UNCHANGED <<tables, sb>>
     \/ Peek(r) \in Numerals /\ AlphaNumeric(r + 1) /\ Exit("crashed")
     \/ Peek(r) \notin Numerals /\ ~IsChar(r) /\ ~IsEscape(r) /\ ~EndsLine(r) /\ Reject

BtsDirective ==
  LET p == NextToken
      digits == Peek(p + 1)
  IN
  /\ InHandler("BTS_DIRECTIVE")
  /\ \/ /\ Peek(p) = "#" /\ digits \in Numerals
        /\ Store(Zeros(NumeralValue[digits]), NumeralValue[digits])
        /\ Goto("DIRECTIVE_DONE", p + 2) /\ UNCHANGED <<tables, sb>>
     \/ ~(Peek(p) = "#" /\ digits \in Numerals) /\ Reject

(* A string's bytes: its length, the characters and a zero.                 *)
StrDirective ==
  LET p == NextToken
      digits == Peek(p + 1)
      length == NumeralValue[digits]
  IN
  /\ InHandler("STR_DIRECTIVE")
  /\ \/ Peek(p) = "\"" /\ Goto("STRING", p + 1) /\ UNCHANGED <<layout, tables, sb>>
     \/ /\ Peek(p) = "#" /\ digits \in Numerals /\ length <= MaxLength
        /\ Store(<<length>> \o Zeros(length + 1), length + 2)
        /\ Goto("DIRECTIVE_DONE", p + 2) /\ UNCHANGED <<tables, sb>>
     \/ Peek(p) = "#" /\ digits \in Numerals /\ length > MaxLength /\ Reject
     \/ Peek(p) = "#" /\ digits \notin Numerals /\ Exit("crashed")
     \/ Peek(p) \notin {"\"", "#"} /\ Reject

(* The loop of _parse_str_string.  `run' does not look at the end of the    *)
(* file before it is through, and neither does the loop.                    *)
InString == /\ phase = "scanning" /\ state = "STRING"
            /\ UNCHANGED <<file, emitted, fixups, output>>

StringChar ==
  /\ InString
  /\ Peek(pos) # "\""
  /\ \/ /\ Peek(pos) \in Symbols \ {"\\"}
        /\ sb' = sb \o Codes[Peek(pos)]
        /\ Goto("STRING", pos + 1) /\ UNCHANGED <<layout, tables>>
     \/ /\ Peek(pos) = "\\" /\ Peek(pos + 1) \in DOMAIN Escapes
        /\ sb' = Append(sb, Escapes[Peek(pos + 1)])
        /\ Goto("STRING", pos + 2) /\ UNCHANGED <<layout, tables>>
     \/ Peek(pos) = "\\" /\ Peek(pos + 1) \notin DOMAIN Escapes /\ Reject
     \/ Peek(pos) = EOF /\ Goto("STRING", pos) /\ UNCHANGED <<layout, tables, sb>>

StringEnd ==
  /\ InString
  /\ Peek(pos) = "\""
  /\ \/ /\ Len(sb) <= MaxLength /\ \A i \in 1..Len(sb) : sb[i] \in Byte
        /\ Store(<<Len(sb)>> \o sb \o <<0>>, Len(sb) + 2)
        /\ Goto("DIRECTIVE_DONE", pos + 1) /\ sb' = << >> /\ UNCHANGED tables
     \/ Len(sb) > MaxLength /\ Reject
     \/ Len(sb) <= MaxLength /\ (\E i \in 1..Len(sb) : sb[i] \notin Byte) /\ Exit("crashed")

DirectiveDone ==
  LET p == NextToken IN
  /\ InHandler("DIRECTIVE_DONE")
  /\ \/ EndsLine(p) /\ Goto("LINE_FINISHED", p) /\ UNCHANGED <<layout, tables, sb>>
     \/ ~EndsLine(p) /\ Reject

-----------------------------------------------------------------------------
(* Instructions.                                                            *)

Mnemonics == <<"JMP", "JMR", "BNZ", "BGT", "BLT", "BRZ", "MOV", "MOVI", "LDA", "STR",
               "LDR", "STB", "LDB", "ISTR", "ILDR", "ISTB", "ILDB", "ADD", "ADDI", "SUB",
               "SUBI", "MUL", "MULI", "DIV", "SDIV", "DIVI", "AND", "OR", "CMP", "CMPI",
               "TRP", "ALCI", "ALLC", "IALLC", "PSHR", "PSHB", "POPR", "POPB", "CALL", "RET">>
ValidOps == {Mnemonics[i] : i \in DOMAIN Mnemonics}
Mnemonic(op) == CHOOSE i \in DOMAIN Mnemonics : Mnemonics[i] = op

(* An operation must be followed by a space, a tab or the end of its line:  *)
(* at the end of the file the loop that reads it does not end.              *)
BeginCode ==
  LET p == NextToken
      q == Until(p, {" ", "\n"})
      isOp == q = p + 1 /\ Peek(p) \in ValidOps
  IN
  /\ InHandler("BEGIN_CODE")
  /\ \/ /\ Peek(q) # EOF /\ isOp
        /\ entries' = Append(entries, [op |-> Peek(p), operands |-> << >>, addr |-> location_counter])
        /\ data_bytes' = data_bytes \o Zeros(8) /\ location_counter' = location_counter + 8
        /\ Goto("GATHER_TOKENS", After(q, Blank))
        /\ UNCHANGED <<symbol_table, data_possible, sb>>
     \/ Peek(q) # EOF /\ ~isOp /\ Reject
     \/ Peek(q) = EOF /\ UNCHANGED <<state, pos, layout, tables, sb, phase>>

(* A turn of the loop of _gather_tokens: an operand, up to a space, with    *)
(* its comma; or a character in quotes.                                     *)
AddOperand(p, q) ==
  /\ entries' = [entries EXCEPT ![Len(entries)].operands = Append(@, SubSeq(file, p, q - 1))]
  /\ Goto("GATHER_TOKENS", q)
  /\ UNCHANGED <<layout, symbol_table, data_possible, sb>>

GatherTokens ==
  LET p == NextToken
      q == Until(p, {" ", ";", "\n"})
      quoted == IF Peek(p + 1) = "\\" THEN p + 2 ELSE p + 1
      closed == Peek(quoted) \in OneChar /\ Peek(quoted + 1) = "'"
  IN
  /\ InHandler("GATHER_TOKENS")
  /\ \/ /\ Peek(p) \in {";", "\n", EOF}
        /\ Goto("LINE_FINISHED", p) /\ UNCHANGED <<layout, tables, sb>>
     \/ Peek(p) = "'" /\ closed /\ AddOperand(p, quoted + 2)
     \/ Peek(p) = "'" /\ ~closed /\ Reject
     \/ Peek(p) \notin {";", "\n", EOF, "'"} /\ AddOperand(p, q)

(* The loop of run ends with the file, in whatever state the scanner is.    *)
FinishScan ==
  /\ phase = "scanning" /\ pos > Len(file) /\ state # "STRING"
  /\ phase' = "emitting"
  /\ data_bytes' = IF entries = << >> THEN data_bytes
                   ELSE SplitToBytes(entries[1].addr, 4) \o SubSeq(data_bytes, 5, Len(data_bytes))
  /\ UNCHANGED <<file, state, pos, location_counter, tables, sb, emitted, fixups, output>>

-----------------------------------------------------------------------------
(* Operands and emitters.                                                   *)

RegNames == <<"R0", "R1", "R2", "R3", "R4", "R5", "R6", "R7", "R8", "R9", "R10", "R11",
              "R12", "R13", "R14", "R15", "PC", "SL", "SB", "SP", "FP", "HP">>
Registers == {RegNames[i] : i \in DOMAIN RegNames}
(* (A mutant numbers the registers from 1.) *)
RegMap_one(name) == CHOOSE i \in DOMAIN RegNames : RegNames[i] = name
RegMap(name) == (CHOOSE i \in DOMAIN RegNames : RegNames[i] = name) - 1

(* rstrip(",")                                                              *)
Strip(token) ==
  SubSeq(token, 1, Least({n \in 0..Len(token) : \A i \in n+1..Len(token) : token[i] = ","}))

(* _resolve_operand: a value; or an exception; or a name that is no label,  *)
(* for which a zero stands until the fixups.  int() takes a sign.           *)
Value(n) == [kind |-> "value", value |-> n]
Exception == [kind |-> "exception", value |-> 0]
Unknown == [kind |-> "unknown", value |-> 0]

(* (A mutant looks for labels first.) *)
Resolve_labelsFirst(operand) ==
  LET token == Strip(operand)
      n == Len(token)
  IN  IF n > 0 /\ token[1] = "#"
      THEN IF n = 2 /\ token[2] \in Numerals THEN Value(NumeralValue[token[2]])
           ELSE IF n = 3 /\ token[2] \in {"-", "+"} /\ token[3] \in Numerals
           THEN Value(IF token[2] = "-" THEN -NumeralValue[token[3]] ELSE NumeralValue[token[3]])
           ELSE Exception
      ELSE IF n > 2 /\ token[1] = "'" /\ token[n] = "'"
      THEN IF n = 3 THEN Value(Codes[token[2]][1])
           ELSE IF token[3] \in DOMAIN Escapes THEN Value(Escapes[token[3]]) ELSE Exception
      ELSE IF n = 1 /\ token[1] \in DOMAIN symbol_table THEN Value(symbol_table[token[1]])
      ELSE IF n = 1 /\ token[1] \in Registers THEN Value(RegMap(token[1]))
      ELSE Unknown

(* (A mutant leaves all labels to the fixups.) *)
Resolve_later(operand) ==
  LET token == Strip(operand) IN
  IF token # << >> /\ token[1] = "#" THEN Value(0)
  ELSE IF Len(token) = 1 /\ token[1] \in Registers THEN Value(RegMap(token[1]))
  ELSE Unknown

Resolve(operand) ==
  LET token == Strip(operand)
      n == Len(token)
  IN  IF n > 0 /\ token[1] = "#"
      THEN IF n = 2 /\ token[2] \in Numerals THEN Value(NumeralValue[token[2]])
           ELSE IF n = 3 /\ token[2] \in {"-", "+"} /\ token[3] \in Numerals
           THEN Value(IF token[2] = "-" THEN -NumeralValue[token[3]] ELSE NumeralValue[token[3]])
           ELSE Exception
      ELSE IF n > 2 /\ token[1] = "'" /\ token[n] = "'"
      THEN IF n = 3 THEN Value(Codes[token[2]][1])
           ELSE IF token[3] \in DOMAIN Escapes THEN Value(Escapes[token[3]]) ELSE Exception
      ELSE IF n = 1 /\ token[1] \in Registers THEN Value(RegMap(token[1]))
      ELSE IF n = 1 /\ token[1] \in DOMAIN symbol_table THEN Value(symbol_table[token[1]])
      ELSE Unknown

(* The emitters: how many register operands an operation has, and whether  *)
(* an immediate follows them.  Operands beyond those are not looked at.     *)
RegisterOperands(op) ==
  IF op \in {"JMP", "TRP", "CALL", "RET"} THEN 0
  ELSE IF op \in {"ADD", "SUB", "MUL", "DIV", "SDIV", "AND", "OR", "CMP"} THEN 3
  ELSE IF op \in {"MOV", "ISTR", "ILDR", "ISTB", "ILDB", "ADDI", "SUBI", "MULI", "DIVI",
                  "CMPI", "IALLC"} THEN 2
  ELSE 1
HasImmediate(op) ==
  op \in {"JMP", "BNZ", "BGT", "BLT", "BRZ", "MOVI", "LDA", "STR", "LDR", "STB", "LDB",
          "ADDI", "SUBI", "MULI", "DIVI", "CMPI", "TRP", "ALCI", "ALLC", "CALL"}
Takes(op) == RegisterOperands(op) + (IF HasImmediate(op) THEN 1 ELSE 0)

(* data_bytes[addr:addr+n] = new.  The image starts at address 0.           *)
(* (A mutant is one byte off.) *)
Overwrite_next(bytes, addr, new) ==
  [i \in 1..Len(bytes) |-> IF i - addr \in 2..Len(new)+1 THEN new[i - addr - 1] ELSE bytes[i]]
Overwrite(bytes, addr, new) ==
  [i \in 1..Len(bytes) |-> IF i - addr \in 1..Len(new) THEN new[i - addr] ELSE bytes[i]]

(* An emitter raises an exception for an operand that is missing, that has  *)
(* no value, or that is in the place of a register and is not a byte.       *)
Emittable(e) ==
  /\ Takes(e.op) <= Len(e.operands)
  /\ \A i \in 1..Takes(e.op) :
       LET r == Resolve(e.operands[i])
       IN  r.kind # "exception" /\ (i <= RegisterOperands(e.op) => r.value \in Byte)

RegisterByte(e, i) == IF i <= RegisterOperands(e.op) THEN Resolve(e.operands[i]).value ELSE 0
Immediate(e) == IF HasImmediate(e.op) THEN Resolve(e.operands[Takes(e.op)]).value ELSE 0
Encoding(e) == <<Mnemonic(e.op), RegisterByte(e, 1), RegisterByte(e, 2), RegisterByte(e, 3)>>
                 \o SplitToBytes(Immediate(e), 4)

(* The operands of an entry that have to be patched, and where.             *)
Missing(e) ==
  {[addr |-> e.addr + (IF i <= RegisterOperands(e.op) THEN i ELSE 4), label |-> Strip(e.operands[i])] :
     i \in {j \in 1..Takes(e.op) : Resolve(e.operands[j]).kind = "unknown"}}

Emit ==
  LET e == entries[emitted + 1] IN
  /\ phase = "emitting" /\ emitted < Len(entries)
  /\ \/ /\ Emittable(e)
        /\ data_bytes' = Overwrite(data_bytes, e.addr, Encoding(e))
        /\ fixups' = fixups \cup Missing(e)
        /\ emitted' = emitted + 1
        /\ UNCHANGED phase
     \/ ~Emittable(e) /\ phase' = "crashed" /\ UNCHANGED <<data_bytes, fixups, emitted>>
  /\ UNCHANGED <<file, state, pos, location_counter, tables, sb, output>>

(* _apply_fixups and _write_bin.  The fixups are in the order of their      *)
(* addresses, so that the last one to reach a byte is the one that counts.  *)
IsLabel(name) == Len(name) = 1 /\ name[1] \in DOMAIN symbol_table

Patched ==
  [i \in 1..Len(data_bytes) |->
     LET over == {f \in fixups : i - f.addr \in 1..4}
         last == CHOOSE f \in over : \A g \in over : g.addr <= f.addr
     IN  IF over = {} THEN data_bytes[i]
         ELSE SplitToBytes(symbol_table[last.label[1]], 4)[i - last.addr]]

WriteImage ==
  /\ phase = "emitting" /\ emitted = Len(entries)
  /\ \/ /\ \A f \in fixups : IsLabel(f.label)
        /\ data_bytes' = Patched /\ output' = data_bytes' /\ phase' = "written"
     \/ /\ \E f \in fixups : ~IsLabel(f.label)
        /\ phase' = "rejected" /\ UNCHANGED <<data_bytes, output>>
  /\ UNCHANGED <<file, state, pos, location_counter, tables, sb, emitted, fixups>>

(* The process has ended.                                                   *)
Ended == phase \in {"written", "rejected", "crashed"}
AsmEnded == Ended /\ UNCHANGED asmVars

ScanLine == StartLine \/ StartOfLabel \/ LabelFound \/ LineFinished
ScanDirective ==
  BeginDirective \/ IntDirective \/ NumberFound \/ BytDirective \/ BtsDirective
    \/ StrDirective \/ StringChar \/ StringEnd \/ DirectiveDone
ScanCode == BeginCode \/ GatherTokens

AsmNext == ScanLine \/ ScanDirective \/ ScanCode \/ FinishScan \/ Emit \/ WriteImage \/ AsmEnded

AsmSpec == AsmInit /\ [][AsmNext]_asmVars

(* One process, that waits for nothing.                                     *)
AsmFairSpec == AsmSpec /\ WF_asmVars(AsmNext)

-----------------------------------------------------------------------------
ScanStates == {"START_LINE", "START_OF_LABEL", "LABEL_FOUND", "LINE_FINISHED", "BEGIN_DIRECTIVE",
               "INT_DIRECTIVE", "NUMBER_FOUND", "BYT_DIRECTIVE", "BTS_DIRECTIVE", "STR_DIRECTIVE",
               "STRING", "DIRECTIVE_DONE", "BEGIN_CODE", "GATHER_TOKENS"}

(* The state keeps its shape; the image, emitted instructions included, is  *)
(* bytes.                                                                   *)
AsmTypeOK ==
  /\ file \in Seq(Symbols)
  /\ state \in ScanStates /\ pos \in Nat \ {0}
  /\ location_counter \in Nat /\ data_bytes \in Seq(Byte)
  /\ DOMAIN symbol_table \subseteq Names \cup Numerals
  /\ symbol_table \in [DOMAIN symbol_table -> Nat]
  /\ data_possible \in BOOLEAN
  /\ entries \in Seq([op : ValidOps, operands : Seq(Seq(Symbols)), addr : Nat])
  /\ sb \in Seq(Nat)
  /\ phase \in {"scanning", "emitting", "written", "rejected", "crashed"}
  /\ emitted \in 0..Len(entries)
  /\ fixups \subseteq [addr : Nat, label : Seq(Symbols)]
  /\ output \in Seq(Byte)

(* The two records of how far the image goes agree: location_counter, which *)
(* labels are taken from, and the bytes emitted (asm4380.py:692-695).       *)
LocationIsLength == location_counter = Len(data_bytes)

(* Instructions lie eight bytes apart up to the end of the image, no data   *)
(* between or after them, and no label points into one.                     *)
CodeInPlace ==
  /\ \A i \in DOMAIN entries : entries[i].addr = location_counter - 8 * (Len(entries) + 1 - i)
  /\ \A l \in DOMAIN symbol_table :
       \/ symbol_table[l] \in 4..location_counter - 8 * Len(entries)
       \/ symbol_table[l] = location_counter
       \/ \E i \in DOMAIN entries : entries[i].addr = symbol_table[l]

(* What was emitted stays: the entry point names the first instruction, and *)
(* no later instruction or fixup runs over an earlier one.                  *)
EmittedInPlace ==
  phase \in {"emitting", "written"} =>
    /\ entries # << >> => SubSeq(data_bytes, 1, 4) = SplitToBytes(entries[1].addr, 4)
    /\ \A i \in 1..emitted :
         SubSeq(data_bytes, entries[i].addr + 1, entries[i].addr + 8) = Encoding(entries[i])

(* A fixup is of no use: operands are resolved when all labels are known,   *)
(* so a name that needs one is no label (asm4380.py:862 means to "go back   *)
(* and fix this later").                                                    *)
NothingIsPatched == \A f \in fixups : ~IsLabel(f.label)

(* The scanner only goes forward: every call of a handler consumes input,   *)
(* or leads to a state nearer to one that does.  What is left is a call     *)
(* that changes nothing at all, which is then repeated for ever.            *)
Rank(s) == CASE s = "START_LINE" -> 5 [] s = "START_OF_LABEL" -> 4
             [] s \in {"LABEL_FOUND", "INT_DIRECTIVE"} -> 3
             [] s \in {"NUMBER_FOUND", "BYT_DIRECTIVE", "BEGIN_CODE"} -> 2
             [] s \in {"DIRECTIVE_DONE", "GATHER_TOKENS"} -> 1
             [] OTHER -> 0
ScanAdvances ==
  [][phase = "scanning" /\ phase' = "scanning" =>
       \/ pos' > pos
       \/ pos' = pos /\ Rank(state') < Rank(state)]_asmVars

(* Where the assembler hangs: at a character that starts no line, at an     *)
(* .INT that is followed by no # and no end of line, at an operation that   *)
(* is the last thing in the file, and in a string that is not closed.       *)
Hangs ==
  /\ phase = "scanning"
  /\ \/ state = "START_LINE" /\ Peek(NextToken) \notin {"\n", ";", ".", EOF} /\ ~AlphaNumeric(NextToken)
     \/ state = "INT_DIRECTIVE" /\ Peek(NextToken) \notin {"#", "\n", EOF}
     \/ state = "BEGIN_CODE" /\ Peek(Until(NextToken, {" ", "\n"})) = EOF /\ pos <= Len(file)
     \/ state = "STRING" /\ Peek(pos) = EOF

(* It comes to an end on every other file.                                  *)
AssemblerEnds == <>(Ended \/ Hangs)

(* A source that the documents give as an example is not refused.           *)
SourceAccepted == phase \notin {"rejected", "crashed"}
=============================================================================
