----------------------------- MODULE MCToolchain -----------------------------
(* Small instances of Toolchain: sources that spell a program, each in eight *)
(* ways, and files of a few symbols that spell nothing in particular.        *)
EXTENDS Toolchain

Numbers == "0" :> 0 @@ "1" :> 1 @@ "2" :> 2 @@ "5" :> 5 @@ "40" :> 40 @@ "70" :> 70
Words == ValidOps \cup {"INT", "BYT", "BTS", "R0", "R1", "R2", "R3", "a", "n", "e", "LONGER"}
MCOther == {"~", "+"}

(* One code a character; ~ has one that is no byte.                         *)
CharCodes == "\n" :> 10 @@ " " :> 11 @@ ";" :> 12 @@ "." :> 13 @@ "#" :> 14 @@ "," :> 15
  @@ "-" :> 26 @@ "'" :> 27 @@ "\"" :> 28 @@ "\\" :> 29 @@ "a" :> 30 @@ "n" :> 31 @@ "e" :> 32
  @@ "0" :> 16 @@ "1" :> 17 @@ "2" :> 18 @@ "5" :> 21 @@ "+" :> 33 @@ "~" :> 70
AllSymbols == Words \cup DOMAIN Numbers \cup DOMAIN CharCodes
CodeTable == [s \in AllSymbols |->
  IF s \in DOMAIN CharCodes THEN <<CharCodes[s]>> ELSE [i \in 1..Len(s) |-> 39 + i]]
EscapeCodes == "n" :> 10 @@ "'" :> 27 @@ "\"" :> 28 @@ "\\" :> 29

-----------------------------------------------------------------------------
(* Programs.                                                                *)

Arg(form, num, name, str) == [form |-> form, num |-> num, name |-> name, text |-> str]
Num(v)   == Arg("num", v, "e", << >>)
Char(c)  == Arg("char", 0, c, << >>)
Name(x)  == Arg("name", 0, x, << >>)
Text(cs) == Arg("text", 0, "e", cs)
At(label, op, args) == [label |-> label, op |-> op, args |-> args]
St(op, args) == At("", op, args)
Stop == St("TRP", <<Num(0)>>)
Regs == <<Name("R1"), Name("R2"), Name("R3")>>

MCData == {
  <<At("n", ".INT", <<Num(5)>>)>>,
  <<At("n", ".INT", <<Num(-1)>>)>>,
  <<St(".BYT", <<Char("a")>>), St(".BYT", <<Char("\n")>>), At("n", ".BYT", << >>)>>,
  <<At("n", ".STR", <<Text(<<"a", "\n", "'">>)>>), St(".BTS", <<Num(2)>>)>>,
  <<St(".STR", <<Num(1)>>), St(".BYT", <<Num(40)>>), At("n", ".INT", << >>)>>}

MCCode == {
  << >>,
  <<St("LDR", <<Name("R3"), Name("n")>>), St("TRP", <<Num(1)>>), Stop>>,
  <<St("LDA", <<Name("R3"), Name("n")>>), St("TRP", <<Num(5)>>), Stop>>,
  <<St("MOVI", <<Name("R3"), Num(2)>>), At("a", "SUBI", <<Name("R3"), Name("R3"), Num(1)>>),
    St("BNZ", <<Name("R3"), Name("a")>>), Stop>>,
  <<St("CALL", <<Name("e")>>), Stop, At("e", "MOVI", <<Name("R3"), Char("'")>>), St("RET", << >>)>>,
  <<St("JMP", <<Name("a")>>), At("a", "TRP", <<Num(1)>>), At("a", "TRP", <<Num(0)>>)>>,
  <<At("R1", "MOVI", <<Name("R0"), Name("R1")>>), St("MOVI", <<Name("R2"), Num(-1)>>), Stop>>}

(* Every operation, its registers all different.  Jumps go on to the next   *)
(* instruction, loads and stores to the data.                               *)
Target(op) == IF op \in {"JMP", "CALL"} \cup {"BNZ", "BGT", "BLT", "BRZ"} THEN Name("e") ELSE Name("n")
MCOperations ==
  {<<At("n", ".INT", <<Num(5)>>), St("LDA", <<Name("R1"), Name("e")>>),
     St(op, SubSeq(Regs, 1, RegisterOperands(op)) \o (IF HasImmediate(op) THEN <<Target(op)>> ELSE << >>)),
     At("e", "TRP", <<Num(0)>>)>> : op \in ValidOps}

MCPrograms == {d \o c : d \in MCData, c \in MCCode}

-----------------------------------------------------------------------------
(* How a program is spelled.                                                *)

Spelling(c) == IF \E x \in DOMAIN EscapeCodes : EscapeCodes[x] = CharCodes[c]
               THEN <<"\\", CHOOSE x \in DOMAIN EscapeCodes : EscapeCodes[x] = CharCodes[c]>>
               ELSE <<c>>
NumeralOf(v) == CHOOSE d \in DOMAIN Numbers : Numbers[d] = v

(* A sign is spelled where there has to be one, or where there may be.      *)
SpellNumber(v, signed) ==
  IF v < 0 THEN <<"#", "-", NumeralOf(-v)>> ELSE IF signed THEN <<"#", "+", NumeralOf(v)>> ELSE <<"#", NumeralOf(v)>>

SpellArg(arg, signed) ==
  CASE arg.form = "num"  -> SpellNumber(arg.num, signed)
    [] arg.form = "char" -> <<"'">> \o Spelling(arg.name) \o <<"'">>
    [] arg.form = "name" -> <<arg.name>>
    [] arg.form = "text" -> <<"\"">> \o FlattenSeq([i \in DOMAIN arg.text |-> Spelling(arg.text[i])]) \o <<"\"">>

SpellOp(op) == CASE op = ".INT" -> <<".", "INT">> [] op = ".BYT" -> <<".", "BYT">>
                 [] op = ".BTS" -> <<".", "BTS">> [] op = ".STR" -> <<".", "STR">> [] OTHER -> <<op>>

Styles == [comma : BOOLEAN, comment : BOOLEAN, newline : BOOLEAN]

IsDirective(s) == s.op \in {".INT", ".BYT", ".BTS", ".STR"}

SpellStatement(s, style) ==
  (IF s.label = "" THEN <<" ">> ELSE <<s.label, " ">>) \o SpellOp(s.op)
  \o FlattenSeq([i \in DOMAIN s.args |->
       <<" ">> \o SpellArg(s.args[i], style.comma /\ ~IsDirective(s)) \o (IF style.comma /\ i < Len(s.args) THEN <<",">> ELSE << >>)])
  \o (IF style.comment THEN <<" ", ";", "a", "'", "~">> ELSE << >>)

(* A file does not end behind a directive without operand, which would be   *)
(* dropped (MCOptional has it).                                             *)
Spell(p, style) ==
  (IF style.comment THEN <<";", ".", "\n", " ", "\n">> ELSE << >>)
  \o FlattenSeq([i \in DOMAIN p |-> SpellStatement(p[i], style)
       \o (IF i < Len(p) \/ style.newline \/ (IsDirective(p[i]) /\ p[i].args = << >>) THEN <<"\n">> ELSE << >>)])

Plain == [comma |-> FALSE, comment |-> FALSE, newline |-> TRUE]
Dense == [comma |-> TRUE, comment |-> TRUE, newline |-> FALSE]

MCSpelled == {<<p, Spell(p, style)>> : p \in MCPrograms, style \in Styles}
  \cup {<<p, Spell(p, style)>> : p \in MCOperations, style \in {Plain, Dense}}

-----------------------------------------------------------------------------
(* Short files: the beginning of a line, up to two symbols, and an end.     *)

MCBeginnings == {<< >>, <<".", "INT">>, <<".", "BYT">>, <<".", "BTS">>, <<".", "STR">>,
                 <<".", "STR", "\"">>, <<"a", " ">>, <<" ", "RET", "\n", "a", " ">>, <<" ", "ADDI", " ", "R1", ",", " ", "R1", " ">>}
MCEnds == {<< >>, <<"\n">>, <<"'">>, <<"\"">>}
MCAlphabet == {"\n", " ", ";", ".", "#", ",", "-", "'", "\"", "\\", "~", "a", "n", "R1", "RET", "40", "1", "INT", "LONGER"}

IsWord(s) == s \in Words \cup DOMAIN Numbers
WordsApart(f) ==
  \A i \in 1..Len(f)-1 :
    IsWord(f[i]) /\ IsWord(f[i + 1]) =>
      \/ i > 1 /\ f[i - 1] = "." /\ f[i] \in {"INT", "BYT", "BTS", "STR"}
      \/ i > 1 /\ f[i - 1] = "\\" /\ f[i] = "n"
      \/ i > 2 /\ f[i - 2] = "." /\ f[i] \in DOMAIN Numbers

MCShort ==
  {f \in {b \o t \o e : b \in MCBeginnings, t \in UNION {[1..k -> MCAlphabet] : k \in 0..2}, e \in MCEnds} :
     WordsApart(f)}

AllSources == MCSpelled \cup {<<<< >>, f>> : f \in MCShort}

(* What README.md:117 gives as an example.                                  *)
MCExamples == {<<<< >>, Spell(<<St(".INT", <<Num(v)>>)>>, style)>> : v \in {5, -1}, style \in Styles}

(* .INT without operand, with a comment behind it and as the last of a file.*)
MCOptional ==
  {<<<<St(".INT", << >>)>>, <<" ", ".", "INT">> \o end>> : end \in {<<"\n">>, <<" ", ";", "a", "\n">>, << >>}}

(* The values of the constants; TLC evaluates each of the above once.       *)
MCSources == AllSources
MCNames == Words
MCNumerals == Numbers
MCCodes == CodeTable
MCEscapes == EscapeCodes
MCZeroBytes == {[a \in 0..MemSize-1 |-> 0]}
MCNoInput == {<< >>}
=============================================================================
