--------------------------- MODULE Assembler_proofs ---------------------------
(***************************************************************************)
(* Theorems about the assembler, for every source file, every alphabet and *)
(* every size of a byte.                                                   *)
(*                                                                         *)
(* The inductive invariant is IInv: the types; the image as long as the    *)
(* location counter says; the instructions one after the other at its end; *)
(* what each state of the scanner implies of what came before; and, while  *)
(* entries are emitted, that those emitted are in place and that no fixup  *)
(* is a label.  A handler of the scanner Moves or Stores.                  *)
(***************************************************************************)
EXTENDS Assembler, SequenceTheorems, WellFoundedInduction, TLAPS

NatOrder == {ss \in Nat \X Nat : ss[1] < ss[2]}

(* The order of the natural numbers, as a set of pairs.                    *)
LEMMA NatOrderWellFounded == IsWellFoundedOn(NatOrder, Nat)
BY NatLessThanWellFounded, Zenon DEF OpToRel, NatOrder

(* Least is the least element of a set of natural numbers.                  *)
LEMMA LeastIsLeast ==
  ASSUME NEW S, S \subseteq Nat, S # {}
  PROVE  Least(S) \in S /\ \A v \in S : Least(S) <= v
<1>1. \E x \in S : \A y \in S : ~ (<<y, x>> \in NatOrder)
  BY NatOrderWellFounded, WFMin
<1>2. ASSUME NEW x \in Nat, NEW y \in Nat, ~ (<<y, x>> \in NatOrder)
      PROVE  x <= y
  BY <1>2 DEF NatOrder
<1>3. \E x \in S : \A y \in S : x <= y
  BY <1>1, <1>2
<1> QED BY <1>3 DEF Least

-----------------------------------------------------------------------------
(* Where the scanner looks.                                                 *)

(* A read within the file gives a symbol, a read after it gives EOF.        *)
LEMMA PeekType ==
  ASSUME file \in Seq(Symbols), NEW p \in Nat \ {0}
  PROVE  /\ Peek(p) \in Symbols <=> p <= Len(file)
         /\ Peek(p) = EOF <=> p > Len(file)
         /\ p <= Len(file) => Peek(p) = file[p]
<1>1. EOF \notin Symbols BY Zenon, AssemblerAssumption
<1> QED BY <1>1 DEF Peek

(* A search stays within the file or one place after it, and finds what    *)
(* it looked for, or the end.                                              *)
LEMMA AfterType ==
  ASSUME file \in Seq(Symbols), NEW p \in Nat \ {0}, p <= Len(file) + 1,
         NEW chars, EOF \notin chars
  PROVE  After(p, chars) \in p..Len(file)+1 /\ Peek(After(p, chars)) \notin chars
<1> DEFINE S == {q \in p..Len(file)+1 : Peek(q) \notin chars}
<1>1. Len(file) + 1 \in S BY PeekType
<1>2. S \subseteq Nat /\ S # {} BY <1>1
<1> HIDE DEF S
<1>3. Least(S) \in S BY <1>2, LeastIsLeast
<1> QED BY <1>3 DEF After, S

(* A search for some characters stops at one of them, or at the end.        *)
LEMMA UntilType ==
  ASSUME file \in Seq(Symbols), NEW p \in Nat \ {0}, p <= Len(file) + 1, NEW chars
  PROVE  Until(p, chars) \in p..Len(file)+1 /\ Peek(Until(p, chars)) \in chars \cup {EOF}
<1> DEFINE S == {q \in p..Len(file)+1 : Peek(q) \in chars \cup {EOF}}
<1>1. Len(file) + 1 \in S BY PeekType
<1>2. S \subseteq Nat /\ S # {} BY <1>1
<1> HIDE DEF S
<1>3. Least(S) \in S BY <1>2, LeastIsLeast
<1> QED BY <1>3 DEF Until, S

(* What comes after blanks is no blank.                                    *)
LEMMA NextTokenType ==
  ASSUME file \in Seq(Symbols), pos \in Nat \ {0}, pos <= Len(file)
  PROVE  NextToken \in pos..Len(file)+1 /\ Peek(NextToken) # " "
<1>1. EOF \notin Blank BY DEF EOF, Blank
<1>2. NextToken \in pos..Len(file)+1 /\ Peek(NextToken) \notin Blank
  BY <1>1, AfterType DEF NextToken
<1> QED BY <1>2 DEF Blank

-----------------------------------------------------------------------------
(* Bytes.                                                                   *)

(* A byte holds nothing, and any operation code.                            *)
LEMMA ByteFacts == 0 \in Byte /\ ByteMod \in Nat \ {0} /\ 1..40 \subseteq Byte
<1>1. ByteMod \in Nat /\ ByteMod > 40 BY Zenon, AssemblerAssumption
<1> QED BY <1>1 DEF Byte

(* Zeros, and the bytes of a number, are as many bytes as was asked for.   *)
LEMMA ZerosType == \A n \in Nat : Zeros(n) \in Seq(Byte) /\ Len(Zeros(n)) = n
BY ByteFacts DEF Zeros

(* What the bytes of a number weigh.                                        *)
LEMMA WeightType == \A i \in 1..4 : Weight[i] \in Nat \ {0}
<1>1. \A m, n \in Nat \ {0} : m * n \in Nat \ {0} OBVIOUS
<1>2. ByteMod * ByteMod \in Nat \ {0} BY <1>1, ByteFacts
<1>3. ByteMod * ByteMod * ByteMod \in Nat \ {0} BY <1>1, <1>2, ByteFacts
<1> QED BY <1>2, <1>3, ByteFacts DEF Weight

(* split_to_bytes makes bytes of any number.                                *)
LEMMA SplitType ==
  ASSUME NEW v \in Int, NEW width \in 0..4
  PROVE  SplitToBytes(v, width) \in Seq(Byte) /\ Len(SplitToBytes(v, width)) = width
<1>1. \A q \in Int : q % ByteMod \in Byte BY ByteFacts DEF Byte
<1>2. ASSUME NEW i \in 1..width PROVE (v \div Weight[i]) % ByteMod \in Byte
  <2>1. Weight[i] \in Nat \ {0} BY WeightType
  <2>2. v \div Weight[i] \in Int BY <2>1
  <2> QED BY <1>1, <2>2
<1> QED BY <1>2 DEF SplitToBytes

(* Writing over a part of the image leaves its length and the rest of it.   *)
LEMMA OverwriteType ==
  ASSUME NEW bytes \in Seq(Byte), NEW addr \in Nat, NEW new \in Seq(Byte)
  PROVE  /\ Overwrite(bytes, addr, new) \in Seq(Byte)
         /\ Len(Overwrite(bytes, addr, new)) = Len(bytes)
         /\ \A i \in 1..Len(bytes) :
              Overwrite(bytes, addr, new)[i] = IF i - addr \in 1..Len(new) THEN new[i - addr] ELSE bytes[i]
BY DEF Overwrite

-----------------------------------------------------------------------------
(* The inductive invariant.                                                 *)

DirectiveStates == {"BEGIN_DIRECTIVE", "INT_DIRECTIVE", "NUMBER_FOUND", "BYT_DIRECTIVE",
                    "BTS_DIRECTIVE", "STR_DIRECTIVE", "STRING"}

(* An operand that begins with a quote has a character in it.               *)
Quoted(operand) == operand # << >> /\ operand[1] = "'" => Len(operand) > 1 /\ operand[2] \in OneChar

(* What the state of the scanner says of what it has seen, and that data    *)
(* comes before code.                                                       *)
DataFirst ==
  /\ state = "START_OF_LABEL" => file[pos] \in Names \cup Numerals
  /\ state \in DirectiveStates => data_possible
  /\ state = "BEGIN_CODE" => ~data_possible
  /\ state = "GATHER_TOKENS" => entries # << >>
  /\ data_possible => entries = << >>

NotYetEmitted == phase = "scanning" => emitted = 0 /\ fixups = {} /\ output = << >>

OperandsQuoted == \A i \in DOMAIN entries : \A j \in DOMAIN entries[i].operands : Quoted(entries[i].operands[j])

IInv ==
  /\ AsmTypeOK
  /\ LocationIsLength
  /\ CodeInPlace
  /\ 4 + 8 * Len(entries) <= location_counter
  /\ DataFirst
  /\ NotYetEmitted
  /\ OperandsQuoted
  /\ NothingIsPatched
  /\ EmittedInPlace

(* The scanner starts with the four bytes the entry point will take.       *)
LEMMA InitIInv == AsmInit => IInv
<1> SUFFICES ASSUME AsmInit PROVE IInv OBVIOUS
<1> USE DEF AsmInit
<1>1. data_bytes \in Seq(Byte) /\ Len(data_bytes) = 4 BY ZerosType
<1>2. symbol_table \in [DOMAIN symbol_table -> Nat] /\ DOMAIN symbol_table = {} OBVIOUS
<1>3. AsmTypeOK BY <1>1, <1>2 DEF AsmTypeOK, ScanStates
<1>4. LocationIsLength BY <1>1 DEF LocationIsLength
<1>5. CodeInPlace /\ 4 + 8 * Len(entries) <= location_counter BY <1>2 DEF CodeInPlace
<1>6. DataFirst BY DEF DataFirst, DirectiveStates
<1>7. NotYetEmitted /\ OperandsQuoted /\ NothingIsPatched /\ EmittedInPlace
  BY DEF NotYetEmitted, OperandsQuoted, NothingIsPatched, EmittedInPlace
<1> QED BY <1>3, <1>4, <1>5, <1>6, <1>7 DEF IInv

(* A handler that emits nothing, and leaves the states in order.            *)
Moves ==
  /\ phase = "scanning" /\ phase' \in {"scanning", "rejected", "crashed"}
  /\ UNCHANGED <<file, layout, symbol_table, entries, emitted, fixups, output>>
  /\ state' \in ScanStates /\ pos' \in Nat \ {0} /\ sb' \in Seq(Nat)
  /\ data_possible' \in BOOLEAN /\ (data_possible' => data_possible)
  /\ state' \in DirectiveStates => data_possible'
  /\ state' = "START_OF_LABEL" => file[pos'] \in Names \cup Numerals
  /\ state' = "BEGIN_CODE" => ~data_possible'
  /\ state' = "GATHER_TOKENS" => entries # << >>

(* Such a handler keeps the invariant.                                     *)
LEMMA MovesKeep == IInv /\ Moves => IInv'
<1> SUFFICES ASSUME IInv, Moves PROVE IInv' OBVIOUS
<1> USE DEF IInv, Moves, layout
<1>1. AsmTypeOK' BY DEF AsmTypeOK
<1>2. LocationIsLength' BY DEF LocationIsLength
<1>3. CodeInPlace' BY DEF CodeInPlace
<1>4. DataFirst' BY DEF DataFirst
<1>5. NotYetEmitted' BY DEF NotYetEmitted
<1>6. OperandsQuoted' BY DEF OperandsQuoted
<1>7. NothingIsPatched' BY DEF NotYetEmitted, NothingIsPatched
<1>8. EmittedInPlace' BY DEF EmittedInPlace
<1> QED BY <1>1, <1>2, <1>3, <1>4, <1>5, <1>6, <1>7, <1>8

(* A handler that emits data: there is no instruction yet.                  *)
Stores(bytes) ==
  /\ phase = "scanning" /\ phase' = "scanning"
  /\ data_possible /\ bytes \in Seq(Byte)
  /\ data_bytes' = data_bytes \o bytes /\ location_counter' = location_counter + Len(bytes)
  /\ UNCHANGED <<file, tables, emitted, fixups, output>>
  /\ state' \in {"LINE_FINISHED", "DIRECTIVE_DONE"} /\ pos' \in Nat \ {0} /\ sb' \in Seq(Nat)

(* So does one that emits data.                                            *)
LEMMA StoresKeep == ASSUME IInv, NEW bytes, Stores(bytes) PROVE IInv'
<1> USE DEF IInv, Stores, tables
<1>0. entries = << >> /\ Len(bytes) \in Nat BY DEF DataFirst
<1>1. AsmTypeOK' BY <1>0 DEF AsmTypeOK, ScanStates
<1>2. LocationIsLength' BY DEF LocationIsLength, AsmTypeOK
<1>3. CodeInPlace'
  <2>1. \A l \in DOMAIN symbol_table : symbol_table[l] \in 4..location_counter BY <1>0 DEF CodeInPlace, AsmTypeOK
  <2> QED BY <1>0, <2>1 DEF CodeInPlace, AsmTypeOK
<1>4. DataFirst' BY DEF DataFirst, DirectiveStates
<1>5. NotYetEmitted' BY DEF NotYetEmitted
<1>6. OperandsQuoted' BY DEF OperandsQuoted
<1>7. NothingIsPatched' BY DEF NotYetEmitted, NothingIsPatched
<1>8. EmittedInPlace' BY DEF EmittedInPlace
<1>9. (4 + 8 * Len(entries) <= location_counter)' BY <1>0 DEF AsmTypeOK
<1> QED BY <1>1, <1>2, <1>3, <1>4, <1>5, <1>6, <1>7, <1>8, <1>9

-----------------------------------------------------------------------------
(* The handlers.                                                            *)

(* Input is consumed, or the next handler is nearer to doing so, or the     *)
(* call changes nothing.                                                    *)
Forward ==
  phase' = "scanning" => \/ pos' > pos
                         \/ pos' = pos /\ Rank(state') < Rank(state)
                         \/ UNCHANGED asmVars

(* A source that is refused keeps what was read of it.                     *)
LEMMA RejectMoves ==
  ASSUME IInv, NEW s, InHandler(s), Reject
  PROVE  Moves /\ Forward
BY DEF IInv, AsmTypeOK, DataFirst, InHandler, Reject, Exit, Moves, Forward, tables

(* What the handlers need of the invariant.                                 *)
ScanFacts == /\ file \in Seq(Symbols) /\ pos \in Nat \ {0} /\ sb \in Seq(Nat)
             /\ data_possible \in BOOLEAN /\ DataFirst

(* The next token is at or after the place of the scanner.                 *)
LEMMA TokenFacts ==
  ASSUME ScanFacts, pos <= Len(file)
  PROVE  NextToken \in Nat \ {0} /\ NextToken >= pos /\ NextToken <= Len(file) + 1
<1>1. file \in Seq(Symbols) /\ pos \in Nat \ {0} BY DEF ScanFacts
<1>2. NextToken \in pos..Len(file)+1 BY <1>1, NextTokenType
<1> QED BY <1>1, <1>2

(* The handlers that only move.                                            *)
LEMMA StartLineMoves == IInv /\ StartLine => Moves /\ Forward
<1> SUFFICES ASSUME IInv, StartLine PROVE Moves /\ Forward OBVIOUS
<1> DEFINE p == NextToken
<1>0. ScanFacts BY DEF IInv, AsmTypeOK, ScanFacts
<1>1. phase = "scanning" /\ state = "START_LINE" /\ pos <= Len(file) /\ InHandler("START_LINE")
  BY DEF StartLine, InHandler
<1>2. p \in Nat \ {0} /\ p >= pos BY <1>0, <1>1, TokenFacts
<1>3. UNCHANGED <<file, emitted, fixups, output>> BY DEF StartLine, InHandler
<1> HIDE DEF p
<1>5. CASE AlphaNumeric(pos) /\ Goto("START_OF_LABEL", pos) /\ UNCHANGED <<layout, tables, sb>>
  <2>1. file[pos] \in Names \cup Numerals BY <1>0, <1>1, <1>5, PeekType DEF AlphaNumeric, ScanFacts
  <2> QED BY <1>0, <1>1, <1>3, <1>5, <2>1
          DEF ScanFacts, Goto, Moves, Forward, Rank, ScanStates, DirectiveStates, DataFirst, tables
<1>6. CASE Goto("LINE_FINISHED", p) /\ UNCHANGED <<layout, tables, sb>>
  BY <1>0, <1>1, <1>2, <1>3, <1>6 DEF ScanFacts, Goto, Moves, Forward, Rank, ScanStates, DirectiveStates, DataFirst, tables
<1>7. CASE data_possible /\ Goto("BEGIN_DIRECTIVE", p + 1) /\ UNCHANGED <<layout, tables, sb>>
  BY <1>0, <1>1, <1>2, <1>3, <1>7 DEF ScanFacts, Goto, Moves, Forward, ScanStates, DirectiveStates, DataFirst, tables
<1>8. CASE Reject BY <1>1, <1>8, RejectMoves
<1>9. CASE EnterCode(p)
  <2>1. ~data_possible' /\ data_possible' \in BOOLEAN BY <1>9 DEF EnterCode
  <2> QED BY <1>0, <1>1, <1>2, <1>3, <2>1, <1>9 DEF EnterCode, ScanFacts, Goto, Moves, Forward, Rank, ScanStates,
                                                DirectiveStates, DataFirst
<1>10. CASE Goto("START_LINE", p) /\ UNCHANGED <<layout, tables, sb>>
  BY <1>0, <1>1, <1>2, <1>3, <1>10 DEF ScanFacts, Goto, Moves, Forward, ScanStates, DirectiveStates, DataFirst, tables, asmVars
<1> QED BY <1>5, <1>6, <1>7, <1>8, <1>9, <1>10 DEF StartLine, p

(* A label moves the scanner and emits nothing.                             *)
LEMMA LabelFoundMoves == IInv /\ LabelFound => Moves /\ Forward
<1> SUFFICES ASSUME IInv, LabelFound PROVE Moves /\ Forward OBVIOUS
<1> DEFINE p == NextToken
<1>0. ScanFacts BY DEF IInv, AsmTypeOK, ScanFacts
<1>1. phase = "scanning" /\ state = "LABEL_FOUND" /\ pos <= Len(file) /\ InHandler("LABEL_FOUND")
  BY DEF LabelFound, InHandler
<1>2. p \in Nat \ {0} /\ p >= pos BY <1>0, <1>1, TokenFacts
<1>3. UNCHANGED <<file, emitted, fixups, output>> BY DEF LabelFound, InHandler
<1> HIDE DEF p
<1>5. CASE data_possible /\ Goto("BEGIN_DIRECTIVE", p + 1) /\ UNCHANGED <<layout, tables, sb>>
  BY <1>0, <1>1, <1>2, <1>3, <1>5 DEF ScanFacts, Goto, Moves, Forward, ScanStates, DirectiveStates, DataFirst, tables
<1>6. CASE EnterCode(p)
  <2>1. ~data_possible' /\ data_possible' \in BOOLEAN BY <1>6 DEF EnterCode
  <2> QED BY <1>0, <1>1, <1>2, <1>3, <2>1, <1>6 DEF EnterCode, ScanFacts, Goto, Moves, Forward, Rank, ScanStates,
                                                DirectiveStates, DataFirst
<1>7. CASE Reject BY <1>1, <1>7, RejectMoves
<1> QED BY <1>5, <1>6, <1>7 DEF LabelFound, p

(* So does the end of a line.                                               *)
LEMMA LineFinishedMoves == IInv /\ LineFinished => Moves /\ Forward
<1> SUFFICES ASSUME IInv, LineFinished PROVE Moves /\ Forward OBVIOUS
<1> DEFINE end == Until(pos, {"\n"})
           next == IF Peek(end) = EOF THEN end ELSE end + 1
<1>0. ScanFacts BY DEF IInv, AsmTypeOK, ScanFacts
<1>1. phase = "scanning" /\ pos <= Len(file) /\ UNCHANGED <<file, emitted, fixups, output>>
  BY DEF LineFinished, InHandler
<1>2. end \in pos..Len(file)+1 BY <1>0, <1>1, UntilType DEF ScanFacts
<1>3. next \in Nat /\ next > pos
  <2>1. end \in Nat \ {0} /\ file \in Seq(Symbols) BY <1>0, <1>2 DEF ScanFacts
  <2>2. Peek(end) = EOF => end > Len(file) BY <2>1, PeekType
  <2> QED BY <1>0, <1>1, <1>2, <2>1, <2>2 DEF ScanFacts
<1>4. Goto("START_LINE", next) /\ UNCHANGED <<layout, tables, sb>> BY DEF LineFinished
<1> HIDE DEF next
<1> QED BY <1>0, <1>1, <1>3, <1>4 DEF ScanFacts, Goto, Moves, Forward, ScanStates, DirectiveStates, DataFirst, tables

(* So does the beginning of a directive.                                    *)
LEMMA BeginDirectiveMoves == IInv /\ BeginDirective => Moves /\ Forward
<1> SUFFICES ASSUME IInv, BeginDirective PROVE Moves /\ Forward OBVIOUS
<1>0. ScanFacts BY DEF IInv, AsmTypeOK, ScanFacts
<1>1. /\ phase = "scanning" /\ state = "BEGIN_DIRECTIVE" /\ InHandler("BEGIN_DIRECTIVE")
      /\ UNCHANGED <<file, emitted, fixups, output>>
  BY DEF BeginDirective, InHandler
<1>2. CASE Reject BY <1>1, <1>2, RejectMoves
<1>3. CASE /\ Peek(pos) \in {"INT", "BYT", "BTS", "STR"}
           /\ Goto(DirectiveState(Peek(pos)), pos + 1) /\ UNCHANGED <<layout, tables, sb>>
  <2>1. DirectiveState(Peek(pos)) \in {"INT_DIRECTIVE", "BYT_DIRECTIVE", "BTS_DIRECTIVE", "STR_DIRECTIVE"}
    BY <1>3 DEF DirectiveState
  <2> QED BY <1>0, <1>1, <1>3, <2>1 DEF ScanFacts, Goto, Moves, Forward, ScanStates, DirectiveStates, DataFirst, tables
<1> QED BY <1>2, <1>3 DEF BeginDirective

(* So does its end.                                                         *)
LEMMA DirectiveDoneMoves == IInv /\ DirectiveDone => Moves /\ Forward
<1> SUFFICES ASSUME IInv, DirectiveDone PROVE Moves /\ Forward OBVIOUS
<1> DEFINE p == NextToken
<1>0. ScanFacts BY DEF IInv, AsmTypeOK, ScanFacts
<1>1. /\ phase = "scanning" /\ state = "DIRECTIVE_DONE" /\ pos <= Len(file) /\ InHandler("DIRECTIVE_DONE")
      /\ UNCHANGED <<file, emitted, fixups, output>>
  BY DEF DirectiveDone, InHandler
<1>2. p \in Nat \ {0} /\ p >= pos BY <1>0, <1>1, TokenFacts
<1> HIDE DEF p
<1>3. CASE Goto("LINE_FINISHED", p) /\ UNCHANGED <<layout, tables, sb>>
  BY <1>0, <1>1, <1>2, <1>3 DEF ScanFacts, Goto, Moves, Forward, Rank, ScanStates, DirectiveStates, DataFirst, tables
<1>4. CASE Reject BY <1>1, <1>4, RejectMoves
<1> QED BY <1>3, <1>4 DEF DirectiveDone, p

(* Numbers, codes of characters and escapes are natural numbers.           *)
LEMMA NumeralType == \A d \in Numerals : NumeralValue[d] \in Nat
BY Zenon, AssemblerAssumption

(* A character that stands for itself has one code.                         *)
LEMMA CodeType == \A c \in OneChar : c \in Symbols /\ Len(Codes[c]) = 1 /\ Codes[c] \in Seq(Nat) /\ Codes[c][1] \in Nat
<1>1. Codes \in [Symbols -> Seq(Nat)] BY Zenon, AssemblerAssumption
<1>2. \A c \in OneChar : c \in Symbols /\ Len(Codes[c]) = 1 BY DEF OneChar
<1>3. \A c \in OneChar : Codes[c] \in Seq(Nat) BY <1>1, <1>2
<1> QED BY <1>2, <1>3

(* An escape stands for a byte.                                             *)
LEMMA EscapeType == \A c \in DOMAIN Escapes : c \in OneChar /\ Escapes[c] \in Byte
BY Zenon, AssemblerAssumption DEF Byte

(* A directive is only read where data is possible.                         *)
LEMMA StoreStores ==
  ASSUME ScanFacts, phase = "scanning", state \in DirectiveStates,
         UNCHANGED <<file, emitted, fixups, output>>,
         NEW bytes \in Seq(Byte), Store(bytes, Len(bytes)),
         NEW s \in {"LINE_FINISHED", "DIRECTIVE_DONE"}, NEW p \in Nat, p >= pos, Goto(s, p),
         p > pos \/ Rank(s) < Rank(state),
         sb' \in Seq(Nat), UNCHANGED tables
  PROVE  Stores(bytes) /\ Forward
<1>1. data_possible /\ pos \in Nat \ {0} BY DEF ScanFacts, DataFirst
<1>2. p \in Nat \ {0} BY <1>1
<1>3. state' = s /\ pos' = p /\ phase' = phase BY DEF Goto
<1>4. Forward BY <1>1, <1>3 DEF Forward
<1>5. data_bytes' = data_bytes \o bytes /\ location_counter' = location_counter + Len(bytes) BY DEF Store
<1>6. Stores(bytes) BY <1>1, <1>2, <1>3, <1>5 DEF Stores
<1> QED BY <1>4, <1>6

Step == (Moves \/ \E bytes : Stores(bytes)) /\ Forward

(* The data directives: each step moves the scanner or stores data.        *)
LEMMA IntDirectiveStep == IInv /\ IntDirective => Step
<1> SUFFICES ASSUME IInv, IntDirective PROVE Step OBVIOUS
<1> DEFINE p == NextToken
<1>0. ScanFacts BY DEF IInv, AsmTypeOK, ScanFacts
<1>1. /\ phase = "scanning" /\ state = "INT_DIRECTIVE" /\ pos <= Len(file)
      /\ UNCHANGED <<file, emitted, fixups, output, tables, sb>>
  BY DEF IntDirective, InHandler
<1>2. p \in Nat \ {0} /\ p >= pos BY <1>0, <1>1, TokenFacts
<1> HIDE DEF p
<1>3. CASE Goto("NUMBER_FOUND", p) /\ UNCHANGED layout
  BY <1>0, <1>1, <1>2, <1>3 DEF ScanFacts, Goto, Step, Moves, Forward, Rank, ScanStates, DirectiveStates, DataFirst, tables
<1>4. CASE Goto("LINE_FINISHED", p) /\ Store(Zeros(4), 4)
  <2>1. Zeros(4) \in Seq(Byte) /\ Len(Zeros(4)) = 4 BY ZerosType
  <2>2. sb' \in Seq(Nat) BY <1>0, <1>1 DEF ScanFacts
  <2>3. Rank("LINE_FINISHED") < Rank(state) BY <1>1 DEF Rank
  <2>4. Store(Zeros(4), Len(Zeros(4))) BY <1>4, <2>1
  <2>5. Stores(Zeros(4)) /\ Forward
    BY <1>0, <1>1, <1>2, <1>4, <2>1, <2>2, <2>3, <2>4, StoreStores DEF DirectiveStates
  <2> QED BY <2>5 DEF Step
<1>5. CASE Goto("INT_DIRECTIVE", p) /\ UNCHANGED layout
  BY <1>0, <1>1, <1>2, <1>5 DEF ScanFacts, Goto, Step, Moves, Forward, ScanStates, DirectiveStates, DataFirst, tables, asmVars
<1> QED BY <1>3, <1>4, <1>5 DEF IntDirective, p

(* The number of .INT is a word of the image.                               *)
LEMMA NumberFoundStep == IInv /\ NumberFound => Step
<1> SUFFICES ASSUME IInv, NumberFound PROVE Step OBVIOUS
<1> DEFINE digits == Peek(pos + 1)
           bytes == SplitToBytes(NumeralValue[digits], 4)
<1>0. ScanFacts BY DEF IInv, AsmTypeOK, ScanFacts
<1>1. /\ phase = "scanning" /\ state = "NUMBER_FOUND" /\ InHandler("NUMBER_FOUND")
      /\ UNCHANGED <<file, emitted, fixups, output>>
  BY DEF NumberFound, InHandler
<1>2. CASE digits \in Numerals /\ Store(bytes, 4) /\ Goto("DIRECTIVE_DONE", pos + 2) /\ UNCHANGED <<tables, sb>>
  <2>1. NumeralValue[digits] \in Int BY <1>2, NumeralType
  <2>2. bytes \in Seq(Byte) /\ Len(bytes) = 4 BY <2>1, SplitType
  <2> HIDE DEF bytes, digits
  <2>3. Store(bytes, Len(bytes)) BY <1>2, <2>2
  <2>4. sb' \in Seq(Nat) /\ pos + 2 \in Nat /\ pos + 2 > pos /\ pos + 2 >= pos BY <1>0, <1>2 DEF ScanFacts
  <2>5. Stores(bytes) /\ Forward
    BY <1>0, <1>1, <1>2, <2>2, <2>3, <2>4, StoreStores DEF DirectiveStates
  <2> QED BY <2>5 DEF Step
<1>3. CASE Reject BY <1>1, <1>3, RejectMoves DEF Step
<1> QED BY <1>2, <1>3 DEF NumberFound

(* .BYT emits one byte.                                                     *)
LEMMA BytDirectiveStep == IInv /\ BytDirective => Step
<1> SUFFICES ASSUME IInv, BytDirective PROVE Step OBVIOUS
<1> DEFINE p == NextToken
           r == IF Peek(p) = "#" THEN p + 1 ELSE p
           StoresTo(bytes, q) == Store(bytes, 1) /\ Goto("DIRECTIVE_DONE", q) /\ UNCHANGED <<tables, sb>>
<1>0. ScanFacts BY DEF IInv, AsmTypeOK, ScanFacts
<1>1. /\ phase = "scanning" /\ state = "BYT_DIRECTIVE" /\ pos <= Len(file) /\ InHandler("BYT_DIRECTIVE")
      /\ UNCHANGED <<file, emitted, fixups, output>>
  BY DEF BytDirective, InHandler
<1>2. p \in Nat \ {0} /\ p >= pos BY <1>0, <1>1, TokenFacts
<1> HIDE DEF p
<1>3. r \in Nat \ {0} /\ r >= pos BY <1>0, <1>2 DEF ScanFacts
<1> HIDE DEF r
<1>4. ASSUME NEW bytes \in Seq(Byte), Len(bytes) = 1, NEW q \in Nat, q >= r, StoresTo(bytes, q) PROVE Step
  <2>1. Store(bytes, Len(bytes)) BY <1>4
  <2>2. sb' \in Seq(Nat) /\ pos \in Nat BY <1>0, <1>4 DEF ScanFacts
  <2>3. Rank("DIRECTIVE_DONE") < Rank(state) BY <1>1 DEF Rank
  <2>4. q >= pos BY <1>3, <1>4, <2>2
  <2>5. Stores(bytes) /\ Forward
    BY <1>0, <1>1, <1>4, <2>1, <2>2, <2>3, <2>4, StoreStores DEF DirectiveStates
  <2> QED BY <2>5 DEF Step
<1>5. ASSUME NEW v \in Int, NEW q \in Nat, q >= r, StoresTo(SplitToBytes(v, 1), q) PROVE Step
  <2>1. SplitToBytes(v, 1) \in Seq(Byte) /\ Len(SplitToBytes(v, 1)) = 1 BY SplitType
  <2> QED BY <1>4, <1>5, <2>1
<1>6. ASSUME NEW b \in Byte, NEW q \in Nat, q >= r, StoresTo(<<b>>, q) PROVE Step
  <2>1. <<b>> \in Seq(Byte) /\ Len(<<b>>) = 1 OBVIOUS
  <2> QED BY <1>4, <1>6, <2>1
<1>7. CASE Peek(r) \in Numerals /\ StoresTo(SplitToBytes(NumeralValue[Peek(r)], 1), r + 1)
  <2>1. NumeralValue[Peek(r)] \in Int /\ r + 1 \in Nat /\ r + 1 >= r BY <1>3, <1>7, NumeralType
  <2> QED BY <1>5, <1>7, <2>1
<1>8. CASE IsChar(r) /\ StoresTo(SplitToBytes(Codes[Peek(r + 1)][1], 1), r + 3)
  <2>1. Peek(r + 1) \in OneChar BY <1>8 DEF IsChar
  <2>2. Codes[Peek(r + 1)][1] \in Int BY <2>1, CodeType
  <2>3. r + 3 \in Nat /\ r + 3 >= r BY <1>3
  <2> QED BY <1>5, <1>8, <2>2, <2>3
<1>9. CASE IsEscape(r) /\ StoresTo(<<Escapes[Peek(r + 2)]>>, r + 4)
  <2>1. Peek(r + 2) \in DOMAIN Escapes BY <1>9 DEF IsEscape
  <2>2. Escapes[Peek(r + 2)] \in Byte BY <2>1, EscapeType
  <2>3. r + 4 \in Nat /\ r + 4 >= r BY <1>3
  <2> QED BY <1>6, <1>9, <2>2, <2>3
<1>10. CASE StoresTo(<<0>>, r) BY <1>3, <1>6, <1>10, ByteFacts
<1>11. CASE Reject BY <1>1, <1>11, RejectMoves DEF Step
<1>12. CASE Exit("crashed")
  BY <1>0, <1>1, <1>12 DEF Exit, Step, Moves, Forward, ScanFacts, ScanStates, DirectiveStates, DataFirst, tables
<1> HIDE DEF StoresTo
<1> QED
  <2>1. \/ Peek(r) \in Numerals /\ StoresTo(SplitToBytes(NumeralValue[Peek(r)], 1), r + 1)
        \/ IsChar(r) /\ StoresTo(SplitToBytes(Codes[Peek(r + 1)][1], 1), r + 3)
        \/ IsEscape(r) /\ StoresTo(<<Escapes[Peek(r + 2)]>>, r + 4)
        \/ StoresTo(<<0>>, r)
        \/ Reject
        \/ Exit("crashed")
    BY DEF BytDirective, StoresTo, r, p
  <2> QED BY <1>7, <1>8, <1>9, <1>10, <1>11, <1>12, <2>1

(* .BTS emits as many bytes as it says.                                     *)
LEMMA BtsDirectiveStep == IInv /\ BtsDirective => Step
<1> SUFFICES ASSUME IInv, BtsDirective PROVE Step OBVIOUS
<1> DEFINE p == NextToken
           digits == Peek(p + 1)
           n == NumeralValue[digits]
<1>0. ScanFacts BY DEF IInv, AsmTypeOK, ScanFacts
<1>1. /\ phase = "scanning" /\ state = "BTS_DIRECTIVE" /\ pos <= Len(file) /\ InHandler("BTS_DIRECTIVE")
      /\ UNCHANGED <<file, emitted, fixups, output>>
  BY DEF BtsDirective, InHandler
<1>2. p \in Nat \ {0} /\ p >= pos BY <1>0, <1>1, TokenFacts
<1>3. CASE /\ digits \in Numerals /\ Store(Zeros(n), n)
           /\ Goto("DIRECTIVE_DONE", p + 2) /\ UNCHANGED <<tables, sb>>
  <2>1. n \in Nat BY <1>3, NumeralType
  <2> HIDE DEF n, digits, p
  <2>2. Zeros(n) \in Seq(Byte) /\ Store(Zeros(n), Len(Zeros(n))) BY <1>3, <2>1, ZerosType
  <2>3. sb' \in Seq(Nat) /\ p + 2 \in Nat /\ p + 2 > pos BY <1>0, <1>2, <1>3 DEF ScanFacts
  <2>4. p + 2 >= pos BY <1>0, <2>3 DEF ScanFacts
  <2>5. Stores(Zeros(n)) /\ Forward
    BY <1>0, <1>1, <1>3, <2>2, <2>3, <2>4, StoreStores DEF DirectiveStates
  <2> QED BY <2>5 DEF Step
<1>4. CASE Reject BY <1>1, <1>4, RejectMoves DEF Step
<1> QED BY <1>3, <1>4 DEF BtsDirective

(* A string given by its length is that byte, as many zeros and one more.   *)
LEMMA StrDirectiveStep == IInv /\ StrDirective => Step
<1> SUFFICES ASSUME IInv, StrDirective PROVE Step OBVIOUS
<1> DEFINE p == NextToken
           digits == Peek(p + 1)
           n == NumeralValue[digits]
           bytes == <<n>> \o Zeros(n + 1)
<1>0. ScanFacts BY DEF IInv, AsmTypeOK, ScanFacts
<1>1. /\ phase = "scanning" /\ state = "STR_DIRECTIVE" /\ pos <= Len(file) /\ InHandler("STR_DIRECTIVE")
      /\ UNCHANGED <<file, emitted, fixups, output>>
  BY DEF StrDirective, InHandler
<1>2. p \in Nat \ {0} /\ p >= pos BY <1>0, <1>1, TokenFacts
<1>3. CASE Goto("STRING", p + 1) /\ UNCHANGED <<layout, tables, sb>>
  <2> HIDE DEF p
  <2> QED BY <1>0, <1>1, <1>2, <1>3
          DEF ScanFacts, Goto, Step, Moves, Forward, ScanStates, DirectiveStates, DataFirst, tables
<1>4. CASE /\ digits \in Numerals /\ n <= MaxLength /\ Store(bytes, n + 2)
           /\ Goto("DIRECTIVE_DONE", p + 2) /\ UNCHANGED <<tables, sb>>
  <2>1. n \in Byte /\ n \in Nat
    <3>1. n \in Nat BY <1>4, NumeralType
    <3>2. ByteMod \in Nat /\ MaxLength \in 0..ByteMod-1 BY Zenon, AssemblerAssumption
    <3> QED BY <1>4, <3>1, <3>2 DEF Byte
  <2> HIDE DEF n, digits, p
  <2>2. Zeros(n + 1) \in Seq(Byte) /\ Len(Zeros(n + 1)) = n + 1 BY <2>1, ZerosType
  <2>3. bytes \in Seq(Byte) /\ Len(bytes) = n + 2 BY <2>1, <2>2
  <2> HIDE DEF bytes
  <2>4. Store(bytes, Len(bytes)) BY <1>4, <2>3
  <2>5. sb' \in Seq(Nat) /\ p + 2 \in Nat /\ p + 2 > pos /\ p + 2 >= pos BY <1>0, <1>2, <1>4 DEF ScanFacts
  <2>6. Stores(bytes) /\ Forward
    BY <1>0, <1>1, <1>4, <2>3, <2>4, <2>5, StoreStores DEF DirectiveStates
  <2> QED BY <2>6 DEF Step
<1>5. CASE Reject BY <1>1, <1>5, RejectMoves DEF Step
<1>6. CASE Exit("crashed")
  BY <1>0, <1>1, <1>6 DEF Exit, Step, Moves, Forward, ScanFacts, ScanStates, DirectiveStates, DataFirst, tables
<1> QED BY <1>3, <1>4, <1>5, <1>6 DEF StrDirective

(* A character of a string is kept, and emitted at its end.                 *)
LEMMA StringCharStep == IInv /\ StringChar => Step
<1> SUFFICES ASSUME IInv, StringChar PROVE Step OBVIOUS
<1>0. ScanFacts BY DEF IInv, AsmTypeOK, ScanFacts
<1>1. phase = "scanning" /\ state = "STRING" /\ UNCHANGED <<file, emitted, fixups, output>>
  BY DEF StringChar, InString
<1>2. ASSUME NEW s \in Seq(Nat), sb' = s, NEW n \in {1, 2}, Goto("STRING", pos + n), UNCHANGED <<layout, tables>>
      PROVE  Step
  BY <1>0, <1>1, <1>2 DEF ScanFacts, Goto, Step, Moves, Forward, ScanStates, DirectiveStates, DataFirst, tables
<1>3. CASE /\ Peek(pos) \in Symbols \ {"\\"} /\ sb' = sb \o Codes[Peek(pos)]
           /\ Goto("STRING", pos + 1) /\ UNCHANGED <<layout, tables>>
  <2>1. Codes \in [Symbols -> Seq(Nat)] BY Zenon, AssemblerAssumption
  <2>2. sb \o Codes[Peek(pos)] \in Seq(Nat) BY <1>0, <1>3, <2>1 DEF ScanFacts
  <2> QED BY <1>2, <1>3, <2>2
<1>4. CASE /\ Peek(pos + 1) \in DOMAIN Escapes /\ sb' = Append(sb, Escapes[Peek(pos + 1)])
           /\ Goto("STRING", pos + 2) /\ UNCHANGED <<layout, tables>>
  <2>1. Escapes[Peek(pos + 1)] \in Nat BY <1>4, EscapeType, ByteFacts DEF Byte
  <2>2. Append(sb, Escapes[Peek(pos + 1)]) \in Seq(Nat) BY <1>0, <2>1 DEF ScanFacts
  <2> QED BY <1>2, <1>4, <2>2, Zenon
<1>5. CASE Reject
  BY <1>0, <1>1, <1>5 DEF Reject, Exit, Step, Moves, Forward, ScanFacts, ScanStates, DirectiveStates, DataFirst, tables
<1>6. CASE Goto("STRING", pos) /\ UNCHANGED <<layout, tables, sb>>
  BY <1>0, <1>1, <1>6 DEF ScanFacts, Goto, Step, Moves, Forward, ScanStates, DirectiveStates, DataFirst, tables, asmVars
<1> QED BY <1>3, <1>4, <1>5, <1>6 DEF StringChar

(* A string is its length, its bytes and a terminator.                      *)
LEMMA StringEndStep == IInv /\ StringEnd => Step
<1> SUFFICES ASSUME IInv, StringEnd PROVE Step OBVIOUS
<1> DEFINE bytes == <<Len(sb)>> \o sb \o <<0>>
<1>0. ScanFacts BY DEF IInv, AsmTypeOK, ScanFacts
<1>1. phase = "scanning" /\ state = "STRING" /\ UNCHANGED <<file, emitted, fixups, output>>
  BY DEF StringEnd, InString
<1>2. CASE /\ Len(sb) <= MaxLength /\ \A i \in 1..Len(sb) : sb[i] \in Byte
           /\ Store(bytes, Len(sb) + 2)
           /\ Goto("DIRECTIVE_DONE", pos + 1) /\ sb' = << >> /\ UNCHANGED tables
  <2>1. Len(sb) \in Byte
    <3>1. ByteMod \in Nat /\ MaxLength \in 0..ByteMod-1 BY Zenon, AssemblerAssumption
    <3> QED BY <1>0, <1>2, <3>1 DEF Byte, ScanFacts
  <2>2. sb \in Seq(Byte)
    <3>1. sb \in Seq(Nat) BY <1>0 DEF ScanFacts
    <3>2. \A i \in 1..Len(sb) : sb[i] \in Byte BY <1>2
    <3> QED BY <3>1, <3>2
  <2>3. bytes \in Seq(Byte) /\ Len(bytes) = Len(sb) + 2 BY <2>1, <2>2, ByteFacts
  <2> HIDE DEF bytes
  <2>4. Store(bytes, Len(bytes)) BY <1>2, <2>3
  <2>5. sb' \in Seq(Nat) /\ pos + 1 \in Nat /\ pos + 1 > pos /\ pos + 1 >= pos BY <1>0, <1>2 DEF ScanFacts
  <2>6. Stores(bytes) /\ Forward
    BY <1>0, <1>1, <1>2, <2>3, <2>4, <2>5, StoreStores DEF DirectiveStates
  <2> QED BY <2>6 DEF Step
<1>3. CASE Reject
  BY <1>0, <1>1, <1>3 DEF Reject, Exit, Step, Moves, Forward, ScanFacts, ScanStates, DirectiveStates, DataFirst, tables
<1>4. CASE Exit("crashed")
  BY <1>0, <1>1, <1>4 DEF Exit, Step, Moves, Forward, ScanFacts, ScanStates, DirectiveStates, DataFirst, tables
<1> QED BY <1>2, <1>3, <1>4 DEF StringEnd

(* A label is defined where the next line begins.                           *)
LEMMA StartOfLabelKeeps == IInv /\ StartOfLabel => IInv' /\ Forward
<1> SUFFICES ASSUME IInv, StartOfLabel PROVE IInv' /\ Forward OBVIOUS
<1> USE DEF IInv
<1> DEFINE label == file[pos]
<1>1. /\ phase = "scanning" /\ state = "START_OF_LABEL" /\ UNCHANGED <<file, emitted, fixups, output>>
      /\ UNCHANGED <<location_counter, data_bytes, data_possible, entries, sb, phase>>
      /\ state' = "LABEL_FOUND" /\ pos' = pos + 1
  BY DEF StartOfLabel, InHandler, Goto, layout
<1>2. label \in Names \cup Numerals BY <1>1 DEF DataFirst
<1> HIDE DEF label
<1>3. symbol_table' = [l \in DOMAIN symbol_table \cup {label} |->
                        IF l = label THEN location_counter ELSE symbol_table[l]]
  BY DEF StartOfLabel, label
<1>4. AsmTypeOK'
  <2>1. symbol_table' \in [DOMAIN symbol_table' -> Nat] BY <1>3 DEF AsmTypeOK
  <2>2. DOMAIN symbol_table' \subseteq Names \cup Numerals BY <1>2, <1>3 DEF AsmTypeOK
  <2> QED BY <1>1, <2>1, <2>2 DEF AsmTypeOK, ScanStates
<1>5. LocationIsLength' BY <1>1 DEF LocationIsLength
<1>6. CodeInPlace' BY <1>1, <1>3 DEF CodeInPlace, AsmTypeOK
<1>7. DataFirst' BY <1>1 DEF DataFirst, DirectiveStates
<1>8. NotYetEmitted' /\ OperandsQuoted' BY <1>1 DEF NotYetEmitted, OperandsQuoted
<1>9. NothingIsPatched' BY <1>1 DEF NotYetEmitted, NothingIsPatched
<1>10. EmittedInPlace' BY <1>1 DEF EmittedInPlace
<1>11. Forward BY <1>1 DEF Forward, AsmTypeOK
<1> QED BY <1>1, <1>4, <1>5, <1>6, <1>7, <1>8, <1>9, <1>10, <1>11

(* An instruction is put at the end of the image, where the labels before   *)
(* it point.                                                                *)
LEMMA BeginCodeKeeps == IInv /\ BeginCode => IInv' /\ Forward
<1> SUFFICES ASSUME IInv, BeginCode PROVE IInv' /\ Forward OBVIOUS
<1> DEFINE p == NextToken
           q == Until(p, {" ", "\n"})
           entry == [op |-> Peek(p), operands |-> << >>, addr |-> location_counter]
<1>0. ScanFacts BY DEF IInv, AsmTypeOK, ScanFacts
<1>1. /\ phase = "scanning" /\ state = "BEGIN_CODE" /\ pos <= Len(file) /\ InHandler("BEGIN_CODE")
      /\ UNCHANGED <<file, emitted, fixups, output>>
  BY DEF BeginCode, InHandler
<1>2. CASE Reject BY <1>1, <1>2, RejectMoves, MovesKeep
<1>3. CASE UNCHANGED <<state, pos, layout, tables, sb, phase>>
  <2>1. Moves BY <1>0, <1>1, <1>3 DEF Moves, ScanFacts, ScanStates, DirectiveStates, DataFirst, tables
  <2>2. Forward BY <1>1, <1>3 DEF Forward, asmVars
  <2> QED BY <2>1, <2>2, MovesKeep
<1>4. CASE /\ q = p + 1 /\ Peek(p) \in ValidOps
           /\ entries' = Append(entries, entry)
           /\ data_bytes' = data_bytes \o Zeros(8) /\ location_counter' = location_counter + 8
           /\ Goto("GATHER_TOKENS", After(q, Blank))
           /\ UNCHANGED <<symbol_table, data_possible, sb>>
  <2>1. p \in Nat \ {0} /\ p >= pos /\ p <= Len(file) + 1 BY <1>0, <1>1, TokenFacts
  <2>2. q \in Nat \ {0} /\ q <= Len(file) + 1 /\ q > pos
    <3>1. file \in Seq(Symbols) BY <1>0 DEF ScanFacts
    <3>2. q = p + 1 BY <1>4
    <3> HIDE DEF p
    <3>3. q \in p..Len(file)+1 BY <2>1, <3>1, UntilType
    <3> HIDE DEF q
    <3>4. pos \in Nat \ {0} /\ Len(file) \in Nat BY <1>0, <3>1 DEF ScanFacts
    <3> QED BY <2>1, <3>2, <3>3, <3>4
  <2>3. /\ After(q, Blank) \in Nat \ {0} /\ After(q, Blank) > pos
        /\ state' = "GATHER_TOKENS" /\ pos' = After(q, Blank) /\ phase' = "scanning"
    <3>1. EOF \notin Blank /\ file \in Seq(Symbols) /\ pos \in Nat BY <1>0 DEF EOF, Blank, ScanFacts
    <3> HIDE DEF q
    <3>2. After(q, Blank) \in q..Len(file)+1 BY <2>2, <3>1, AfterType
    <3> QED BY <1>1, <1>4, <2>2, <3>1, <3>2 DEF Goto
  <2>4. entry \in [op : ValidOps, operands : Seq(Seq(Symbols)), addr : Nat]
    <3>1. location_counter \in Nat BY DEF IInv, AsmTypeOK
    <3>2. << >> \in Seq(Seq(Symbols)) OBVIOUS
    <3>3. Peek(p) \in ValidOps BY <1>4
    <3> HIDE DEF p
    <3> QED BY <3>1, <3>2, <3>3
  <2>5. entry.operands = << >> /\ entry.addr = location_counter OBVIOUS
  <2> HIDE DEF entry, p, q
  <2> USE DEF IInv
  <2>6. /\ Len(entries) \in Nat /\ Len(entries') = Len(entries) + 1
        /\ DOMAIN entries = 1..Len(entries) /\ DOMAIN entries' = 1..Len(entries)+1
        /\ \A i \in 1..Len(entries) : entries'[i] = entries[i]
        /\ entries'[Len(entries) + 1] = entry
        /\ entries' \in Seq([op : ValidOps, operands : Seq(Seq(Symbols)), addr : Nat])
    BY <1>4, <2>4 DEF AsmTypeOK
  <2>7. data_bytes' \in Seq(Byte) /\ Len(data_bytes') = Len(data_bytes) + 8
    <3>1. data_bytes \in Seq(Byte) /\ data_bytes' = data_bytes \o Zeros(8) BY <1>4 DEF AsmTypeOK
    <3>2. Zeros(8) \in Seq(Byte) /\ Len(Zeros(8)) = 8 BY ZerosType
    <3>3. /\ data_bytes \o Zeros(8) \in Seq(Byte)
          /\ Len(data_bytes \o Zeros(8)) = Len(data_bytes) + Len(Zeros(8))
      BY <3>1, <3>2, ConcatProperties
    <3> QED BY <3>1, <3>2, <3>3
  <2>8. AsmTypeOK'
    <3>1. data_bytes' \in Seq(Byte) BY <2>7
    <3>2. emitted' \in 0..Len(entries') BY <1>1, <2>6 DEF AsmTypeOK
    <3>3. pos' \in Nat \ {0} /\ state' \in ScanStates BY <2>3 DEF ScanStates
    <3>4. entries' \in Seq([op : ValidOps, operands : Seq(Seq(Symbols)), addr : Nat]) BY <2>6
    <3>5. location_counter' \in Nat BY <1>4 DEF AsmTypeOK
    <3>6. phase' = "scanning" /\ UNCHANGED <<symbol_table, data_possible, sb, file, fixups, output>>
      BY <1>1, <1>4, <2>3
    <3> QED BY <3>1, <3>2, <3>3, <3>4, <3>5, <3>6 DEF AsmTypeOK
  <2>9. LocationIsLength' BY <1>4, <2>7 DEF LocationIsLength
  <2>10. CodeInPlace'
    <3>1. ASSUME NEW i \in DOMAIN entries'
          PROVE  entries'[i].addr = location_counter' - 8 * (Len(entries') + 1 - i)
      <4>1. location_counter' = location_counter + 8 /\ location_counter \in Nat
        BY <1>4 DEF AsmTypeOK
      <4>2. CASE i = Len(entries) + 1
        <5>1. entries'[i].addr = location_counter BY <2>5, <2>6, <4>2
        <5> QED BY <2>6, <4>1, <4>2, <5>1
      <4>3. CASE i \in 1..Len(entries)
        <5>1. entries[i].addr = location_counter - 8 * (Len(entries) + 1 - i) BY <2>6, <4>3 DEF CodeInPlace
        <5>2. entries'[i] = entries[i] BY <2>6, <4>3
        <5> QED BY <2>6, <4>1, <4>3, <5>1, <5>2
      <4> QED BY <2>6, <4>2, <4>3
    <3>2. ASSUME NEW l \in DOMAIN symbol_table
          PROVE  \/ symbol_table[l] \in 4..location_counter' - 8 * Len(entries')
                 \/ symbol_table[l] = location_counter'
                 \/ \E i \in DOMAIN entries' : entries'[i].addr = symbol_table[l]
      <4>1. CASE symbol_table[l] \in 4..location_counter - 8 * Len(entries)
        <5>1. location_counter' - 8 * Len(entries') = location_counter - 8 * Len(entries)
          BY <1>4, <2>6 DEF AsmTypeOK
        <5> QED BY <4>1, <5>1
      <4>2. CASE symbol_table[l] = location_counter
        <5>1. Len(entries) + 1 \in DOMAIN entries' BY <2>6
        <5>2. entries'[Len(entries) + 1].addr = location_counter BY <2>5, <2>6
        <5> QED BY <4>2, <5>1, <5>2
      <4>3. CASE \E i \in DOMAIN entries : entries[i].addr = symbol_table[l] BY <2>6, <4>3
      <4> QED BY <4>1, <4>2, <4>3 DEF CodeInPlace
    <3>3. symbol_table' = symbol_table BY <1>4
    <3> QED BY <3>1, <3>2, <3>3 DEF CodeInPlace
  <2>11. (4 + 8 * Len(entries) <= location_counter)' BY <1>4, <2>6 DEF AsmTypeOK
  <2>12. DataFirst'
    <3>1. ~data_possible' BY <1>1, <1>4 DEF DataFirst
    <3>2. entries' # << >> BY <2>6
    <3> QED BY <2>3, <3>1, <3>2 DEF DataFirst, DirectiveStates
  <2>13. NotYetEmitted' BY <1>1, <2>3 DEF NotYetEmitted
  <2>14. OperandsQuoted'
    <3>1. ASSUME NEW i \in DOMAIN entries', NEW j \in DOMAIN entries'[i].operands
          PROVE  Quoted(entries'[i].operands[j])
      <4>1. CASE i = Len(entries) + 1
        <5>1. entries'[i].operands = << >> BY <2>5, <2>6, <4>1
        <5> QED BY <5>1
      <4>2. CASE i \in 1..Len(entries) BY <2>6, <3>1, <4>2 DEF OperandsQuoted
      <4> QED BY <2>6, <4>1, <4>2
    <3> QED BY <3>1 DEF OperandsQuoted, Quoted
  <2>15. NothingIsPatched' BY <1>1 DEF NotYetEmitted, NothingIsPatched
  <2>16. EmittedInPlace' BY <2>3 DEF EmittedInPlace
  <2>17. Forward BY <2>3 DEF Forward
  <2> QED BY <2>8, <2>9, <2>10, <2>11, <2>12, <2>13, <2>14, <2>15, <2>16, <2>17
<1> QED BY <1>2, <1>3, <1>4 DEF BeginCode

Entry == [op : ValidOps, operands : Seq(Seq(Symbols)), addr : Nat]

(* What adding an operand to the last entry does to the list.               *)
LEMMA OperandAdded ==
  ASSUME entries \in Seq(Entry), entries # << >>, NEW token \in Seq(Symbols),
         entries' = [entries EXCEPT ![Len(entries)].operands = Append(@, token)]
  PROVE  /\ entries' \in Seq(Entry) /\ Len(entries') = Len(entries)
         /\ \A i \in 1..Len(entries) : entries'[i].addr = entries[i].addr /\ entries'[i].op = entries[i].op
         /\ \A i \in 1..Len(entries) : i # Len(entries) => entries'[i].operands = entries[i].operands
         /\ entries'[Len(entries)].operands = Append(entries[Len(entries)].operands, token)
<1> DEFINE n == Len(entries)
           last == entries[n]
           new == [last EXCEPT !.operands = Append(last.operands, token)]
<1>1. n \in Nat \ {0} /\ n \in 1..n /\ DOMAIN entries = 1..n OBVIOUS
<1>2. last \in Entry BY <1>1
<1>3. entries' = [entries EXCEPT ![n] = new] OBVIOUS
<1> HIDE DEF last
<1>4. last.operands \in Seq(Seq(Symbols)) BY <1>2 DEF Entry
<1>5. Append(last.operands, token) \in Seq(Seq(Symbols)) BY <1>4
<1>6. /\ new.op = last.op /\ new.addr = last.addr /\ new.operands = Append(last.operands, token)
      /\ new \in Entry
  <2> DEFINE ops == Append(last.operands, token)
  <2>1. ops \in Seq(Seq(Symbols)) BY <1>5
  <2> HIDE DEF ops
  <2>2. new = [last EXCEPT !.operands = ops] BY DEF ops
  <2> HIDE DEF new
  <2>3. /\ new.op = last.op /\ new.addr = last.addr /\ new.operands = ops
        /\ new \in [op : ValidOps, operands : Seq(Seq(Symbols)), addr : Nat]
    BY <1>2, <2>1, <2>2 DEF Entry
  <2> QED BY <2>3 DEF ops, Entry
<1> HIDE DEF new
<1>8. entries' \in Seq(Entry) /\ Len(entries') = n /\ \A i \in 1..n : entries'[i] = IF i = n THEN new ELSE entries[i]
  <2> HIDE DEF n
  <2>1. entries \in Seq(Entry) /\ n \in 1..Len(entries) BY <1>1 DEF n
  <2> HIDE DEF n
  <2>2. /\ [entries EXCEPT ![n] = new] \in Seq(Entry) /\ Len([entries EXCEPT ![n] = new]) = Len(entries)
        /\ \A i \in 1..Len(entries) : [entries EXCEPT ![n] = new][i] = IF i = n THEN new ELSE entries[i]
    BY <1>6, <2>1, ExceptSeq
  <2> QED BY <1>3, <2>2 DEF n
<1>9. entries[n] = last BY DEF last
<1> QED BY <1>1, <1>6, <1>8, <1>9

(* An operand is added to the last instruction, whose place does not change. *)
LEMMA AddOperandKeeps ==
  ASSUME IInv, phase = "scanning", state = "GATHER_TOKENS",
         UNCHANGED <<file, emitted, fixups, output>>,
         NEW p \in Nat \ {0}, NEW q \in Nat, pos <= p, p < q, q <= Len(file) + 1,
         file[p] = "'" => p + 1 < q /\ file[p + 1] \in OneChar,
         AddOperand(p, q)
  PROVE  IInv' /\ Forward
<1> USE DEF IInv
<1> DEFINE token == SubSeq(file, p, q - 1)
           n == Len(entries)
<1>1. file \in Seq(Symbols) /\ pos \in Nat \ {0} BY DEF AsmTypeOK
<1>2. entries # << >> /\ entries \in Seq(Entry) /\ location_counter \in Nat
  BY DEF DataFirst, AsmTypeOK, Entry
<1>3. token \in Seq(Symbols) /\ Len(token) = q - p /\ \A i \in 1..q-p : token[i] = file[p + i - 1]
  <2>1. \A i \in p..q-1 : file[i] \in Symbols BY <1>1
  <2>2. q - 1 \in Int /\ p \in Int /\ p <= q - 1 /\ q - 1 - p + 1 = q - p OBVIOUS
  <2> QED BY <2>1, <2>2, SubSeqProperties
<1>4. Quoted(token)
  <2> HIDE DEF token
  <2>1. token[1] = file[p] BY <1>3
  <2>2. p + 1 < q => Len(token) > 1 /\ token[2] = file[p + 1] BY <1>3
  <2> QED BY <2>1, <2>2 DEF Quoted
<1> HIDE DEF token
<1>5. /\ entries' = [entries EXCEPT ![Len(entries)].operands = Append(@, token)]
      /\ state' = "GATHER_TOKENS" /\ pos' = q /\ phase' = "scanning"
      /\ UNCHANGED <<location_counter, data_bytes, symbol_table, data_possible, sb>>
  BY DEF AddOperand, Goto, token, layout
<1>6. /\ entries' \in Seq(Entry) /\ Len(entries') = Len(entries)
      /\ \A i \in 1..Len(entries) : entries'[i].addr = entries[i].addr /\ entries'[i].op = entries[i].op
      /\ \A i \in 1..Len(entries) : i # Len(entries) => entries'[i].operands = entries[i].operands
      /\ entries'[Len(entries)].operands = Append(entries[Len(entries)].operands, token)
  <2>1. token \in Seq(Symbols) BY <1>3
  <2>2. entries' = [entries EXCEPT ![Len(entries)].operands = Append(@, token)] BY <1>5
  <2> HIDE DEF IInv, n
  <2> QED BY <1>2, <2>1, <2>2, OperandAdded
<1>7. /\ n \in Nat \ {0} /\ n \in 1..n /\ DOMAIN entries = 1..n /\ DOMAIN entries' = 1..n
      /\ Len(entries') = n
      /\ entries[n].operands \in Seq(Seq(Symbols))
  <2>1. n \in Nat \ {0} /\ n \in 1..n /\ DOMAIN entries = 1..n /\ entries[n] \in Entry BY <1>2
  <2> QED BY <1>6, <2>1 DEF Entry
<1>8. AsmTypeOK'
  <2>1. emitted' \in 0..Len(entries') BY <1>6 DEF AsmTypeOK
  <2>2. pos' \in Nat \ {0} /\ state' \in ScanStates BY <1>5 DEF ScanStates
  <2>3. entries' \in Seq([op : ValidOps, operands : Seq(Seq(Symbols)), addr : Nat])
    BY <1>6 DEF Entry
  <2> QED BY <1>5, <2>1, <2>2, <2>3 DEF AsmTypeOK
<1>9. LocationIsLength' BY <1>5 DEF LocationIsLength
<1>10. CodeInPlace'
  <2> HIDE DEF n
  <2>1. ASSUME NEW i \in DOMAIN entries'
        PROVE  entries'[i].addr = location_counter' - 8 * (Len(entries') + 1 - i)
    BY <1>5, <1>6, <1>7 DEF CodeInPlace, n
  <2>2. ASSUME NEW l \in DOMAIN symbol_table
        PROVE  \/ symbol_table[l] \in 4..location_counter' - 8 * Len(entries')
               \/ symbol_table[l] = location_counter'
               \/ \E i \in DOMAIN entries' : entries'[i].addr = symbol_table[l]
    <3>1. CASE \E i \in DOMAIN entries : entries[i].addr = symbol_table[l]
      BY <1>6, <1>7, <3>1 DEF n
    <3>2. CASE symbol_table[l] \in 4..location_counter - 8 * Len(entries) BY <1>5, <1>6, <3>2
    <3> QED BY <1>5, <3>1, <3>2 DEF CodeInPlace
  <2> QED BY <1>5, <2>1, <2>2 DEF CodeInPlace
<1>11. (4 + 8 * Len(entries) <= location_counter)' BY <1>5, <1>6
<1>12. DataFirst'
  <2>1. entries' # << >> BY <1>7
  <2>2. ~data_possible' BY <1>2, <1>5 DEF DataFirst
  <2> QED BY <1>5, <2>1, <2>2 DEF DataFirst, DirectiveStates
<1>13. NotYetEmitted' BY <1>5 DEF NotYetEmitted
<1>14. OperandsQuoted'
  <2> DEFINE old == entries[n].operands
  <2>1. ASSUME NEW i \in 1..n, NEW j \in DOMAIN entries'[i].operands
        PROVE  Quoted(entries'[i].operands[j])
    <3>1. CASE i # n
      <4>1. i \in DOMAIN entries /\ entries'[i].operands = entries[i].operands BY <1>6, <1>7, <3>1
      <4>2. j \in DOMAIN entries[i].operands BY <2>1, <4>1
      <4> QED BY <4>1, <4>2 DEF OperandsQuoted
    <3>2. CASE i = n
      <4>0. n \in DOMAIN entries /\ old \in Seq(Seq(Symbols)) BY <1>7
      <4>1. entries'[i].operands = Append(old, token) BY <1>6, <3>2
      <4>2. \A k \in DOMAIN old : Quoted(old[k]) BY <4>0 DEF OperandsQuoted
      <4> HIDE DEF old
      <4>3. j \in 1..Len(old) + 1 BY <2>1, <4>0, <4>1
      <4>4. CASE j = Len(old) + 1
        <5>1. Append(old, token)[j] = token BY <4>0, <4>4
        <5> QED BY <1>4, <4>1, <5>1
      <4>5. CASE j \in 1..Len(old)
        <5>1. Append(old, token)[j] = old[j] /\ j \in DOMAIN old BY <4>0, <4>5
        <5> QED BY <4>1, <4>2, <5>1
      <4> QED BY <4>0, <4>3, <4>4, <4>5
    <3> QED BY <3>1, <3>2
  <2> QED BY <1>7, <2>1 DEF OperandsQuoted, Quoted
<1>15. NothingIsPatched' BY <1>5 DEF NotYetEmitted, NothingIsPatched
<1>16. EmittedInPlace' BY <1>5 DEF EmittedInPlace
<1>17. Forward BY <1>1, <1>5 DEF Forward
<1> QED BY <1>8, <1>9, <1>10, <1>11, <1>12, <1>13, <1>14, <1>15, <1>16, <1>17

(* A turn of the operand loop ends the line, adds an operand or refuses.   *)
LEMMA GatherTokensKeeps == IInv /\ GatherTokens => IInv' /\ Forward
<1> SUFFICES ASSUME IInv, GatherTokens PROVE IInv' /\ Forward OBVIOUS
<1> DEFINE p == NextToken
           q == Until(p, {" ", ";", "\n"})
           quoted == IF Peek(p + 1) = "\\" THEN p + 2 ELSE p + 1
           closed == Peek(quoted) \in OneChar /\ Peek(quoted + 1) = "'"
<1>0. ScanFacts BY DEF IInv, AsmTypeOK, ScanFacts
<1>1. /\ phase = "scanning" /\ state = "GATHER_TOKENS" /\ pos <= Len(file)
      /\ InHandler("GATHER_TOKENS") /\ UNCHANGED <<file, emitted, fixups, output>>
  BY DEF GatherTokens, InHandler
<1>2. /\ file \in Seq(Symbols) /\ pos \in Nat \ {0} /\ Len(file) \in Nat
      /\ p \in Nat \ {0} /\ p >= pos /\ p <= Len(file) + 1
  BY <1>0, <1>1, TokenFacts DEF ScanFacts
<1>3. Peek(p) # " " BY <1>1, <1>2, NextTokenType
<1> HIDE DEF p
<1>4. CASE Goto("LINE_FINISHED", p) /\ UNCHANGED <<layout, tables, sb>>
  <2>1. Moves /\ Forward
    BY <1>0, <1>1, <1>2, <1>4 DEF ScanFacts, Goto, Moves, Forward, Rank, ScanStates, DirectiveStates, DataFirst, tables
  <2> QED BY <2>1, MovesKeep
<1>5. CASE Reject BY <1>1, <1>5, RejectMoves, MovesKeep
<1>6. CASE Peek(p) = "'" /\ closed /\ AddOperand(p, quoted + 2)
  <2>1. "'" \in Symbols /\ "\\" \in OneChar /\ "\\" \in Symbols
    <3>1. Marks \subseteq OneChar BY Zenon, AssemblerAssumption
    <3> QED BY <3>1 DEF Marks, Symbols
  <2>2. quoted \in {p + 1, p + 2} /\ quoted \in Nat \ {0} /\ quoted + 1 \in Nat \ {0} BY <1>2
  <2>3. quoted + 1 <= Len(file)
    <3> DEFINE r == quoted + 1
    <3>1. Peek(r) \in Symbols /\ r \in Nat \ {0} BY <1>6, <2>1, <2>2
    <3> HIDE DEF r
    <3>2. r <= Len(file) BY <1>2, <3>1, PeekType
    <3> QED BY <3>2 DEF r
  <2>4. file[p + 1] \in OneChar
    <3>1. p + 1 \in Nat \ {0} /\ p + 1 <= Len(file) BY <1>2, <2>2, <2>3
    <3>2. Peek(p + 1) = file[p + 1] BY <3>1 DEF Peek
    <3> QED BY <1>6, <2>1, <3>2
  <2> DEFINE end == quoted + 2
  <2>5. end \in Nat /\ p < end /\ end <= Len(file) + 1 /\ p + 1 < end BY <1>2, <2>2, <2>3
  <2>6. AddOperand(p, end) BY <1>6
  <2> HIDE DEF end
  <2> QED BY <1>1, <1>2, <2>4, <2>5, <2>6, AddOperandKeeps
<1>7. CASE Peek(p) \notin {";", "\n", EOF, "'"} /\ AddOperand(p, q)
  <2>1. q \in p..Len(file)+1 /\ Peek(q) \in {" ", ";", "\n"} \cup {EOF} BY <1>2, UntilType
  <2> HIDE DEF q
  <2>2. q # p BY <1>3, <1>7, <2>1
  <2>3. p <= Len(file)
    <3>1. Peek(p) # EOF BY <1>7
    <3> QED BY <1>2, <3>1, PeekType
  <2>4. file[p] # "'" BY <1>2, <1>7, <2>3, PeekType
  <2>5. q \in Nat /\ p < q /\ q <= Len(file) + 1
    <3>1. q \in p..Len(file)+1 BY <2>1
    <3> QED BY <1>2, <2>2, <3>1
  <2>6. AddOperand(p, q) BY <1>7
  <2> QED BY <1>1, <1>2, <2>4, <2>5, <2>6, AddOperandKeeps
<1> QED BY <1>4, <1>5, <1>6, <1>7 DEF GatherTokens, p

-----------------------------------------------------------------------------
(* The emitters.                                                            *)

(* The entry point takes the place of the four zeros that were put there.   *)
LEMMA FinishScanKeeps == IInv /\ FinishScan => IInv' /\ Forward
<1> SUFFICES ASSUME IInv, FinishScan PROVE IInv' /\ Forward OBVIOUS
<1> USE DEF IInv
<1>1. /\ phase = "scanning" /\ phase' = "emitting"
      /\ UNCHANGED <<file, state, pos, location_counter, tables, sb, emitted, fixups, output>>
      /\ UNCHANGED <<symbol_table, data_possible, entries>>
  BY DEF FinishScan, tables
<1>2. /\ data_bytes' \in Seq(Byte) /\ Len(data_bytes') = Len(data_bytes)
      /\ entries # << >> => SubSeq(data_bytes', 1, 4) = SplitToBytes(entries[1].addr, 4)
  <2>1. CASE entries = << >> BY <2>1 DEF FinishScan, AsmTypeOK
  <2>2. CASE entries # << >>
    <3> DEFINE start == SplitToBytes(entries[1].addr, 4)
               rest == SubSeq(data_bytes, 5, Len(data_bytes))
    <3>1. entries[1].addr \in Int
      <4>1. entries \in Seq(Entry) BY DEF AsmTypeOK, Entry
      <4>2. entries[1] \in Entry BY <2>2, <4>1
      <4> QED BY <4>2 DEF Entry
    <3>2. start \in Seq(Byte) /\ Len(start) = 4 BY <3>1, SplitType
    <3>3. data_bytes \in Seq(Byte) /\ Len(data_bytes) \in Nat /\ Len(data_bytes) >= 4
      BY DEF AsmTypeOK, LocationIsLength
    <3>4. rest \in Seq(Byte) /\ Len(rest) = Len(data_bytes) - 4
      <4> DEFINE length == Len(data_bytes)
      <4>1. \A i \in 5..length : data_bytes[i] \in Byte BY <3>3
      <4>2. length \in Nat /\ length >= 4 BY <3>3
      <4> HIDE DEF length
      <4>3. length \in Int /\ (5 <= length \/ length - 4 = 0) /\ length - 5 + 1 = length - 4 BY <4>2
      <4>4. SubSeq(data_bytes, 5, length) \in Seq(Byte) /\ Len(SubSeq(data_bytes, 5, length)) = length - 4
        BY <4>1, <4>3, SubSeqProperties
      <4> QED BY <4>4, Zenon DEF length
    <3>5. data_bytes' = start \o rest BY <2>2 DEF FinishScan
    <3> HIDE DEF start, rest
    <3>6. /\ data_bytes' \in Seq(Byte) /\ Len(data_bytes') = Len(data_bytes)
          /\ \A i \in 1..4 : data_bytes'[i] = start[i]
      <4>1. /\ start \o rest \in Seq(Byte) /\ Len(start \o rest) = Len(start) + Len(rest)
            /\ \A i \in 1..Len(start) + Len(rest) :
                 (start \o rest)[i] = IF i <= Len(start) THEN start[i] ELSE rest[i - Len(start)]
        BY <3>2, <3>4, ConcatProperties
      <4> QED BY <3>2, <3>3, <3>4, <3>5, <4>1
    <3>7. SubSeq(data_bytes', 1, 4) = start
      <4>1. \A i \in 1..4 : data_bytes'[i] = start[i] BY <3>6
      <4>2. \A i \in 1..4 : data_bytes'[i] \in Byte BY <3>3, <3>6
      <4>3. /\ SubSeq(data_bytes', 1, 4) \in Seq(Byte) /\ Len(SubSeq(data_bytes', 1, 4)) = 4
            /\ \A i \in 1..4 : SubSeq(data_bytes', 1, 4)[i] = data_bytes'[i]
        BY <4>2, SubSeqProperties
      <4> QED BY <3>2, <4>1, <4>3, SeqEqual
    <3> QED BY <3>6, <3>7 DEF start
  <2> QED BY <2>1, <2>2
<1>3. emitted = 0 /\ fixups = {} BY <1>1 DEF NotYetEmitted
<1>4. AsmTypeOK' BY <1>1, <1>2 DEF AsmTypeOK
<1>5. LocationIsLength' BY <1>1, <1>2 DEF LocationIsLength
<1>6. CodeInPlace' BY <1>1 DEF CodeInPlace
<1>7. (4 + 8 * Len(entries) <= location_counter)' BY <1>1
<1>8. DataFirst' BY <1>1 DEF DataFirst
<1>9. NotYetEmitted' BY <1>1 DEF NotYetEmitted
<1>10. OperandsQuoted' BY <1>1 DEF OperandsQuoted, Quoted
<1>11. NothingIsPatched' BY <1>1, <1>3 DEF NothingIsPatched
<1>12. EmittedInPlace' BY <1>1, <1>2, <1>3 DEF EmittedInPlace
<1>13. Forward BY <1>1 DEF Forward
<1> QED BY <1>4, <1>5, <1>6, <1>7, <1>8, <1>9, <1>10, <1>11, <1>12, <1>13

(* What was written over is there, and what lies before it is as it was.    *)
LEMMA OverwriteThere ==
  ASSUME NEW bytes \in Seq(Byte), NEW addr \in Nat, NEW new \in Seq(Byte),
         NEW k \in Nat \ {0}, Len(new) = k, addr + k <= Len(bytes)
  PROVE  SubSeq(Overwrite(bytes, addr, new), addr + 1, addr + k) = new
<1> DEFINE b == Overwrite(bytes, addr, new)
           s == SubSeq(b, addr + 1, addr + k)
<1>1. b \in Seq(Byte) /\ Len(b) = Len(bytes)
      /\ \A i \in 1..Len(bytes) : b[i] = IF i - addr \in 1..k THEN new[i - addr] ELSE bytes[i]
  BY OverwriteType
<1> HIDE DEF b
<1>2. \A i \in addr+1..addr+k : b[i] = new[i - addr] /\ b[i] \in Byte BY <1>1
<1>3. addr + 1 \in Int /\ addr + k \in Int /\ addr + 1 <= addr + k /\ addr + k - (addr + 1) + 1 = k
  OBVIOUS
<1>4. s \in Seq(Byte) /\ Len(s) = k /\ \A i \in 1..k : s[i] = b[addr + 1 + i - 1]
  BY <1>2, <1>3, SubSeqProperties
<1>5. \A i \in 1..k : s[i] = new[i] BY <1>2, <1>4
<1> HIDE DEF s
<1>6. s = new BY <1>4, <1>5, SeqEqual
<1> QED BY <1>6 DEF s, b

(* Overwriting bytes leaves those before them.                              *)
LEMMA OverwriteBefore ==
  ASSUME NEW bytes \in Seq(Byte), NEW addr \in Nat, NEW new \in Seq(Byte),
         addr <= Len(bytes)
  PROVE  \A m \in Nat \ {0}, n \in Nat :
           m <= n /\ n <= addr => SubSeq(Overwrite(bytes, addr, new), m, n) = SubSeq(bytes, m, n)
<1> SUFFICES ASSUME NEW m \in Nat \ {0}, NEW n \in Nat, m <= n, n <= addr
             PROVE  SubSeq(Overwrite(bytes, addr, new), m, n) = SubSeq(bytes, m, n)
  OBVIOUS
<1> DEFINE b == Overwrite(bytes, addr, new)
           s == SubSeq(b, m, n)
           t == SubSeq(bytes, m, n)
<1>1. \A i \in 1..Len(bytes) : b[i] = IF i - addr \in 1..Len(new) THEN new[i - addr] ELSE bytes[i]
  BY OverwriteType
<1> HIDE DEF b
<1>2. \A i \in m..n : b[i] = bytes[i] /\ b[i] \in Byte /\ bytes[i] \in Byte BY <1>1
<1>3. m \in Int /\ n \in Int /\ n - m + 1 \in Nat OBVIOUS
<1>4. s \in Seq(Byte) /\ Len(s) = n - m + 1 /\ \A i \in 1..n-m+1 : s[i] = b[m + i - 1]
  BY <1>2, <1>3, SubSeqProperties
<1>5. t \in Seq(Byte) /\ Len(t) = n - m + 1 /\ \A i \in 1..n-m+1 : t[i] = bytes[m + i - 1]
  BY <1>2, <1>3, SubSeqProperties
<1>6. \A i \in 1..n-m+1 : s[i] = t[i] BY <1>2, <1>4, <1>5
<1> HIDE DEF s, t
<1>7. s = t BY <1>4, <1>5, <1>6, SeqEqual
<1> QED BY <1>7 DEF s, t, b

(* The numbers of the operations are bytes, those of the registers numbers. *)
LEMMA MnemonicType == \A op \in ValidOps : Mnemonic(op) \in Byte
<1>1. DOMAIN Mnemonics = 1..40 BY DEF Mnemonics
<1>2. ASSUME NEW op \in ValidOps PROVE Mnemonic(op) \in DOMAIN Mnemonics
  <2>1. \E i \in DOMAIN Mnemonics : Mnemonics[i] = op BY DEF ValidOps
  <2> QED BY <2>1 DEF Mnemonic
<1> QED BY <1>1, <1>2, ByteFacts

(* A register has a number.                                                 *)
LEMMA RegMapType == \A name \in Registers : RegMap(name) \in Int
<1>1. DOMAIN RegNames = 1..22 BY DEF RegNames
<1>2. ASSUME NEW name \in Registers PROVE (CHOOSE i \in DOMAIN RegNames : RegNames[i] = name) \in DOMAIN RegNames
  <2>1. \E i \in DOMAIN RegNames : RegNames[i] = name BY DEF Registers
  <2> QED BY <2>1
<1>3. \A i \in 1..22 : i - 1 \in Int OBVIOUS
<1> QED BY <1>1, <1>2, <1>3, Zenon DEF RegMap

(* An operand without its commas is a beginning of it.                      *)
LEMMA StripType ==
  ASSUME NEW operand \in Seq(Symbols)
  PROVE  /\ Strip(operand) \in Seq(Symbols) /\ Len(Strip(operand)) <= Len(operand)
         /\ \A i \in 1..Len(Strip(operand)) : Strip(operand)[i] = operand[i]
<1> DEFINE S == {n \in 0..Len(operand) : \A i \in n+1..Len(operand) : operand[i] = ","}
           k == Least(S)
<1>1. S \subseteq Nat /\ Len(operand) \in S
  <2>1. Len(operand) \in Nat /\ Len(operand) \in 0..Len(operand) OBVIOUS
  <2>2. \A i \in Len(operand)+1..Len(operand) : FALSE BY <2>1
  <2>3. Len(operand) \in S BY <2>1, <2>2, Zenon
  <2>4. S \subseteq Nat
    <3>1. S \subseteq 0..Len(operand) BY Zenon
    <3>2. 0..Len(operand) \subseteq Nat BY <2>1
    <3> QED BY <3>1, <3>2, Zenon
  <2> QED BY <2>3, <2>4
<1> HIDE DEF S
<1>2. k \in S BY <1>1, LeastIsLeast
<1>3. k \in 0..Len(operand) BY <1>2 DEF S
<1>4. Strip(operand) = SubSeq(operand, 1, k) BY DEF Strip, S
<1> HIDE DEF k
<1>5. 1 \in Int /\ k \in Int /\ k - 1 + 1 = k /\ (1 <= k \/ k = 0) BY <1>3
<1>6. \A i \in 1..k : operand[i] \in Symbols BY <1>3
<1>7. /\ SubSeq(operand, 1, k) \in Seq(Symbols) /\ Len(SubSeq(operand, 1, k)) = k
      /\ \A i \in 1..k : SubSeq(operand, 1, k)[i] = operand[1 + i - 1]
  BY <1>5, <1>6, SubSeqProperties
<1> QED BY <1>3, <1>4, <1>7

(* What stands for an operand is a number; and when a name has none it is   *)
(* because it is no label.                                                  *)
LEMMA ResolveType ==
  ASSUME AsmTypeOK, NEW operand \in Seq(Symbols), Quoted(operand)
  PROVE  /\ Resolve(operand).value \in Int
         /\ Resolve(operand).kind = "unknown" => ~IsLabel(Strip(operand))
<1> DEFINE token == Strip(operand)
           n == Len(token)
           r == Resolve(operand)
<1>1. /\ token \in Seq(Symbols) /\ n \in Nat /\ n <= Len(operand)
      /\ \A i \in 1..n : token[i] = operand[i] /\ token[i] \in Symbols
  BY StripType
<1>2. /\ NumeralValue \in [Numerals -> Nat] /\ Codes \in [Symbols -> Seq(Nat)]
      /\ ByteMod \in Nat /\ Escapes \in [DOMAIN Escapes -> 0..ByteMod-1]
  BY Zenon, AssemblerAssumption
<1>3. symbol_table \in [DOMAIN symbol_table -> Nat] BY DEF AsmTypeOK
<1>4. r = IF n > 0 /\ token[1] = "#"
          THEN IF n = 2 /\ token[2] \in Numerals THEN Value(NumeralValue[token[2]])
               ELSE IF n = 3 /\ token[2] \in {"-", "+"} /\ token[3] \in Numerals
               THEN Value(IF token[2] = "-" THEN -NumeralValue[token[3]] ELSE NumeralValue[token[3]])
               ELSE Exception
          ELSE IF n > 2 /\ token[1] = "'" /\ token[n] = "'"
          THEN IF n = 3 THEN Value(Codes[token[2]][1])
               ELSE IF token[3] \in DOMAIN Escapes THEN Value(Escapes[token[3]]) ELSE Exception
          ELSE IF n = 1 /\ token[1] \in Registers THEN Value(RegMap(token[1]))
          ELSE IF n = 1 /\ token[1] \in DOMAIN symbol_table THEN Value(symbol_table[token[1]])
          ELSE Unknown
  BY DEF Resolve
<1>5. n = 1 /\ token[1] = "#" => r = Exception BY <1>4
<1>6. IsLabel(token) <=> n = 1 /\ token[1] \in DOMAIN symbol_table BY DEF IsLabel
<1> HIDE DEF r, n
<1>7. \A v : Value(v).value = v /\ Value(v).kind # "unknown" BY DEF Value
<1>8. CASE r = Exception BY <1>8 DEF Exception, r
<1>9. CASE n > 0 /\ token[1] = "#" /\ r # Exception
  <2>1. CASE token[2] \in Numerals /\ r = Value(NumeralValue[token[2]])
    <3>1. NumeralValue[token[2]] \in Int BY <1>2, <2>1
    <3> QED BY <1>7, <2>1, <3>1, Zenon DEF r
  <2>2. CASE /\ token[3] \in Numerals
             /\ r = Value(IF token[2] = "-" THEN -NumeralValue[token[3]] ELSE NumeralValue[token[3]])
    <3>1. (IF token[2] = "-" THEN -NumeralValue[token[3]] ELSE NumeralValue[token[3]]) \in Int
      BY <1>2, <2>2
    <3> QED BY <1>7, <2>2, <3>1, Zenon DEF r
  <2> HIDE DEF token
  <2> QED BY <1>4, <1>9, <2>1, <2>2
<1>10. CASE ~(n > 0 /\ token[1] = "#") /\ n > 2 /\ token[1] = "'" /\ token[n] = "'" /\ r # Exception
  <2>1. CASE n = 3 /\ r = Value(Codes[token[2]][1])
    <3>1. token[2] \in OneChar
      <4>1. operand # << >> /\ operand[1] = "'" /\ token[2] = operand[2] BY <1>1, <1>10, <2>1
      <4> QED BY <4>1 DEF Quoted
    <3>2. Codes[token[2]] \in Seq(Nat) /\ Len(Codes[token[2]]) = 1 BY <1>2, <3>1 DEF OneChar
    <3>3. Codes[token[2]][1] \in Int BY <3>2
    <3> QED BY <1>7, <2>1, <3>3, Zenon DEF r
  <2>2. CASE token[3] \in DOMAIN Escapes /\ r = Value(Escapes[token[3]])
    <3>1. Escapes[token[3]] \in Int BY <1>2, <2>2
    <3> QED BY <1>7, <2>2, <3>1, Zenon DEF r
  <2> HIDE DEF token
  <2> QED BY <1>4, <1>10, <2>1, <2>2
<1>11. CASE n = 1 /\ token[1] \in Registers /\ r = Value(RegMap(token[1]))
  <2>1. RegMap(token[1]) \in Int BY <1>11, RegMapType
  <2> QED BY <1>7, <1>11, <2>1, Zenon DEF r
<1>12. CASE n = 1 /\ token[1] \in DOMAIN symbol_table /\ r = Value(symbol_table[token[1]])
  <2>1. symbol_table[token[1]] \in Int BY <1>3, <1>12
  <2> QED BY <1>7, <1>12, <2>1, Zenon DEF r
<1>13. CASE r = Unknown /\ ~(n = 1 /\ token[1] \in DOMAIN symbol_table)
  BY <1>6, <1>13 DEF Unknown, r, n
<1> HIDE DEF token
<1> QED BY <1>4, <1>8, <1>9, <1>10, <1>11, <1>12, <1>13

(* An instruction is eight bytes, and what is left for the fixups is no     *)
(* label.                                                                   *)
LEMMA EncodingType ==
  ASSUME AsmTypeOK, NEW e \in Entry, Emittable(e),
         \A j \in DOMAIN e.operands : Quoted(e.operands[j])
  PROVE  /\ Encoding(e) \in Seq(Byte) /\ Len(Encoding(e)) = 8
         /\ Missing(e) \subseteq [addr : Nat, label : Seq(Symbols)]
         /\ \A f \in Missing(e) : ~IsLabel(f.label)
<1> DEFINE regs == RegisterOperands(e.op)
           takes == Takes(e.op)
<1>1. e.op \in ValidOps /\ e.operands \in Seq(Seq(Symbols)) /\ e.addr \in Nat BY DEF Entry
<1>2. regs \in 0..3 /\ takes = IF HasImmediate(e.op) THEN regs + 1 ELSE regs
  BY DEF RegisterOperands, Takes
<1>3. takes <= Len(e.operands) BY DEF Emittable
<1> HIDE DEF regs, takes
<1>4. ASSUME NEW i \in 1..takes
      PROVE  /\ e.operands[i] \in Seq(Symbols)
             /\ Resolve(e.operands[i]).value \in Int
             /\ Resolve(e.operands[i]).kind = "unknown" => ~IsLabel(Strip(e.operands[i]))
             /\ Strip(e.operands[i]) \in Seq(Symbols)
             /\ i <= regs => Resolve(e.operands[i]).value \in Byte
  <2>1. i \in 1..Len(e.operands) BY <1>1, <1>2, <1>3
  <2>2. e.operands[i] \in Seq(Symbols) /\ Quoted(e.operands[i]) BY <1>1, <2>1
  <2>3. i <= regs => Resolve(e.operands[i]).value \in Byte BY DEF Emittable, regs, takes
  <2> QED BY <2>2, <2>3, ResolveType, StripType
<1>5. ASSUME NEW i \in 1..3 PROVE RegisterByte(e, i) \in Byte
  <2>1. CASE i <= regs
    <3>1. i \in 1..takes BY <1>2, <2>1
    <3> QED BY <1>4, <2>1, <3>1 DEF RegisterByte, regs
  <2>2. CASE ~(i <= regs) BY <2>2, ByteFacts DEF RegisterByte, regs
  <2> QED BY <2>1, <2>2
<1>6. Immediate(e) \in Int
  <2>1. CASE HasImmediate(e.op)
    <3>1. takes \in 1..takes BY <1>2, <2>1
    <3> QED BY <1>4, <2>1, <3>1 DEF Immediate, takes
  <2>2. CASE ~HasImmediate(e.op) BY <2>2 DEF Immediate
  <2> QED BY <2>1, <2>2
<1>7. Encoding(e) \in Seq(Byte) /\ Len(Encoding(e)) = 8
  <2> DEFINE a == <<Mnemonic(e.op), RegisterByte(e, 1), RegisterByte(e, 2), RegisterByte(e, 3)>>
             b == SplitToBytes(Immediate(e), 4)
  <2>1. a \in Seq(Byte) /\ Len(a) = 4
    <3>1. /\ Mnemonic(e.op) \in Byte /\ RegisterByte(e, 1) \in Byte /\ RegisterByte(e, 2) \in Byte
          /\ RegisterByte(e, 3) \in Byte
      BY <1>1, <1>5, MnemonicType
    <3> QED BY <3>1
  <2>2. b \in Seq(Byte) /\ Len(b) = 4 BY <1>6, SplitType
  <2>3. Encoding(e) = a \o b BY DEF Encoding
  <2> HIDE DEF a, b
  <2>4. a \o b \in Seq(Byte) /\ Len(a \o b) = Len(a) + Len(b) BY <2>1, <2>2, ConcatProperties
  <2> QED BY <2>1, <2>2, <2>3, <2>4
<1>8. ASSUME NEW f \in Missing(e)
      PROVE  f \in [addr : Nat, label : Seq(Symbols)] /\ ~IsLabel(f.label)
  <2>1. PICK i \in 1..takes :
          /\ Resolve(e.operands[i]).kind = "unknown"
          /\ f = [addr |-> e.addr + (IF i <= regs THEN i ELSE 4), label |-> Strip(e.operands[i])]
    BY DEF Missing, takes, regs
  <2>2. e.addr + (IF i <= regs THEN i ELSE 4) \in Nat
    <3>1. i \in Nat BY <1>2
    <3> QED BY <1>1, <3>1
  <2>3. f.label = Strip(e.operands[i]) BY <2>1
  <2> QED BY <1>4, <2>1, <2>2, <2>3
<1> QED BY <1>7, <1>8

-----------------------------------------------------------------------------
(* Resolving reads the labels only, which the emitters do not change.       *)
LEMMA EncodingUnchanged ==
  ASSUME UNCHANGED <<symbol_table, entries>>, NEW i \in DOMAIN entries
  PROVE  Encoding(entries[i])' = Encoding(entries[i])
BY DEF Encoding, RegisterByte, Immediate, Resolve

(* An instruction is emitted where it was reserved: after those before it.  *)
LEMMA EmitKeeps == IInv /\ Emit => IInv' /\ Forward
<1> SUFFICES ASSUME IInv, Emit PROVE IInv' /\ Forward OBVIOUS
<1> USE DEF IInv
<1> DEFINE n == emitted + 1
           e == entries[n]
<1>1. /\ phase = "emitting" /\ emitted < Len(entries)
      /\ UNCHANGED <<file, state, pos, location_counter, tables, sb, output>>
      /\ UNCHANGED <<symbol_table, data_possible, entries>>
  BY DEF Emit, tables
<1>2. /\ emitted \in Nat /\ Len(entries) \in Nat /\ n \in 1..Len(entries) /\ DOMAIN entries = 1..Len(entries)
      /\ entries \in Seq(Entry) /\ data_bytes \in Seq(Byte) /\ location_counter \in Nat
  BY <1>1 DEF AsmTypeOK, Entry
<1>3. CASE phase' = "crashed" /\ UNCHANGED <<data_bytes, fixups, emitted>>
  <2>1. AsmTypeOK' BY <1>1, <1>3 DEF AsmTypeOK
  <2>2. LocationIsLength' /\ CodeInPlace' BY <1>1, <1>3 DEF LocationIsLength, CodeInPlace
  <2>3. (4 + 8 * Len(entries) <= location_counter)' BY <1>1
  <2>4. DataFirst' /\ NotYetEmitted' BY <1>1, <1>3 DEF DataFirst, NotYetEmitted
  <2>5. OperandsQuoted' BY <1>1 DEF OperandsQuoted, Quoted
  <2>6. NothingIsPatched' BY <1>1, <1>3 DEF NothingIsPatched, IsLabel
  <2>7. EmittedInPlace' /\ Forward BY <1>3 DEF EmittedInPlace, Forward
  <2> QED BY <2>1, <2>2, <2>3, <2>4, <2>5, <2>6, <2>7
<1>4. CASE /\ Emittable(e) /\ data_bytes' = Overwrite(data_bytes, e.addr, Encoding(e))
           /\ fixups' = fixups \cup Missing(e) /\ emitted' = n /\ UNCHANGED phase
  <2>1. e \in Entry /\ e.addr \in Nat
    <3>1. e \in Entry BY <1>2
    <3> QED BY <3>1 DEF Entry
  <2>2. \A j \in DOMAIN e.operands : Quoted(e.operands[j]) BY <1>2 DEF OperandsQuoted
  <2> HIDE DEF e
  <2>3. /\ Encoding(e) \in Seq(Byte) /\ Len(Encoding(e)) = 8
        /\ Missing(e) \subseteq [addr : Nat, label : Seq(Symbols)]
        /\ \A f \in Missing(e) : ~IsLabel(f.label)
    BY <1>4, <2>1, <2>2, EncodingType
  <2>4. /\ data_bytes' \in Seq(Byte) /\ Len(data_bytes') = Len(data_bytes)
    BY <1>2, <1>4, <2>1, <2>3, OverwriteType
  <2>5. \A i \in 1..Len(entries) : entries[i].addr = location_counter - 8 * (Len(entries) + 1 - i)
    BY <1>2 DEF CodeInPlace
  <2>6. /\ e.addr >= 4 /\ e.addr + 8 <= Len(data_bytes)
        /\ \A i \in 1..emitted : entries[i].addr \in Nat /\ entries[i].addr + 8 <= e.addr
    <3>1. e.addr = location_counter - 8 * (Len(entries) + 1 - n) BY <1>2, <2>5 DEF e
    <3>2. location_counter = Len(data_bytes) BY DEF LocationIsLength
    <3>3. ASSUME NEW i \in 1..emitted PROVE entries[i].addr \in Nat /\ entries[i].addr + 8 <= e.addr
      <4>1. i \in 1..Len(entries) /\ i < n BY <1>1, <1>2
      <4>2. entries[i].addr = location_counter - 8 * (Len(entries) + 1 - i) BY <2>5, <4>1
      <4>3. entries[i] \in Entry BY <1>2, <4>1
      <4> QED BY <1>2, <3>1, <4>1, <4>2, <4>3 DEF Entry
    <3> QED BY <1>2, <2>1, <3>1, <3>2, <3>3
  <2>7. AsmTypeOK'
    <3>1. emitted' \in 0..Len(entries') BY <1>1, <1>2, <1>4
    <3>2. fixups' \subseteq [addr : Nat, label : Seq(Symbols)] BY <1>4, <2>3 DEF AsmTypeOK
    <3> QED BY <1>1, <1>4, <2>4, <3>1, <3>2 DEF AsmTypeOK
  <2>8. LocationIsLength' /\ CodeInPlace' BY <1>1, <1>4, <2>4 DEF LocationIsLength, CodeInPlace
  <2>9. (4 + 8 * Len(entries) <= location_counter)' BY <1>1
  <2>10. DataFirst' /\ NotYetEmitted' BY <1>1, <1>4 DEF DataFirst, NotYetEmitted
  <2>11. OperandsQuoted' BY <1>1 DEF OperandsQuoted, Quoted
  <2>12. NothingIsPatched'
    <3>1. \A f \in fixups' : ~IsLabel(f.label) BY <1>4, <2>3 DEF NothingIsPatched
    <3> QED BY <1>1, <3>1 DEF NothingIsPatched, IsLabel
  <2>13. EmittedInPlace'
    <3> DEFINE addr == e.addr
               new == Encoding(e)
    <3>a. /\ data_bytes' = Overwrite(data_bytes, addr, new) /\ data_bytes \in Seq(Byte)
          /\ addr \in Nat /\ new \in Seq(Byte) /\ Len(new) = 8
          /\ addr >= 4 /\ addr + 8 <= Len(data_bytes) /\ addr <= Len(data_bytes)
      BY <1>2, <1>4, <2>1, <2>3, <2>6
    <3> HIDE DEF addr, new
    <3>b. \A k \in Nat \ {0}, m \in Nat :
            k <= m /\ m <= addr => SubSeq(data_bytes', k, m) = SubSeq(data_bytes, k, m)
      <4>1. \A k \in Nat \ {0}, m \in Nat :
              k <= m /\ m <= addr
                => SubSeq(Overwrite(data_bytes, addr, new), k, m) = SubSeq(data_bytes, k, m)
        BY <3>a, OverwriteBefore, Zenon
      <4> QED BY <3>a, <4>1, Zenon
    <3>1. ASSUME entries # << >> PROVE SubSeq(data_bytes', 1, 4) = SplitToBytes(entries[1].addr, 4)
      <4>1. SubSeq(data_bytes', 1, 4) = SubSeq(data_bytes, 1, 4)
        <5>1. 1 \in Nat \ {0} /\ 4 \in Nat /\ 1 <= 4 /\ 4 <= addr BY <3>a
        <5> QED BY <3>b, <5>1
      <4> QED BY <1>1, <3>1, <4>1 DEF EmittedInPlace
    <3>2. ASSUME NEW i \in 1..emitted'
          PROVE  SubSeq(data_bytes', entries[i].addr + 1, entries[i].addr + 8) = Encoding(entries[i])
      <4>1. CASE i = n
        <5>1. SubSeq(data_bytes', e.addr + 1, e.addr + 8) = Encoding(e)
          <6>1. 8 \in Nat \ {0} OBVIOUS
          <6>2. SubSeq(Overwrite(data_bytes, addr, new), addr + 1, addr + 8) = new
            BY <3>a, <6>1, OverwriteThere, Zenon
          <6> QED BY <3>a, <6>2, Zenon DEF addr, new
        <5> QED BY <4>1, <5>1 DEF e
      <4>2. CASE i \in 1..emitted
        <5> DEFINE a == entries[i].addr
        <5>1. a \in Nat /\ a + 8 <= e.addr BY <2>6, <4>2
        <5>2. SubSeq(data_bytes, a + 1, a + 8) = Encoding(entries[i]) BY <1>1, <4>2 DEF EmittedInPlace
        <5> HIDE DEF a
        <5>3. SubSeq(data_bytes', a + 1, a + 8) = SubSeq(data_bytes, a + 1, a + 8)
          <6>1. a + 1 \in Nat \ {0} /\ a + 8 \in Nat /\ a + 1 <= a + 8 /\ a + 8 <= addr
            BY <5>1 DEF addr
          <6> QED BY <3>b, <6>1
        <5> QED BY <5>2, <5>3 DEF a
      <4> QED BY <1>2, <1>4, <4>1, <4>2
    <3>3. \A i \in 1..emitted' : Encoding(entries[i])' = Encoding(entries[i])
      BY <1>1, <1>2, <1>4, EncodingUnchanged
    <3> QED BY <1>1, <3>1, <3>2, <3>3 DEF EmittedInPlace
  <2>14. Forward BY <1>1, <1>4 DEF Forward
  <2> QED BY <2>7, <2>8, <2>9, <2>10, <2>11, <2>12, <2>13, <2>14
<1> QED BY <1>3, <1>4 DEF Emit

(* What was emitted stays when the image does.                             *)
LEMMA EmittedUnchanged ==
  ASSUME IInv, UNCHANGED <<symbol_table, entries, data_bytes, emitted>>,
         phase' \in {"emitting", "written"} => phase \in {"emitting", "written"}
  PROVE  EmittedInPlace'
<1>1. \A i \in 1..emitted : i \in DOMAIN entries BY DEF IInv, AsmTypeOK
<1>2. \A i \in 1..emitted : Encoding(entries[i])' = Encoding(entries[i]) BY <1>1, EncodingUnchanged
<1> QED BY <1>2 DEF EmittedInPlace, IInv

(* The image that is written is the one that was emitted.                   *)
LEMMA WriteImageKeeps == IInv /\ WriteImage => IInv' /\ Forward
<1> SUFFICES ASSUME IInv, WriteImage PROVE IInv' /\ Forward OBVIOUS
<1> USE DEF IInv
<1>1. /\ phase = "emitting" /\ phase' \in {"written", "rejected"}
      /\ UNCHANGED <<file, state, pos, location_counter, tables, sb, emitted, fixups>>
      /\ UNCHANGED <<symbol_table, data_possible, entries>>
  BY DEF WriteImage, tables
<1>2. data_bytes \in Seq(Byte) /\ output \in Seq(Byte) BY DEF AsmTypeOK
<1>3. data_bytes' = data_bytes /\ output' \in Seq(Byte)
  <2>1. CASE UNCHANGED <<data_bytes, output>> BY <1>2, <2>1
  <2>2. CASE /\ \A f \in fixups : IsLabel(f.label)
             /\ data_bytes' = Patched /\ output' = data_bytes'
    <3>1. fixups = {} BY <2>2 DEF NothingIsPatched
    <3>2. \A i \in 1..Len(data_bytes) : {f \in fixups : i - f.addr \in 1..4} = {} BY <3>1
    <3>3. Patched = [i \in 1..Len(data_bytes) |-> data_bytes[i]] BY <3>2, Zenon DEF Patched
    <3>4. [i \in 1..Len(data_bytes) |-> data_bytes[i]] = data_bytes BY <1>2
    <3> QED BY <1>2, <2>2, <3>3, <3>4
  <2> QED BY <2>1, <2>2 DEF WriteImage
<1>4. AsmTypeOK' BY <1>1, <1>3 DEF AsmTypeOK
<1>5. LocationIsLength' /\ CodeInPlace' BY <1>1, <1>3 DEF LocationIsLength, CodeInPlace
<1>6. (4 + 8 * Len(entries) <= location_counter)' BY <1>1
<1>7. DataFirst' /\ NotYetEmitted' BY <1>1 DEF DataFirst, NotYetEmitted
<1>8. OperandsQuoted' BY <1>1 DEF OperandsQuoted, Quoted
<1>9. NothingIsPatched' BY <1>1 DEF NothingIsPatched, IsLabel
<1>10. EmittedInPlace' BY <1>1, <1>3, EmittedUnchanged
<1>11. Forward BY <1>1 DEF Forward
<1> QED BY <1>4, <1>5, <1>6, <1>7, <1>8, <1>9, <1>10, <1>11

(* Every step keeps the invariant and goes forward.                        *)
LEMMA StepIInv == IInv /\ [AsmNext]_asmVars => IInv' /\ Forward
<1> SUFFICES ASSUME IInv, [AsmNext]_asmVars PROVE IInv' /\ Forward OBVIOUS
<1>1. CASE ScanLine
  BY <1>1, StartLineMoves, LabelFoundMoves, LineFinishedMoves, MovesKeep, StartOfLabelKeeps DEF ScanLine
<1>2. CASE ScanDirective
  <2>1. CASE BeginDirective \/ DirectiveDone BY <2>1, BeginDirectiveMoves, DirectiveDoneMoves, MovesKeep
  <2>2. CASE \/ IntDirective \/ NumberFound \/ BytDirective \/ BtsDirective
             \/ StrDirective \/ StringChar \/ StringEnd
    <3>1. Step BY <2>2, IntDirectiveStep, NumberFoundStep, BytDirectiveStep, BtsDirectiveStep,
                  StrDirectiveStep, StringCharStep, StringEndStep
    <3> QED BY <3>1, MovesKeep, StoresKeep DEF Step
  <2> QED BY <1>2, <2>1, <2>2 DEF ScanDirective
<1>3. CASE ScanCode BY <1>3, BeginCodeKeeps, GatherTokensKeeps DEF ScanCode
<1>4. CASE FinishScan \/ Emit \/ WriteImage BY <1>4, FinishScanKeeps, EmitKeeps, WriteImageKeeps
<1>5. CASE UNCHANGED asmVars
  <2>1. IInv'
    <3> USE <1>5 DEF asmVars, layout, tables, IInv
    <3>1. AsmTypeOK' BY DEF AsmTypeOK
    <3>2. LocationIsLength' /\ CodeInPlace' BY DEF LocationIsLength, CodeInPlace
    <3>3. (4 + 8 * Len(entries) <= location_counter)' OBVIOUS
    <3>4. DataFirst' /\ NotYetEmitted' BY DEF DataFirst, NotYetEmitted
    <3>5. OperandsQuoted' BY DEF OperandsQuoted, Quoted
    <3>6. NothingIsPatched' BY DEF NothingIsPatched, IsLabel
    <3>7. EmittedInPlace' BY EmittedUnchanged
    <3> QED BY <3>1, <3>2, <3>3, <3>4, <3>5, <3>6, <3>7
  <2> QED BY <1>5, <2>1 DEF Forward
<1> QED BY <1>1, <1>2, <1>3, <1>4, <1>5 DEF AsmNext, AsmEnded

-----------------------------------------------------------------------------
(* The theorems.                                                            *)

(* IInv holds in every reachable state: it is the strengthening the others  *)
(* follow from.                                                             *)
THEOREM AssemblerInvariance == AsmSpec => []IInv
<1>1. AsmInit => IInv BY InitIInv
<1>2. IInv /\ [AsmNext]_asmVars => IInv' BY StepIInv
<1> QED BY <1>1, <1>2, PTL DEF AsmSpec

(* The state keeps its shape, on every file: the image is bytes whatever    *)
(* numbers, characters and operands the source has.                         *)
THEOREM AsmTypeCorrect == AsmSpec => []AsmTypeOK
<1>1. IInv => AsmTypeOK BY DEF IInv
<1> QED BY <1>1, AssemblerInvariance, PTL

(* The location counter, moved by an assignment of its own in each handler  *)
(* that emits (asm4380.py:694), is always the length of the image.          *)
THEOREM LocationAlwaysLength == AsmSpec => []LocationIsLength
<1>1. IInv => LocationIsLength BY DEF IInv
<1> QED BY <1>1, AssemblerInvariance, PTL

(* Code is one block at the end of the image, and no label points into an   *)
(* instruction: data after code is refused wherever it could come from.     *)
THEOREM CodeAlwaysInPlace == AsmSpec => []CodeInPlace
<1>1. IInv => CodeInPlace BY DEF IInv
<1> QED BY <1>1, AssemblerInvariance, PTL

(* An emitted instruction, and the entry point, stay as they were emitted   *)
(* up to the output file.                                                   *)
THEOREM EmittedAlwaysInPlace == AsmSpec => []EmittedInPlace
<1>1. IInv => EmittedInPlace BY DEF IInv
<1> QED BY <1>1, AssemblerInvariance, PTL

(* The pass that patches operands (_apply_fixups) never patches one.        *)
THEOREM NothingEverPatched == AsmSpec => []NothingIsPatched
<1>1. IInv => NothingIsPatched BY DEF IInv
<1> QED BY <1>1, AssemblerInvariance, PTL

(* The scanner never goes back, and never turns between states without      *)
(* reading: what does not end is a call that changes nothing.               *)
THEOREM ScanAlwaysAdvances == AsmSpec => ScanAdvances
<1> DEFINE A == phase = "scanning" /\ phase' = "scanning" =>
                  \/ pos' > pos
                  \/ pos' = pos /\ Rank(state') < Rank(state)
<1>1. IInv /\ [AsmNext]_asmVars => [A]_asmVars BY StepIInv DEF Forward
<1>2. AsmSpec => [][A]_asmVars BY <1>1, AssemblerInvariance, PTL DEF AsmSpec
<1> QED BY <1>2 DEF ScanAdvances
=============================================================================
