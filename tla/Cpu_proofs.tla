----------------------------- MODULE Cpu_proofs -----------------------------
(***************************************************************************)
(* Theorems about the processor, for every program, every input, every     *)
(* kind and geometry of cache and every size of memory and of a byte.      *)
(*                                                                         *)
(* The inductive invariant is CpuInv: the types; a coherent cache, empty   *)
(* until the program is loaded, which load_binary writes past it; and      *)
(* where the loops of the string traps are.                                *)
(***************************************************************************)
EXTENDS Cpu, MemSystem_proofs, SequenceTheorems

-----------------------------------------------------------------------------
(* The encodings and the arithmetic of the instruction set, for every size  *)
(* of a byte.                                                               *)

(* The sizes an instruction needs.                                          *)
LEMMA IsaConstants == ByteMod \in Nat \ {0} /\ ByteMod > 40 /\ WordSize = 4 /\ WordIdx = 0..3
<1>1. ByteMod \in Nat BY MemAssumption
<1>2. WordSize = 4 /\ ByteMod > 40 BY IsaAssumption
<1> QED BY <1>1, <1>2 DEF WordIdx

(* The powers of the size of a byte.                                        *)
LEMMA PowersType ==
  /\ ByteMod * ByteMod \in Nat \ {0}
  /\ ByteMod * ByteMod * ByteMod \in Nat \ {0}
  /\ ValMod \in Nat \ {0}
<1>1. \A m, n \in Nat \ {0} : m * n \in Nat \ {0} OBVIOUS
<1>2. ByteMod * ByteMod \in Nat \ {0} BY <1>1, IsaConstants
<1>3. ByteMod * ByteMod * ByteMod \in Nat \ {0} BY <1>1, <1>2, IsaConstants
<1>4. ByteMod * ByteMod * ByteMod * ByteMod \in Nat \ {0} BY <1>1, <1>3, IsaConstants
<1> QED BY <1>2, <1>3, <1>4 DEF ValMod

(* A digit in front of a number below a power of the base.                  *)
LEMMA Digit ==
  ASSUME NEW p \in Nat \ {0}, NEW q \in Nat \ {0}, NEW d \in 0..q-1, NEW r \in 0..p-1
  PROVE  d * p + r \in 0..q*p-1 /\ q * p \in Nat \ {0}
<1>1. d * p + p <= q * p BY MulStep
<1>2. d * p \in Nat /\ q * p \in Nat \ {0} OBVIOUS
<1> QED BY <1>1, <1>2

(* The bytes of a word, one after the other from the top.                   *)
Low(word) == word[1] * ByteMod + word[0]
Lower(word) == word[2] * (ByteMod * ByteMod) + Low(word)

(* The bytes of a word, and its value, are within bounds.                   *)
LEMMA WordValParts ==
  ASSUME NEW word \in Word
  PROVE  /\ word[0] \in Byte /\ word[1] \in Byte /\ word[2] \in Byte /\ word[3] \in Byte
         /\ Low(word) \in 0..ByteMod * ByteMod - 1
         /\ Lower(word) \in 0..ByteMod * ByteMod * ByteMod - 1
         /\ WordVal(word) = word[3] * (ByteMod * ByteMod * ByteMod) + Lower(word)
         /\ WordVal(word) \in Val
<1> DEFINE p2 == ByteMod * ByteMod
           p3 == ByteMod * ByteMod * ByteMod
           low == Low(word)
           lower == Lower(word)
<1>1. word[0] \in Byte /\ word[1] \in Byte /\ word[2] \in Byte /\ word[3] \in Byte
  BY IsaConstants DEF Word
<1>2. ByteMod \in Nat \ {0} /\ p2 \in Nat \ {0} /\ p3 \in Nat \ {0} BY PowersType, IsaConstants
<1>3. low \in 0..p2-1
  <2>1. word[1] \in 0..ByteMod-1 /\ word[0] \in 0..ByteMod-1 BY <1>1 DEF Byte
  <2> QED BY <1>2, <2>1, Digit DEF Low
<1>4. p3 = ByteMod * p2 /\ ValMod = ByteMod * p3 BY <1>2, IsaConstants DEF ValMod
<1> HIDE DEF p2, p3, low
<1>5. lower \in 0..p3-1
  <2>1. word[2] \in 0..ByteMod-1 BY <1>1 DEF Byte
  <2>2. word[2] * p2 + low \in 0..ByteMod*p2-1 BY <1>2, <1>3, <2>1, Digit
  <2> QED BY <1>4, <2>2 DEF Lower, p2, low
<1>6. word[3] * p3 + lower \in 0..ByteMod*p3-1
  <2>1. word[3] \in 0..ByteMod-1 BY <1>1 DEF Byte
  <2> HIDE DEF lower
  <2> QED BY <1>2, <1>5, <2>1, Digit
<1>7. WordVal(word) = word[3] * p3 + lower
  <2>1. /\ word[0] \in Int /\ word[1] \in Int /\ word[2] \in Int /\ word[3] \in Int /\ ByteMod \in Int
    BY <1>1, <1>2 DEF Byte
  <2>2. p2 \in Int /\ p3 \in Int BY <1>2
  <2>3. WordVal(word) = word[0] + ByteMod * word[1] + p2 * word[2] + p3 * word[3] BY DEF WordVal, p2, p3
  <2>4. lower = word[2] * p2 + (word[1] * ByteMod + word[0]) BY DEF Lower, Low, p2
  <2> HIDE DEF lower
  <2> QED BY <2>1, <2>2, <2>3, <2>4
<1> QED BY <1>1, <1>3, <1>4, <1>5, <1>6, <1>7 DEF p2, p3, low, lower, Val

(* The arithmetic of ValWord: the bytes of a number are the word it came    *)
(* from.  A value stored and loaded again is the value.                     *)
THEOREM WordOfValue == \A word \in Word : ValWord(WordVal(word)) = word
<1> SUFFICES ASSUME NEW word \in Word PROVE ValWord(WordVal(word)) = word OBVIOUS
<1> DEFINE p2 == ByteMod * ByteMod
           p3 == ByteMod * ByteMod * ByteMod
           v == WordVal(word)
           low == Low(word)
           lower == Lower(word)
<1>1. /\ word[0] \in Byte /\ word[1] \in Byte /\ word[2] \in Byte /\ word[3] \in Byte
      /\ low \in 0..p2-1 /\ lower \in 0..p3-1 /\ v = word[3] * p3 + lower
  BY WordValParts
<1>2. ByteMod \in Nat \ {0} /\ p2 \in Nat \ {0} /\ p3 \in Nat \ {0} BY PowersType, IsaConstants
<1>3. /\ word[0] \in 0..ByteMod-1 /\ word[1] \in 0..ByteMod-1 /\ word[2] \in 0..ByteMod-1
      /\ word[3] \in 0..ByteMod-1
  BY <1>1 DEF Byte
<1>4. low = word[1] * ByteMod + word[0] /\ lower = word[2] * p2 + low BY DEF Low, Lower
<1>5. p3 = ByteMod * p2 BY <1>2
<1> HIDE DEF p2, p3, low, lower, v
<1> DEFINE h1 == word[3] * p2 + word[2] * ByteMod + word[1]
           h2 == word[3] * ByteMod + word[2]
<1>6. h1 \in Nat /\ h2 \in Nat BY <1>2, <1>3
<1>7. v = h1 * ByteMod + word[0] BY <1>2, <1>3, <1>1, <1>4, <1>5 DEF p2
<1>8. v = h2 * p2 + low BY <1>2, <1>3, <1>1, <1>4, <1>5
<1>9. h1 = h2 * ByteMod + word[1] BY <1>2, <1>3 DEF p2
<1> HIDE DEF h1, h2
<1>10. v % ByteMod = word[0] /\ v \div ByteMod = h1 BY <1>2, <1>3, <1>6, <1>7, DivModUnique
<1>11. h1 % ByteMod = word[1] BY <1>2, <1>3, <1>6, <1>9, DivModUnique
<1>12. v \div p2 = h2 BY <1>1, <1>2, <1>6, <1>8, DivModUnique
<1>13. h2 % ByteMod = word[2]
  <2>1. word[3] \in Nat BY <1>3
  <2> QED BY <1>2, <1>3, <2>1, DivModUnique DEF h2
<1>14. v \div p3 = word[3]
  <2>1. word[3] \in Nat BY <1>3
  <2> QED BY <1>1, <1>2, <2>1, DivModUnique
<1>15. word[3] % ByteMod = word[3]
  <2>1. word[3] = 0 * ByteMod + word[3] BY <1>2, <1>3
  <2> QED BY <1>2, <1>3, <2>1, DivModUnique
<1>16. \A i \in WordIdx : ValWord(v)[i] = word[i]
  <2>1. /\ ValWord(v)[0] = word[0] /\ ValWord(v)[1] = word[1]
        /\ ValWord(v)[2] = word[2] /\ ValWord(v)[3] = word[3]
    BY <1>10, <1>11, <1>12, <1>13, <1>14, <1>15, IsaConstants DEF ValWord, p2, p3
  <2> QED BY <2>1, IsaConstants
<1>17. ValWord(v) = [i \in WordIdx |-> ValWord(v)[i]] BY DEF ValWord
<1>18. word = [i \in WordIdx |-> word[i]] BY DEF Word
<1> QED BY <1>16, <1>17, <1>18 DEF v

(* A number is put into a word, and put together again.                     *)
LEMMA ValWordType == \A v \in Nat : ValWord(v) \in Word
<1> SUFFICES ASSUME NEW v \in Nat PROVE ValWord(v) \in Word OBVIOUS
<1>1. ByteMod \in Nat \ {0} BY IsaConstants
<1>2. \A n \in Nat : n % ByteMod \in Byte BY <1>1 DEF Byte
<1>3. /\ v \div ByteMod \in Nat /\ v \div (ByteMod * ByteMod) \in Nat
      /\ v \div (ByteMod * ByteMod * ByteMod) \in Nat
  BY <1>1, PowersType, DivMod
<1> QED BY <1>2, <1>3 DEF ValWord, Word

(* A register holds no more than a word does: what is loaded from where a   *)
(* register was stored is what was stored.                                  *)
THEOREM ValueOfWord == \A v \in Val : WordVal(ValWord(v)) = v
<1> SUFFICES ASSUME NEW v \in Val PROVE WordVal(ValWord(v)) = v OBVIOUS
<1> DEFINE p2 == ByteMod * ByteMod
           p3 == ByteMod * ByteMod * ByteMod
           q1 == v \div ByteMod
           q2 == q1 \div ByteMod
           q3 == q2 \div ByteMod
           r0 == v % ByteMod
           r1 == q1 % ByteMod
           r2 == q2 % ByteMod
<1>1. ByteMod \in Nat \ {0} /\ p2 \in Nat \ {0} /\ p3 \in Nat \ {0} /\ v \in Nat /\ v < ValMod
  BY PowersType, IsaConstants DEF Val
<1>2. q1 \in Nat /\ r0 \in 0..ByteMod-1 /\ v = q1 * ByteMod + r0 BY <1>1, DivMod
<1> HIDE DEF q1, r0
<1>3. q2 \in Nat /\ r1 \in 0..ByteMod-1 /\ q1 = q2 * ByteMod + r1 BY <1>1, <1>2, DivMod
<1> HIDE DEF q2, r1
<1>4. q3 \in Nat /\ r2 \in 0..ByteMod-1 /\ q2 = q3 * ByteMod + r2 BY <1>1, <1>3, DivMod
<1> HIDE DEF q3, r2
<1> DEFINE low == r1 * ByteMod + r0
           lower == r2 * p2 + low
<1>5. low \in 0..p2-1 BY <1>1, <1>2, <1>3, Digit
<1>6. p3 = ByteMod * p2 /\ ValMod = ByteMod * p3 BY <1>1 DEF ValMod
<1>7. v = q2 * p2 + low BY <1>1, <1>2, <1>3 DEF p2
<1> HIDE DEF p2, p3, low
<1>8. lower \in 0..p3-1 BY <1>1, <1>4, <1>5, <1>6, Digit
<1>9. v = q3 * p3 + lower BY <1>1, <1>4, <1>5, <1>6, <1>7
<1> HIDE DEF lower
<1>10. v \div p2 = q2 BY <1>1, <1>3, <1>5, <1>7, DivModUnique
<1>11. v \div p3 = q3 BY <1>1, <1>4, <1>8, <1>9, DivModUnique
<1>12. q3 % ByteMod = q3
  <2>1. q3 < ByteMod
    <3>1. CASE ByteMod <= q3
      <4>1. ByteMod * p3 <= q3 * p3 BY <1>1, <1>4, <3>1
      <4>2. q3 * p3 \in Nat /\ lower \in Nat /\ ByteMod * p3 \in Nat BY <1>1, <1>4, <1>8
      <4> QED BY <1>1, <1>6, <1>9, <4>1, <4>2
    <3> QED BY <1>1, <1>4, <3>1
  <2> QED BY <1>1, <1>4, <2>1
<1>13. /\ ValWord(v)[0] = r0 /\ ValWord(v)[1] = r1 /\ ValWord(v)[2] = r2 /\ ValWord(v)[3] = q3
  BY <1>10, <1>11, <1>12, IsaConstants DEF ValWord, p2, p3, q1, r0, r1, r2
<1>14. ValWord(v) \in Word BY <1>1, ValWordType
<1>15. WordVal(ValWord(v)) = q3 * p3 + (r2 * p2 + (r1 * ByteMod + r0))
  BY <1>13, <1>14, WordValParts, Zenon DEF Lower, Low, p2, p3
<1> QED BY <1>9, <1>15 DEF lower, low
-----------------------------------------------------------------------------
(* Signed numbers and results.                                              *)

(* A register is a number, read as unsigned or as signed.                   *)
LEMMA ValIsInt == \A v \in Val : v \in Int /\ Signed(v) \in Int
BY PowersType DEF Val, Signed

(* Wrapping gives a register.                                               *)
LEMMA WrapType == \A n \in Int : Wrap(n) \in Val
BY PowersType DEF Wrap, Val

(* A quotient is a number.                                                  *)
LEMMA QuotientType ==
  ASSUME NEW a \in Int, NEW b \in Int, b # 0
  PROVE  Quotient(a, b) \in Int
<1>1. Abs(a) \in Nat /\ Abs(b) \in Nat \ {0} BY DEF Abs
<1>2. Abs(a) \div Abs(b) \in Nat BY <1>1, DivMod
<1> QED BY <1>2 DEF Quotient

(* Every operation on two registers yields a register, whatever they hold,  *)
(* unless it divides by zero.                                               *)
THEOREM ResultInRange ==
  ASSUME NEW o \in Arithmetic, NEW a \in Val, NEW b \in Val, ~DividesByZero(o, b)
  PROVE  Result(o, a, b) \in Val
<1>1. a \in Int /\ b \in Int /\ Signed(a) \in Int /\ Signed(b) \in Int BY ValIsInt
<1>2. 0 \in Val /\ 1 \in Val /\ ValMod - 1 \in Val
  <2>1. ValMod > 1
    <3>1. ByteMod * ByteMod * ByteMod \in Nat \ {0} /\ ByteMod \in Nat /\ ByteMod > 40
      BY PowersType, IsaConstants
    <3>2. ByteMod * ByteMod * ByteMod * ByteMod >= ByteMod
      <4> DEFINE p == ByteMod * ByteMod * ByteMod
      <4>1. p \in Nat \ {0} BY <3>1
      <4> HIDE DEF p
      <4>2. p * ByteMod >= ByteMod BY <3>1, <4>1
      <4> QED BY <4>2 DEF p
    <3> QED BY <3>1, <3>2, PowersType DEF ValMod
  <2> QED BY <2>1, PowersType DEF Val
<1>3. CASE o \in {"ADD", "ADDI"}
  <2>1. Wrap(a + b) \in Val BY <1>1, WrapType
  <2>2. Result(o, a, b) = Wrap(a + b) BY <1>3 DEF Result, Compares
  <2> QED BY <2>1, <2>2
<1>4. CASE o \in {"SUB", "SUBI"}
  <2>1. Wrap(a - b) \in Val BY <1>1, WrapType
  <2>2. Result(o, a, b) = Wrap(a - b) BY <1>4 DEF Result, Compares
  <2> QED BY <2>1, <2>2
<1>5. CASE o \in {"MUL", "MULI"}
  <2>1. a * b \in Int BY <1>1
  <2>2. Wrap(a * b) \in Val BY <2>1, WrapType
  <2>3. Result(o, a, b) = Wrap(a * b) BY <1>5 DEF Result, Compares
  <2> QED BY <2>2, <2>3
<1>6. CASE o = "DIV"
  <2>1. b \in Nat \ {0} /\ a \in Nat BY <1>1, <1>6 DEF DividesByZero, Val
  <2>2. a \div b \in Nat /\ a \div b <= a
    <3> DEFINE q == a \div b
               r == a % b
    <3>a. q \in Nat /\ r \in 0..b-1 /\ a = q * b + r BY <2>1, DivMod, Zenon
    <3> HIDE DEF q, r
    <3>1. q \in Nat /\ r \in Nat /\ a = q * b + r BY <2>1, <3>a
    <3>2. q <= q * b /\ q * b \in Nat BY <2>1, <3>1
    <3>3. q <= a BY <2>1, <3>1, <3>2
    <3> QED BY <3>1, <3>3 DEF q
  <2>3. a \div b \in Val BY <2>1, <2>2, PowersType DEF Val
  <2>4. Result(o, a, b) = a \div b BY <1>6 DEF Result, Compares
  <2> QED BY <2>3, <2>4
<1>7. CASE o \in {"SDIV", "DIVI"}
  <2>1. b # 0 BY <1>7 DEF DividesByZero
  <2>2. Signed(b) # 0 BY <1>1, <2>1, PowersType DEF Val, Signed
  <2>3. Wrap(Quotient(Signed(a), Signed(b))) \in Val BY <1>1, <2>2, QuotientType, WrapType
  <2>4. Result(o, a, b) = Wrap(Quotient(Signed(a), Signed(b))) BY <1>7 DEF Result, Compares
  <2> QED BY <2>3, <2>4
<1>8. CASE o \in {"AND", "OR"}
  <2>1. Result(o, a, b) \in {Flag(a # 0 /\ b # 0), Flag(a # 0 \/ b # 0)} BY <1>8 DEF Result, Compares
  <2> QED BY <1>2, <2>1 DEF Flag
<1>9. CASE o \in Compares
  <2>1. Compared(Signed(a), Signed(b)) \in Val BY <1>2 DEF Compared
  <2>2. Result(o, a, b) = Compared(Signed(a), Signed(b)) BY <1>9 DEF Result, Compares
  <2> QED BY <2>1, <2>2
<1> QED BY <1>3, <1>4, <1>5, <1>6, <1>7, <1>8, <1>9 DEF Arithmetic, ThreeRegs, RegAndImm, Compares

-----------------------------------------------------------------------------
(* Decoding.                                                                *)

(* What fetch puts into the control registers.                              *)
LEMMA ControlType ==
  ASSUME NEW first \in Word, NEW second \in Word
  PROVE  Control(first, second) \in ControlRegs
BY WordValParts DEF Control, ControlRegs

(* An accepted instruction names registers that exist, so that what it is   *)
(* handed are values of registers.                                          *)
LEMMA DataRegsType ==
  ASSUME NEW c \in ControlRegs, Decodes(c), NEW rg \in [Reg -> Val],
         NEW dv \in [val1 : Val, val2 : Val]
  PROVE  DataRegs(c, rg, dv) \in [val1 : Val, val2 : Val]
<1> DEFINE o == Mnemonic(c.op)
           d == DataRegs(c, rg, dv)
<1>1. Igr(c.o1) => c.o1 \in Reg BY DEF Igr
<1>2. Igr(c.o2) => c.o2 \in Reg BY DEF Igr
<1>3. Igr(c.o3) => c.o3 \in Reg BY DEF Igr
<1>4. \A r \in Reg : rg[r] \in Val /\ rg[r] % ByteMod \in Val
  <2>1. ASSUME NEW v \in Val PROVE v % ByteMod \in Val
    <3>1. v \in Nat /\ v < ValMod /\ ValMod \in Nat /\ ByteMod \in Nat \ {0} BY PowersType, IsaConstants DEF Val
    <3>2. v % ByteMod \in Nat /\ v % ByteMod <= v BY <3>1
    <3> QED BY <3>1, <3>2 DEF Val
  <2> QED BY <2>1
<1> HIDE DEF o
<1>5. d.val1 \in Val
  <2>1. CASE o \in {"JMR", "STR", "ISTR", "ISTB", "PSHR", "PSHB"} \cup Branches
    <3>1. c.o1 \in Reg
      BY <1>1, <2>1 DEF o, Decodes, ValidRg, Branches, Direct, Indirect, StackOps, RegAndImm, ThreeRegs
    <3> QED BY <1>4, <2>1, <3>1 DEF DataRegs, o
  <2>2. CASE o = "STB"
    <3>1. c.o1 \in Reg
      BY <1>1, <2>2 DEF o, Decodes, ValidRg, Branches, Direct, Indirect, StackOps, RegAndImm, ThreeRegs
    <3> QED BY <1>4, <2>2, <3>1 DEF DataRegs, o, Branches
  <2>3. CASE o \in {"MOV", "ILDR", "ILDB", "IALLC"} \cup Arithmetic
    <3>1. c.o2 \in Reg
      BY <1>2, <2>3 DEF o, Decodes, ValidRg, Branches, Direct, Indirect, StackOps, RegAndImm, ThreeRegs,
                        Arithmetic, Compares
    <3> QED BY <1>4, <2>3, <3>1 DEF DataRegs, o, Branches, Arithmetic, Compares, RegAndImm, ThreeRegs
  <2> QED BY <2>1, <2>2, <2>3 DEF DataRegs, o
<1>6. d.val2 \in Val
  <2>1. CASE o \in {"ISTR", "ISTB"}
    <3>1. c.o2 \in Reg
      BY <1>2, <2>1 DEF o, Decodes, ValidRg, Branches, Direct, Indirect, StackOps, RegAndImm, ThreeRegs
    <3> QED BY <1>4, <2>1, <3>1 DEF DataRegs, o
  <2>2. CASE o \in {"CMP"} \cup ThreeRegs
    <3>1. c.o3 \in Reg
      BY <1>3, <2>2 DEF o, Decodes, ValidRg, Branches, Direct, Indirect, StackOps, RegAndImm, ThreeRegs
    <3> QED BY <1>4, <2>2, <3>1 DEF DataRegs, o, ThreeRegs
  <2> QED BY <2>1, <2>2 DEF DataRegs, o
<1> QED BY <1>5, <1>6 DEF DataRegs

-----------------------------------------------------------------------------
(* Accesses of any address, within memory or not, within a line or not.     *)

(* A hit of a read changes nothing the processor sees, whatever its width.  *)
LEMMA HitView ==
  ASSUME NEW m, Coherent(m), NEW s \in Sets, NEW w \in Ways, m.cache[s][w].valid,
         NEW offset \in Offsets, NEW acc \in AccessSet, ~IsWrite(acc)
  PROVE  \A b \in Nat : ViewAt(HandleCacheHit(m, s, w, offset, acc), b) = ViewAt(m, b)
<1> DEFINE n == HandleCacheHit(m, s, w, offset, acc)
<1>1. m \in MemState BY DEF Coherent
<1>2. /\ n \in MemState /\ n.prog_mem = m.prog_mem
      /\ \A t \in Sets : \A v \in Ways : ~(t = s /\ v = w) => n.cache[t][v] = m.cache[t][v]
      /\ n.cache[s][w].valid /\ n.cache[s][w].tag = m.cache[s][w].tag
      /\ n.cache[s][w].data = m.cache[s][w].data
  BY <1>1, HitStep
<1> HIDE DEF n
<1>3. \A t \in Sets : \A v \in Ways : /\ n.cache[t][v].valid <=> m.cache[t][v].valid
                                      /\ n.cache[t][v].tag = m.cache[t][v].tag
                                      /\ n.cache[t][v].data = m.cache[t][v].data
  BY <1>2
<1>4. ASSUME NEW b \in Nat PROVE ViewAt(n, b) = ViewAt(m, b)
  <2>1. SetIdx(b) \in Sets BY AddrParts
  <2>2. Hits(n, b) = Hits(m, b) BY <1>3, <2>1 DEF Hits, HitWays
  <2>3. CASE Hits(m, b) = {} BY <1>2, <2>2, <2>3 DEF ViewAt
  <2>4. CASE Hits(m, b) # {}
    <3>1. PICK v \in Hits(m, b) : TRUE BY <2>4
    <3>2. First(Hits(m, b)) = v BY <1>1, <2>1, <3>1, HitUnique DEF Hits, Coherent
    <3>3. v \in Ways BY <3>1 DEF Hits, HitWays
    <3> QED BY <1>3, <2>1, <2>2, <2>4, <3>2, <3>3 DEF ViewAt
  <2> QED BY <2>3, <2>4
<1> QED BY <1>4 DEF n

(* Nor does a read that misses: the write-back and the fill keep it.        *)
LEMMA CheckCacheView ==
  ASSUME NEW m, Coherent(m), CacheType # 0, NEW a \in Nat, NEW acc \in AccessSet, ~IsWrite(acc)
  PROVE  \A b \in Alloc : ViewAt(CheckCache(m, a, acc), b) = ViewAt(m, b)
<1> DEFINE s == SetIdx(a)
           n == CheckCache(m, a, acc)
           hits == HitWays(m.cache[s], TagBits(a))
<1>0. CASE a \notin Alloc
  <2>1. n.cache = m.cache /\ n.prog_mem = m.prog_mem BY <1>0, CheckCacheOutside
  <2> HIDE DEF n
  <2>2. \A b : ViewAt(n, b) = ViewAt(m, b) BY <2>1 DEF ViewAt, Hits
  <2> QED BY <2>2 DEF n
<1>1. ASSUME a \in Alloc PROVE \A b \in Alloc : ViewAt(n, b) = ViewAt(m, b)
  <2>1. s \in Sets /\ Offset(a) \in Offsets /\ Block(a) \in Blocks
    BY <1>1, AddrParts, AllocBlocks
  <2>2. m \in MemState /\ m.cache[s] \in [Ways -> Line] BY <2>1 DEF Coherent, MemState
  <2>0. Alloc \subseteq Nat BY DEF Alloc
  <2>3. CASE hits # {}
    <3>1. PICK w \in hits : TRUE BY <2>3
    <3>2. First(hits) = w BY <2>1, <2>2, <3>1, HitUnique DEF Coherent
    <3>3. w \in Ways /\ m.cache[s][w].valid BY <3>1 DEF HitWays
    <3>4. n = HandleCacheHit(m, s, w, Offset(a), acc) BY <2>1, <2>3, <3>2 DEF CheckCache
    <3> HIDE DEF n, s
    <3> QED BY <2>0, <2>1, <3>3, <3>4, HitView
  <2>4. CASE hits = {}
    <3> DEFINE w == Victim(m.cache[s])
               m1 == WriteBack(m, s, w)
               m2 == Fill(m1, s, w, a, acc)
    <3>1. w \in Ways BY <2>2, VictimIsWay
    <3>2. n = HandleCacheHit(m2, s, w, Offset(a), acc)
      BY <2>1, <2>4 DEF CheckCache, HandleCacheMiss
    <3>3. \A v \in Ways : ~(m.cache[s][v].valid /\ m.cache[s][v].tag = TagBits(a))
      BY <2>4 DEF HitWays
    <3> HIDE DEF n, w
    <3>4. /\ Coherent(m1)
          /\ \A b \in Alloc : ViewAt(m1, b) = ViewAt(m, b)
          /\ ~(m1.cache[s][w].valid /\ m1.cache[s][w].dirty)
          /\ \A t \in Sets : \A v \in Ways : /\ m1.cache[t][v].valid = m.cache[t][v].valid
                                             /\ m1.cache[t][v].tag = m.cache[t][v].tag
      BY <2>1, <3>1, WriteBackEffect
    <3>5. \A v \in Ways : ~(m1.cache[s][v].valid /\ m1.cache[s][v].tag = TagBits(a))
      BY <2>1, <3>3, <3>4
    <3> HIDE DEF m1
    <3>6. /\ Coherent(m2)
          /\ \A b \in Alloc : ViewAt(m2, b) = ViewAt(m1, b)
          /\ m2.cache[s][w].valid
      BY <1>1, <2>1, <3>1, <3>4, <3>5, FillEffect
    <3> HIDE DEF m2, s
    <3>7. \A b \in Nat : ViewAt(n, b) = ViewAt(m2, b) BY <2>1, <3>1, <3>2, <3>6, HitView
    <3> QED BY <2>0, <3>4, <3>6, <3>7
  <2> QED BY <2>3, <2>4
<1> QED BY <1>0, <1>1

(* The accesses of the four access functions.                               *)
LEMMA AccessType ==
  \A word \in Word : /\ Access("READBYTE", ZeroWord, word) \in AccessSet
                     /\ Access("READWORD", ZeroWord, word) \in AccessSet
                     /\ Access("WRITEBYTE", word, ZeroWord) \in AccessSet
BY WordTypes DEF Access, AccessSet

(* A read of a byte or a word changes no byte of memory, at any address.    *)
LEMMA ReadByteView ==
  ASSUME NEW m, Coherent(m), NEW a \in Nat
  PROVE  \A b \in Addr : ViewAt(ReadByte(m, a), b) = ViewAt(m, b)
<1>1. CASE CacheType = 0 BY <1>1, ReadByteEffect
<1>2. CASE CacheType # 0
  <2> DEFINE acc == Access("READBYTE", ZeroWord, ZeroWord)
  <2>1. acc \in AccessSet BY WordTypes, AccessType
  <2>2. ~IsWrite(acc) BY DEF Access, IsWrite
  <2>3. ReadByte(m, a) = CheckCache(m, a, acc) BY <1>2 DEF ReadByte
  <2> HIDE DEF acc
  <2> QED BY <1>2, <2>1, <2>2, <2>3, CheckCacheView, AddrInAlloc
<1> QED BY <1>1, <1>2

(* Nor does a read of a word, also one that runs past its line.             *)
LEMMA ReadWordView ==
  ASSUME NEW m, Coherent(m), NEW a \in Nat, NEW junk \in Word
  PROVE  \A b \in Addr : ViewAt(ReadWord(m, a, FALSE, junk), b) = ViewAt(m, b)
<1>1. CASE CacheType = 0 BY <1>1, ReadWordEffect DEF Served
<1>2. CASE CacheType # 0
  <2> DEFINE acc == Access("READWORD", ZeroWord, junk)
  <2>1. acc \in AccessSet BY AccessType
  <2>2. ~IsWrite(acc) BY DEF Access, IsWrite
  <2>3. ReadWord(m, a, FALSE, junk) = CheckCache(m, a, acc) BY <1>2 DEF ReadWord
  <2> HIDE DEF acc
  <2>4. \A b \in Alloc : ViewAt(CheckCache(m, a, acc), b) = ViewAt(m, b)
    BY <1>2, <2>1, <2>2, CheckCacheView
  <2> QED BY <2>3, <2>4, AddrInAlloc
<1> QED BY <1>1, <1>2

(* A write of a byte changes that byte and no other, and nothing if it is   *)
(* outside memory.                                                          *)
LEMMA WriteByteView ==
  ASSUME NEW m, Coherent(m), NEW a \in Nat, NEW word \in Word
  PROVE  \A b \in Addr : ViewAt(WriteByte(m, a, word), b) = IF b = a THEN word[0] ELSE ViewAt(m, b)
<1> DEFINE n == WriteByte(m, a, word)
           acc == Access("WRITEBYTE", word, ZeroWord)
<1>1. CASE CacheType = 0 \/ a \in Addr BY <1>1, WriteByteEffect
<1>2. CASE CacheType # 0 /\ a \notin Addr
  <2>1. acc \in AccessSet BY AccessType
  <2>2. acc.type = "WRITEBYTE" BY DEF Access
  <2>3. Width(acc) = 1 BY <2>2 DEF Width
  <2>4. Fits(a, acc) BY <2>3, AddrParts, MemAssumption DEF Fits, Offsets
  <2>5. n = CheckCache(m, a, acc) BY <1>2 DEF WriteByte
  <2> HIDE DEF acc, n
  <2>6. CASE a \in Alloc
    <3>1. \A b \in Alloc : ViewAt(n, b) = Written(m, a, acc, b)
      BY <1>2, <2>1, <2>4, <2>5, <2>6, CheckCacheInside
    <3>2. \A b \in Addr : b \notin Touched(a, acc) BY <1>2, <2>3, AddrInAlloc DEF Touched
    <3>3. \A b \in Addr : ViewAt(n, b) = ViewAt(m, b) BY <3>1, <3>2, AddrInAlloc DEF Written
    <3> QED BY <1>2, <3>3 DEF n
  <2>7. CASE a \notin Alloc
    <3>1. n.cache = m.cache /\ n.prog_mem = m.prog_mem BY <2>5, <2>7, CheckCacheOutside
    <3>2. \A b : ViewAt(n, b) = ViewAt(m, b) BY <3>1 DEF ViewAt, Hits
    <3> QED BY <1>2, <3>2 DEF n
  <2> QED BY <2>6, <2>7
<1> QED BY <1>1, <1>2

(* Where all of memory is whole blocks, a word within a line is within      *)
(* memory.                                                                  *)
LEMMA WithinMemory ==
  ASSUME NEW a \in Alloc, MemSize = AllocSize, ~Straddles(a)
  PROVE  AddrInRange(a, WordSize)
<1>1. WordSize - 1 \in Nat /\ Offset(a) + (WordSize - 1) < BlockSize /\ a \in Nat
  BY AddrParts, MemAssumption DEF Straddles, Offsets, Alloc
<1>2. Block(a + (WordSize - 1)) = Block(a) BY <1>1, SameBlock
<1>3. a + (WordSize - 1) \in Nat BY <1>1
<1>4. a + (WordSize - 1) \in Alloc BY <1>1, <1>2, <1>3, AllocBlocks
<1> QED BY <1>1, <1>4, MemAssumption DEF AddrInRange, Alloc

(* A word within a line is read as it is seen.                              *)
LEMMA ReadWithinLine ==
  ASSUME NEW m, Coherent(m), NEW a \in Nat, NEW second \in BOOLEAN, NEW junk \in Word,
         MemSize = AllocSize, CacheType # 0 => ~Straddles(a),
         ReadWord(m, a, second, junk).host = "ok"
  PROVE  LET n == ReadWord(m, a, second, junk) IN
         /\ n.host = m.host
         /\ \A b \in Addr : ViewAt(n, b) = ViewAt(m, b)
         /\ n.out = IF AddrInRange(a, WordSize) THEN ViewWord(m, a) ELSE AllOnes
<1>1. CacheType # 0 => a \in Alloc BY CheckCacheOutside DEF ReadWord
<1>2. Served(a) BY <1>1, WithinMemory DEF Served
<1> QED BY <1>2, ReadWordEffect

(* A word written within a line is in memory, which it changes nowhere      *)
(* else.                                                                    *)
LEMMA WriteWithinLine ==
  ASSUME NEW m, Coherent(m), NEW a \in Nat, NEW word \in Word, MemSize = AllocSize,
         CacheType # 0 => ~Straddles(a), WriteWord(m, a, word).host = "ok"
  PROVE  LET n == WriteWord(m, a, word) IN
         /\ AddrInRange(a, WordSize) /\ n.host = m.host
         /\ \A b \in Addr :
              ViewAt(n, b) = IF b \in a..(a + WordSize - 1) THEN word[b - a] ELSE ViewAt(m, b)
<1>1. CacheType # 0 => a \in Alloc BY CheckCacheOutside DEF WriteWord
<1>2. Served(a) BY <1>1, WithinMemory DEF Served
<1>3. AddrInRange(a, WordSize)
  <2>1. ~AddrInRange(a, WordSize) => WriteWord(m, a, word).host = "aborted" BY <1>2, WriteWordEffect
  <2> QED BY <2>1
<1> QED BY <1>2, <1>3, WriteWordEffect

(* What a read hands back is a word, and so a value of a register.          *)
LEMMA ReadOutType ==
  ASSUME NEW m, Coherent(m)
  PROVE  /\ m \in MemState /\ WordVal(m.out) \in Val
         /\ ByteOut(m) \in Byte /\ ByteOut(m) \in Val
<1>1. m \in MemState /\ m.out \in Word BY DEF Coherent, MemState
<1>2. WordVal(m.out) \in Val BY <1>1, WordValParts
<1>3. WordVal(m.out) \in Nat /\ WordVal(m.out) < ValMod /\ ByteMod \in Nat \ {0}
  BY <1>2, PowersType, IsaConstants DEF Val
<1>4. ByteOut(m) \in Nat /\ ByteOut(m) < ByteMod /\ ByteOut(m) <= WordVal(m.out)
  BY <1>3 DEF ByteOut
<1> QED BY <1>1, <1>2, <1>3, <1>4, PowersType, IsaConstants DEF Byte, Val

(* What a word that runs past its line may find is a word.                  *)
LEMMA JunkType == \A a : \A junk \in JunkWords(a) : junk \in Word
BY WordTypes DEF JunkWords

(* The values a register may hold are numbers, and bytes among them.        *)
LEMMA ConstantValues ==
  /\ 0 \in Val /\ MemSize \in Val /\ ValMod \in Nat \ {0} /\ ByteMod \in Nat \ {0}
  /\ Val \subseteq Nat /\ WordSize = 4
  /\ \A b \in Byte : b \in Val /\ ByteWord(b) \in Word
  /\ \A v \in Val : v % ByteMod \in Byte /\ ValWord(v) \in Word
<1>1. MemSize \in Nat /\ MemSize < ValMod BY MemAssumption, CpuAssumption
<1>2. ValMod \in Nat \ {0} /\ ByteMod \in Nat \ {0} /\ WordSize = 4 BY PowersType, IsaConstants
<1>3. Val \subseteq Nat BY <1>2 DEF Val
<1>4. ByteMod <= ValMod
  <2> DEFINE p == ByteMod * ByteMod * ByteMod
  <2>1. p \in Nat \ {0} BY PowersType
  <2> HIDE DEF p
  <2>2. p * ByteMod >= ByteMod BY <1>2, <2>1
  <2> QED BY <2>2 DEF p, ValMod
<1>5. \A b \in Byte : b \in Val /\ ByteWord(b) \in Word BY <1>2, <1>4, WordTypes DEF Byte, Val
<1>6. \A v \in Val : v % ByteMod \in Byte /\ ValWord(v) \in Word
  BY <1>2, <1>3, ValWordType DEF Byte
<1> QED BY <1>1, <1>2, <1>3, <1>5, <1>6 DEF Val

-----------------------------------------------------------------------------
(* The invariant.                                                           *)

CacheEmpty(m) == \A s \in Sets : \A w \in Ways : ~m.cache[s][w].valid

CpuInv == /\ TypeOK
          /\ Coherent(ms)
          /\ stage = "load" => CacheEmpty(ms)
          /\ stage = "print" => Len(text) = 1 /\ pos \in 1..text[1]+1
          /\ stage = "store" => pos \in 1..Len(text)

(* An empty cache agrees with any contents of the memory.                   *)
LEMMA EmptyCoherent ==
  ASSUME NEW m \in MemState, CacheEmpty(m)
  PROVE  Coherent(m)
BY DEF Coherent, CacheEmpty, HeldOnce, BlocksInMemory, CleanAgree, CacheIdle

(* It holds before anything is loaded.                                      *)
LEMMA InitCpuInv == Init => CpuInv
<1> SUFFICES ASSUME Init PROVE CpuInv OBVIOUS
<1>1. ms \in MemState /\ CacheEmpty(ms)
  <2>1. PICK bytes \in InitBytes : ms = InitMem(bytes) BY DEF Init
  <2>2. bytes \in [Alloc -> Byte] BY CpuAssumption
  <2>3. BadLine \in Line /\ ~BadLine.valid BY WordTypes DEF BadLine, Line
  <2>4. 0 \in 0..CycleMod-1 BY MemAssumption
  <2> QED BY <2>1, <2>2, <2>3, <2>4, WordTypes DEF InitMem, MemState, CacheEmpty
<1>2. reg \in [Reg -> Val] BY ConstantValues DEF Init
<1>3. cntrl \in ControlRegs /\ data \in [val1 : Val, val2 : Val]
  BY ConstantValues, WordTypes DEF Init, ControlRegs, NoData
<1>4. file.bytes \in Seq(Byte) /\ stdin \in Seq(Byte) BY CpuAssumption DEF Init
<1>5. text \in Seq(Byte) /\ stdout \in Seq({"int", "char"} \X Val \cup {"registers"} \X [Reg -> Val])
  BY DEF Init
<1>6. stage = "load" /\ stage \in Stages /\ pos \in Nat BY DEF Init, Stages
<1> QED BY <1>1, <1>2, <1>3, <1>4, <1>5, <1>6, EmptyCoherent DEF CpuInv, TypeOK

(* What most steps leave alone, and what they must keep.                    *)
LEMMA Quiet ==
  ASSUME CpuInv, reg' \in [Reg -> Val], Coherent(ms'), cntrl' \in ControlRegs,
         data' \in [val1 : Val, val2 : Val],
         stage' \in {"fetch", "decode", "execute", "done", "refused", "invalid", "trapped"},
         UNCHANGED file, text' \in Seq(Byte), pos' \in Nat, stdin' \in Seq(Byte),
         stdout' \in Seq({"int", "char"} \X Val \cup {"registers"} \X [Reg -> Val])
  PROVE  CpuInv'
<1>1. ms' \in MemState BY DEF Coherent
<1>2. stage' \in Stages BY DEF Stages
<1> QED BY <1>1, <1>2 DEF CpuInv, TypeOK

(* An instruction that is executed in one step.                             *)
LEMMA OneStep ==
  ASSUME CpuInv, reg' \in [Reg -> Val], Coherent(ms'), NoFetch, NoTrap,
         stage' \in {"fetch", "done", "invalid", "trapped"}
  PROVE  CpuInv'
BY Quiet DEF CpuInv, TypeOK, NoFetch, NoTrap

(* What the functions that execute an instruction start from.               *)
LEMMA OperandTypes ==
  ASSUME CpuInv
  PROVE  /\ reg \in [Reg -> Val] /\ cntrl \in ControlRegs /\ data \in [val1 : Val, val2 : Val]
         /\ imm \in Val /\ val1 \in Val /\ val2 \in Val /\ Operand \in Val
         /\ \A r \in Reg : reg[r] \in Val
         /\ \A r, v : v \in Val => [reg EXCEPT ![r] = v] \in [Reg -> Val]
         /\ \A r, q, v, u : v \in Val /\ u \in Val => [reg EXCEPT ![r] = v, ![q] = u] \in [Reg -> Val]
         /\ PC \in Reg /\ SP \in Reg /\ HP \in Reg /\ SL \in Reg /\ SB \in Reg /\ R3 \in Reg
<1>1. reg \in [Reg -> Val] /\ cntrl \in ControlRegs /\ data \in [val1 : Val, val2 : Val]
  BY DEF CpuInv, TypeOK
<1>2. imm \in Val /\ val1 \in Val /\ val2 \in Val BY <1>1 DEF ControlRegs, imm, val1, val2
<1>3. Operand \in Val BY <1>2 DEF Operand
<1>4. \A r \in Reg : reg[r] \in Val BY <1>1
<1>5. \A r, v : v \in Val => [reg EXCEPT ![r] = v] \in [Reg -> Val] BY <1>1
<1>6. \A r, q, v, u : v \in Val /\ u \in Val => [reg EXCEPT ![r] = v, ![q] = u] \in [Reg -> Val]
  BY <1>1
<1>7. PC \in Reg /\ SP \in Reg /\ HP \in Reg /\ SL \in Reg /\ SB \in Reg /\ R3 \in Reg
  BY DEF PC, SP, HP, SL, SB, R3, Reg
<1> QED BY <1>1, <1>2, <1>3, <1>4, <1>5, <1>6, <1>7

(* They are numbers.                                                        *)
LEMMA RegisterValues ==
  ASSUME CpuInv
  PROVE  /\ reg[PC] \in Val /\ reg[SP] \in Val /\ reg[SB] \in Val /\ reg[SL] \in Val
         /\ reg[HP] \in Val /\ reg[R3] \in Val
         /\ reg[PC] \in Nat /\ reg[SP] \in Nat /\ reg[SB] \in Nat /\ reg[SL] \in Nat
         /\ reg[HP] \in Nat /\ reg[R3] \in Nat
         /\ imm \in Nat /\ val1 \in Nat /\ val2 \in Nat
         /\ WordSize \in Nat /\ \A n \in Int : Wrap(n) \in Val /\ Wrap(n) \in Nat
<1>1. /\ reg[PC] \in Val /\ reg[SP] \in Val /\ reg[SB] \in Val /\ reg[SL] \in Val
      /\ reg[HP] \in Val /\ reg[R3] \in Val /\ imm \in Val /\ val1 \in Val /\ val2 \in Val
  BY OperandTypes, Zenon
<1>2. Val \subseteq Nat /\ WordSize \in Nat BY ConstantValues
<1> QED BY <1>1, <1>2, WrapType, Zenon

-----------------------------------------------------------------------------
(* Loading.                                                                 *)

(* load_binary writes program memory without the cache, which holds nothing.*)
LEMMA WithBytesEffect ==
  ASSUME CpuInv, stage = "load", NEW bytes \in Seq(Byte), NEW n \in 0..Len(bytes)
  PROVE  Coherent(WithBytes(bytes, n))
<1> DEFINE m == WithBytes(bytes, n)
           mem == [a \in Alloc |-> IF a < n THEN bytes[a + 1] ELSE ms.prog_mem[a]]
<1>1. ms \in MemState /\ CacheEmpty(ms) BY DEF CpuInv, TypeOK
<1>2. mem \in [Alloc -> Byte]
  <2>1. ASSUME NEW a \in Alloc, a < n PROVE bytes[a + 1] \in Byte
    <3>1. a + 1 \in 1..Len(bytes) BY <2>1, GeometryType DEF Alloc
    <3> QED BY <3>1
  <2>2. ms.prog_mem \in [Alloc -> Byte] BY <1>1 DEF MemState
  <2> QED BY <2>1, <2>2
<1>3. m = [ms EXCEPT !.prog_mem = mem] BY DEF WithBytes
<1> HIDE DEF mem, m
<1>4. m \in MemState /\ m.cache = ms.cache BY <1>1, <1>2, <1>3 DEF MemState
<1> QED BY <1>1, <1>4, EmptyCoherent DEF CacheEmpty, m

(* load_binary keeps the invariant, whatever the file.                      *)
LEMMA LoadKeeps == CpuInv /\ (LoadRefused \/ LoadIncomplete \/ LoadProgram) => CpuInv'
<1> SUFFICES ASSUME CpuInv, LoadRefused \/ LoadIncomplete \/ LoadProgram PROVE CpuInv' OBVIOUS
<1>1. file.bytes \in Seq(Byte) /\ Coherent(ms) /\ stage = "load" BY DEF CpuInv, TypeOK, LoadRefused, LoadIncomplete, LoadProgram
<1>2. Len(file.bytes) \in 0..Len(file.bytes) BY <1>1
<1>3. UNCHANGED <<file, cntrl, data, text, pos, stdin, stdout>>
  BY DEF LoadRefused, LoadIncomplete, LoadProgram
<1>4. Coherent(ms')
  <2>1. CASE LoadRefused BY <1>1, <2>1 DEF LoadRefused
  <2>2. CASE LoadIncomplete BY <1>1, <1>2, <2>2, WithBytesEffect DEF LoadIncomplete
  <2>3. CASE LoadProgram BY <1>1, <1>2, <2>3, WithBytesEffect DEF LoadProgram
  <2> QED BY <2>1, <2>2, <2>3
<1>5. reg' \in [Reg -> Val]
  <2>1. CASE LoadRefused \/ LoadIncomplete BY <2>1, OperandTypes DEF LoadRefused, LoadIncomplete
  <2>2. CASE LoadProgram
    <3>1. Len(file.bytes) <= MemSize /\ WordSize <= Len(file.bytes) /\ Len(file.bytes) \in Nat
      BY <1>1, <2>2, ConstantValues DEF LoadProgram, LoadResult
    <3>2. Len(file.bytes) \in Val BY <3>1, ConstantValues DEF Val
    <3>3. FirstWord(file.bytes) \in Val
      <4>1. [i \in WordIdx |-> file.bytes[i + 1]] \in Word
        BY <1>1, <3>1, IsaConstants DEF Word
      <4> QED BY <4>1, WordValParts DEF FirstWord
    <3> QED BY <2>2, <3>2, <3>3, OperandTypes, ConstantValues DEF LoadProgram
  <2> QED BY <2>1, <2>2
<1>6. stage' \in {"fetch", "refused"} BY DEF LoadRefused, LoadIncomplete, LoadProgram
<1> QED BY <1>3, <1>4, <1>5, <1>6, Quiet DEF CpuInv, TypeOK

-----------------------------------------------------------------------------
(* fetch and decode.                                                        *)

(* So do fetch and decode, and what they refuse.                            *)
LEMMA FetchKeeps == CpuInv /\ (Fetch \/ Decode \/ Malformed) => CpuInv'
<1> SUFFICES ASSUME CpuInv, Fetch \/ Decode \/ Malformed PROVE CpuInv' OBVIOUS
<1>1. Coherent(ms) BY DEF CpuInv
<1>2. CASE Fetch
  <2>1. PICK junk1 \in JunkWords(reg[PC]), junk2 \in JunkWords(reg[PC] + WordSize) :
          LET first  == ReadWord(ms, reg[PC], FALSE, junk1)
              second == ReadWord(first, reg[PC] + WordSize, CacheType = 0, junk2)
          IN  ms' = second /\ cntrl' = Control(first.out, second.out)
    BY <1>2 DEF Fetch
  <2>2. reg[PC] \in Nat /\ reg[PC] + WordSize \in Nat /\ (CacheType = 0) \in BOOLEAN
    BY RegisterValues
  <2>3. junk1 \in Word /\ junk2 \in Word BY JunkType
  <2> DEFINE first  == ReadWord(ms, reg[PC], FALSE, junk1)
             second == ReadWord(first, reg[PC] + WordSize, CacheType = 0, junk2)
  <2>4. Coherent(first) BY <1>1, <2>2, <2>3, ReadWordEffect
  <2>5. ms' = second /\ cntrl' = Control(first.out, second.out) BY <2>1
  <2> HIDE DEF first
  <2>6. Coherent(second) BY <2>2, <2>3, <2>4, ReadWordEffect
  <2> HIDE DEF second
  <2>7. first.out \in Word /\ second.out \in Word BY <2>4, <2>6 DEF Coherent, MemState
  <2>8. cntrl' \in ControlRegs BY <2>5, <2>7, ControlType
  <2>9. reg' \in [Reg -> Val]
    <3>1. Wrap(reg[PC] + InstrSize) \in Val BY RegisterValues DEF InstrSize
    <3> QED BY <1>2, <3>1, OperandTypes DEF Fetch
  <2>10. UNCHANGED <<file, data, text, pos, stdin, stdout>> /\ stage' = "decode" BY <1>2 DEF Fetch
  <2> QED BY <2>5, <2>6, <2>8, <2>9, <2>10, Quiet DEF CpuInv, TypeOK
<1>3. CASE Decode
  <2>1. data' \in [val1 : Val, val2 : Val] BY <1>3, OperandTypes, DataRegsType DEF Decode
  <2>2. UNCHANGED <<file, reg, cntrl, ms, text, pos, stdin, stdout>> /\ stage' = "execute"
    BY <1>3 DEF Decode
  <2> QED BY <1>1, <2>1, <2>2, OperandTypes, Quiet DEF CpuInv, TypeOK
<1>4. CASE Malformed BY <1>1, <1>4, OperandTypes, Quiet DEF Malformed, CpuInv, TypeOK
<1> QED BY <1>2, <1>3, <1>4

-----------------------------------------------------------------------------
(* The instructions.                                                        *)

(* So do the instructions that leave memory alone.                          *)
LEMMA SimpleKeeps ==
  CpuInv /\ (\/ Refuse \/ Jump \/ Branch \/ Move \/ Compute \/ DivisionFault
             \/ AllocateImmediate) => CpuInv'
<1> SUFFICES ASSUME CpuInv, \/ Refuse \/ Jump \/ Branch \/ Move \/ Compute \/ DivisionFault
                            \/ AllocateImmediate
             PROVE  CpuInv'
  OBVIOUS
<1>1. Coherent(ms) BY DEF CpuInv
<1>2. CASE Refuse \/ DivisionFault
  BY <1>1, <1>2, OperandTypes, OneStep DEF Refuse, DivisionFault, Invalid
<1>3. CASE Jump
  <2>1. reg' \in [Reg -> Val] BY <1>3, OperandTypes DEF Jump, SetReg
  <2> QED BY <1>1, <1>3, <2>1, OneStep DEF Jump, NextInstruction
<1>4. CASE Branch
  <2>1. reg' \in [Reg -> Val] BY <1>4, OperandTypes DEF Branch, SetReg
  <2> QED BY <1>1, <1>4, <2>1, OneStep DEF Branch, NextInstruction
<1>5. CASE Move
  <2>1. reg' \in [Reg -> Val] BY <1>5, OperandTypes DEF Move, SetReg
  <2> QED BY <1>1, <1>5, <2>1, OneStep DEF Move, NextInstruction
<1>6. CASE Compute
  <2>1. op \in Arithmetic /\ ~DividesByZero(op, Operand) BY <1>6 DEF Compute, Executes, Accepted
  <2>2. Result(op, val1, Operand) \in Val BY <2>1, OperandTypes, ResultInRange
  <2>3. reg' \in [Reg -> Val] BY <1>6, <2>2, OperandTypes DEF Compute, SetReg
  <2> QED BY <1>1, <1>6, <2>3, OneStep DEF Compute, NextInstruction
<1>7. CASE AllocateImmediate
  <2>1. HeapFits(reg[HP] + imm) BY <1>7 DEF AllocateImmediate, Executes, Accepted
  <2>2. reg[HP] + imm \in Nat /\ reg[HP] + imm <= MemSize BY <2>1, RegisterValues DEF HeapFits
  <2>3. reg[HP] + imm \in Val BY <2>2, ConstantValues DEF Val
  <2>4. reg' \in [Reg -> Val]
    BY <1>7, <2>3, OperandTypes, RegisterValues DEF AllocateImmediate, Allocate
  <2> QED BY <1>1, <1>7, <2>4, OneStep DEF AllocateImmediate, Allocate, NextInstruction
<1> QED BY <1>2, <1>3, <1>4, <1>5, <1>6, <1>7

(* The accesses of an instruction, at whatever address.                     *)
LEMMA ReadKeeps ==
  ASSUME CpuInv, NEW a \in Nat,
         \/ \E junk \in JunkWords(a) : ms' = ReadWord(ms, a, FALSE, junk)
         \/ ms' = ReadByte(ms, a)
  PROVE  Coherent(ms') /\ \A b \in Addr : ViewAt(ms', b) = ViewAt(ms, b)
<1>1. Coherent(ms) BY DEF CpuInv
<1>2. CASE ms' = ReadByte(ms, a) BY <1>1, <1>2, ReadByteEffect, ReadByteView
<1>3. ASSUME NEW junk \in JunkWords(a), ms' = ReadWord(ms, a, FALSE, junk)
      PROVE  Coherent(ms') /\ \A b \in Addr : ViewAt(ms', b) = ViewAt(ms, b)
  <2>1. junk \in Word BY JunkType
  <2> QED BY <1>1, <1>3, <2>1, ReadWordEffect, ReadWordView
<1> QED BY <1>2, <1>3

(* So do loads and stores.                                                  *)
LEMMA LoadStoreKeeps == CpuInv /\ (LoadRegister \/ StoreRegister) => CpuInv'
<1> SUFFICES ASSUME CpuInv, LoadRegister \/ StoreRegister PROVE CpuInv' OBVIOUS
<1>1. Coherent(ms) BY DEF CpuInv
<1>2. LoadAddr \in Nat /\ StoreAddr \in Nat BY RegisterValues DEF LoadAddr, StoreAddr
<1>3. CASE LoadRegister
  <2>1. Coherent(ms') BY <1>2, <1>3, ReadKeeps DEF LoadRegister
  <2>2. WordVal(ms'.out) \in Val BY <2>1, ReadOutType
  <2>3. reg' \in [Reg -> Val] BY <1>3, <2>2, OperandTypes DEF LoadRegister, SetReg
  <2> QED BY <1>3, <2>1, <2>3, OneStep DEF LoadRegister, NextInstruction
<1>4. CASE StoreRegister
  <2>1. ValWord(val1) \in Word /\ ByteWord(val1 % ByteMod) \in Word
    BY OperandTypes, ConstantValues
  <2>2. CASE ms' = WriteWord(ms, StoreAddr, ValWord(val1))
    <3>1. Coherent(ms') BY <1>1, <1>2, <2>1, <2>2, WriteWordEffect
    <3> QED BY <1>4, <3>1, OperandTypes, OneStep DEF StoreRegister, NextInstruction
  <2>3. CASE ms' = WriteByte(ms, StoreAddr, ByteWord(val1 % ByteMod))
    <3>1. Coherent(ms') BY <1>1, <1>2, <2>1, <2>3, WriteByteEffect
    <3> QED BY <1>4, <3>1, OperandTypes, OneStep DEF StoreRegister, NextInstruction
  <2> QED BY <1>4, <2>2, <2>3 DEF StoreRegister
<1> QED BY <1>3, <1>4

(* So do the allocations that read their size.                              *)
LEMMA AllocateKeeps == CpuInv /\ AllocateFromMemory => CpuInv'
<1> SUFFICES ASSUME CpuInv, AllocateFromMemory PROVE CpuInv' OBVIOUS
<1>1. SizeAddr \in Nat BY RegisterValues DEF SizeAddr
<1>2. Coherent(ms') BY <1>1, ReadKeeps DEF AllocateFromMemory
<1> DEFINE newHP == Wrap(reg[HP] + WordVal(ms'.out))
<1>3. newHP \in Val
  <2>1. WordVal(ms'.out) \in Nat BY <1>2, ReadOutType, ConstantValues
  <2>2. reg[HP] + WordVal(ms'.out) \in Int BY <2>1, RegisterValues
  <2> QED BY <2>2, WrapType
<1>4. \/ Allocate(newHP)
      \/ NoRoom
  BY DEF AllocateFromMemory
<1> HIDE DEF newHP
<1>5. reg' \in [Reg -> Val] /\ stage' \in {"fetch", "invalid"}
  BY <1>3, <1>4, OperandTypes, RegisterValues DEF Allocate, NoRoom, NextInstruction, Invalid
<1>6. NoFetch /\ NoTrap BY DEF AllocateFromMemory
<1> QED BY <1>2, <1>5, <1>6, OneStep

(* So do the stack instructions, also those that end the process.           *)
LEMMA StackKeeps == CpuInv /\ (Push \/ Pop \/ Call \/ Return) => CpuInv'
<1> SUFFICES ASSUME CpuInv, Push \/ Pop \/ Call \/ Return PROVE CpuInv' OBVIOUS
<1>1. Coherent(ms) /\ NoFetch /\ NoTrap BY DEF CpuInv, Push, Pop, Call, Return
<1>2. StackWidth \in Nat BY RegisterValues DEF StackWidth
<1>3. CASE Push
  <2> DEFINE newSP == Wrap(reg[SP] - StackWidth)
  <2>1. newSP \in Val /\ newSP \in Nat BY <1>2, RegisterValues
  <2>2. \/ SetReg(SP, newSP) /\ ms' = Pushed(newSP) /\ stage' = "fetch"
        \/ UNCHANGED <<reg, ms>> /\ stage' = "invalid"
    BY <1>3 DEF Push, NextInstruction, Invalid
  <2> HIDE DEF newSP
  <2>3. Coherent(Pushed(newSP))
    <3>1. ValWord(val1) \in Word /\ ByteWord(val1 % ByteMod) \in Word
      BY OperandTypes, ConstantValues
    <3>2. Coherent(WriteWord(ms, newSP, ValWord(val1))) BY <1>1, <2>1, <3>1, WriteWordEffect
    <3>3. Coherent(WriteByte(ms, newSP, ByteWord(val1 % ByteMod)))
      BY <1>1, <2>1, <3>1, WriteByteEffect
    <3> QED BY <3>2, <3>3 DEF Pushed
  <2>4. reg' \in [Reg -> Val] BY <2>1, <2>2, OperandTypes DEF SetReg
  <2> QED BY <1>1, <2>2, <2>3, <2>4, OneStep
<1>4. CASE Pop
  <2>1. Coherent(ms') BY <1>4, RegisterValues, ReadKeeps DEF Pop
  <2> DEFINE newSP == Wrap(reg[SP] + StackWidth)
             loaded == [reg EXCEPT ![rd] = WordVal(ms'.out)]
  <2>2. newSP \in Val /\ loaded \in [Reg -> Val]
    <3>1. WordVal(ms'.out) \in Val BY <2>1, ReadOutType
    <3> QED BY <1>2, <3>1, RegisterValues, OperandTypes
  <2>3. \/ reg' = [loaded EXCEPT ![SP] = newSP] /\ stage' = "fetch"
        \/ reg' = loaded /\ stage' = "invalid"
    BY <1>4 DEF Pop, NextInstruction, Invalid
  <2> HIDE DEF newSP, loaded
  <2>4. reg' \in [Reg -> Val] BY <2>2, <2>3
  <2> QED BY <1>1, <2>1, <2>3, <2>4, OneStep
<1>5. CASE Call
  <2> DEFINE newSP == Wrap(reg[SP] - WordSize)
  <2>1. newSP \in Val /\ newSP \in Nat BY RegisterValues
  <2>2. \/ /\ ms' = WriteWord(ms, newSP, ValWord(reg[PC]))
           /\ \/ reg' = [reg EXCEPT ![SP] = newSP, ![PC] = imm] /\ stage' = "fetch"
              \/ SetReg(SP, newSP) /\ stage' = "invalid"
        \/ UNCHANGED <<reg, ms>> /\ stage' = "invalid"
    BY <1>5 DEF Call, NextInstruction, Invalid
  <2> HIDE DEF newSP
  <2>3. Coherent(WriteWord(ms, newSP, ValWord(reg[PC])))
    <3>1. ValWord(reg[PC]) \in Word BY RegisterValues, ConstantValues
    <3> QED BY <1>1, <2>1, <3>1, WriteWordEffect
  <2>4. reg' \in [Reg -> Val] BY <2>1, <2>2, OperandTypes DEF SetReg
  <2> QED BY <1>1, <2>2, <2>3, <2>4, OneStep
<1>6. CASE Return
  <2>1. Coherent(ms') BY <1>6, RegisterValues, ReadKeeps DEF Return
  <2> DEFINE newSP == Wrap(reg[SP] + WordSize)
             returnPC == WordVal(ms'.out)
  <2>2. newSP \in Val /\ returnPC \in Val BY <2>1, RegisterValues, ReadOutType
  <2>3. \/ reg' = [reg EXCEPT ![SP] = newSP, ![PC] = returnPC] /\ stage' = "fetch"
        \/ SetReg(SP, newSP) /\ stage' = "invalid"
        \/ UNCHANGED reg /\ stage' = "invalid"
    BY <1>6 DEF Return, NextInstruction, Invalid
  <2> HIDE DEF newSP, returnPC
  <2>4. reg' \in [Reg -> Val] BY <2>2, <2>3, OperandTypes DEF SetReg
  <2> QED BY <1>1, <2>1, <2>3, <2>4, OneStep
<1> QED BY <1>3, <1>4, <1>5, <1>6

-----------------------------------------------------------------------------
(* The traps.                                                               *)

Output == {"int", "char"} \X Val \cup {"registers"} \X [Reg -> Val]

(* A run of characters is within its sequence.                              *)
LEMMA RunType ==
  ASSUME NEW s \in Seq(Byte), NEW chars
  PROVE  Run(s, chars) \in 0..Len(s)
<1> DEFINE stops == {i \in 1..Len(s)+1 : i = Len(s) + 1 \/ s[i] \notin chars}
<1>1. Len(s) + 1 \in stops /\ stops \subseteq 1..Len(s)+1 OBVIOUS
<1> HIDE DEF stops
<1>2. stops \subseteq Nat /\ stops # {} BY <1>1
<1>3. First(stops) \in stops BY <1>2, FirstIsLeast
<1>4. First(stops) \in 1..Len(s)+1 BY <1>1, <1>3
<1> QED BY <1>4 DEF Run, stops

(* What follows the first characters is what is left.                       *)
LEMMA AfterType ==
  ASSUME NEW s \in Seq(Byte), NEW n \in 0..Len(s)
  PROVE  After(s, n) \in Seq(Byte) /\ Len(After(s, n)) = Len(s) - n
<1>1. \A i \in n+1..Len(s) : s[i] \in Byte OBVIOUS
<1>2. n + 1 \in Int /\ Len(s) \in Int /\ Len(s) \in Nat OBVIOUS
<1>3. /\ After(s, n) \in Seq(Byte)
      /\ Len(After(s, n)) = IF n + 1 <= Len(s) THEN Len(s) - (n + 1) + 1 ELSE 0
  BY <1>1, <1>2, SubSeqProperties DEF After
<1> QED BY <1>2, <1>3

(* Skipping blanks gives no input back.                                     *)
LEMMA SkipType ==
  ASSUME NEW s \in Seq(Byte)
  PROVE  SkipBlanks(s) \in Seq(Byte) /\ Len(SkipBlanks(s)) <= Len(s)
BY RunType, AfterType DEF SkipBlanks

(* The traps of one step keep the invariant, and give no input back.        *)
LEMMA InputOutputKeeps ==
  CpuInv /\ (TrapStop \/ TrapWrite \/ TrapReadInt \/ TrapReadChar) => CpuInv' /\ Len(stdin') <= Len(stdin)
<1> SUFFICES ASSUME CpuInv, TrapStop \/ TrapWrite \/ TrapReadInt \/ TrapReadChar
             PROVE  CpuInv' /\ Len(stdin') <= Len(stdin)
  OBVIOUS
<1>1. /\ Coherent(ms) /\ text \in Seq(Byte) /\ pos \in Nat /\ stdin \in Seq(Byte)
      /\ stdout \in Seq(Output) /\ Len(stdin) \in Nat
  BY DEF CpuInv, TypeOK, Output
<1>2. UNCHANGED <<ms, text, pos>> /\ NoFetch
  BY DEF TrapStop, TrapWrite, TrapReadInt, TrapReadChar, NoTrap
<1>3. SUFFICES /\ reg' \in [Reg -> Val] /\ stdin' \in Seq(Byte) /\ stdout' \in Seq(Output)
               /\ stage' \in {"fetch", "done", "invalid"} /\ Len(stdin') <= Len(stdin)
  BY <1>1, <1>2, OperandTypes, Quiet DEF NoFetch, Output
<1>4. CASE TrapStop BY <1>1, <1>4, OperandTypes DEF TrapStop, NoTrap
<1>5. CASE TrapWrite
  <2>1. <<"int", reg[R3]>> \in Output BY RegisterValues DEF Output
  <2>2. <<"char", reg[R3] % ByteMod>> \in Output
    BY RegisterValues, ConstantValues DEF Output
  <2>3. <<"registers", reg>> \in Output BY OperandTypes DEF Output
  <2>a. \A o \in Output : Append(stdout, o) \in Seq(Output) BY <1>1
  <2>4. stdout' \in Seq(Output) BY <1>5, <2>a, <2>1, <2>2, <2>3, Zenon DEF TrapWrite
  <2> QED BY <1>1, <1>5, <2>4, OperandTypes DEF TrapWrite, NextInstruction
<1>6. CASE TrapReadInt
  <2> DEFINE rest == SkipBlanks(stdin)
             n    == Run(rest, Digits)
             v    == Number(SubSeq(rest, 1, n))
  <2>1. \/ v \in Val /\ SetReg(R3, v) /\ stdin' = After(rest, n) /\ stage' = "fetch"
        \/ UNCHANGED <<reg, stdin>> /\ stage' = "invalid"
    BY <1>6 DEF TrapReadInt, NextInstruction, Invalid
  <2> HIDE DEF v
  <2>2. rest \in Seq(Byte) /\ Len(rest) <= Len(stdin) BY <1>1, SkipType
  <2> HIDE DEF rest
  <2>3. n \in 0..Len(rest) BY <2>2, RunType
  <2> HIDE DEF n
  <2>4. After(rest, n) \in Seq(Byte) /\ Len(After(rest, n)) = Len(rest) - n BY <2>2, <2>3, AfterType
  <2>5. Len(After(rest, n)) <= Len(stdin) BY <1>1, <2>2, <2>3, <2>4
  <2>6. reg' \in [Reg -> Val] BY <2>1, OperandTypes DEF SetReg
  <2>7. stdin' \in Seq(Byte) /\ Len(stdin') <= Len(stdin) BY <1>1, <2>1, <2>4, <2>5
  <2> QED BY <1>1, <1>6, <2>1, <2>6, <2>7 DEF TrapReadInt
<1>7. CASE TrapReadChar
  <2> DEFINE rest == SkipBlanks(stdin)
             v    == IF 2 * Head(rest) >= ByteMod THEN ValMod - ByteMod + Head(rest) ELSE Head(rest)
  <2>1. \/ rest # <<>> /\ SetReg(R3, v) /\ stdin' = Tail(rest) /\ stage' = "fetch"
        \/ UNCHANGED <<reg, stdin>> /\ stage' = "invalid"
    BY <1>7 DEF TrapReadChar, NextInstruction, Invalid
  <2>2. rest \in Seq(Byte) /\ Len(rest) <= Len(stdin) BY <1>1, SkipType
  <2> HIDE DEF rest
  <2>3. ASSUME rest # <<>> PROVE v \in Val /\ Tail(rest) \in Seq(Byte) /\ Len(Tail(rest)) <= Len(stdin)
    <3>1. Head(rest) \in Byte /\ Tail(rest) \in Seq(Byte) /\ Len(Tail(rest)) = Len(rest) - 1
      BY <2>2, <2>3
    <3>2. Head(rest) \in Val BY <3>1, ConstantValues
    <3>3. 2 * Head(rest) >= ByteMod => ValMod - ByteMod + Head(rest) \in Val
      <4>1. Head(rest) \in Nat /\ Head(rest) < ByteMod /\ ByteMod \in Nat /\ ValMod \in Nat
        BY <3>1, ConstantValues DEF Byte
      <4>2. ByteMod <= ValMod
        <5>1. ByteMod - 1 \in Byte BY IsaConstants DEF Byte
        <5>2. ByteMod - 1 \in Val BY <5>1, ConstantValues
        <5> QED BY <4>1, <5>2 DEF Val
      <4> QED BY <4>1, <4>2 DEF Val
    <3> QED BY <1>1, <2>2, <3>1, <3>2, <3>3
  <2> HIDE DEF v
  <2>4. reg' \in [Reg -> Val] BY <2>1, <2>3, OperandTypes DEF SetReg
  <2>5. stdin' \in Seq(Byte) /\ Len(stdin') <= Len(stdin)
    <3>1. CASE rest # <<>> /\ stdin' = Tail(rest) BY <2>3, <3>1, Zenon
    <3>2. CASE UNCHANGED stdin BY <1>1, <3>2
    <3> QED BY <2>1, <3>1, <3>2, Zenon
  <2> QED BY <1>1, <1>7, <2>1, <2>4, <2>5 DEF TrapReadChar
<1> QED BY <1>4, <1>5, <1>6, <1>7

(* A string trap that begins, and the line trap 6 is about to store: its    *)
(* length, its characters and the terminator.                               *)
LEMMA ReadLineText ==
  ASSUME CpuInv, TrapReadLine
  PROVE  \/ /\ text' \in Seq(Byte) /\ Len(text') \in 2..Len(stdin)+2 /\ pos' = 1
            /\ stage' = "store" /\ stdin' \in Seq(Byte) /\ Len(stdin') <= Len(stdin)
         \/ stage' = "invalid" /\ UNCHANGED <<text, pos, stdin>>
<1> DEFINE n == Run(stdin, Byte \ {Newline})
<1>1. stdin \in Seq(Byte) /\ Len(stdin) \in Nat BY DEF CpuInv, TypeOK
<1>2. n \in 0..Len(stdin) BY <1>1, RunType
<1>3. \/ /\ stdin # <<>>
         /\ text' = <<n % ByteMod>> \o SubSeq(stdin, 1, n) \o <<0>> /\ pos' = 1
         /\ stdin' = After(stdin, n + 1)
         /\ stage' = "store"
      \/ stage' = "invalid" /\ UNCHANGED <<text, pos, stdin>>
  BY DEF TrapReadLine, Invalid
<1> HIDE DEF n
<1>4. <<n % ByteMod>> \in Seq(Byte) /\ Len(<<n % ByteMod>>) = 1 /\ <<0>> \in Seq(Byte) /\ Len(<<0>>) = 1
  <2>1. n % ByteMod \in Byte BY <1>2, IsaConstants DEF Byte
  <2> QED BY <2>1, WordTypes
<1>5. SubSeq(stdin, 1, n) \in Seq(Byte) /\ Len(SubSeq(stdin, 1, n)) = n
  <2>1. \A i \in 1..n : stdin[i] \in Byte BY <1>1, <1>2
  <2>2. /\ SubSeq(stdin, 1, n) \in Seq(Byte)
        /\ Len(SubSeq(stdin, 1, n)) = IF 1 <= n THEN n - 1 + 1 ELSE 0
    BY <1>2, <2>1, SubSeqProperties
  <2> QED BY <1>2, <2>2
<1>6. /\ <<n % ByteMod>> \o SubSeq(stdin, 1, n) \in Seq(Byte)
      /\ Len(<<n % ByteMod>> \o SubSeq(stdin, 1, n)) = 1 + n
  BY <1>4, <1>5, ConcatProperties
<1>7. /\ <<n % ByteMod>> \o SubSeq(stdin, 1, n) \o <<0>> \in Seq(Byte)
      /\ Len(<<n % ByteMod>> \o SubSeq(stdin, 1, n) \o <<0>>) = 1 + n + 1
  BY <1>4, <1>6, ConcatProperties
<1>8. ASSUME stdin # <<>>
      PROVE  After(stdin, n + 1) \in Seq(Byte) /\ Len(After(stdin, n + 1)) <= Len(stdin)
  <2>1. CASE n + 1 <= Len(stdin)
    <3>1. n + 1 \in 0..Len(stdin) BY <1>1, <1>2, <2>1
    <3>2. After(stdin, n + 1) \in Seq(Byte) /\ Len(After(stdin, n + 1)) = Len(stdin) - (n + 1)
      BY <1>1, <3>1, AfterType
    <3> QED BY <1>1, <1>2, <3>2
  <2>2. CASE ~(n + 1 <= Len(stdin))
    <3>1. n = Len(stdin) /\ n + 2 \in Int /\ Len(stdin) < n + 2 BY <1>1, <1>2, <2>2
    <3>2. After(stdin, n + 1) = SubSeq(stdin, n + 2, Len(stdin)) BY <1>1, <1>2 DEF After
    <3>3. SubSeq(stdin, n + 2, Len(stdin)) = <<>> BY <1>1, <3>1, SubSeqEmpty
    <3>4. After(stdin, n + 1) = <<>> BY <3>2, <3>3, Zenon
    <3>5. <<>> \in Seq(Byte) /\ Len(<<>>) = 0 /\ 0 <= Len(stdin) BY <1>1
    <3> QED BY <3>4, <3>5, Zenon
  <2> QED BY <2>1, <2>2
<1>9. CASE stage' = "invalid" /\ UNCHANGED <<text, pos, stdin>> BY <1>9
<1>10. CASE /\ stdin # <<>>
            /\ text' = <<n % ByteMod>> \o SubSeq(stdin, 1, n) \o <<0>> /\ pos' = 1
            /\ stdin' = After(stdin, n + 1)
            /\ stage' = "store"
  <2>1. text' \in Seq(Byte) /\ Len(text') = 1 + n + 1 BY <1>7, <1>10, Zenon
  <2>2. Len(text') \in 2..Len(stdin)+2 BY <1>1, <1>2, <2>1
  <2>3. stdin' \in Seq(Byte) /\ Len(stdin') <= Len(stdin) BY <1>8, <1>10, Zenon
  <2> QED BY <1>10, <2>1, <2>2, <2>3
<1> QED BY <1>3, <1>9, <1>10

(* The address of a character wraps: it is a number.                        *)
LEMMA CharAddrType == ASSUME CpuInv, NEW i \in Int PROVE CharAddr(i) \in Nat
<1>1. reg[R3] + i \in Int BY RegisterValues
<1> QED BY <1>1, RegisterValues DEF CharAddr

(* The length of the string trap 5 prints.                                  *)
LEMMA LengthByte == ASSUME CpuInv, Len(text) = 1 PROVE text[1] \in Byte /\ text[1] \in Nat
<1>1. text \in Seq(Byte) /\ 1 \in 1..Len(text) BY DEF CpuInv, TypeOK
<1>2. \A s \in Seq(Byte) : \A i \in 1..Len(s) : s[i] \in Byte OBVIOUS
<1>3. Byte \subseteq Nat BY IsaConstants DEF Byte
<1> QED BY <1>1, <1>2, <1>3, Zenon

(* The string traps keep the invariant.                                     *)
LEMMA StringKeeps ==
  CpuInv /\ (TrapPrint \/ PrintChar \/ PrintEnd \/ TrapReadLine \/ StoreChar) => CpuInv'
<1> SUFFICES ASSUME CpuInv, TrapPrint \/ PrintChar \/ PrintEnd \/ TrapReadLine \/ StoreChar
             PROVE  CpuInv'
  OBVIOUS
<1>1. /\ Coherent(ms) /\ text \in Seq(Byte) /\ pos \in Nat /\ stdin \in Seq(Byte)
      /\ stdout \in Seq(Output) /\ file.bytes \in Seq(Byte)
  BY DEF CpuInv, TypeOK, Output
<1>2. UNCHANGED <<file, cntrl, data, reg>>
  BY DEF TrapPrint, PrintChar, PrintEnd, TrapReadLine, StoreChar, NoFetch
<1>3. reg' \in [Reg -> Val] /\ cntrl' \in ControlRegs /\ data' \in [val1 : Val, val2 : Val]
      /\ file'.bytes \in Seq(Byte)
  BY <1>1, <1>2, OperandTypes
<1>4. SUFFICES /\ Coherent(ms') /\ text' \in Seq(Byte) /\ pos' \in Nat /\ stdin' \in Seq(Byte)
               /\ stdout' \in Seq(Output) /\ stage' \in {"fetch", "invalid", "print", "store"}
               /\ stage' = "print" => Len(text') = 1 /\ pos' \in 1..text'[1]+1
               /\ stage' = "store" => pos' \in 1..Len(text')
  BY <1>3 DEF CpuInv, TypeOK, Stages, Coherent, Output
<1>5. CASE TrapPrint
  <2>1. ms' = ReadByte(ms, CharAddr(0)) /\ CharAddr(0) \in Nat BY <1>5, CharAddrType DEF TrapPrint
  <2>2. Coherent(ms') BY <2>1, ReadKeeps
  <2>3. ByteOut(ms') \in Byte BY <2>2, ReadOutType
  <2>4. text' = <<ByteOut(ms')>> /\ pos' = 1 /\ stage' = "print" /\ UNCHANGED <<stdin, stdout>>
    BY <1>5 DEF TrapPrint
  <2>5. text' \in Seq(Byte) /\ Len(text') = 1 /\ text'[1] \in Nat BY <2>3, <2>4 DEF Byte
  <2> QED BY <1>1, <2>2, <2>4, <2>5
<1>6. CASE PrintChar
  <2>1. /\ ms' = ReadByte(ms, CharAddr(pos)) /\ CharAddr(pos) \in Nat
        /\ stage = "print" /\ pos <= text[1] /\ pos' = pos + 1 /\ UNCHANGED <<stage, text, stdin>>
        /\ stdout' = Append(stdout, <<"char", ByteOut(ms')>>)
    BY <1>1, <1>6, CharAddrType DEF PrintChar
  <2>2. Coherent(ms') BY <2>1, ReadKeeps
  <2>3. ByteOut(ms') \in Val BY <2>2, ReadOutType
  <2>4. <<"char", ByteOut(ms')>> \in Output BY <2>3 DEF Output
  <2>5. stdout' \in Seq(Output) BY <1>1, <2>1, <2>4
  <2>6. Len(text) = 1 /\ pos \in 1..text[1]+1 BY <2>1 DEF CpuInv
  <2>7. text[1] \in Nat BY <2>6, LengthByte
  <2>8. pos + 1 \in 1..text[1]+1 BY <2>1, <2>6, <2>7
  <2> QED BY <1>1, <2>1, <2>2, <2>5, <2>6, <2>8
<1>7. CASE PrintEnd
  <2>1. Len(text) = 1 BY <1>7 DEF CpuInv, PrintEnd
  <2>2. text[1] \in Nat BY <2>1, LengthByte
  <2>3. CharAddr(text[1] + 1) \in Nat BY <2>2, CharAddrType
  <2>4. Coherent(ms') BY <1>7, <2>3, ReadKeeps DEF PrintEnd
  <2> QED BY <1>1, <1>7, <2>4 DEF PrintEnd
<1>8. CASE TrapReadLine
  <2>1. UNCHANGED <<ms, stdout>> BY <1>8 DEF TrapReadLine
  <2> QED BY <1>1, <1>8, <2>1, ReadLineText
<1>9. CASE StoreChar
  <2>1. /\ ms' = WriteByte(ms, CharAddr(pos - 1), ByteWord(text[pos]))
        /\ \/ pos < Len(text) /\ pos' = pos + 1 /\ UNCHANGED <<stage, text>>
           \/ stage' = "fetch" /\ text' = <<>> /\ pos' = 0
        /\ UNCHANGED <<stdin, stdout>> /\ stage = "store"
    BY <1>9 DEF StoreChar
  <2>2. pos \in 1..Len(text) BY <2>1 DEF CpuInv
  <2>3. ByteWord(text[pos]) \in Word BY <1>1, <2>2, WordTypes
  <2>a. pos - 1 \in Int BY <1>1
  <2>4. CharAddr(pos - 1) \in Nat BY <2>a, CharAddrType
  <2>5. Coherent(ms') BY <1>1, <2>1, <2>3, <2>4, WriteByteEffect
  <2>6. CASE pos < Len(text) /\ pos' = pos + 1 /\ UNCHANGED <<stage, text>>
    <3>1. pos + 1 \in 1..Len(text) BY <2>2, <2>6
    <3> QED BY <1>1, <2>1, <2>5, <2>6, <3>1
  <2>7. CASE stage' = "fetch" /\ text' = <<>> /\ pos' = 0 BY <1>1, <2>1, <2>5, <2>7
  <2> QED BY <2>1, <2>6, <2>7
<1> QED BY <1>5, <1>6, <1>7, <1>8, <1>9

-----------------------------------------------------------------------------
(* The theorems.                                                            *)

(* So does every step.                                                      *)
LEMMA StepCpuInv == CpuInv /\ [Next]_vars => CpuInv'
<1>1. CASE UNCHANGED vars BY <1>1 DEF vars, CpuInv, TypeOK
<1>2. CASE Next
  BY <1>1, <1>2, LoadKeeps, FetchKeeps, SimpleKeeps, LoadStoreKeeps, AllocateKeeps, StackKeeps,
     InputOutputKeeps, StringKeeps DEF Next, Ended
<1> QED BY <1>1, <1>2

(* CpuInv holds in every reachable state.                                   *)
THEOREM CpuInvariance == Spec => []CpuInv
BY InitCpuInv, StepCpuInv, PTL DEF Spec

(* The state keeps its shape under every program: no instruction leaves a   *)
(* register, the memory or a pending string with a value the code's types   *)
(* have no room for.                                                        *)
THEOREM CpuTypeCorrect == Spec => []TypeOK
<1>1. CpuInv => TypeOK BY DEF CpuInv
<1> QED BY <1>1, CpuInvariance, PTL

(* The cache stays coherent under every program: no block is held twice or  *)
(* lies outside the memory, and a clean line agrees with it, though         *)
(* load_binary writes past the cache and an access may straddle a line or   *)
(* miss the memory.                                                         *)
THEOREM CacheAlwaysCoherent == Spec => [](HeldOnce(ms) /\ BlocksInMemory(ms) /\ CleanAgree(ms))
<1>1. CpuInv => HeldOnce(ms) /\ BlocksInMemory(ms) /\ CleanAgree(ms) BY DEF CpuInv, Coherent
<1> QED BY <1>1, CpuInvariance, PTL

HeapStep == reg'[HP] > reg[HP] /\ stage = "execute" /\ rd # HP =>
              reg'[HP] <= reg[SP] /\ reg'[HP] <= MemSize

(* A step that leaves HP alone allocates nothing.                           *)
LEMMA HeapStays ==
  ASSUME CpuInv, reg'[HP] = reg[HP]
  PROVE  HeapStep
BY RegisterValues DEF HeapStep

(* Nor does one that sets another register.                                 *)
LEMMA SetOther ==
  ASSUME CpuInv, NEW r, NEW v, SetReg(r, v), r # HP
  PROVE  HeapStep
<1>1. reg'[HP] = reg[HP] BY OperandTypes DEF SetReg
<1> QED BY <1>1, HeapStays

(* An allocation for which there is room is below the stack.                *)
LEMMA HeapAllocated ==
  ASSUME CpuInv, NEW newHP, HeapFits(newHP), Allocate(newHP)
  PROVE  HeapStep
<1>1. reg'[HP] = newHP BY OperandTypes DEF Allocate
<1> QED BY <1>1 DEF HeapStep, HeapFits

(* Every step is one of these.                                              *)
LEMMA HeapStepHolds == CpuInv /\ [Next]_vars => HeapStep
<1> SUFFICES ASSUME CpuInv, [Next]_vars, stage = "execute", rd # HP PROVE HeapStep
  BY DEF HeapStep
<1>0. PC # HP /\ SP # HP /\ R3 # HP BY DEF PC, SP, HP, R3
<1>1. CASE UNCHANGED reg BY <1>1, HeapStays
<1>2. CASE Jump \/ Branch \/ Move \/ Compute \/ LoadRegister \/ TrapReadInt \/ TrapReadChar
  <2>1. UNCHANGED reg \/ \E v : SetReg(PC, v) \/ SetReg(rd, v) \/ SetReg(R3, v)
    BY <1>2 DEF Jump, Branch, Move, Compute, LoadRegister, TrapReadInt, TrapReadChar
  <2> QED BY <1>0, <1>1, <2>1, SetOther
<1>3. CASE AllocateImmediate
  BY <1>3, HeapAllocated DEF AllocateImmediate, Executes, Accepted
<1>4. CASE AllocateFromMemory BY <1>1, <1>4, HeapAllocated DEF AllocateFromMemory, NoRoom
<1>5. CASE Push BY <1>0, <1>1, <1>5, SetOther DEF Push
<1>6. CASE Pop
  <2> DEFINE newSP == Wrap(reg[SP] + StackWidth)
             v == WordVal(ms'.out)
             loaded == [reg EXCEPT ![rd] = v]
  <2>1. reg' = [loaded EXCEPT ![SP] = newSP] \/ reg' = loaded BY <1>6 DEF Pop
  <2> HIDE DEF newSP, v
  <2>2. reg'[HP] = reg[HP] BY <1>0, <2>1, OperandTypes
  <2> QED BY <2>2, HeapStays
<1>7. CASE Call
  <2> DEFINE newSP == Wrap(reg[SP] - WordSize)
  <2>1. \/ reg' = [reg EXCEPT ![SP] = newSP, ![PC] = imm]
        \/ SetReg(SP, newSP)
        \/ UNCHANGED reg
    BY <1>7 DEF Call
  <2> HIDE DEF newSP
  <2>2. reg'[HP] = reg[HP] BY <1>0, <2>1, OperandTypes DEF SetReg
  <2> QED BY <2>2, HeapStays
<1>8. CASE Return
  <2> DEFINE newSP == Wrap(reg[SP] + WordSize)
             returnPC == WordVal(ms'.out)
  <2>1. \/ reg' = [reg EXCEPT ![SP] = newSP, ![PC] = returnPC]
        \/ SetReg(SP, newSP)
        \/ UNCHANGED reg
    BY <1>8 DEF Return
  <2> HIDE DEF newSP, returnPC
  <2>2. reg'[HP] = reg[HP] BY <1>0, <2>1, OperandTypes DEF SetReg
  <2> QED BY <2>2, HeapStays
<1>9. CASE \/ Refuse \/ DivisionFault \/ StoreRegister \/ TrapStop \/ TrapWrite \/ TrapPrint
           \/ PrintChar \/ PrintEnd \/ TrapReadLine \/ StoreChar \/ Ended \/ UNCHANGED vars
  <2>1. UNCHANGED reg
    BY <1>9 DEF Refuse, DivisionFault, StoreRegister, TrapStop, TrapWrite, TrapPrint, PrintChar,
                PrintEnd, TrapReadLine, StoreChar, Ended, vars
  <2> QED BY <1>1, <2>1
<1>10. CASE LoadRefused \/ LoadIncomplete \/ LoadProgram \/ Fetch \/ Decode \/ Malformed
  <2>1. stage \in {"load", "fetch", "decode"}
    BY <1>10 DEF LoadRefused, LoadIncomplete, LoadProgram, Fetch, Decode, Malformed
  <2> QED BY <2>1
<1> QED BY <1>2, <1>3, <1>4, <1>5, <1>6, <1>7, <1>8, <1>9, <1>10 DEF Next

(* No allocation reaches into the stack or past the memory, whatever is in  *)
(* the registers and in memory (ALCI, ALLC and IALLC check it differently,  *)
(* emu4380.cpp:1868-1925).                                                  *)
THEOREM HeapAlwaysBelowStack == Spec => HeapBelowStack
<1>1. CpuInv /\ [Next]_vars => [HeapStep]_vars BY HeapStepHolds
<1>2. Spec => [][HeapStep]_vars BY <1>1, CpuInvariance, PTL DEF Spec
<1> QED BY <1>2 DEF HeapBelowStack, HeapStep

RefusalStep == /\ stage \in {"decode", "execute"} /\ stage' = "invalid"
               /\ op \notin {"CALL", "RET", "POPR", "POPB"}
               => (reg' = reg /\ View(ms') = View(ms))

(* Every step to the end of the process is without effect.                  *)
LEMMA RefusalStepHolds == CpuInv /\ [Next]_vars => RefusalStep
<1> SUFFICES ASSUME CpuInv, [Next]_vars, stage \in {"decode", "execute"}, stage' = "invalid",
                    op \notin {"CALL", "RET", "POPR", "POPB"}
             PROVE  reg' = reg /\ View(ms') = View(ms)
  BY DEF RefusalStep
<1>1. CASE UNCHANGED <<reg, ms>> BY <1>1
<1>2. CASE Malformed \/ Refuse \/ Push
  BY <1>1, <1>2 DEF Malformed, Refuse, Push, NextInstruction
<1>3. CASE AllocateFromMemory
  <2>1. SizeAddr \in Nat BY RegisterValues DEF SizeAddr
  <2>2. \A b \in Addr : ViewAt(ms', b) = ViewAt(ms, b)
    BY <1>3, <2>1, ReadKeeps DEF AllocateFromMemory
  <2>3. UNCHANGED reg
    BY <1>3 DEF AllocateFromMemory, Allocate, NoRoom, NextInstruction
  <2> QED BY <2>2, <2>3 DEF View
<1>4. CASE TrapReadInt \/ TrapReadChar \/ TrapReadLine
  BY <1>1, <1>4 DEF TrapReadInt, TrapReadChar, TrapReadLine, NextInstruction
<1>5. CASE LoadRefused \/ LoadIncomplete \/ LoadProgram \/ PrintChar \/ PrintEnd \/ StoreChar \/ Fetch
  <2>1. stage \in {"load", "fetch", "print", "store"}
    BY <1>5 DEF LoadRefused, LoadIncomplete, LoadProgram, PrintChar, PrintEnd, StoreChar, Fetch
  <2> QED BY <2>1
<1>6. CASE \/ Decode \/ Jump \/ Branch \/ Move \/ Compute \/ DivisionFault \/ LoadRegister
           \/ StoreRegister \/ AllocateImmediate \/ TrapStop \/ TrapWrite \/ TrapPrint
  <2>1. stage' \in {"execute", "fetch", "trapped", "done", "print"}
    BY <1>6 DEF Decode, Jump, Branch, Move, Compute, DivisionFault, LoadRegister, StoreRegister,
                AllocateImmediate, Allocate, TrapStop, TrapWrite, TrapPrint, NextInstruction
  <2> QED BY <2>1
<1>7. CASE Pop \/ Call \/ Return BY <1>7 DEF Pop, Call, Return, Executes
<1>8. CASE Ended \/ UNCHANGED vars BY <1>8 DEF Ended, vars
<1> QED BY <1>2, <1>3, <1>4, <1>5, <1>6, <1>7, <1>8 DEF Next

(* What invalidInstruction dumps is the state before the instruction: a     *)
(* refused one changed no register and no byte of memory, the allocations   *)
(* that read their size before they look for room among them.               *)
THEOREM RefusalNeverHasEffect == Spec => RefusalHasNoEffect
<1>1. CpuInv /\ [Next]_vars => [RefusalStep]_vars BY RefusalStepHolds
<1>2. Spec => [][RefusalStep]_vars BY <1>1, CpuInvariance, PTL DEF Spec
<1> QED BY <1>2 DEF RefusalHasNoEffect, RefusalStep

-----------------------------------------------------------------------------
(* The string traps, from their first step to their last.                   *)

(* A process that is outside the loops of traps 5 and 6 stays outside them, *)
(* but for the two steps that begin them; no step gives input back.         *)
LEMMA OutsideStrings ==
  ASSUME CpuInv, Next, ~(TrapPrint \/ PrintChar \/ PrintEnd \/ TrapReadLine \/ StoreChar)
  PROVE  /\ stage' \in {"print", "store"} => UNCHANGED vars
         /\ Len(stdin') <= Len(stdin)
<1>1. stdin \in Seq(Byte) /\ Len(stdin) <= Len(stdin) BY DEF CpuInv, TypeOK
<1>2. CASE TrapStop \/ TrapWrite \/ TrapReadInt \/ TrapReadChar
  <2>1. stage' \in {"done", "fetch", "invalid"}
    BY <1>2 DEF TrapStop, TrapWrite, TrapReadInt, TrapReadChar, NextInstruction, Invalid
  <2> QED BY <1>2, <2>1, InputOutputKeeps
<1>3. CASE LoadRefused \/ LoadIncomplete \/ LoadProgram \/ Fetch \/ Decode \/ Malformed
  BY <1>1, <1>3 DEF LoadRefused, LoadIncomplete, LoadProgram, Fetch, Decode, Malformed
<1>4. CASE \/ Refuse \/ Jump \/ Branch \/ Move \/ Compute \/ DivisionFault \/ AllocateImmediate
           \/ AllocateFromMemory \/ LoadRegister \/ StoreRegister
  BY <1>1, <1>4 DEF Refuse, Jump, Branch, Move, Compute, DivisionFault, AllocateImmediate,
     AllocateFromMemory, LoadRegister, StoreRegister, Allocate, NoRoom, NextInstruction, Invalid, NoTrap
<1>5. CASE Push \/ Pop \/ Call \/ Return
  BY <1>1, <1>5 DEF Push, Pop, Call, Return, NextInstruction, Invalid, NoTrap
<1>6. CASE Ended BY <1>1, <1>6 DEF Ended, vars
<1> QED BY <1>2, <1>3, <1>4, <1>5, <1>6 DEF Next

(* Characters less than a whole address space apart are at different        *)
(* addresses.                                                               *)
LEMMA CharsApart ==
  ASSUME CpuInv, NEW i \in Int, NEW j \in Int, 0 <= i, i < j, j < ValMod
  PROVE  CharAddr(i) # CharAddr(j)
<1> DEFINE a == reg[R3] + i
           b == reg[R3] + j
<1>1. a \in Nat /\ b \in Nat /\ a < b /\ b < a + ValMod /\ ValMod \in Nat \ {0}
  BY RegisterValues, PowersType
<1> HIDE DEF a, b
<1>2. SUFFICES ASSUME a % ValMod = b % ValMod PROVE FALSE BY DEF CharAddr, Wrap, a, b
<1> DEFINE qa == a \div ValMod
           qb == b \div ValMod
           r  == a % ValMod
<1>3. qa \in Nat /\ r \in Nat /\ a = qa * ValMod + r BY <1>1, DivMod
<1>4. qb \in Nat /\ b = qb * ValMod + r BY <1>1, <1>2, DivMod
<1> HIDE DEF qa, qb, r
<1>5. qa * ValMod \in Nat /\ qb * ValMod \in Nat BY <1>1, <1>3, <1>4
<1>6. CASE qa = qb BY <1>1, <1>3, <1>4, <1>6
<1>7. CASE qa < qb
  <2>1. qa * ValMod + ValMod <= qb * ValMod BY <1>1, <1>3, <1>4, <1>7, MulStep
  <2> QED BY <1>1, <1>3, <1>4, <1>5, <2>1
<1>8. CASE qb < qa
  <2>1. qb * ValMod + ValMod <= qa * ValMod BY <1>1, <1>3, <1>4, <1>8, MulStep
  <2> QED BY <1>1, <1>3, <1>4, <1>5, <2>1
<1> QED BY <1>3, <1>4, <1>6, <1>7, <1>8

(* A step of the loop of trap 6 puts its character in memory, and leaves    *)
(* those before it there.                                                   *)
Holds(m, n) == \A i \in 1..n : ValidAddr(CharAddr(i - 1)) => ViewAt(m, CharAddr(i - 1)) = text[i]

StoreInv == /\ Len(stdin) + 2 <= ValMod
            /\ stage = "store" => Len(text) <= ValMod /\ Holds(ms, pos - 1)

(* The step's character is stored, and those before it still are.           *)
LEMMA CharStored ==
  ASSUME CpuInv, StoreInv, StoreChar
  PROVE  Holds(ms', pos)
<1>1. /\ Coherent(ms) /\ text \in Seq(Byte) /\ pos \in 1..Len(text) /\ Len(text) <= ValMod
      /\ Holds(ms, pos - 1) /\ ms' = WriteByte(ms, CharAddr(pos - 1), ByteWord(text[pos]))
  BY DEF CpuInv, TypeOK, StoreInv, StoreChar
<1>2. text[pos] \in Byte /\ ByteWord(text[pos]) \in Word /\ ByteWord(text[pos])[0] = text[pos]
  BY <1>1, WordTypes DEF ByteWord
<1>3. pos \in Int /\ pos - 1 \in Int BY <1>1
<1>4. CharAddr(pos - 1) \in Nat BY <1>3, CharAddrType
<1>5. \A b \in Addr : ViewAt(ms', b) = IF b = CharAddr(pos - 1) THEN text[pos] ELSE ViewAt(ms, b)
  BY <1>1, <1>2, <1>4, WriteByteView
<1>6. ASSUME NEW i \in 1..pos, ValidAddr(CharAddr(i - 1))
      PROVE  ViewAt(ms', CharAddr(i - 1)) = text[i]
  <2>1. i - 1 \in Int BY <1>3
  <2>2. CharAddr(i - 1) \in Nat BY <2>1, CharAddrType
  <2>3. CharAddr(i - 1) \in Addr BY <1>6, <2>2, MemAssumption DEF ValidAddr, Addr
  <2>4. CASE i = pos BY <1>5, <2>3, <2>4
  <2>5. CASE i # pos
    <3>1. i \in 1..pos-1 /\ 0 <= i - 1 /\ i - 1 < pos - 1 /\ pos - 1 < ValMod
      BY <1>1, <1>3, <2>5, PowersType
    <3>2. CharAddr(i - 1) # CharAddr(pos - 1) BY <1>3, <2>1, <3>1, CharsApart
    <3>3. ViewAt(ms, CharAddr(i - 1)) = text[i] BY <1>1, <1>6, <3>1 DEF Holds
    <3> QED BY <1>5, <2>3, <3>2, <3>3
  <2> QED BY <2>4, <2>5
<1> QED BY <1>6 DEF Holds

(* Every step keeps what trap 6 has stored so far.                          *)
LEMMA StepStoreInv == CpuInv /\ StoreInv /\ [Next]_vars => StoreInv'
<1> SUFFICES ASSUME CpuInv, StoreInv, [Next]_vars PROVE StoreInv' OBVIOUS
<1>0. Len(stdin) \in Nat /\ ValMod \in Nat BY PowersType DEF CpuInv, TypeOK
<1>1. CASE UNCHANGED vars BY <1>1 DEF vars, StoreInv, Holds, CharAddr
<1>2. CASE TrapPrint \/ PrintChar \/ PrintEnd
  <2>1. UNCHANGED stdin /\ stage' # "store" BY <1>2 DEF TrapPrint, PrintChar, PrintEnd
  <2> QED BY <2>1 DEF StoreInv
<1>3. CASE TrapReadLine
  <2>1. CASE /\ text' \in Seq(Byte) /\ Len(text') \in 2..Len(stdin)+2 /\ pos' = 1
             /\ stage' = "store" /\ stdin' \in Seq(Byte) /\ Len(stdin') <= Len(stdin)
    <3>1. Len(stdin') + 2 <= ValMod /\ Len(text') <= ValMod BY <1>0, <2>1 DEF StoreInv
    <3>2. 1..(pos' - 1) = {} BY <2>1
    <3>3. Holds(ms, pos - 1)' BY <3>2 DEF Holds
    <3> QED BY <3>1, <3>3 DEF StoreInv
  <2>2. CASE stage' = "invalid" /\ UNCHANGED <<text, pos, stdin>> BY <2>2 DEF StoreInv
  <2> QED BY <1>3, <2>1, <2>2, ReadLineText
<1>4. CASE StoreChar
  <2>1. UNCHANGED <<stdin, reg>> BY <1>4 DEF StoreChar
  <2>2. CASE stage' = "fetch" BY <2>1, <2>2 DEF StoreInv
  <2>3. CASE pos' = pos + 1 /\ UNCHANGED <<stage, text>>
    <3>1. Holds(ms', pos) BY <1>4, CharStored
    <3>2. pos' - 1 = pos BY <2>3 DEF CpuInv, TypeOK
    <3>3. Holds(ms, pos - 1)' BY <2>1, <2>3, <3>1, <3>2 DEF Holds, CharAddr
    <3> QED BY <1>4, <2>1, <2>3, <3>3 DEF StoreInv, StoreChar
  <2> QED BY <1>4, <2>2, <2>3 DEF StoreChar
<1>5. CASE Next /\ ~(TrapPrint \/ PrintChar \/ PrintEnd \/ TrapReadLine \/ StoreChar)
  <2>1. CASE stage' = "store" BY <1>1, <1>5, <2>1, OutsideStrings
  <2>2. CASE stage' # "store"
    <3>1. Len(stdin') <= Len(stdin) BY <1>5, OutsideStrings
    <3>2. stdin' \in Seq(Byte)
      <4>1. CpuInv' BY StepCpuInv
      <4> QED BY <4>1 DEF CpuInv, TypeOK
    <3>3. Len(stdin') + 2 <= ValMod BY <1>0, <3>1, <3>2 DEF StoreInv
    <3> QED BY <2>2, <3>3 DEF StoreInv
  <2> QED BY <2>1, <2>2
<1> QED BY <1>1, <1>2, <1>3, <1>4, <1>5

StoredStep == stage = "store" /\ stage' = "fetch" =>
                \A i \in 1..Len(text) : LET a == Wrap(reg[R3] + i - 1)
                                        IN  ValidAddr(a) => ViewAt(ms', a) = text[i]

(* The step that ends trap 6 is the one that stores the terminator.         *)
LEMMA StoredStepHolds == CpuInv /\ StoreInv /\ [Next]_vars => StoredStep
<1> SUFFICES ASSUME CpuInv, StoreInv, [Next]_vars, stage = "store", stage' = "fetch",
                    NEW i \in 1..Len(text), ValidAddr(Wrap(reg[R3] + i - 1))
             PROVE  ViewAt(ms', Wrap(reg[R3] + i - 1)) = text[i]
  BY DEF StoredStep
<1>1. StoreChar /\ pos = Len(text)
  <2>1. CASE StoreChar BY <2>1 DEF StoreChar
  <2>2. stage \notin {"load", "fetch", "decode", "execute", "print"} OBVIOUS
  <2>3. CASE \/ LoadRefused \/ LoadIncomplete \/ LoadProgram \/ Fetch \/ Decode \/ Malformed \/ Refuse
    BY <2>2, <2>3 DEF LoadRefused, LoadIncomplete, LoadProgram, Fetch, Decode, Malformed, Refuse
  <2>4. CASE \/ Jump \/ Branch \/ Move \/ Compute \/ DivisionFault \/ LoadRegister \/ StoreRegister
             \/ AllocateImmediate \/ AllocateFromMemory \/ Push \/ Pop \/ Call \/ Return
    BY <2>2, <2>4 DEF Jump, Branch, Move, Compute, DivisionFault, LoadRegister, StoreRegister,
       AllocateImmediate, AllocateFromMemory, Push, Pop, Call, Return, Executes
  <2>5. CASE \/ TrapStop \/ TrapWrite \/ TrapReadInt \/ TrapReadChar \/ TrapPrint \/ PrintChar
             \/ PrintEnd \/ TrapReadLine
    BY <2>2, <2>5 DEF TrapStop, TrapWrite, TrapReadInt, TrapReadChar, TrapPrint, PrintChar, PrintEnd,
       TrapReadLine, Trap, Executes
  <2>6. CASE Ended \/ UNCHANGED vars BY <2>6 DEF Ended, vars
  <2> QED BY <2>1, <2>3, <2>4, <2>5, <2>6 DEF Next
<1>2. Holds(ms', Len(text)) BY <1>1, CharStored
<1>3. reg[R3] + i - 1 = reg[R3] + (i - 1) BY RegisterValues
<1>4. CharAddr(i - 1) = Wrap(reg[R3] + i - 1) BY <1>3 DEF CharAddr
<1> QED BY <1>2, <1>4 DEF Holds

(* The string trap 6 read is in memory, whole, when the trap is through, if *)
(* no line is so long that it would wrap around the address space onto its  *)
(* own beginning.                                                           *)
THEOREM StringAlwaysStored ==
  ASSUME \A input \in Inputs : Len(input) + 2 <= ValMod
  PROVE  Spec => StringStored
<1>1. Init => StoreInv BY DEF Init, StoreInv
<1>2. CpuInv /\ StoreInv /\ [Next]_vars => StoreInv' BY StepStoreInv
<1>3. CpuInv /\ StoreInv /\ [Next]_vars => [StoredStep]_vars BY StoredStepHolds
<1>4. Spec => [][StoredStep]_vars BY <1>1, <1>2, <1>3, CpuInvariance, PTL DEF Spec
<1> QED BY <1>4 DEF StringStored, StoredStep

(* Trap 5 has written the characters before the one it is at.               *)
PrintInv == stage = "print" =>
  /\ pos - 1 <= Len(stdout)
  /\ \A i \in 1..pos-1 : ValidAddr(CharAddr(i)) =>
       stdout[Len(stdout) - (pos - 1) + i] = <<"char", ViewAt(ms, CharAddr(i))>>

(* readByte hands a byte on as it is.                                       *)
LEMMA ByteOutOf == \A b \in Byte : WordVal(ByteWord(b)) % ByteMod = b
<1> SUFFICES ASSUME NEW b \in Byte PROVE WordVal(ByteWord(b)) % ByteMod = b OBVIOUS
<1>1. b \in Nat /\ b < ByteMod /\ ByteMod \in Nat \ {0} BY IsaConstants DEF Byte
<1>2. /\ ByteWord(b)[0] = b /\ ByteWord(b)[1] = 0 /\ ByteWord(b)[2] = 0 /\ ByteWord(b)[3] = 0
  BY IsaConstants DEF ByteWord
<1>3. ByteMod * 0 = 0 /\ ByteMod * ByteMod * 0 = 0 /\ ByteMod * ByteMod * ByteMod * 0 = 0
  BY <1>1
<1>4. WordVal(ByteWord(b)) = b BY <1>1, <1>2, <1>3 DEF WordVal
<1>5. b = 0 * ByteMod + b /\ b \in 0..ByteMod-1 BY <1>1
<1> QED BY <1>1, <1>4, <1>5, DivModUnique

(* The processor sees bytes.                                                *)
LEMMA ViewByte == ASSUME NEW m, Coherent(m), NEW a \in Addr PROVE ViewAt(m, a) \in Byte
<1>1. a \in Nat /\ a \in Alloc /\ m \in MemState BY AddrInAlloc DEF Coherent
<1>2. SetIdx(a) \in Sets /\ Offset(a) \in Offsets BY <1>1, AddrParts
<1>3. CASE Hits(m, a) = {} BY <1>1, <1>3 DEF ViewAt, MemState
<1>4. CASE Hits(m, a) # {}
  <2>1. PICK w \in Hits(m, a) : TRUE BY <1>4
  <2>2. First(Hits(m, a)) = w BY <1>1, <1>2, <2>1, HitUnique DEF Hits, Coherent
  <2>3. w \in Ways BY <2>1 DEF Hits, HitWays
  <2>4. m.cache[SetIdx(a)][w] \in Line BY <1>1, <1>2, <2>3 DEF MemState
  <2>5. m.cache[SetIdx(a)][w].data[Offset(a)] \in Byte BY <1>2, <2>4 DEF Line
  <2> QED BY <1>4, <2>2, <2>5 DEF ViewAt
<1> QED BY <1>3, <1>4

(* Every step keeps what trap 5 has printed so far.                         *)
LEMMA StepPrintInv == CpuInv /\ PrintInv /\ [Next]_vars => PrintInv'
<1> SUFFICES ASSUME CpuInv, PrintInv, [Next]_vars PROVE PrintInv' OBVIOUS
<1>0. stdout \in Seq(Output) /\ pos \in Nat /\ Len(stdout) \in Nat /\ Coherent(ms)
  BY DEF CpuInv, TypeOK, Output
<1>1. CASE UNCHANGED vars BY <1>1 DEF vars, PrintInv, CharAddr
<1>2. CASE TrapPrint
  <2>1. pos' = 1 /\ UNCHANGED stdout BY <1>2 DEF TrapPrint
  <2>2. 1..(pos' - 1) = {} /\ pos' - 1 = 0 /\ 0 <= Len(stdout') BY <1>0, <2>1
  <2> QED BY <2>2 DEF PrintInv
<1>3. CASE PrintChar
  <2>1. /\ stage = "print" /\ pos' = pos + 1 /\ UNCHANGED reg
        /\ ms' = ReadByte(ms, CharAddr(pos)) /\ stdout' = Append(stdout, <<"char", ByteOut(ms')>>)
    BY <1>3 DEF PrintChar
  <2>2. /\ Len(stdout') = Len(stdout) + 1 /\ stdout'[Len(stdout) + 1] = <<"char", ByteOut(ms')>>
        /\ \A k \in 1..Len(stdout) : stdout'[k] = stdout[k]
    BY <1>0, <2>1
  <2>3. pos - 1 <= Len(stdout) /\ pos' - 1 = pos /\ pos >= 1 BY <1>0, <2>1 DEF PrintInv, CpuInv
  <2>4. ASSUME NEW i \in 1..pos, ValidAddr(CharAddr(i))
        PROVE  stdout'[Len(stdout') - pos + i] = <<"char", ViewAt(ms', CharAddr(i))>>
    <3>1. i \in Int /\ pos \in Int BY <1>0
    <3>2. CharAddr(i) \in Nat /\ CharAddr(pos) \in Nat BY <3>1, CharAddrType
    <3>3. CharAddr(i) \in Addr BY <2>4, <3>2, MemAssumption DEF ValidAddr, Addr
    <3>4. ViewAt(ms', CharAddr(i)) = ViewAt(ms, CharAddr(i))
      BY <1>0, <2>1, <3>2, <3>3, ReadByteView
    <3>5. CASE i = pos
      <4>1. ms'.out = ByteWord(ViewAt(ms, CharAddr(i)))
        BY <1>0, <2>1, <3>2, <3>3, <3>5, ReadByteEffect
      <4>2. ByteOut(ms') = ViewAt(ms, CharAddr(i))
        BY <1>0, <3>3, <4>1, ViewByte, ByteOutOf DEF ByteOut
      <4>3. Len(stdout') - pos + i = Len(stdout) + 1 BY <1>0, <2>2, <3>5
      <4> QED BY <2>2, <3>4, <4>2, <4>3
    <3>6. CASE i # pos
      <4>1. i \in 1..pos-1 BY <1>0, <3>6
      <4>2. stdout[Len(stdout) - (pos - 1) + i] = <<"char", ViewAt(ms, CharAddr(i))>>
        BY <2>1, <2>4, <4>1 DEF PrintInv
      <4>3. /\ Len(stdout') - pos + i = Len(stdout) - (pos - 1) + i
            /\ Len(stdout) - (pos - 1) + i \in 1..Len(stdout)
        BY <1>0, <2>2, <2>3, <4>1
      <4> QED BY <2>2, <3>4, <4>2, <4>3
    <3> QED BY <3>5, <3>6
  <2>5. \A i \in 1..pos : CharAddr(i)' = CharAddr(i) BY <2>1 DEF CharAddr
  <2>6. pos' - 1 <= Len(stdout') BY <1>0, <2>2, <2>3
  <2> QED BY <2>3, <2>4, <2>5, <2>6 DEF PrintInv
<1>4. CASE PrintEnd \/ TrapReadLine \/ StoreChar
  <2>1. stage' # "print" BY <1>4 DEF PrintEnd, TrapReadLine, StoreChar, Invalid
  <2> QED BY <2>1 DEF PrintInv
<1>5. CASE Next /\ ~(TrapPrint \/ PrintChar \/ PrintEnd \/ TrapReadLine \/ StoreChar)
  <2>1. CASE stage' = "print" BY <1>1, <1>5, <2>1, OutsideStrings
  <2>2. CASE stage' # "print" BY <2>2 DEF PrintInv
  <2> QED BY <2>1, <2>2
<1> QED BY <1>1, <1>2, <1>3, <1>4, <1>5

CharsKept ==
  stage' = "print" =>
    /\ IsPrefix(stdout, stdout')
    /\ Len(stdout') - Len(stdout) = CharsDone' - CharsDone

PrintedStep ==
  stage = "print" /\ stage' # "print" =>
    /\ stdout' = stdout
    /\ CharsDone = text[1] /\ text[1] <= Len(stdout)
    /\ \A i \in 1..text[1] :
         LET a == Wrap(reg[R3] + i)
         IN  ValidAddr(a) => stdout[Len(stdout) - text[1] + i] = <<"char", ViewAt(ms, a)>>

PrintStep == /\ CharsKept
             /\ PrintedStep

(* A sequence is a prefix of itself, and of itself with one more element.   *)
LEMMA PrefixOfNext ==
  ASSUME NEW S, NEW s \in Seq(S), NEW e \in S
  PROVE  IsPrefix(s, s) /\ IsPrefix(s, Append(s, e))
<1>1. Len(s) <= Len(s) /\ Len(s) <= Len(Append(s, e)) OBVIOUS
<1>2. SubSeq(s, 1, Len(s)) = SubSeq(Append(s, e), 1, Len(s))
  <2>1. Len(s) \in Nat /\ Append(s, e) \in Seq(S) OBVIOUS
  <2> QED BY <2>1
<1> QED BY <1>1, <1>2 DEF IsPrefix

(* Trap 5 begins without a character and writes one at a time.              *)
LEMMA CharsKeptHolds == CpuInv /\ [Next]_vars => CharsKept
<1> SUFFICES ASSUME CpuInv, [Next]_vars, stage' = "print"
             PROVE  /\ IsPrefix(stdout, stdout')
                    /\ Len(stdout') - Len(stdout) = CharsDone' - CharsDone
  BY DEF CharsKept
<1>0. stdout \in Seq(Output) /\ pos \in Nat /\ Len(stdout) \in Nat BY DEF CpuInv, TypeOK, Output
<1>1. CASE UNCHANGED vars
  <2>1. stdout' = stdout /\ CharsDone' = CharsDone BY <1>1 DEF vars, CharsDone
  <2>2. CharsDone \in Int BY <1>0 DEF CharsDone
  <2>3. IsPrefix(stdout, stdout)
    <3>1. <<"int", 0>> \in Output BY ConstantValues DEF Output
    <3> QED BY <1>0, <3>1, PrefixOfNext
  <2> QED BY <1>0, <2>1, <2>2, <2>3
<1>2. CASE TrapPrint
  <2>1. pos' = 1 /\ stdout' = stdout /\ stage # "print" BY <1>2 DEF TrapPrint, Trap, Executes
  <2>2. CharsDone' = 0 /\ CharsDone = 0 BY <2>1 DEF CharsDone
  <2>3. IsPrefix(stdout, stdout)
    <3>1. <<"int", 0>> \in Output BY ConstantValues DEF Output
    <3> QED BY <1>0, <3>1, PrefixOfNext
  <2> QED BY <1>0, <2>1, <2>2, <2>3
<1>3. CASE PrintChar
  <2>1. /\ stage = "print" /\ pos' = pos + 1
        /\ stdout' = Append(stdout, <<"char", ByteOut(ms')>>)
    BY <1>3 DEF PrintChar
  <2>2. CharsDone' = pos /\ CharsDone = pos - 1 BY <1>0, <2>1 DEF CharsDone
  <2>3. Len(stdout') = Len(stdout) + 1 BY <1>0, <2>1
  <2>4. IsPrefix(stdout, stdout')
    <3>1. CpuInv' BY StepCpuInv
    <3>2. stdout' \in Seq(Output) BY <3>1 DEF CpuInv, TypeOK, Output
    <3>3. Len(stdout') \in Nat /\ Len(stdout') \in 1..Len(stdout') BY <1>0, <2>3
    <3>4. stdout'[Len(stdout')] \in Output BY <3>2, <3>3
    <3>5. stdout'[Len(stdout')] = <<"char", ByteOut(ms')>> BY <1>0, <2>1, <2>3
    <3> QED BY <1>0, <2>1, <3>4, <3>5, PrefixOfNext
  <2> QED BY <1>0, <2>2, <2>3, <2>4
<1>4. CASE PrintEnd \/ TrapReadLine \/ StoreChar
  BY <1>4 DEF PrintEnd, TrapReadLine, StoreChar, Invalid
<1>5. CASE Next /\ ~(TrapPrint \/ PrintChar \/ PrintEnd \/ TrapReadLine \/ StoreChar)
  BY <1>1, <1>5, OutsideStrings
<1> QED BY <1>1, <1>2, <1>3, <1>4, <1>5

(* The step that ends trap 5 comes after the last character.                *)
LEMMA PrintedStepHolds == CpuInv /\ PrintInv /\ [Next]_vars => PrintedStep
<1> SUFFICES ASSUME CpuInv, PrintInv, [Next]_vars, stage = "print", stage' # "print"
             PROVE  /\ stdout' = stdout
                    /\ CharsDone = text[1] /\ text[1] <= Len(stdout)
                    /\ \A i \in 1..text[1] :
                         LET a == Wrap(reg[R3] + i)
                         IN  ValidAddr(a) =>
                               stdout[Len(stdout) - text[1] + i] = <<"char", ViewAt(ms, a)>>
  BY DEF PrintedStep
<1>1. PrintEnd
  <2>1. stage \notin {"load", "fetch", "decode", "execute", "store"} OBVIOUS
  <2>2. CASE PrintEnd BY <2>2
  <2>3. CASE \/ LoadRefused \/ LoadIncomplete \/ LoadProgram \/ Fetch \/ Decode \/ Malformed \/ Refuse
    BY <2>1, <2>3 DEF LoadRefused, LoadIncomplete, LoadProgram, Fetch, Decode, Malformed, Refuse
  <2>4. CASE \/ Jump \/ Branch \/ Move \/ Compute \/ DivisionFault \/ LoadRegister \/ StoreRegister
             \/ AllocateImmediate \/ AllocateFromMemory \/ Push \/ Pop \/ Call \/ Return
    BY <2>1, <2>4 DEF Jump, Branch, Move, Compute, DivisionFault, LoadRegister, StoreRegister,
       AllocateImmediate, AllocateFromMemory, Push, Pop, Call, Return, Executes
  <2>5. CASE \/ TrapStop \/ TrapWrite \/ TrapReadInt \/ TrapReadChar \/ TrapPrint \/ PrintChar
             \/ TrapReadLine \/ StoreChar
    BY <2>1, <2>5 DEF TrapStop, TrapWrite, TrapReadInt, TrapReadChar, TrapPrint, PrintChar,
       TrapReadLine, StoreChar, Trap, Executes
  <2>6. CASE Ended \/ UNCHANGED vars BY <2>6 DEF Ended, vars
  <2> QED BY <2>2, <2>3, <2>4, <2>5, <2>6 DEF Next
<1>2. Len(text) = 1 /\ pos \in 1..text[1]+1 /\ pos > text[1] BY <1>1 DEF PrintEnd, CpuInv
<1>3. text[1] \in Nat BY <1>2, LengthByte
<1>4. pos - 1 = text[1] BY <1>2, <1>3
<1>5. stdout' = stdout BY <1>1 DEF PrintEnd
<1>6. CharsDone = text[1] BY <1>4 DEF CharsDone
<1> QED BY <1>4, <1>5, <1>6 DEF PrintInv, CharAddr

(* Trap 5 writes a character for each it is through with and nothing else,  *)
(* and ends with as many as the length byte says, which are the bytes of    *)
(* the string in order, though every one it reads may evict a line.  (Of    *)
(* what the program writes: MISS lines are not in stdout.)                  *)
THEOREM StringAlwaysPrinted == Spec => StringPrinted
<1>1. Init => PrintInv BY DEF Init, PrintInv
<1>2. CpuInv /\ PrintInv /\ [Next]_vars => PrintInv' BY StepPrintInv
<1>3. CpuInv /\ PrintInv /\ [Next]_vars => [PrintStep]_vars
  BY CharsKeptHolds, PrintedStepHolds DEF PrintStep
<1>4. Spec => [][PrintStep]_vars BY <1>1, <1>2, <1>3, CpuInvariance, PTL DEF Spec
<1> QED BY <1>4 DEF StringPrinted, PrintStep, CharsKept, PrintedStep

-----------------------------------------------------------------------------
(* Memory changes where a program stores, and control goes where it jumps.  *)

(* A step of a process that lives on: the words it accesses lie within      *)
(* lines, and memory is a whole number of blocks.                           *)
Sound == CpuInv /\ WordsInLines /\ MemSize = AllocSize /\ Next /\ Alive'

(* What the stores of the instructions and the traps change.                *)
LEMMA StoresWord ==
  ASSUME Sound, NEW a \in Nat, NEW word \in Word, ms' = WriteWord(ms, a, word),
         CacheType # 0 => ~Straddles(a), NEW b \in Addr, b \notin a..(a + WordSize - 1)
  PROVE  ViewAt(ms', b) = ViewAt(ms, b)
<1>1. Coherent(ms) /\ ms'.host = "ok" /\ MemSize = AllocSize BY DEF Sound, CpuInv, Alive
<1> QED BY <1>1, WriteWithinLine

(* Nothing changes at addresses a step does not store to.                   *)
LEMMA OnlyStores ==
  ASSUME Sound, stage # "load", NEW b \in Addr, b \notin StoresTo
  PROVE  ViewAt(ms', b) = ViewAt(ms, b)
<1>1. /\ CpuInv /\ Coherent(ms) /\ MemSize = AllocSize /\ ms'.host = "ok" /\ WordsInLines /\ Next
      /\ Alive'
  BY DEF Sound, CpuInv, Alive
<1>2. CASE UNCHANGED ms BY <1>2
<1>3. CASE Fetch
  <2>1. PICK junk1 \in JunkWords(reg[PC]), junk2 \in JunkWords(reg[PC] + WordSize) :
          ms' = ReadWord(ReadWord(ms, reg[PC], FALSE, junk1), reg[PC] + WordSize, CacheType = 0, junk2)
    BY <1>3 DEF Fetch
  <2>2. reg[PC] \in Nat /\ reg[PC] + WordSize \in Nat /\ (CacheType = 0) \in BOOLEAN
    BY <1>1, RegisterValues
  <2>3. junk1 \in Word /\ junk2 \in Word BY JunkType
  <2> DEFINE first == ReadWord(ms, reg[PC], FALSE, junk1)
  <2>4. Coherent(first) /\ ViewAt(first, b) = ViewAt(ms, b)
    BY <1>1, <2>2, <2>3, ReadWordEffect, ReadWordView
  <2>5. ms' = ReadWord(first, reg[PC] + WordSize, CacheType = 0, junk2) BY <2>1
  <2> HIDE DEF first
  <2>6. CacheType # 0 => ~Straddles(reg[PC] + WordSize) BY <1>1, <1>3 DEF WordsInLines, Fetch
  <2>7. ViewAt(ms', b) = ViewAt(first, b) BY <1>1, <2>2, <2>3, <2>4, <2>5, <2>6, ReadWithinLine
  <2> QED BY <2>4, <2>7
<1>4. CASE LoadRegister \/ AllocateFromMemory \/ Pop \/ Return \/ TrapPrint \/ PrintChar \/ PrintEnd
  <2>1. /\ LoadAddr \in Nat /\ SizeAddr \in Nat /\ reg[SP] \in Nat
        /\ CharAddr(0) \in Nat /\ CharAddr(pos) \in Nat
    <3>1. pos \in Int /\ 0 \in Int BY <1>1 DEF CpuInv, TypeOK
    <3>2. CharAddr(0) \in Nat /\ CharAddr(pos) \in Nat BY <1>1, <3>1, CharAddrType
    <3>3. LoadAddr \in Nat /\ SizeAddr \in Nat BY <1>1, RegisterValues DEF LoadAddr, SizeAddr
    <3> QED BY <1>1, <3>2, <3>3, RegisterValues
  <2>2. PrintEnd => CharAddr(text[1] + 1) \in Nat
    BY <1>1, CharAddrType, LengthByte DEF PrintEnd, CpuInv
  <2>3. \E a \in Nat : \/ \E junk \in JunkWords(a) : ms' = ReadWord(ms, a, FALSE, junk)
                       \/ ms' = ReadByte(ms, a)
    <3>1. CASE LoadRegister BY <2>1, <3>1 DEF LoadRegister
    <3>2. CASE AllocateFromMemory BY <2>1, <3>2 DEF AllocateFromMemory
    <3>3. CASE Pop BY <2>1, <3>3 DEF Pop
    <3>4. CASE Return BY <2>1, <3>4 DEF Return
    <3>5. CASE TrapPrint BY <2>1, <3>5 DEF TrapPrint
    <3>6. CASE PrintChar BY <2>1, <3>6 DEF PrintChar
    <3>7. CASE PrintEnd BY <2>2, <3>7 DEF PrintEnd
    <3> QED BY <1>4, <3>1, <3>2, <3>3, <3>4, <3>5, <3>6, <3>7
  <2> QED BY <1>1, <2>3, ReadKeeps
<1>5. CASE StoreRegister
  <2>1. StoreAddr \in Nat /\ ValWord(val1) \in Word /\ ByteWord(val1 % ByteMod) \in Word
    BY <1>1, RegisterValues, OperandTypes, ConstantValues DEF StoreAddr
  <2>2. CASE op \in {"STR", "ISTR"} /\ ms' = WriteWord(ms, StoreAddr, ValWord(val1))
    <3>1. CacheType # 0 => ~Straddles(StoreAddr) BY <1>1, <1>5, <2>2 DEF WordsInLines, StoreRegister, Executes
    <3>2. b \notin StoreAddr..(StoreAddr + WordSize - 1) BY <1>5, <2>2 DEF StoresTo, StoreRegister, Executes
    <3> QED BY <2>1, <2>2, <3>1, <3>2, StoresWord
  <2>3. CASE op \in {"STB", "ISTB"} /\ ms' = WriteByte(ms, StoreAddr, ByteWord(val1 % ByteMod))
    <3>1. b # StoreAddr BY <1>5, <2>3 DEF StoresTo, StoreRegister, Executes
    <3> QED BY <1>1, <2>1, <2>3, <3>1, WriteByteView
  <2> QED BY <1>5, <2>2, <2>3 DEF StoreRegister, Executes
<1>6. CASE Push /\ ~UNCHANGED ms
  <2> DEFINE newSP == Wrap(reg[SP] - StackWidth)
  <2>1. ms' = Pushed(newSP) BY <1>6 DEF Push
  <2>2. newSP \in Nat /\ ValWord(val1) \in Word /\ ByteWord(val1 % ByteMod) \in Word
    BY <1>1, RegisterValues, OperandTypes, ConstantValues DEF StackWidth
  <2>3. stage = "execute" /\ op \in {"PSHR", "PSHB"} BY <1>6 DEF Push, Executes
  <2>4. CASE op = "PSHR"
    <3>1. newSP = Wrap(reg[SP] - WordSize) BY <2>4 DEF StackWidth
    <3>2. CacheType # 0 => ~Straddles(newSP) BY <1>1, <2>3, <2>4, <3>1 DEF WordsInLines
    <3>3. b \notin newSP..(newSP + WordSize - 1) BY <2>3, <2>4, <3>1 DEF StoresTo
    <3> HIDE DEF newSP
    <3> QED BY <2>1, <2>2, <2>4, <3>2, <3>3, StoresWord DEF Pushed
  <2>5. CASE op = "PSHB"
    <3>1. newSP = Wrap(reg[SP] - 1) BY <2>5 DEF StackWidth
    <3>2. b # newSP BY <2>3, <2>5, <3>1 DEF StoresTo
    <3> HIDE DEF newSP
    <3> QED BY <1>1, <2>1, <2>2, <2>5, <3>2, WriteByteView DEF Pushed
  <2> QED BY <2>3, <2>4, <2>5
<1>7. CASE Call /\ ~UNCHANGED ms
  <2> DEFINE newSP == Wrap(reg[SP] - WordSize)
  <2>1. ms' = WriteWord(ms, newSP, ValWord(reg[PC])) BY <1>7 DEF Call
  <2>2. newSP \in Nat /\ ValWord(reg[PC]) \in Word BY <1>1, RegisterValues, ConstantValues
  <2>3. CacheType # 0 => ~Straddles(newSP) BY <1>1, <1>7 DEF WordsInLines, Call, Executes
  <2>4. b \notin newSP..(newSP + WordSize - 1) BY <1>7 DEF StoresTo, Call, Executes
  <2> HIDE DEF newSP
  <2> QED BY <2>1, <2>2, <2>3, <2>4, StoresWord
<1>8. CASE StoreChar
  <2>1. pos \in 1..Len(text) /\ text \in Seq(Byte) BY <1>1, <1>8 DEF CpuInv, TypeOK, StoreChar
  <2>2. ByteWord(text[pos]) \in Word /\ pos - 1 \in Int BY <2>1, WordTypes
  <2>3. CharAddr(pos - 1) \in Nat BY <1>1, <2>2, CharAddrType
  <2>4. b # CharAddr(pos - 1) BY <1>8 DEF StoresTo, StoreChar
  <2>5. ms' = WriteByte(ms, CharAddr(pos - 1), ByteWord(text[pos])) BY <1>8 DEF StoreChar
  <2> QED BY <1>1, <2>2, <2>3, <2>4, <2>5, WriteByteView
<1>9. \/ UNCHANGED ms \/ Fetch \/ StoreRegister \/ Push \/ Call \/ StoreChar
      \/ LoadRegister \/ AllocateFromMemory \/ Pop \/ Return \/ TrapPrint \/ PrintChar \/ PrintEnd
  BY <1>1 DEF Next, LoadRefused, LoadIncomplete, LoadProgram, Decode, Malformed, Refuse, Jump, Branch, Move,
     Compute, DivisionFault, AllocateImmediate, TrapStop, TrapWrite, TrapReadInt, TrapReadChar,
     TrapReadLine, Ended, vars
<1> QED BY <1>2, <1>3, <1>4, <1>5, <1>6, <1>7, <1>8, <1>9

(* What fetch takes as an instruction is what memory holds at PC.           *)
LEMMA FetchReads ==
  ASSUME CpuInv, Fetch, WordsInLines
  PROVE  /\ ms'.host = ms.host
         /\ cntrl' = Control(ViewWord(ms, reg[PC]), ViewWord(ms, reg[PC] + WordSize))
         /\ reg' = [reg EXCEPT ![PC] = Wrap(reg[PC] + InstrSize)] /\ stage' = "decode"
<1>1. Coherent(ms) BY DEF CpuInv
<1>2. reg[PC] \in Nat /\ reg[PC] + WordSize \in Nat /\ (CacheType = 0) \in BOOLEAN
  BY RegisterValues
<1>3. AddrInRange(reg[PC], WordSize) /\ AddrInRange(reg[PC] + WordSize, WordSize)
  <2>1. reg[PC] + 2 * WordSize <= MemSize /\ WordSize = 4
    BY <1>2, MemAssumption, IsaConstants DEF Fetch, CanFetch, InstrSize, AddrInRange
  <2> QED BY <1>2, <2>1, MemAssumption DEF AddrInRange
<1>4. Served(reg[PC]) /\ Served(reg[PC] + WordSize)
  BY <1>3 DEF Served, WordsInLines, Fetch
<1>5. PICK junk1 \in JunkWords(reg[PC]), junk2 \in JunkWords(reg[PC] + WordSize) :
        LET first  == ReadWord(ms, reg[PC], FALSE, junk1)
            second == ReadWord(first, reg[PC] + WordSize, CacheType = 0, junk2)
        IN  ms' = second /\ cntrl' = Control(first.out, second.out)
  BY DEF Fetch
<1>6. junk1 \in Word /\ junk2 \in Word BY JunkType
<1> DEFINE first  == ReadWord(ms, reg[PC], FALSE, junk1)
           second == ReadWord(first, reg[PC] + WordSize, CacheType = 0, junk2)
<1>7. /\ Coherent(first) /\ first.host = ms.host
      /\ \A b \in Addr : ViewAt(first, b) = ViewAt(ms, b)
      /\ first.out = ViewWord(ms, reg[PC])
  BY <1>1, <1>2, <1>3, <1>4, <1>6, ReadWordEffect
<1>8. ms' = second /\ cntrl' = Control(first.out, second.out) BY <1>5
<1> HIDE DEF first
<1>9. second.host = first.host /\ second.out = ViewWord(first, reg[PC] + WordSize)
  BY <1>2, <1>3, <1>4, <1>6, <1>7, ReadWordEffect
<1>10. ViewWord(first, reg[PC] + WordSize) = ViewWord(ms, reg[PC] + WordSize)
  BY <1>2, <1>3, <1>7, WordInRange DEF ViewWord
<1> HIDE DEF second
<1> QED BY <1>7, <1>8, <1>9, <1>10 DEF Fetch

(* A return that completes goes to the address on top of the stack.         *)
LEMMA ReturnReads ==
  ASSUME Sound, Return, stage' = "fetch"
  PROVE  AddrInRange(reg[SP], WordSize) /\ reg'[PC] = WordVal(ViewWord(ms, reg[SP]))
<1>1. CpuInv /\ Coherent(ms) /\ MemSize = AllocSize /\ ms'.host = "ok" /\ WordsInLines
  BY DEF Sound, CpuInv, Alive
<1>2. reg[SP] \in Nat /\ reg \in [Reg -> Val] /\ PC \in Reg /\ SP \in Reg /\ PC # SP
  BY <1>1, RegisterValues, OperandTypes DEF PC, SP
<1>3. CacheType # 0 => ~Straddles(reg[SP]) BY <1>1 DEF WordsInLines, Return, Executes
<1>4. PICK junk \in JunkWords(reg[SP]) : ms' = ReadWord(ms, reg[SP], FALSE, junk) BY DEF Return
<1>5. junk \in Word BY JunkType
<1>6. ms'.out = IF AddrInRange(reg[SP], WordSize) THEN ViewWord(ms, reg[SP]) ELSE AllOnes
  BY <1>1, <1>2, <1>3, <1>4, <1>5, ReadWithinLine
<1>7. ValidAddr(WordVal(ms'.out)) /\ reg'[PC] = WordVal(ms'.out)
  <2> DEFINE newSP == Wrap(reg[SP] + WordSize)
             returnPC == WordVal(ms'.out)
  <2>1. ValidAddr(returnPC) /\ reg' = [reg EXCEPT ![SP] = newSP, ![PC] = returnPC]
    BY DEF Return, Invalid
  <2> HIDE DEF newSP, returnPC
  <2>2. reg'[PC] = returnPC BY <1>2, <2>1
  <2> QED BY <2>1, <2>2 DEF returnPC
<1>8. ~ValidAddr(WordVal(AllOnes))
  <2>1. WordVal(AllOnes) = ValMod - 1
    <3> DEFINE b == ByteMod - 1
    <3>1. AllOnes = [i \in 0..3 |-> b] BY IsaConstants DEF AllOnes
    <3>2. WordVal(AllOnes) = b + ByteMod * b + ByteMod * ByteMod * b + ByteMod * ByteMod * ByteMod * b
      BY <3>1 DEF WordVal
    <3>3. ByteMod \in Nat BY IsaConstants
    <3>4. ByteMod * ByteMod \in Nat /\ ByteMod * ByteMod * ByteMod \in Nat BY <3>3
    <3>5. ByteMod * b = ByteMod * ByteMod - ByteMod BY <3>3
    <3>6. ByteMod * ByteMod * b = ByteMod * ByteMod * ByteMod - ByteMod * ByteMod BY <3>3, <3>4
    <3>7. ByteMod * ByteMod * ByteMod * b = ValMod - ByteMod * ByteMod * ByteMod
      BY <3>3, <3>4 DEF ValMod
    <3> QED BY <3>2, <3>3, <3>4, <3>5, <3>6, <3>7, PowersType
  <2> QED BY <2>1, ConstantValues, CpuAssumption, MemAssumption DEF ValidAddr
<1> QED BY <1>6, <1>7, <1>8

(* Where an instruction that completes leaves PC, if it does not name it.   *)
Continued ==
  /\ Accepted
  /\ ~(op = "TRP" /\ imm = 0)
  /\ op \in {"JMP", "CALL"} => reg'[PC] = imm
  /\ op = "JMR" => reg'[PC] = val1
  /\ op = "RET" => AddrInRange(reg[SP], WordSize) /\ reg'[PC] = WordVal(ViewWord(ms, reg[SP]))
  /\ op \notin {"JMP", "JMR", "CALL", "RET"} =>
       reg'[PC] = reg[PC] \/ (op \in Branches /\ reg'[PC] = imm)

(* That is where it does.                                                   *)
LEMMA Continues ==
  ASSUME Sound, stage = "execute", stage' \in {"fetch", "print", "store"},
         op \in WritesRegister => rd # PC
  PROVE  Continued
<1>1. CpuInv /\ Next BY DEF Sound
<1>2. /\ reg \in [Reg -> Val] /\ PC \in Reg /\ SP \in Reg /\ HP \in Reg /\ R3 \in Reg
      /\ PC # SP /\ PC # HP /\ PC # R3
  BY <1>1, OperandTypes DEF PC, SP, HP, R3
<1> USE DEF Executes, NextInstruction, Invalid, SetReg
<1>3. CASE Jump BY <1>2, <1>3 DEF Jump, Continued, Branches
<1>4. CASE Branch BY <1>2, <1>4 DEF Branch, Continued, Branches
<1>5. CASE Move BY <1>2, <1>5 DEF Move, Continued, WritesRegister
<1>6. CASE Compute
  <2>1. op \notin {"JMP", "JMR", "CALL", "RET", "TRP"} /\ op \in WritesRegister
    BY <1>6 DEF Compute, Arithmetic, ThreeRegs, RegAndImm, Compares, WritesRegister
  <2> QED BY <1>2, <1>6, <2>1 DEF Compute, Continued
<1>7. CASE LoadRegister BY <1>2, <1>7 DEF LoadRegister, Continued, WritesRegister
<1>8. CASE StoreRegister BY <1>2, <1>8 DEF StoreRegister, Continued
<1>9. CASE AllocateImmediate
  BY <1>2, <1>9 DEF AllocateImmediate, Allocate, Continued, WritesRegister
<1>10. CASE AllocateFromMemory
  <2>1. op \in {"ALLC", "IALLC"} /\ Accepted BY <1>10 DEF AllocateFromMemory
  <2>2. \E v : Allocate(v) BY <1>10 DEF AllocateFromMemory, NoRoom
  <2> QED BY <1>2, <2>1, <2>2 DEF Allocate, Continued, WritesRegister
<1>11. CASE Push
  <2>1. op \in {"PSHR", "PSHB"} /\ Accepted BY <1>11 DEF Push
  <2>2. \E v : reg' = [reg EXCEPT ![SP] = v] BY <1>11 DEF Push
  <2> QED BY <1>2, <2>1, <2>2 DEF Continued
<1>12. CASE Pop
  <2>1. op \in {"POPR", "POPB"} /\ Accepted BY <1>12 DEF Pop
  <2>2. \E v, u : reg' = [[reg EXCEPT ![rd] = v] EXCEPT ![SP] = u] BY <1>12 DEF Pop
  <2> QED BY <1>2, <2>1, <2>2 DEF Continued, WritesRegister
<1>13. CASE Call
  <2>1. op = "CALL" /\ Accepted BY <1>13 DEF Call
  <2>2. \E v : reg' = [reg EXCEPT ![SP] = v, ![PC] = imm] BY <1>13 DEF Call
  <2> QED BY <1>2, <2>1, <2>2 DEF Continued
<1>14. CASE Return
  <2>1. op = "RET" /\ Accepted /\ stage' = "fetch" BY <1>14 DEF Return
  <2> QED BY <1>14, <2>1, ReturnReads DEF Continued
<1>15. CASE TrapWrite \/ TrapPrint \/ TrapReadLine \/ TrapReadInt \/ TrapReadChar
  <2>1. op = "TRP" /\ Accepted /\ imm # 0
    BY <1>15 DEF TrapWrite, TrapPrint, TrapReadLine, TrapReadInt, TrapReadChar, Trap
  <2>2. reg' = reg \/ \E v : reg' = [reg EXCEPT ![R3] = v]
    BY <1>15 DEF TrapWrite, TrapPrint, TrapReadLine, TrapReadInt, TrapReadChar
  <2> QED BY <1>2, <2>1, <2>2 DEF Continued
<1>16. ~(LoadRefused \/ LoadIncomplete \/ LoadProgram \/ Fetch \/ Decode \/ Malformed \/ Refuse)
  BY DEF LoadRefused, LoadIncomplete, LoadProgram, Fetch, Decode, Malformed, Refuse
<1>17. ~(DivisionFault \/ TrapStop \/ PrintChar \/ PrintEnd \/ StoreChar \/ Ended)
  BY DEF DivisionFault, TrapStop, PrintChar, PrintEnd, StoreChar, Ended, vars
<1> QED BY <1>1, <1>3, <1>4, <1>5, <1>6, <1>7, <1>8, <1>9, <1>10, <1>11, <1>12, <1>13, <1>14,
           <1>15, <1>16, <1>17 DEF Next

(* What an instruction, and each part of one, may be followed by.           *)
LEMMA Followed ==
  ASSUME Next, stage # "load"
  PROVE  \/ Alive /\ Fetch
         \/ Alive /\ stage = "execute" /\ stage' # "decode"
         \/ Alive /\ stage \in {"print", "store"} /\ UNCHANGED reg /\ stage' # "decode"
         \/ /\ Alive /\ stage \in {"fetch", "decode", "execute"}
            /\ stage' \in {"execute", "invalid"} /\ UNCHANGED ms
         \/ UNCHANGED vars /\ (stage \notin {"fetch", "decode", "execute", "print", "store"} \/ ~Alive)
<1>1. CASE LoadRefused \/ LoadIncomplete \/ LoadProgram
  BY <1>1 DEF LoadRefused, LoadIncomplete, LoadProgram
<1>2. CASE Fetch BY <1>2 DEF Fetch
<1>3. CASE Decode \/ Malformed BY <1>3 DEF Decode, Malformed
<1>4. CASE Refuse \/ Jump \/ Branch \/ Move \/ Compute \/ DivisionFault \/ LoadRegister \/ StoreRegister
           \/ AllocateImmediate \/ AllocateFromMemory
  BY <1>4 DEF Refuse, Jump, Branch, Move, Compute, DivisionFault, LoadRegister, StoreRegister,
     AllocateImmediate, AllocateFromMemory, Executes, NextInstruction, Invalid, Allocate, NoRoom
<1>5. CASE Push \/ Pop \/ Call \/ Return \/ TrapStop \/ TrapWrite \/ TrapReadInt \/ TrapReadChar
           \/ TrapPrint \/ TrapReadLine
  BY <1>5 DEF Push, Pop, Call, Return, TrapStop, TrapWrite, TrapReadInt, TrapReadChar,
     TrapPrint, TrapReadLine, Trap, Executes, NextInstruction, Invalid
<1>6. CASE PrintChar \/ PrintEnd \/ StoreChar
  BY <1>6 DEF PrintChar, PrintEnd, StoreChar
<1>7. CASE Ended BY <1>7 DEF Ended
<1> QED BY <1>1, <1>2, <1>3, <1>4, <1>5, <1>6, <1>7 DEF Next

(* A program that is loaded is in memory, from address 0 on.                *)
LEMMA LoadsBytes ==
  ASSUME CpuInv, LoadProgram, NEW a \in 0..Len(file.bytes)-1
  PROVE  a \in Addr /\ ViewAt(ms', a) = file.bytes[a + 1]
<1>1. /\ file.bytes \in Seq(Byte) /\ Len(file.bytes) \in Nat /\ Len(file.bytes) <= MemSize
      /\ stage = "load" /\ CacheEmpty(ms) /\ ms \in MemState
      /\ ms' = WithBytes(file.bytes, Len(file.bytes))
  BY MemAssumption DEF CpuInv, TypeOK, LoadProgram, LoadResult
<1>2. a \in Nat /\ a < Len(file.bytes) /\ a \in Addr /\ a \in Alloc
  BY <1>1, MemAssumption, GeometryType DEF Addr, Alloc
<1>3. ms'.prog_mem[a] = file.bytes[a + 1] /\ ms'.cache = ms.cache
  BY <1>1, <1>2 DEF WithBytes, MemState
<1>4. Hits(ms', a) = {}
  <2>1. SetIdx(a) \in Sets BY <1>2, AddrParts
  <2> QED BY <1>1, <1>3, <2>1 DEF Hits, HitWays, CacheEmpty
<1> QED BY <1>2, <1>3, <1>4 DEF ViewAt

(* What the emulator does before it has loaded anything.                    *)
LEMMA FromLoad ==
  ASSUME Next, stage = "load"
  PROVE  LoadRefused \/ LoadIncomplete \/ LoadProgram \/ UNCHANGED stage
<1>1. ~(Fetch \/ Decode \/ Malformed \/ Refuse \/ Jump \/ Branch \/ Move \/ Compute \/ DivisionFault)
  BY DEF Fetch, Decode, Malformed, Refuse, Jump, Branch, Move, Compute, DivisionFault, Executes
<1>2. ~(LoadRegister \/ StoreRegister \/ AllocateImmediate \/ AllocateFromMemory \/ Push \/ Pop \/ Call \/ Return)
  BY DEF LoadRegister, StoreRegister, AllocateImmediate, AllocateFromMemory, Push, Pop, Call, Return, Executes
<1>3. ~(TrapStop \/ TrapWrite \/ TrapReadInt \/ TrapReadChar \/ TrapPrint \/ TrapReadLine)
  BY DEF TrapStop, TrapWrite, TrapReadInt, TrapReadChar, TrapPrint, TrapReadLine, Trap, Executes
<1>4. ~(PrintChar \/ PrintEnd \/ StoreChar) BY DEF PrintChar, PrintEnd, StoreChar
<1>5. Ended => UNCHANGED stage BY DEF Ended, vars
<1> QED BY <1>1, <1>2, <1>3, <1>4, <1>5 DEF Next

(* An instruction that completes was accepted.                              *)
LEMMA CompletesAccepted ==
  ASSUME Next, stage = "execute", stage' \in {"fetch", "print", "store"}
  PROVE  Accepted
BY DEF Next, LoadRefused, LoadIncomplete, LoadProgram, Fetch, Decode, Malformed, Refuse, Jump,
   Branch, Move, Compute, DivisionFault, LoadRegister, StoreRegister, AllocateImmediate,
   AllocateFromMemory, Push, Pop, Call, Return, TrapStop, TrapWrite, TrapReadInt, TrapReadChar,
   TrapPrint, PrintChar, PrintEnd, TrapReadLine, StoreChar, Ended, Trap, Executes, Invalid, vars
=============================================================================
