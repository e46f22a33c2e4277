----------------------------- MODULE MCCpuStack -----------------------------
(* Small instances of CpuStack: a program calls itself forward, allocates,   *)
(* loads, stores and changes its own code, on a cache of two lines.          *)
EXTENDS CpuStack, MCCode

(* Addresses of the instructions; the last one stops.                       *)
At(k) == 4 + 8 * (k - 1)
Stop == At(6)

MCMenu == {
  Ins("PSHR", 3, 0, 0, 0), Ins("POPR", 2, 0, 0, 0), Ins("RET", 0, 0, 0, 0),
  Ins("CALL", 0, 0, 0, At(4)), Ins("CALL", 0, 0, 0, At(5)), Ins("ALCI", 2, 0, 0, 4),
  Ins("LDR", 2, 0, 0, 0), Ins("STR", 3, 0, 0, 0), Ins("STB", 3, 0, 0, Stop),
  Ins("ADD", 3, 2, 2, 0)}

(* Words at aligned addresses; and a byte over a word, taken off again.     *)
MCBodies == {<<a, b, c>> : a \in MCMenu, b \in MCMenu, c \in MCMenu}
  \cup {<<Ins("PSHB", 3, 0, 0, 0), b, Ins("POPB", 2, 0, 0, 0)>> : b \in MCMenu}

MCCalls ==
  {File(Image(4, <<Ins("MOVI", 3, 0, 0, Stop), Ins("PSHR", 3, 0, 0, 0)>> \o body
                 \o <<Ins("TRP", 0, 0, 0, 0)>>)) : body \in MCBodies}

MCNoInput == {<<>>}
MCZeroBytes == {[a \in Alloc |-> 0]}
=============================================================================
