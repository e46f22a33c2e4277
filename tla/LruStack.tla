------------------------------ MODULE LruStack ------------------------------
(***************************************************************************)
(* What the cache promises about replacement and time: each set keeps the  *)
(* blocks most recently used and drops the one used longest ago when a new *)
(* block needs room; an access costs one cycle, and a miss also the        *)
(* transfer of the block and, if the dropped block was written to since it *)
(* was brought in, of that block.                                          *)
(*                                                                         *)
(* Nothing here has ways, time stamps or victims: MemLru.tla shows that    *)
(* the time stamps and the victim loop of the code amount to this.         *)
(***************************************************************************)
EXTENDS Integers, FiniteSets

CONSTANTS NumSets,       \* sets of the cache
          Depth,         \* blocks a set keeps
          BlockSize,     \* bytes in a block
          WordSize,      \* bytes in a word
          BlockCycles,   \* cycles to transfer a block
          ByteAddrs, WordAddrs

VARIABLES lru,    \* [held, newer, dirty, clock]
          resp    \* the latest request

vars == <<lru, resp>>

Block(a) == a \div BlockSize

(* A pair <<b, c>> in newer: b was used after c was.                        *)
Init == /\ lru = [held |-> {}, newer |-> {}, dirty |-> {}, clock |-> 0]
        /\ resp.op = "none"

(* The blocks among some that compete with b for a place, and the one of    *)
(* them that was used longest ago.                                          *)
Rivals(blocks, b) == {c \in blocks : c % NumSets = b % NumSets}
Oldest(l, b) ==
  {c \in Rivals(l.held, b) : \A d \in Rivals(l.held, b) : <<c, d>> \notin l.newer}

Access(l, b, write) ==
  LET hit     == b \in l.held
      full    == Cardinality(Rivals(l.held, b)) = Depth
      dropped == IF ~hit /\ full THEN Oldest(l, b) ELSE {}
      others  == (l.held \ dropped) \ {b}
      cost    == IF hit THEN 1
                 ELSE IF dropped \cap l.dirty # {} THEN 2 * BlockCycles + 1
                 ELSE BlockCycles + 1
  IN  [held  |-> others \cup {b},
       newer |-> (l.newer \cap (others \X others)) \cup ({b} \X Rivals(others, b)),
       dirty |-> (l.dirty \ dropped) \cup (IF write THEN {b} ELSE {}),
       clock |-> l.clock + cost]

One(a, op, write) == /\ resp'.op = op /\ resp'.addr = a
                     /\ lru' = Access(lru, Block(a), write)

Two(a) == /\ resp'.op = "fetch" /\ resp'.addr = a
          /\ lru' = Access(Access(lru, Block(a), FALSE), Block(a + WordSize), FALSE)

Next == \/ \E a \in ByteAddrs : One(a, "readByte", FALSE) \/ One(a, "writeByte", TRUE)
        \/ \E a \in WordAddrs : \/ One(a, "readWord", FALSE)
                                \/ One(a, "writeWord", TRUE)
                                \/ Two(a)

Spec == Init /\ [][Next]_vars
=============================================================================
