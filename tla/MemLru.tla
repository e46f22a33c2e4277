------------------------------- MODULE MemLru -------------------------------
(***************************************************************************)
(* The replacement policy of the cache: the time stamps and the victim     *)
(* loop implement the order of use of LruStack.tla, at exactly its cost in *)
(* cycles, as long as the cycle counter does not wrap.                     *)
(***************************************************************************)
EXTENDS MemAccess

(* The ways in use, and the block a way holds.                              *)
Held(m) == {p \in Sets \X Ways : m.cache[p[1]][p[2]].valid}
BlockOf(m, p) == WritebackBlock(p[1], m.cache[p[1]][p[2]].tag)
Stamp(m, p) == m.cache[p[1]][p[2]].lastused

(* Two ways of a set, the first used after the second.                      *)
UsedLater(m) ==
  {d \in Held(m) \X Held(m) : d[1][1] = d[2][1] /\ Stamp(m, d[1]) > Stamp(m, d[2])}

(* The order of use of the blocks in the cache, by their time stamps.       *)
Lru(m) ==
  [held  |-> {BlockOf(m, p) : p \in Held(m)},
   newer |-> {<<BlockOf(m, d[1]), BlockOf(m, d[2])>> : d \in UsedLater(m)},
   dirty |-> {BlockOf(m, p) : p \in {q \in Held(m) : m.cache[q[1]][q[2]].dirty}},
   clock |-> m.cycles]

Stack == INSTANCE LruStack WITH Depth <- Associativity, lru <- Lru(ms)

(* The cache drops the least recently used block of a set and no other, and *)
(* every access costs what the order of use says it costs.                  *)
ImplementsLruStack == Stack!Spec
=============================================================================
