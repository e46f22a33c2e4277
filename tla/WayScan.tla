------------------------------- MODULE WayScan -------------------------------
(***************************************************************************)
(* The loop of checkCache over the ways of a set, one iteration at a time  *)
(* (src/emu4380.cpp:285-315).  The loop looks for a hit and, on the way,   *)
(* for the line to evict; MemSystem.tla uses what it computes, HitWays and *)
(* Victim, and here the two are shown to agree for every set of lines.     *)
(***************************************************************************)
EXTENDS MemSystem

CONSTANTS MaxStamp,    \* the initial value of `oldest' (UINT64_MAX)
          ScanSets,    \* the sets of lines the loop is run on
          ScanTags     \* the tags it looks for

ASSUME ScanAssumption ==
  /\ MaxStamp \in Nat
  /\ ScanSets \subseteq [Ways -> Line]
  /\ \A set \in ScanSets : \A w \in Ways : set[w].lastused < MaxStamp

VARIABLES set, tagbits,                       \* the set and the tag looked for
          way, victim, foundempty, oldest,    \* the loop's locals
          pc                                  \* "loop", then "hit" or "miss"

vars == <<set, tagbits, way, victim, foundempty, oldest, pc>>

current == set[way]

Init == /\ set \in ScanSets /\ tagbits \in ScanTags
        /\ way = 0 /\ victim = 0 /\ foundempty = FALSE /\ oldest = MaxStamp
        /\ pc = "loop"

InLoop == pc = "loop" /\ way < Associativity
(* (A mutant does not look whether the line is valid.) *)
Matches_anyvalid == current.tag = tagbits
Matches == current.valid /\ current.tag = tagbits

Hit == /\ InLoop /\ Matches
       /\ pc' = "hit"
       /\ UNCHANGED <<set, tagbits, way, victim, foundempty, oldest>>

TakeEmpty == /\ InLoop /\ ~Matches
             /\ ~current.valid /\ ~foundempty
             /\ victim' = way /\ foundempty' = TRUE /\ way' = way + 1
             /\ UNCHANGED <<set, tagbits, oldest, pc>>

(* (A mutant takes the later of two lines used at the same time.) *)
Older_orequal == current.lastused <= oldest
Older == current.lastused < oldest

TakeOlder == /\ InLoop /\ ~Matches
             /\ current.valid /\ Older
             /\ victim' = way /\ oldest' = current.lastused /\ way' = way + 1
             /\ UNCHANGED <<set, tagbits, foundempty, pc>>

Pass == /\ InLoop /\ ~Matches
        /\ ~(~current.valid /\ ~foundempty) /\ ~(current.valid /\ Older)
        /\ way' = way + 1
        /\ UNCHANGED <<set, tagbits, victim, foundempty, oldest, pc>>

Miss == /\ pc = "loop" /\ way = Associativity
        /\ pc' = "miss"
        /\ UNCHANGED <<set, tagbits, way, victim, foundempty, oldest>>

Done == pc # "loop" /\ UNCHANGED vars

Next == Hit \/ TakeEmpty \/ TakeOlder \/ Pass \/ Miss \/ Done

Spec == Init /\ [][Next]_vars

-----------------------------------------------------------------------------
(* The way the loop stops at is the first one that holds the block.         *)
HitIsFirst == pc = "hit" =>
  HitWays(set, tagbits) # {} /\ way = First(HitWays(set, tagbits))

(* The loop runs to its end only when no way holds the block, and the way   *)
(* it hands to handleCacheMiss is the victim MemSystem speaks of.           *)
MissTakesVictim == pc = "miss" =>
  HitWays(set, tagbits) = {} /\ victim = Victim(set)
=============================================================================
