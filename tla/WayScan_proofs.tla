--------------------------- MODULE WayScan_proofs ---------------------------
(***************************************************************************)
(* The loop of checkCache computes HitWays and Victim, for every number of *)
(* ways and every set of lines.  The loop invariant says what the locals   *)
(* mean for the ways passed so far.                                        *)
(***************************************************************************)
EXTENDS WayScan, MemSystem_proofs

(* The first empty way passed, and the first of the least recently used     *)
(* valid ways passed.                                                       *)
FirstEmpty(e) == /\ e \in Ways /\ e < way /\ ~set[e].valid
                 /\ \A v \in Ways : v < e => set[v].valid
FirstOldest(o) == /\ o \in Ways /\ o < way /\ set[o].valid /\ set[o].lastused = oldest
                  /\ \A v \in Ways : v < way /\ set[v].valid => oldest <= set[v].lastused
                  /\ \A v \in Ways : v < o /\ set[v].valid => oldest < set[v].lastused

LocalsType == /\ set \in [Ways -> Line]
              /\ \A w \in Ways : set[w].lastused < MaxStamp
              /\ way \in 0..Associativity /\ victim \in Nat
              /\ foundempty \in BOOLEAN /\ oldest \in Nat
              /\ pc \in {"loop", "hit", "miss"}

NoHitYet == \A v \in Ways : v < way => ~(set[v].valid /\ set[v].tag = tagbits)

EmptyPassed == IF foundempty THEN \E e \in Ways : FirstEmpty(e)
               ELSE \A v \in Ways : v < way => set[v].valid
OldestPassed == \/ /\ oldest = MaxStamp
                   /\ \A v \in Ways : v < way => ~set[v].valid
                \/ \E o \in Ways : FirstOldest(o)

VictimPassed ==
  /\ \A e \in Ways : FirstEmpty(e) => victim >= e
  /\ \A o \in Ways : FirstOldest(o) => victim >= o
  /\ way = 0 \/ FirstEmpty(victim) \/ FirstOldest(victim)

LoopInv == /\ LocalsType
           /\ pc # "hit" => NoHitYet /\ EmptyPassed /\ OldestPassed /\ VictimPassed
           /\ pc = "hit" => NoHitYet /\ way \in Ways /\ Matches
           /\ pc = "miss" => way = Associativity

(* Ways are numbers, and there is a first.                                  *)
LEMMA WaysAreNat == Ways \subseteq Nat /\ 0 \in Ways /\ Associativity \in Nat \ {0}
BY GeometryType DEF Ways

(* The loop invariant holds at first.                                       *)
LEMMA LoopInit == Init => LoopInv
<1> SUFFICES ASSUME Init PROVE LoopInv OBVIOUS
<1>1. LocalsType
  <2>1. set \in [Ways -> Line] /\ \A w \in Ways : set[w].lastused < MaxStamp
    BY ScanAssumption DEF Init
  <2>2. MaxStamp \in Nat BY ScanAssumption
  <2>3. way \in 0..Associativity BY WaysAreNat DEF Init
  <2> QED BY <2>1, <2>2, <2>3 DEF Init, LocalsType
<1>2. way = 0 /\ \A v \in Ways : ~(v < way) BY DEF Init, Ways
<1>3. \A v \in Ways : ~FirstEmpty(v) /\ ~FirstOldest(v) BY <1>2 DEF FirstEmpty, FirstOldest
<1>4. NoHitYet /\ EmptyPassed /\ OldestPassed /\ VictimPassed
  BY <1>2, <1>3 DEF Init, NoHitYet, EmptyPassed, OldestPassed, VictimPassed
<1> QED BY <1>1, <1>4 DEF Init, LoopInv

(* Every turn keeps it.                                                     *)
LEMMA LoopNext == LoopInv /\ [Next]_vars => LoopInv'
<1> SUFFICES ASSUME LoopInv, [Next]_vars PROVE LoopInv' OBVIOUS
<1> USE WaysAreNat
<1>1. CASE Hit
  BY <1>1 DEF Hit, InLoop, LoopInv, LocalsType, NoHitYet, Matches, current, Ways
<1>2. CASE TakeEmpty
  <2>1. way \in Ways /\ way' = way + 1 /\ victim' = way /\ set' = set /\ pc' = "loop"
        /\ pc = "loop" /\ oldest' = oldest /\ tagbits' = tagbits
        /\ foundempty = FALSE /\ foundempty' = TRUE /\ ~set[way].valid /\ way \in Nat
    BY <1>2 DEF TakeEmpty, InLoop, LoopInv, LocalsType, current, Ways
  <2>2. LocalsType' BY <2>1 DEF LoopInv, LocalsType, Ways
  <2>3. NoHitYet' BY <2>1 DEF LoopInv, NoHitYet, Ways
  <2> PICK w \in Ways : w = way BY <2>1
  <2>a. \A v \in Ways : v \in Nat OBVIOUS
  <2>b. \A v \in Ways : v < way => set[v].valid BY <2>1 DEF LoopInv, EmptyPassed
  <2>4. FirstEmpty(w)' BY <2>1, <2>a, <2>b DEF FirstEmpty
  <2>5. \A o \in Ways : FirstOldest(o)' <=> FirstOldest(o)
    BY <2>1, <2>a DEF FirstOldest
  <2>6. OldestPassed' BY <2>1, <2>5 DEF LoopInv, OldestPassed, Ways
  <2>7. \A e \in Ways : FirstEmpty(e)' => e <= w
    BY <2>1, <2>a DEF FirstEmpty
  <2>8. \A o \in Ways : FirstOldest(o)' => o <= w
    <3>1. \A v \in Ways : v < way' => v <= w BY <2>1, <2>a
    <3> QED BY <3>1 DEF FirstOldest
  <2>9. VictimPassed' BY <2>1, <2>4, <2>7, <2>8 DEF VictimPassed
  <2>10. EmptyPassed' BY <2>1, <2>4 DEF EmptyPassed
  <2> QED BY <2>1, <2>2, <2>3, <2>6, <2>9, <2>10 DEF LoopInv
<1>3. CASE TakeOlder
  <2>1. way \in Ways /\ way' = way + 1 /\ victim' = way /\ set' = set /\ pc' = "loop"
        /\ pc = "loop" /\ oldest' = set[way].lastused /\ tagbits' = tagbits
        /\ foundempty' = foundempty /\ set[way].valid /\ way \in Nat
        /\ set[way].lastused < oldest /\ ~Matches /\ set[way].lastused \in Nat
    BY <1>3 DEF TakeOlder, InLoop, LoopInv, LocalsType, current, Ways, Older, Line
  <2>2. LocalsType' BY <2>1 DEF LoopInv, LocalsType, Ways
  <2>3. NoHitYet' BY <2>1 DEF LoopInv, NoHitYet, Ways, Matches, current
  <2>4. \A v \in Ways : v < way /\ set[v].valid => oldest <= set[v].lastused
    <3>1. OldestPassed BY <2>1 DEF LoopInv
    <3> QED BY <3>1 DEF OldestPassed, FirstOldest
  <2>5. \A v \in Ways : v \in Nat /\ set[v].lastused \in Nat BY DEF LoopInv, LocalsType, Line
  <2>6. oldest \in Nat BY DEF LoopInv, LocalsType
  <2>7. ASSUME NEW v \in Ways, v < way, set[v].valid PROVE set[way].lastused < set[v].lastused
    <3>1. oldest <= set[v].lastused /\ set[v].lastused \in Nat BY <2>4, <2>5, <2>7
    <3> QED BY <2>1, <2>6, <3>1
  <2> PICK w \in Ways : w = way BY <2>1
  <2>8. FirstOldest(w)'
    <3>1. \A v \in Ways : v < way + 1 => v < way \/ v = way BY <2>1, <2>5
    <3>2. \A v \in Ways : v < way + 1 /\ set[v].valid => set[way].lastused <= set[v].lastused
      BY <2>1, <2>5, <2>7, <3>1
    <3> QED BY <2>1, <2>7, <3>2 DEF FirstOldest
  <2>9. \A o \in Ways : FirstOldest(o)' => o <= w
    BY <2>1, <2>5 DEF FirstOldest
  <2>c. way' = way + 1 /\ set' = set /\ set[way].valid /\ way \in Nat
        /\ \A v \in Ways : v \in Nat
    BY <2>1, <2>5
  <2>10. \A e \in Ways : FirstEmpty(e)' <=> FirstEmpty(e)
    BY <2>c DEF FirstEmpty
  <2>11. EmptyPassed' BY <2>1, <2>10 DEF LoopInv, EmptyPassed, Ways
  <2>12. \A e \in Ways : FirstEmpty(e) => e <= w BY <2>c DEF FirstEmpty
  <2>13. VictimPassed' BY <2>1, <2>8, <2>9, <2>10, <2>12 DEF VictimPassed
  <2>14. OldestPassed' BY <2>8 DEF OldestPassed
  <2> QED BY <2>1, <2>2, <2>3, <2>11, <2>13, <2>14 DEF LoopInv
<1>4. CASE Pass
  <2>1. way \in Ways /\ way' = way + 1 /\ victim' = victim /\ set' = set /\ pc' = "loop"
        /\ pc = "loop" /\ oldest' = oldest /\ tagbits' = tagbits
        /\ foundempty' = foundempty /\ way \in Nat /\ ~Matches
        /\ foundempty \in BOOLEAN
        /\ (~set[way].valid => foundempty) /\ (set[way].valid => ~(set[way].lastused < oldest))
    BY <1>4 DEF Pass, InLoop, LoopInv, LocalsType, current, Ways, Older
  <2>2. LocalsType' BY <2>1 DEF LoopInv, LocalsType, Ways
  <2>3. NoHitYet' BY <2>1 DEF LoopInv, NoHitYet, Ways, Matches, current
  <2>4. \A v \in Ways : set[v].lastused \in Nat /\ set[v].lastused < MaxStamp
    BY DEF LoopInv, LocalsType, Line
  <2>5. oldest \in Nat BY DEF LoopInv, LocalsType
  <2>6. \A e \in Ways : FirstEmpty(e)' <=> FirstEmpty(e)
    <3>1. ~set[way].valid => \E e \in Ways : FirstEmpty(e)
      BY <2>1 DEF LoopInv, EmptyPassed
    <3> QED BY <2>1, <3>1 DEF FirstEmpty, Ways
  <2>7. \A o \in Ways : FirstOldest(o)' <=> FirstOldest(o)
    <3>1. set[way].valid => \E o \in Ways : FirstOldest(o)
      BY <2>1, <2>4 DEF LoopInv, OldestPassed
    <3>2. set[way].valid => oldest <= set[way].lastused BY <2>1, <2>4, <2>5
    <3>3. ASSUME NEW o \in Ways, FirstOldest(o)' PROVE FirstOldest(o)
      <4>1. o # way \/ ~set[way].valid
        BY <2>1, <3>1, <3>3 DEF FirstOldest, Ways
      <4> QED BY <2>1, <3>3, <4>1 DEF FirstOldest, Ways
    <3>4. ASSUME NEW o \in Ways, FirstOldest(o) PROVE FirstOldest(o)'
      BY <2>1, <3>2, <3>4 DEF FirstOldest, Ways
    <3> QED BY <3>3, <3>4
  <2>8. EmptyPassed' BY <2>1, <2>6 DEF LoopInv, EmptyPassed, Ways
  <2>9. OldestPassed'
    <3>1. set[way].valid => \E o \in Ways : FirstOldest(o)
      BY <2>1, <2>4 DEF LoopInv, OldestPassed
    <3> QED BY <2>1, <2>7, <3>1 DEF LoopInv, OldestPassed, Ways
  <2>10. FirstEmpty(victim) \/ FirstOldest(victim)
    <3>1. \E x \in Ways : FirstEmpty(x) \/ FirstOldest(x)
      BY <2>1, <2>4 DEF LoopInv, EmptyPassed, OldestPassed
    <3>2. way # 0 BY <2>1, <3>1 DEF FirstEmpty, FirstOldest, Ways
    <3> QED BY <2>1, <3>2 DEF LoopInv, VictimPassed
  <2>11. victim \in Ways BY <2>10 DEF FirstEmpty, FirstOldest
  <2>12. VictimPassed' BY <2>1, <2>6, <2>7, <2>10, <2>11 DEF LoopInv, VictimPassed
  <2> QED BY <2>1, <2>2, <2>3, <2>8, <2>9, <2>12 DEF LoopInv
<1>5. CASE Miss
  BY <1>5 DEF Miss, LoopInv, LocalsType, NoHitYet, EmptyPassed, OldestPassed, VictimPassed,
              FirstEmpty, FirstOldest
<1>6. CASE Done \/ UNCHANGED vars
  BY <1>6 DEF Done, vars, LoopInv, LocalsType, NoHitYet, EmptyPassed, OldestPassed,
              VictimPassed, FirstEmpty, FirstOldest, Matches, current
<1> QED BY <1>1, <1>2, <1>3, <1>4, <1>5, <1>6 DEF Next

(* The loop stops at the first way that holds the block.                    *)
THEOREM ScanFindsHit == Spec => []HitIsFirst
<1>1. LoopInv => HitIsFirst
  <2> SUFFICES ASSUME LoopInv, pc = "hit"
               PROVE  HitWays(set, tagbits) # {} /\ way = First(HitWays(set, tagbits))
    BY DEF HitIsFirst
  <2> DEFINE hits == HitWays(set, tagbits)
  <2>1. way \in hits /\ \A v \in hits : ~(v < way)
    BY DEF LoopInv, HitWays, NoHitYet, Matches, current
  <2>2. hits \subseteq Nat BY WaysAreNat DEF HitWays
  <2> HIDE DEF hits
  <2>3. First(hits) \in hits /\ \A v \in hits : First(hits) <= v BY <2>1, <2>2, FirstIsLeast
  <2> QED BY <2>1, <2>2, <2>3 DEF hits
<1> QED BY <1>1, LoopInit, LoopNext, PTL DEF Spec

(* A loop that finds nothing picks the victim MemSystem speaks of.          *)
THEOREM ScanFindsVictim == Spec => []MissTakesVictim
<1>1. LoopInv => MissTakesVictim
  <2> SUFFICES ASSUME LoopInv, pc = "miss"
               PROVE  HitWays(set, tagbits) = {} /\ victim = Victim(set)
    BY DEF MissTakesVictim
  <2> DEFINE empty == EmptyWays(set)
             old == OldestWays(set)
  <2>1. way = Associativity /\ \A v \in Ways : v < way /\ v \in Nat
    BY WaysAreNat DEF LoopInv, Ways
  <2>2. HitWays(set, tagbits) = {} BY <2>1 DEF LoopInv, NoHitYet, HitWays
  <2>3. empty \subseteq Nat /\ old \subseteq Nat /\ empty \subseteq Ways /\ old \subseteq Ways
    BY WaysAreNat DEF EmptyWays, OldestWays
  <2>4. \A v \in Ways : /\ v \in empty <=> ~set[v].valid
                        /\ v \in old <=> /\ set[v].valid
                                         /\ \A u \in Ways : set[u].valid =>
                                              set[v].lastused <= set[u].lastused
    BY DEF EmptyWays, OldestWays
  <2>5. \A v \in Ways : set[v].lastused \in Nat BY DEF LoopInv, LocalsType, Line
  <2> HIDE DEF empty, old
  <2>6. ASSUME NEW e \in Ways, FirstEmpty(e) PROVE empty # {} /\ e = First(empty)
    <3>1. e \in empty /\ \A v \in empty : ~(v < e) BY <2>3, <2>4, <2>6 DEF FirstEmpty
    <3>2. First(empty) \in empty /\ First(empty) <= e BY <2>3, <3>1, FirstIsLeast
    <3>3. e \in Nat /\ First(empty) \in Nat BY <2>3, <3>1, <3>2
    <3>4. e = First(empty) BY <3>1, <3>2, <3>3
    <3> QED BY <3>1, <3>4
  <2>7. ASSUME NEW o \in Ways, FirstOldest(o) PROVE old # {} /\ o = First(old)
    <3>1. o \in old BY <2>1, <2>4, <2>7 DEF FirstOldest
    <3>2. ASSUME NEW v \in old, v < o PROVE FALSE
      <4>1. v \in Ways /\ set[v].valid /\ set[v].lastused \in Nat /\ set[o].lastused \in Nat
        BY <2>3, <2>4, <2>5, <3>2
      <4>2. oldest < set[v].lastused /\ oldest = set[o].lastused /\ set[o].valid
        BY <2>7, <3>2, <4>1 DEF FirstOldest
      <4>3. set[v].lastused <= set[o].lastused BY <2>4, <4>1, <4>2
      <4> QED BY <4>1, <4>2, <4>3
    <3>3. First(old) \in old /\ First(old) <= o BY <2>3, <3>1, FirstIsLeast
    <3>4. o \in Nat /\ First(old) \in Nat BY <2>3, <3>1, <3>3
    <3>5. ~(First(old) < o) BY <3>2, <3>3
    <3>6. o = First(old) BY <3>3, <3>4, <3>5
    <3> QED BY <3>1, <3>6
  <2>8. empty = {} \/ \E e \in Ways : FirstEmpty(e)
    BY <2>1, <2>3, <2>4 DEF LoopInv, EmptyPassed
  <2>9. old = {} \/ \E o \in Ways : FirstOldest(o)
    BY <2>1, <2>3, <2>4 DEF LoopInv, OldestPassed
  <2>10. /\ \A e \in Ways : FirstEmpty(e) => victim >= e
         /\ \A o \in Ways : FirstOldest(o) => victim >= o
         /\ FirstEmpty(victim) \/ FirstOldest(victim)
    BY <2>1, WaysAreNat DEF LoopInv, VictimPassed
  <2>11. victim \in Ways BY <2>10 DEF FirstEmpty, FirstOldest
  <2>12. \A e \in Ways, o \in Ways : FirstEmpty(e) /\ FirstOldest(o) => e # o
    BY DEF FirstEmpty, FirstOldest
  <2>13. Victim(set) = IF empty = {} THEN First(old)
                       ELSE IF old = {} THEN First(empty)
                       ELSE IF First(empty) > First(old) THEN First(empty) ELSE First(old)
    BY DEF Victim, empty, old
  <2>14. victim = Victim(set)
    <3>1. CASE empty = {} BY <2>6, <2>7, <2>10, <2>11, <2>13, <3>1
    <3>2. CASE empty # {} /\ old = {} BY <2>6, <2>7, <2>10, <2>11, <2>13, <3>2
    <3>3. CASE empty # {} /\ old # {}
      <4>1. PICK e \in Ways, o \in Ways : FirstEmpty(e) /\ FirstOldest(o)
        BY <2>8, <2>9, <3>3
      <4>2. e = First(empty) /\ o = First(old) /\ e # o /\ e \in Nat /\ o \in Nat
        BY <2>1, <2>6, <2>7, <2>12, <4>1
      <4>3. victim = e \/ victim = o BY <2>6, <2>7, <2>10, <2>11, <4>2
      <4>4. victim >= e /\ victim >= o BY <2>10, <4>1
      <4>5. Victim(set) = IF e > o THEN e ELSE o BY <2>13, <3>3, <4>2
      <4> QED BY <4>2, <4>3, <4>4, <4>5
    <3> QED BY <3>1, <3>2, <3>3
  <2> QED BY <2>2, <2>14
<1> QED BY <1>1, LoopInit, LoopNext, PTL DEF Spec
=============================================================================
