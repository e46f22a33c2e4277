----------------------------- MODULE MCWayScan -----------------------------
(* Every set of lines over two tags and three time stamps. *)
EXTENDS WayScan

MCLines == {[BadLine EXCEPT !.tag = t, !.valid = v, !.lastused = u] :
              t \in 0..1, v \in BOOLEAN, u \in 0..2}
MCScanSets == [Ways -> MCLines]
MCScanTags == 0..1
=============================================================================
