--------------------------- MODULE MCReleaseGate ---------------------------
(* Two instances with the same catalog values.  Either two releases with     *)
(* manifests of one and two migrations meet, with one bootstrap that anchors *)
(* an empty database, or one release meets the account script and two people *)
(* with every kind of token and export.                                      *)
EXTENDS ReleaseGate
CONSTANTS r1, r2, boot, i1, i2, p1, p2

MCLength == r1 :> 1 @@ r2 :> 2

Empty == [boot |-> 0, anchored |-> FALSE, history |-> 0, identity |-> None, receipts |-> {},
          drift |-> {}, moved |-> FALSE, key |-> [p \in Persons |-> None]]
Proofs == {None, "verified", "unverifiable"}
Meeting ==
  {[db |-> [i \in Instances |-> [Empty EXCEPT !.anchored = a]], home |-> i1,
    proof |-> [p \in Persons |-> None], export |-> [p \in Persons |-> None],
    gates |-> IF a THEN {r1, r2} ELSE {r2, boot}, script |-> FALSE,
    faults |-> IF a THEN 1 ELSE 2] : a \in BOOLEAN}
Moving ==
  {[db |-> [i \in Instances |-> [Empty EXCEPT !.anchored = TRUE, !.history = 1, !.identity = i, !.key = k]],
    home |-> i1, proof |-> t, export |-> e, gates |-> {r1}, script |-> TRUE, faults |-> 0] :
      k \in {k \in [Persons -> {None, "sub"}] : k[p1] = "sub"}, t \in [Persons -> Proofs], e \in [Persons -> Persons \cup {None}]}
MCWorlds == Meeting \cup Moving
=============================================================================
