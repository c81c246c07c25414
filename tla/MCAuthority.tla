----------------------------- MODULE MCAuthority -----------------------------
(* A small instance of Authority for TLC: two people and two handlers, started *)
(* from assignments of roles, capability and membership that administrators may*)
(* have left behind, with or without a matter.                                 *)
EXTENDS Authority

CONSTANTS a, b, t1, t2

Roles == {[p \in Person |-> IF p = a THEN first ELSE second] :
            first \in {"ADMIN", "APPROVER"}, second \in {"ADMIN", "LAWYER"}}
           \cup {[p \in Person |-> "NONE"]}

MCInit ==
  /\ role \in Roles
  /\ counsel \in {[p \in Person |-> FALSE], [p \in Person |-> role[p] # "NONE"]}
  /\ owner \in {Nobody, a}
  /\ restricted \in BOOLEAN /\ (owner = Nobody => ~restricted)
  /\ \E level \in {"NONE", "VIEW", "APPROVE"} :
       /\ owner = Nobody => level = "NONE"
       /\ member = [p \in Person |-> IF p = owner THEN "EDIT" ELSE level]
  /\ request = [t \in Thread |-> NoRequest]
  /\ left = MaxRequests

MCSpec == MCInit /\ [][Next]_vars /\ Fairness

=============================================================================
