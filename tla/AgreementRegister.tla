-------------------------- MODULE AgreementRegister --------------------------
(* What the agreement versions of a matter promise to somebody who relies on   *)
(* them: one package may be locked at a time, one may be in force, a package   *)
(* comes into force only out of the lock and takes the place of its            *)
(* predecessor in the same step, and what was retired never comes back.        *)
CONSTANT Version

VARIABLES
  locked,    \* the version locked for execution, if any
  inForce,   \* the executed version, if any
  retired    \* the versions that were locked or in force once

Init == locked = {} /\ inForce = {} /\ retired = {}

Lock(v) ==
  /\ locked = {} /\ v \notin inForce \cup retired
  /\ locked' = {v} /\ UNCHANGED <<inForce, retired>>

Execute(v) ==
  /\ locked = {v} /\ locked' = {}
  /\ inForce' = {v} /\ retired' = retired \cup inForce

Retire(v) ==
  /\ v \in locked \cup inForce
  /\ locked' = locked \ {v} /\ inForce' = inForce \ {v} /\ retired' = retired \cup {v}

Next == \E v \in Version : Lock(v) \/ Execute(v) \/ Retire(v)

Spec == Init /\ [][Next]_<<locked, inForce, retired>>
==============================================================================
