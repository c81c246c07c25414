---------------------------- MODULE TwoPhasePurge ----------------------------
(* What a purge promises the rest of the cockpit (README.md:114): a durable    *)
(* marker first, the file second, the tombstone last, and no way back.         *)

VARIABLES
  state,    \* deletion_status of the document
  stored    \* the private file is still there

Init == state = "ACTIVE" /\ stored = TRUE

Mark == state = "ACTIVE" /\ state' = "PENDING_PURGE" /\ UNCHANGED stored

Destroy == state = "PENDING_PURGE" /\ stored /\ stored' = FALSE /\ UNCHANGED state

Record ==
  state = "PENDING_PURGE" /\ ~stored /\ state' = "PURGED" /\ UNCHANGED stored

Next == Mark \/ Destroy \/ Record

Spec == Init /\ [][Next]_<<state, stored>>

=============================================================================
