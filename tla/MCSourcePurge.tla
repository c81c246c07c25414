---------------------------- MODULE MCSourcePurge ----------------------------
(* Small instances for TLC: the purge alone, with everything that disturbs it; *)
(* readings of the matter while its base agreement is purged; and readings of  *)
(* agreements that another client sends, with dated amendments.                *)
EXTENDS MatterReading

CONSTANTS p1, p2, c1, c2, r1, r2, a1, d0

MCSelections == {<<>>, <<a1>>}
MCSections == <<1, 2>>
MCOps == [a \in {a1} |-> <<Replacement(1, FALSE)>>]

\* 2025-09-01, 2025-10-01, and 2025-9-1, which sorts after both.
Padded == {[day |-> 1, key |-> 1], [day |-> 2, key |-> 2]}
Short == [day |-> 1, key |-> 3]

Replacements == [section : {1, 3}, empty : BOOLEAN]
OpLists(n) == UNION {[1 .. k -> Replacements] : k \in 0 .. n}
Agreements(n, ops, dates) ==
  LET one == [name : {d0}, date : dates \cup {Undated}, ops : OpLists(ops)]
  IN {[base |-> b, amendments |-> s] : b \in {<<1, 2>>, <<1, 1>>}, s \in [1 .. n -> one]}
MCDirect == Agreements(2, 2, Padded) \cup Agreements(3, 1, Padded)
MCDirectAnySpelling == Agreements(2, 1, Padded \cup {Short})

Approved ==
  [r \in 1 .. MaxRequests |->
     IF r = 1 THEN [status |-> "APPROVED", by |-> p1, approver |-> p2] ELSE NoRequest]

\* The stories differ in the amendments of the matter, which no step adds.
PurgeAlone == \A a \in Amendment : row[a] = Nowhere /\ file[a]
ClientAlone == \A a \in Amendment : row[a] = Nowhere /\ ~file[a]
Matter == ~PurgeAlone /\ ~ClientAlone

Over == reader = [r \in Reader |-> NewReader("refused")]
ReadyToPurge ==
  /\ deletion = "ACTIVE" /\ stored = TRUE /\ hold = FALSE /\ retention = "expired" /\ request = Approved
  /\ admin = Person /\ call = [c \in Call |-> NoCall] /\ holder = Nobody
  /\ changes = 0 /\ failures = 0 /\ losses = 0
MCInit ==
  \/ /\ Init /\ row = [a \in Amendment |-> Nowhere] /\ file = [a \in Amendment |-> TRUE]
     /\ access = FALSE /\ Over /\ readings = <<>> /\ log = <<>> /\ died = FALSE
  \/ ReadyToPurge /\ ReadingInit
  \/ /\ ReadyToPurge /\ row = [a \in Amendment |-> Nowhere] /\ file = [a \in Amendment |-> FALSE]
     /\ access = FALSE /\ reader = [r \in Reader |-> NewReader(IF r = r1 THEN "new" ELSE "refused")]
     /\ readings = <<>> /\ log = <<>> /\ died = FALSE

\* Within the matter only one call purges, one thing at a time differs from what
\* the requests found at first, and the second request starts once the first one
\* has read its files.
Disturbances == (IF deletion = "ACTIVE" THEN {} ELSE {<<"purge", Base>>}) \cup (IF access THEN {} ELSE {<<"access", Base>>})
                  \cup {<<"row", a>> : a \in {b \in Amendment : row[b] # "CURRENT"}}
                  \cup {<<"file", a>> : a \in {b \in Amendment : ~file[b]}}
OneDisturbance == Cardinality(Disturbances') <= 1
Second(r) == r = r2 /\ At(r2, "new") => reader[r1].step \notin {"new", "files", "access before", "rows before"}
MCNext ==
  \/ PurgeAlone /\ Next /\ UNCHANGED readingVars
  \/ Matter /\ Execute(c1) /\ UNCHANGED readingVars /\ OneDisturbance
  \/ Matter /\ UNCHANGED vars
       /\ ((\E r \in Reader : Second(r) /\ (Route(r) \/ Service(r))) \/ LookAt \/ Disturb \/ ChangeAccess)
       /\ OneDisturbance
  \/ ClientAlone /\ UNCHANGED vars /\ \E r \in Reader : Send(r) \/ Service(r)
MCSpec == MCInit /\ [][MCNext]_<<vars, readingVars>>
MCFairSpec == MCSpec /\ \A c \in Call : WF_vars(Execute(c)) /\ WF_vars(Proceed(c))
=============================================================================
