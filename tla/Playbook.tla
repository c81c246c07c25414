------------------------------- MODULE Playbook -------------------------------
(* The playbook registry of one matter (lib/playbooks/kernel.mjs, service.mjs, *)
(* app/api/matters/[id]/playbooks): one book of negotiation options, and what  *)
(* people record about it in the audit log of the matter: its creation, the    *)
(* reviews of its options, their revocations, and its exports.                 *)
(*                                                                             *)
(* A call is one transaction: the authority of the caller is read and share    *)
(* locked, the advisory lock of the matter is taken, the events are read, the  *)
(* sources are read and share locked, the request is judged against the clock, *)
(* and one event is appended.  A call that is refused, only evaluates, or      *)
(* fails is given up without a trace.                                          *)
EXTENDS Integers, FiniteSets, Sequences, SequencesExt

CONSTANTS
  Person,      \* people with a role
  Option,      \* options of the book
  Settled,     \* options without missing facts and conflicts
  From, Until, \* the time each option applies
  MaxTime,     \* bound: the clock
  MaxText,     \* bound: texts the source may have in turn
  MaxLedger,   \* bound: events about the book
  MaxAudit,    \* bound: ids of the audit log of the matter
  Nobody       \* no person, no option

ASSUME PlaybookAssumption ==
  /\ {MaxTime, MaxText, MaxLedger, MaxAudit} \subseteq Nat /\ MaxText > 0
  /\ Settled \subseteq Option
  /\ From \in [Option -> Nat] /\ Until \in [Option -> Nat]
  /\ Nobody \notin Person \cup Option /\ IsFiniteSet(Option)

VARIABLES
  ledger,    \* events about the book, in order
  depends,   \* the dependencies between its options
  level,     \* what each person may do in this matter
  text,      \* the text of the source, 0 when it may not be used
  now,       \* the clock
  call,      \* the call each person has under way
  audit      \* ids of the audit log: the next, the largest committed, one held back

playbookVars == <<ledger, depends, level, text, now, call>>

\* NONE: may not create.  EDIT: may create.  APPROVE: may export as well.
\* COUNSEL: APPROVE with the counsel capability, may review and revoke as well.
Level == {"NONE", "EDIT", "APPROVE", "COUNSEL"}
Operation == {"create", "review", "revoke", "export"}

\* An event names the events it is about: the review it revokes, or the reviews
\* an export cites.
Event == [kind : Operation, by : Person, option : Option \cup {Nobody},
          at : Nat, expires : Nat, names : SUBSET Nat, text : Nat]
NoEvent == [kind |-> "create", by |-> Nobody, option |-> Nobody,
            at |-> 0, expires |-> 0, names |-> {}, text |-> 0]

\* An event is judged at one time and recorded at another.
NoCall == [step |-> "idle", op |-> "create", seen |-> 0, judged |-> 0, event |-> NoEvent]

PlaybookTypeOK ==
  /\ ledger \in Seq(Event) /\ Len(ledger) <= MaxLedger
  /\ depends \in SUBSET (Option \X Option)
  /\ level \in [Person -> Level]
  /\ text \in 0 .. MaxText /\ now \in 0 .. MaxTime
  /\ \A p \in Person : /\ call[p].step \in {"idle", "admitted", "holding", "judged"}
                       /\ call[p].op \in Operation /\ call[p].seen \in 0 .. MaxLedger
  /\ audit.next \in 1 .. MaxAudit + 1
  /\ audit.open \in 0 .. audit.next - 1 /\ audit.top \in 0 .. audit.next - 1

PlaybookInit ==
  /\ ledger = <<>> /\ depends = {}
  /\ level \in [Person -> Level]
  /\ text = 1 /\ now = 0
  /\ call = [p \in Person |-> NoCall]

-----------------------------------------------------------------------------
(* The audit log: an id is drawn when an event is inserted and shows when its  *)
(* transaction commits; one transaction may hold its id back (audit.open).     *)

Recorded ==
  /\ audit.next <= MaxAudit
  /\ audit' = [audit EXCEPT !.next = @ + 1, !.top = audit.next]

-----------------------------------------------------------------------------
(* What the events say.                                                        *)

\* registry: the reviews of some events that count as active at a time.
Revoked(events) ==
  UNION {events[i].names : i \in {j \in DOMAIN events : events[j].kind = "revoke"}}
Active(events, time) ==
  {i \in DOMAIN events : /\ events[i].kind = "review"
                         /\ i \notin Revoked(events) /\ events[i].expires > time}

Applies(o, time) == From[o] <= time /\ time < Until[o]

\* evaluatePlaybook: an option is ready if it applies and exactly one active
\* review covers it, of somebody who may still review, ...
ReviewedNow(events, o, time) ==
  LET about == {i \in Active(events, time) : events[i].option = o} IN
  /\ Cardinality(about) = 1
  /\ \A i \in about : /\ level[events[i].by] = "COUNSEL"
                      /\ events[i].at <= time /\ events[i].expires > events[i].at
ReadyAlone(events, o, time) ==
  o \in Settled /\ Applies(o, time) /\ ReviewedNow(events, o, time)

\* ... and so is every option it depends on (propagate).
ReadyOptions(events, time) ==
  LET ready[n \in 0 .. Cardinality(Option)] ==
        IF n = 0 THEN {o \in Option : ReadyAlone(events, o, time)}
        ELSE {o \in ready[n - 1] : \A d \in Option : <<o, d>> \in depends => d \in ready[n - 1]}
  IN ready[Cardinality(Option)]

\* A bug: the walk is left out.
Acyclic_Direct(edges) == \A e \in edges : e[1] # e[2]

\* validatePlaybook: no option on itself, and visit, the walk along the
\* dependencies, meets no option again that it is still visiting.
Acyclic(edges) ==
  LET visit[at \in (SUBSET Option) \X Option] ==
        LET path == at[1]  o == at[2] IN
        o \notin path /\ \A d \in Option : <<o, d>> \in edges => visit[<<path \cup {o}, d>>]
  IN (\A e \in edges : e[1] # e[2]) /\ \A o \in Option : visit[<<{}, o>>]

-----------------------------------------------------------------------------
(* Calls.                                                                      *)

\* checkAuthority, before the lock is asked for.
May(p, op) ==
  \/ op = "create" /\ level[p] # "NONE"
  \/ op = "export" /\ level[p] \in {"APPROVE", "COUNSEL"}
  \/ op \in {"review", "revoke"} /\ level[p] = "COUNSEL"

Admit(p, op) ==
  /\ call[p].step = "idle" /\ May(p, op) /\ Len(ledger) < MaxLedger
  /\ call' = [call EXCEPT ![p] = [NoCall EXCEPT !.step = "admitted", !.op = op]]
  /\ UNCHANGED <<ledger, depends, level, text, now, audit>>

\* The advisory lock is taken, then the events are read.
Hold(p) ==
  /\ call[p].step = "admitted"
  /\ \A q \in Person : call[q].step \notin {"holding", "judged"}
  /\ call' = [call EXCEPT ![p].step = "holding", ![p].seen = Len(ledger)]
  /\ UNCHANGED <<ledger, depends, level, text, now, audit>>

Seen(p) == SubSeq(ledger, 1, call[p].seen)
Created(events) == events # <<>> /\ events[1].kind = "create"

\* A bug: the event does not say who acted.
Judge_Anonymous(p, e) ==
  /\ call[p].step = "holding" /\ text # 0
  /\ call' = [call EXCEPT ![p].step = "judged", ![p].judged = now,
                ![p].event = [e EXCEPT !.kind = call[p].op, !.text = text]]
  /\ UNCHANGED <<ledger, depends, level, text, now, audit>>

\* loadCatalog and checkedBook: the source still has the text of the book.
Judge(p, e) ==
  /\ call[p].step = "holding" /\ text # 0
  /\ call' = [call EXCEPT ![p].step = "judged", ![p].judged = now,
                ![p].event = [e EXCEPT !.by = p, !.kind = call[p].op, !.text = text]]
  /\ UNCHANGED <<ledger, depends, level, text, now, audit>>
SameText(p) == Created(Seen(p)) /\ Seen(p)[1].text = text

JudgeCreate(p) ==
  /\ call[p].op = "create" /\ ~Created(Seen(p))
  /\ Judge(p, NoEvent)

\* A bug: an option that has an active review may get another one.
JudgeReview_Again(p) ==
  /\ call[p].op = "review" /\ SameText(p)
  /\ \E o \in Settled : \E until \in now + 1 .. Until[o] :
       /\ Applies(o, now)
       /\ Judge(p, [NoEvent EXCEPT !.option = o, !.expires = until])

JudgeReview(p) ==
  /\ call[p].op = "review" /\ SameText(p)
  /\ \E o \in Settled : \E until \in now + 1 .. Until[o] :
       /\ Applies(o, now)
       /\ ~\E i \in Active(Seen(p), now) : Seen(p)[i].option = o
       /\ Judge(p, [NoEvent EXCEPT !.option = o, !.expires = until])

\* A bug: any review may be revoked, active or not.
JudgeRevoke_AnyReview(p) ==
  /\ call[p].op = "revoke" /\ SameText(p)
  /\ \E i \in DOMAIN Seen(p) : /\ Seen(p)[i].kind = "review"
                               /\ Judge(p, [NoEvent EXCEPT !.names = {i}])

JudgeRevoke(p) ==
  /\ call[p].op = "revoke" /\ SameText(p)
  /\ \E i \in Active(Seen(p), now) : Judge(p, [NoEvent EXCEPT !.names = {i}])

\* The receipt cites the active reviews whose reviewers may still review.
JudgeExport(p) ==
  /\ call[p].op = "export" /\ SameText(p)
  /\ ReadyOptions(Seen(p), now) = Option
  /\ Judge(p, [NoEvent EXCEPT !.names =
       {i \in Active(Seen(p), now) : level[Seen(p)[i].by] = "COUNSEL"}])

\* The event gets the time of the database; the commit frees the locks.
Append1(p) ==
  /\ call[p].step = "judged" /\ Len(ledger) < MaxLedger
  /\ ledger' = Append(ledger, [call[p].event EXCEPT !.at = now])
  /\ \/ /\ call[p].op = "create"
        /\ depends' \in {edges \in SUBSET (Option \X Option) : Acyclic(edges)}
     \/ call[p].op # "create" /\ UNCHANGED depends
  /\ call' = [call EXCEPT ![p] = NoCall]
  /\ Recorded
  /\ UNCHANGED <<level, text, now>>

\* Refused, evaluated only, or failed: rolled back.
GiveUp(p) ==
  /\ call[p].step # "idle"
  /\ call' = [call EXCEPT ![p] = NoCall]
  /\ UNCHANGED <<ledger, depends, level, text, now, audit>>

-----------------------------------------------------------------------------
(* Around the calls.                                                           *)

\* The rows a call has read for share, its caller's and, in an export, those of
\* the reviewers.
Reviewers(p) == {ledger[i].by : i \in call[p].event.names \cap DOMAIN ledger}
AuthorityLocked(p) ==
  \/ call[p].step # "idle"
  \/ \E q \in Person : /\ call[q].step = "judged" /\ call[q].op = "export"
                       /\ p \in Reviewers(q)

\* A bug: the authority of reviewers is read without a lock.
SetLevel_Unlocked(p, l) ==
  /\ level[p] # l /\ call[p].step = "idle"
  /\ level' = [level EXCEPT ![p] = l]
  /\ UNCHANGED <<ledger, depends, text, now, call, audit>>

\* Roles, memberships and capabilities change.
SetLevel(p, l) ==
  /\ level[p] # l /\ ~AuthorityLocked(p)
  /\ level' = [level EXCEPT ![p] = l]
  /\ UNCHANGED <<ledger, depends, text, now, call, audit>>

\* The source is extracted anew, withheld or purged.
SetText(t) ==
  /\ t \in {0, text + 1} /\ t <= MaxText /\ text # 0
  /\ \A p \in Person : call[p].step # "judged"
  /\ text' = t
  /\ UNCHANGED <<ledger, depends, level, now, call, audit>>

Tick ==
  /\ now < MaxTime /\ now' = now + 1
  /\ UNCHANGED <<ledger, depends, level, text, call, audit>>

PlaybookNext ==
  \/ \E p \in Person :
       \/ \E op \in Operation : Admit(p, op)
       \/ Hold(p) \/ JudgeCreate(p) \/ JudgeReview(p) \/ JudgeRevoke(p)
       \/ JudgeExport(p) \/ Append1(p) \/ GiveUp(p)
       \/ \E l \in Level : SetLevel(p, l)
  \/ \E t \in 0 .. MaxText : SetText(t)
  \/ Tick

-----------------------------------------------------------------------------
(* Properties.                                                                 *)

\* What an export promises (docs/playbook-integration.md): when it is recorded,
\* every option has a review among those it cites that nobody has revoked, that
\* was in force when the export was judged, of the text the source still has,
\* and whose reviewer still is counsel.
ExportStandsOnLiveReviews ==
  [][\A p \in Person :
       call[p].step = "judged" /\ call[p].op = "export" /\ Len(ledger') > Len(ledger)
         /\ ledger'[Len(ledger')].by = p
       => \A o \in Option : \E i \in call[p].event.names :
            /\ ledger[i].option = o /\ i \notin Revoked(ledger)
            /\ ledger[i].at <= call[p].judged
            /\ call[p].judged < ledger[i].expires
            /\ ledger[i].text = text
            /\ level[ledger[i].by] = "COUNSEL"]_<<ledger, call>>

\* An option never has two reviews in force, although calls overlap and the time
\* of a review is not the time it was judged at; evaluation would take two for
\* an ambiguity and block the book.
OneLiveReview ==
  \A i, j \in Active(ledger, now) : ledger[i].option = ledger[j].option => i = j

\* A review is revoked once, while it was in force: the log never tells of two
\* people who each ended it.
RevokedOnce ==
  \A i, j \in DOMAIN ledger :
    /\ ledger[i].kind = "revoke" /\ ledger[j].kind = "revoke" /\ i # j
    => ledger[i].names \cap ledger[j].names = {}

\* No book enters whose options depend on each other in a circle: some option
\* of any set of them depends on none in the set.
NoCircle ==
  \A options \in (SUBSET Option) \ {{}} :
    \E o \in options : \A d \in options : <<o, d>> \notin depends

\* What the log says of a book is free of contradiction, whoever writes at the
\* same time (service.mjs:69-97, kernel.mjs:77-84).
CatalogIsSound == PlaybookTypeOK /\ OneLiveReview /\ RevokedOnce /\ NoCircle

=============================================================================
