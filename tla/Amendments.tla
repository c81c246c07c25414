------------------------------ MODULE Amendments ------------------------------
(* Which text of an agreement is in force after its amendments: the ledger of  *)
(* the reading service (contracttwin/precedence.py, pipeline.py).  Sections    *)
(* and replacements are those the patterns of segment.py and precedence.py     *)
(* find; what a text says is left out, so a text is named by where it comes    *)
(* from: the k-th section of the base or the k-th replacement of an amendment. *)
(* Warnings are left out.                                                      *)
EXTENDS Naturals, Sequences, FiniteSets, SequencesExt

CONSTANTS
  Undated,     \* no effective_date was typed in with an amendment
  LastKey      \* the place of "9999-12-31" among the typed dates

ASSUME DatesAssumption == LastKey \in Nat

\* The agreement of a request: the sections of the base, and the amendments with
\* the replacements in the order of their text.  A typed date is the day it means
\* and the place of its spelling among the strings: strptime takes 2025-9-1 as
\* well as 2025-09-01, and the sort compares the strings.
Replacement(section, empty) == [section |-> section, empty |-> empty]
AmendmentOf(name, date, ops) == [name |-> name, date |-> date, ops |-> ops]

IsList(s) == s \in Seq(ToSet(s))
IsAgreement(agreement) ==
  /\ IsList(agreement.base) /\ IsList(agreement.amendments)
  /\ \A i \in DOMAIN agreement.amendments :
       LET ops == agreement.amendments[i].ops
       IN IsList(ops) /\ \A k \in DOMAIN ops : ops[k].empty \in BOOLEAN

\* A section version: text k of document doc (0 is the base), superseded by a
\* later document or not at all.
Version(section, doc, k) ==
  [section |-> section, doc |-> doc, text |-> k, operative |-> TRUE, by |-> 0]

SortKey(amendment) == IF amendment.date = Undated THEN LastKey ELSE amendment.date.key

\* A bug: the order of the upload is taken for the order of the amendments.
Order_AsGiven(amendments) == [i \in DOMAIN amendments |-> i]

\* By typed date, undated ones last, and as given where that does not decide:
\* in each place the amendment with as many earlier ones.
Earlier(amendments, i, j) ==
  \/ SortKey(amendments[i]) < SortKey(amendments[j])
  \/ SortKey(amendments[i]) = SortKey(amendments[j]) /\ i < j
Order(amendments) ==
  LET Place(i) == Cardinality({j \in DOMAIN amendments : Earlier(amendments, j, i)}) + 1
  IN [n \in DOMAIN amendments |-> CHOOSE i \in DOMAIN amendments : Place(i) = n]

\* The text in force for the section stays, no longer operative; a section the
\* base does not have is added.
Replace(ledger, section, doc, k) ==
  [v \in DOMAIN ledger |->
     IF ledger[v].section = section /\ ledger[v].operative
       THEN [ledger[v] EXCEPT !.operative = FALSE, !.by = doc]
       ELSE ledger[v]]
    \o <<Version(section, doc, k)>>

\* The replacements of one amendment, in the order of its text; an empty one is
\* left out.
Apply(ledger, doc, ops) ==
  LET applied[k \in 0 .. Len(ops)] ==
        IF k = 0 THEN ledger
        ELSE IF ops[k].empty THEN applied[k - 1]
        ELSE Replace(applied[k - 1], ops[k].section, doc, k)
  IN applied[Len(ops)]

\* The sections of the base, and then the amendments in their order.
BaseLedger(base) == [k \in DOMAIN base |-> Version(base[k], 0, k)]
BuildLedger(agreement) ==
  LET order == Order(agreement.amendments)
      built[n \in 0 .. Len(order)] ==
        IF n = 0 THEN BaseLedger(agreement.base)
        ELSE Apply(built[n - 1], order[n], agreement.amendments[order[n]].ops)
  IN built[Len(order)]

-----------------------------------------------------------------------------
(* What the ledger is for.                                                     *)

\* i is applied before j: "from earliest date you type in to the latest", the
\* undated after the dated ones (contracttwin/README.md:103, precedence.py:91).
Before(amendments, i, j) ==
  LET a == amendments[i].date  b == amendments[j].date
  IN IF a = Undated \/ b = Undated
       THEN (a # Undated /\ b = Undated) \/ (a = b /\ i < j)
       ELSE a.day < b.day \/ (a.day = b.day /\ i < j)

\* The dates of an agreement are typed alike: their spellings sort as the days they
\* mean, and before the last one.
WellDated(agreement) ==
  LET dates == {agreement.amendments[i].date : i \in DOMAIN agreement.amendments} \ {Undated}
  IN \A a, b \in dates :
       /\ a.key \in 0 .. LastKey - 1 /\ a.day \in Nat
       /\ a.day < b.day <=> a.key < b.key

\* The last text of all those an agreement has for a section.
Texts(agreement, section) ==
  {<<0, k>> : k \in {n \in DOMAIN agreement.base : agreement.base[n] = section}}
    \cup UNION {{<<i, k>> : k \in {n \in DOMAIN agreement.amendments[i].ops :
                                     /\ agreement.amendments[i].ops[n].section = section
                                     /\ ~agreement.amendments[i].ops[n].empty}}
                : i \in DOMAIN agreement.amendments}
Later(agreement, t, u) ==
  \/ t[1] # 0 /\ u[1] = 0
  \/ t[1] # 0 /\ u[1] # 0 /\ t[1] # u[1] /\ Before(agreement.amendments, u[1], t[1])
  \/ t[1] # 0 /\ t[1] = u[1] /\ t[2] > u[2]

\* The ledger keeps every text once, those with no later text for their section
\* are the operative ones, and the others name a document with a later one.
Resolves(agreement, ledger) ==
  /\ \A v, w \in DOMAIN ledger :
       (ledger[v].doc = ledger[w].doc /\ ledger[v].text = ledger[w].text) => v = w
  /\ \A section \in {ledger[v].section : v \in DOMAIN ledger} \cup ToSet(agreement.base) :
       LET texts == Texts(agreement, section)
           of == {v \in DOMAIN ledger : ledger[v].section = section}
       IN /\ {<<ledger[v].doc, ledger[v].text>> : v \in of} = texts
          /\ \A v \in of :
               LET later == {u \in texts : Later(agreement, u, <<ledger[v].doc, ledger[v].text>>)}
               IN /\ ledger[v].operative <=> later = {}
                  /\ ~ledger[v].operative => ledger[v].by \in {u[1] : u \in later}
===============================================================================
