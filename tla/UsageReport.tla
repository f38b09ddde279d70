----------------------------- MODULE UsageReport -----------------------------
(* The pages of GET /api/observability/usage (ObservabilityService) while   *)
(* calls go on being recorded: a client reads them one after the other, each *)
(* with LIMIT and OFFSET on the records in descending order of created_at.   *)
EXTENDS ModelGateway

CONSTANT PageSize   \* limit of a page

ASSUME PageAssumption == PageSize \in Nat \ {0}

VARIABLES reading,  \* the client: "no", "yes" or "done"
          offset,   \* of its next page
          base,     \* history: records there were when it began
          seen      \* history: records it has been given

reportVars == <<reading, offset, base, seen>>

ReportTypeOK ==
  /\ reading \in {"no", "yes", "done"} /\ offset \in Nat
  /\ base \subseteq Records /\ seen \subseteq Records

ReportInit == reading = "no" /\ offset = 0 /\ base = {} /\ seen = {}

AnyOf(S, n) ==                                 \* mutant: no ORDER BY
  {T \in SUBSET S : Cardinality(T) = (IF Cardinality(S) < n THEN Cardinality(S) ELSE n)}

\* The newest n records of S; which of those of one time are taken is open, and
\* may differ from query to query.
Newest(S, n) ==
  {T \in SUBSET S :
     /\ Cardinality(T) = (IF Cardinality(S) < n THEN Cardinality(S) ELSE n)
     /\ \A t \in T, s \in S \ T : t.at >= s.at}

Pages == UNION {Newest(ledger \ before, PageSize) : before \in Newest(ledger, offset)}

Open == reading = "no" /\ reading' = "yes" /\ base' = ledger /\ UNCHANGED <<offset, seen>>

\* A page, and the next one unless this is the last.
Turn ==
  /\ reading = "yes"
  /\ \E page \in Pages :
       /\ seen' = seen \cup page
       /\ reading' = IF Cardinality(page) < PageSize THEN "done" ELSE "yes"
  /\ offset' = offset + PageSize
  /\ UNCHANGED base

Read == Open \/ Turn

\* A record that was there when the client began is skipped only if another one
\* has the same created_at: records that come in between shift the pages, but
\* only towards the end (list_usage orders by created_at and nothing else).
PagesComplete ==
  reading = "done" =>
    \A r \in base \ seen : \E s \in ledger \ {r} : s.at = r.at
=============================================================================
