---- MODULE FinancialReportsProofs ----
(***************************************************************************)
(* Theorems about FinancialReports, for any uploads, applications, number  *)
(* of requests and retries: a period counts once, an accepted report is    *)
(* only replaced by a request that named it, and the amounts stored of it  *)
(* can always be summed.                                                   *)
(***************************************************************************)
EXTENDS FinancialReports, SequenceTheorems, FiniteSetTheorems, WellFoundedInduction, TLAPS

--------------------------------------------------------------------------------
(* The inductive invariant.                                                  *)

\* A row of financial_report_imports.
ImportRow(row) ==
    row = [provider |-> row.provider, period |-> row.period, file |-> row.file,
           status |-> row.status, supersedes |-> row.supersedes, amounts |-> row.amounts]

ImportTable(rows) == rows \in Seq(Range(rows)) /\ \A i \in DOMAIN rows : ImportRow(rows[i])

\* What no transaction changes of a row: its provider, its period and its file.
SameReport(row, other) == SameScope(row, other) /\ row.file = other.file

\* An accepted row's amounts are the draft's, for the applications its transaction saw.
Resolves(row, apps, draft) == row.status = "accepted" => row.amounts = resolveFinancialReportAmounts(apps, draft)

\* A transaction under way: a draft the service accepts, and a snapshot of rows that
\* the table has still.
Underway(q, rows) ==
    /\ q = [pc |-> "tx", target |-> q.target, draft |-> q.draft, attempt |-> q.attempt,
            snapshot |-> q.snapshot, apps |-> q.apps]
    /\ q.target \in Nat
    /\ q.draft.status \in {"accepted", "unrecognized"}
    /\ q.target # NoTarget => q.draft.status = "accepted"
    /\ ImportTable(q.snapshot) /\ Len(q.snapshot) <= Len(rows)
    /\ \A i \in DOMAIN q.snapshot : SameReport(q.snapshot[i], rows[i])

TypeOK ==
    /\ ImportTable(imports)
    /\ request = [r \in Requests |-> request[r]]
    /\ \A r \in Requests : request[r].pc = "tx" => Underway(request[r], imports)

IInv == TypeOK /\ PeriodCountsOnce

--------------------------------------------------------------------------------
(* Tables of rows.                                                           *)

LEMMA TableDomain ==
    ASSUME NEW rows, ImportTable(rows)
    PROVE  Len(rows) \in Nat /\ DOMAIN rows = 1..Len(rows) /\ \A i \in DOMAIN rows : ImportRow(rows[i])
BY DEF ImportTable

\* A table of n rows, given row by row.
LEMMA TableMade ==
    ASSUME NEW rows, NEW n \in Nat, rows = [i \in 1..n |-> rows[i]], \A i \in 1..n : ImportRow(rows[i])
    PROVE  ImportTable(rows) /\ Len(rows) = n /\ DOMAIN rows = 1..n
<1>1. DOMAIN rows = 1..n
  OBVIOUS
<1>2. rows \in [1..n -> Range(rows)]
  BY <1>1 DEF Range
<1>3. rows \in Seq(Range(rows)) /\ Len(rows) = n
  BY <1>2
<1>4. QED
  BY <1>1, <1>3 DEF ImportTable

\* A new row, and what a row becomes when it is marked or revived.
LEMMA NewRow ==
    ASSUME NEW apps, NEW draft, NEW target, NEW row, row = NewImport(apps, draft, target)
    PROVE  /\ ImportRow(row) /\ SameReport(row, draft) /\ row.status = draft.status /\ Resolves(row, apps, draft)
           /\ row.supersedes = target /\ Resolves(row, apps, draft)
BY DEF NewImport, ImportRow, SameReport, SameScope, Resolves

LEMMA MarkedRow ==
    ASSUME NEW old, ImportRow(old)
    PROVE  /\ ImportRow(markFinancialReportSuperseded(old))
           /\ SameReport(markFinancialReportSuperseded(old), old)
           /\ markFinancialReportSuperseded(old).status = "superseded"
<1>1. PICK none : none = << >>
  OBVIOUS
<1>2. PICK row : row = markFinancialReportSuperseded(old)
  OBVIOUS
<1>3. row = [old EXCEPT !.status = "superseded", !.amounts = none]
  BY <1>1, <1>2 DEF markFinancialReportSuperseded
<1>4. row = [provider |-> old.provider, period |-> old.period, file |-> old.file,
             status |-> "superseded", supersedes |-> old.supersedes, amounts |-> none]
  BY <1>3 DEF ImportRow
<1>5. ImportRow(row) /\ SameReport(row, old) /\ row.status = "superseded"
  BY <1>4 DEF ImportRow, SameReport, SameScope
<1>6. QED
  BY <1>2, <1>5

LEMMA RevivedRow ==
    ASSUME NEW old, ImportRow(old), NEW apps, NEW draft, NEW target
    PROVE  /\ ImportRow(reviveFinancialReport(old, apps, draft, target))
           /\ SameReport(reviveFinancialReport(old, apps, draft, target), old)
           /\ reviveFinancialReport(old, apps, draft, target).status = "accepted"
           /\ reviveFinancialReport(old, apps, draft, target).supersedes = target
           /\ Resolves(reviveFinancialReport(old, apps, draft, target), apps, draft)
<1>1. PICK amounts : amounts = resolveFinancialReportAmounts(apps, draft)
  OBVIOUS
<1>2. PICK row : row = reviveFinancialReport(old, apps, draft, target)
  OBVIOUS
<1>3. row = [old EXCEPT !.status = "accepted", !.supersedes = target, !.amounts = amounts]
  BY <1>1, <1>2 DEF reviveFinancialReport
<1>4. row = [provider |-> old.provider, period |-> old.period, file |-> old.file,
             status |-> "accepted", supersedes |-> target, amounts |-> amounts]
  BY <1>3 DEF ImportRow
<1>5. ImportRow(row) /\ SameReport(row, old) /\ row.status = "accepted" /\ row.supersedes = target
      /\ Resolves(row, apps, draft)
  BY <1>1, <1>4 DEF ImportRow, SameReport, SameScope, Resolves
<1>6. QED
  BY <1>2, <1>5

--------------------------------------------------------------------------------
(* What a transaction makes of its snapshot.                                 *)

\* The rows of a result: as they were; one appended for a period and file that are new; one
\* appended in place of the named one; or an older one revived in its place.
Appends(rows, apps, draft, made) ==
    /\ findFinancialReportByDigest(rows, draft) = {}
    /\ draft.status = "accepted" => Occupied(rows, draft) = {}
    /\ made = Append(rows, NewImport(apps, draft, NoTarget))

Names(rows, draft, target) ==
    target \in DOMAIN rows /\ rows[target].status = "accepted" /\ SameScope(rows[target], draft)

Marked(rows, target) == [rows EXCEPT ![target] = markFinancialReportSuperseded(@)]

Replaces(rows, apps, draft, target, made) ==
    /\ Names(rows, draft, target)
    /\ findFinancialReportByDigest(rows, draft) = {}
    /\ made = Append(Marked(rows, target), NewImport(apps, draft, target))

Revives(rows, apps, draft, target, older, made) ==
    /\ Names(rows, draft, target)
    /\ older \in findFinancialReportByDigest(rows, draft) /\ older # target
    /\ made = [Marked(rows, target) EXCEPT ![older] = reviveFinancialReport(@, apps, draft, target)]

LEMMA BodyResult ==
    ASSUME NEW r, NEW q, q = request[r]
    PROVE  LET made == Body(r).rows
           IN  \/ made = q.snapshot
               \/ q.target = NoTarget /\ Appends(q.snapshot, q.apps, q.draft, made)
               \/ q.target # NoTarget /\ Replaces(q.snapshot, q.apps, q.draft, q.target, made)
               \/ q.target # NoTarget
                  /\ \E older : Revives(q.snapshot, q.apps, q.draft, q.target, older, made)
<1>1. PICK rows, apps, draft, target :
          rows = q.snapshot /\ apps = q.apps /\ draft = q.draft /\ target = q.target
  OBVIOUS
<1>2. PICK saved : saved = saveFinancialReport(rows, apps, draft)
  OBVIOUS
<1>3. saved.rows = rows \/ Appends(rows, apps, draft, saved.rows)
  BY <1>2 DEF saveFinancialReport, Appends, Result
<1>4. PICK superseded : superseded = supersedeFinancialReport(rows, apps, draft, target)
  OBVIOUS
<1>5. \/ superseded.rows = rows \/ Replaces(rows, apps, draft, target, superseded.rows)
      \/ \E older : Revives(rows, apps, draft, target, older, superseded.rows)
  <2>1. CASE ~Names(rows, draft, target)
    BY <1>4, <2>1 DEF supersedeFinancialReport, Names, Result
  <2>2. CASE Names(rows, draft, target)
    <3>1. PICK existing : existing = findFinancialReportByDigest(rows, draft)
      OBVIOUS
    <3>2. PICK older : older = CHOOSE i \in existing : TRUE
      OBVIOUS
    <3>3. superseded = IF existing = {}
                       THEN Result(Append(Marked(rows, target), NewImport(apps, draft, target)), "created")
                       ELSE IF older = target THEN Result(rows, "existing")
                       ELSE Result([Marked(rows, target) EXCEPT ![older] = reviveFinancialReport(@, apps, draft, target)],
                                   "created")
      BY <1>4, <2>2, <3>1, <3>2 DEF supersedeFinancialReport, Names, Marked
    <3>4. existing # {} => older \in existing
      BY <3>2
    <3>5. QED
      BY <2>2, <3>1, <3>3, <3>4 DEF Replaces, Revives, Result
  <2>3. QED
    BY <2>1, <2>2
<1>6. \/ Body(r).rows = rows
      \/ target = NoTarget /\ Body(r).rows = saved.rows
      \/ target # NoTarget /\ Body(r).rows = superseded.rows
  BY <1>1, <1>2, <1>4 DEF Body, Result
<1>7. QED
  BY <1>1, <1>3, <1>5, <1>6

\* A snapshot whose period has not changed since shows the rows of that period, and the row
\* the request names, as they are.
LEMMA FreshSnapshot ==
    ASSUME NEW r, NEW q, q = request[r], Underway(q, imports), ~Stale(r)
    PROVE  /\ \A i \in DOMAIN imports : SameScope(imports[i], q.draft) \/ i = q.target =>
                  i \in DOMAIN q.snapshot /\ q.snapshot[i] = imports[i]
           /\ \A i \in DOMAIN q.snapshot : SameScope(q.snapshot[i], q.draft) \/ i = q.target =>
                  i \in DOMAIN imports /\ q.snapshot[i] = imports[i]
<1> DEFINE In(rows) == {j \in DOMAIN rows : SameScope(rows[j], q.draft) \/ j = q.target}
           seen(rows) == {<<i, rows[i]>> : i \in In(rows)}
<1>1. seen(q.snapshot) = seen(imports)
  BY DEF Stale
<1>2. ASSUME NEW rows, NEW other, seen(rows) = seen(other), NEW i \in In(rows)
      PROVE  i \in DOMAIN other /\ rows[i] = other[i]
  <2>1. <<i, rows[i]>> \in seen(other)
    BY <1>2
  <2>2. PICK j \in In(other) : <<i, rows[i]>> = <<j, other[j]>>
    BY <2>1
  <2>3. i = j /\ rows[i] = other[j]
    BY <2>2
  <2>4. QED
    BY <2>2, <2>3
<1>3. \A i \in In(imports) : i \in DOMAIN q.snapshot /\ imports[i] = q.snapshot[i]
  <2> HIDE DEF seen
  <2>1. QED
    BY <1>1, <1>2
<1>4. \A i \in In(q.snapshot) : i \in DOMAIN imports /\ imports[i] = q.snapshot[i]
  <2> HIDE DEF seen
  <2>1. QED
    BY <1>1, <1>2
<1>5. QED
  BY <1>3, <1>4

\* What a committed transaction may do to the table: nothing; append a row whose period and
\* file are new; or make the named row a superseded one and put the draft's file, in a new
\* or an older row j, in its place.
Adds(apps, draft) ==
    LET n == Len(imports) + 1
    IN  /\ \A i \in DOMAIN imports : SameScope(imports[i], draft) =>
               /\ imports[i].file # draft.file
               /\ ~(draft.status = "accepted" /\ imports[i].status = "accepted")
        /\ DOMAIN imports' = 1..n /\ ImportTable(imports') /\ Len(imports') = n
        /\ \A i \in DOMAIN imports : imports'[i] = imports[i]
        /\ SameReport(imports'[n], draft) /\ imports'[n].status = draft.status /\ Resolves(imports'[n], apps, draft)

Supersedes(apps, draft, target, j) ==
    /\ target \in DOMAIN imports /\ imports[target].status = "accepted"
    /\ SameScope(imports[target], draft) /\ j # target /\ j \in 1..(Len(imports) + 1)
    /\ ImportTable(imports') /\ Len(imports') \in Nat
    /\ DOMAIN imports' = DOMAIN imports \cup {j} /\ DOMAIN imports' = 1..Len(imports')
    /\ \A i \in DOMAIN imports \ {target, j} : imports'[i] = imports[i]
    /\ SameReport(imports'[target], imports[target]) /\ imports'[target].status = "superseded"
    /\ SameReport(imports'[j], draft) /\ imports'[j].status = "accepted" /\ imports'[j].supersedes = target
    /\ Resolves(imports'[j], apps, draft)
    /\ IF j \in DOMAIN imports THEN SameReport(imports[j], draft)
       ELSE \A i \in DOMAIN imports : SameScope(imports[i], draft) => imports[i].file # draft.file

\* The committed table as Commit composes it.
Committed(seen, made) ==
    imports' = [i \in DOMAIN imports |->
                   IF i \in DOMAIN seen /\ made[i] # seen[i] THEN made[i] ELSE imports[i]]
               \o SubSeq(made, Len(seen) + 1, Len(made))

\* A sequence and the end, of one element or none, of another one.
Joins(S, g, made, b, m, whole) ==
    /\ g \in Seq(S) /\ made \in Seq(S) /\ b \in Nat /\ m \in Nat /\ m = Len(made) /\ (m = b \/ m = b + 1)
    /\ whole = g \o SubSeq(made, b + 1, m)

JoinedRows(S, g, made, b, m, whole) ==
    /\ whole \in Seq(S) /\ Len(whole) = Len(g) + (m - b)
    /\ \A i \in 1..Len(g) : whole[i] = g[i]
    /\ m = b + 1 => whole[Len(g) + 1] = made[m]

LEMMA Joined ==
    ASSUME NEW S, NEW g, NEW made, NEW b, NEW m, NEW whole, Joins(S, g, made, b, m, whole)
    PROVE  JoinedRows(S, g, made, b, m, whole)
<1> USE DEF Joins
<1>1. \A i \in (b + 1)..m : made[i] \in S
  <2> SUFFICES ASSUME NEW i \in (b + 1)..m PROVE made[i] \in S
    OBVIOUS
  <2>1. i \in 1..Len(made)
    OBVIOUS
  <2>2. QED
    BY <2>1, ElementOfSeq
<1>2. PICK t : t = SubSeq(made, b + 1, m)
  OBVIOUS
<1>3. /\ t \in Seq(S) /\ Len(t) = IF b + 1 <= m THEN m - (b + 1) + 1 ELSE 0
      /\ \A i \in 1..(m - (b + 1) + 1) : t[i] = made[(b + 1) + i - 1]
  BY <1>1, <1>2, SubSeqProperties
<1>4. Len(t) = m - b /\ (m = b + 1 => t[1] = made[m])
  BY <1>3
<1>5. whole = g \o t /\ Len(g) \in Nat
  BY <1>2, LenProperties
<1>6. /\ whole \in Seq(S) /\ Len(whole) = Len(g) + Len(t)
      /\ \A i \in 1..(Len(g) + Len(t)) : whole[i] = IF i <= Len(g) THEN g[i] ELSE t[i - Len(g)]
  BY <1>3, <1>5, ConcatProperties
<1>7. m = b + 1 => whole[Len(g) + 1] = t[1]
  BY <1>4, <1>5, <1>6
<1>8. \A i \in 1..Len(g) : whole[i] = g[i]
  BY <1>4, <1>5, <1>6
<1>9. QED
  BY <1>4, <1>6, <1>7, <1>8 DEF JoinedRows

\* The committed table, row by row.
CommitsTo(seen, made, k, b, m) ==
    /\ ImportTable(imports) /\ ImportTable(seen) /\ ImportTable(made)
    /\ k \in Nat /\ k = Len(imports) /\ b \in Nat /\ b = Len(seen) /\ m \in Nat /\ m = Len(made)
    /\ b <= k /\ (m = b \/ m = b + 1) /\ Committed(seen, made)

CommittedAs(seen, made, k, b, m) ==
    LET n == k + (m - b)
    IN  /\ ImportTable(imports') /\ Len(imports') = n /\ DOMAIN imports' = 1..n
        /\ \A i \in 1..k : imports'[i] = IF i \in 1..b /\ made[i] # seen[i] THEN made[i] ELSE imports[i]
        /\ m = b + 1 => imports'[n] = made[m]

LEMMA CommittedRows ==
    ASSUME NEW seen, NEW made, NEW k, NEW b, NEW m, CommitsTo(seen, made, k, b, m)
    PROVE  CommittedAs(seen, made, k, b, m)
<1>0. PICK n : n = k + (m - b)
  OBVIOUS
<1>p. /\ ImportTable(imports) /\ ImportTable(seen) /\ ImportTable(made)
      /\ k \in Nat /\ k = Len(imports) /\ b \in Nat /\ b = Len(seen) /\ m \in Nat /\ m = Len(made)
      /\ b <= k /\ (m = b \/ m = b + 1) /\ Committed(seen, made)
  BY DEF CommitsTo
<1> USE <1>0, <1>p
<1> DEFINE f == [i \in 1..k |-> IF i \in 1..b /\ made[i] # seen[i] THEN made[i] ELSE imports[i]]
<1>1. /\ DOMAIN imports = 1..k /\ DOMAIN seen = 1..b /\ DOMAIN made = 1..m
      /\ \A i \in 1..k : ImportRow(imports[i])
      /\ \A i \in 1..m : ImportRow(made[i])
  BY TableDomain
<1>2. \A i \in 1..k : ImportRow(f[i])
  <2> SUFFICES ASSUME NEW i \in 1..k PROVE ImportRow(IF i \in 1..b /\ made[i] # seen[i] THEN made[i] ELSE imports[i])
    OBVIOUS
  <2>1. i \in 1..b => i \in 1..m
    OBVIOUS
  <2>2. QED
    BY <1>1, <2>1
<1>3. PICK g : g = f
  OBVIOUS
<1>4. imports' = g \o SubSeq(made, b + 1, m)
  BY <1>1, <1>3 DEF Committed
<1>5. PICK S : S = Range(g) \cup Range(made)
  OBVIOUS
<1>6. g \in Seq(S) /\ Len(g) = k
  <2>1. g = [i \in 1..k |-> g[i]]
    BY <1>3
  <2>2. \A i \in 1..k : g[i] \in S
    BY <1>5, <2>1 DEF Range
  <2>3. g \in [1..k -> S]
    BY <2>1, <2>2
  <2>4. QED
    BY <2>3
<1>7. made \in Seq(S)
  <2>1. made \in Seq(Range(made)) /\ Range(made) \subseteq S
    BY <1>5 DEF ImportTable
  <2>2. QED
    BY <2>1
<1>8. PICK whole : whole = imports'
  OBVIOUS
<1>9. /\ whole \in Seq(S) /\ Len(whole) = Len(g) + (m - b)
      /\ \A i \in 1..Len(g) : whole[i] = g[i]
      /\ m = b + 1 => whole[Len(g) + 1] = made[m]
  <2>1. whole = g \o SubSeq(made, b + 1, m)
    BY <1>4, <1>8
  <2> HIDE DEF f
  <2>2. g \in Seq(S) /\ made \in Seq(S) /\ m = Len(made)
    BY <1>6, <1>7
  <2>3. Joins(S, g, made, b, m, whole)
    BY <2>1, <2>2 DEF Joins
  <2>4. JoinedRows(S, g, made, b, m, whole)
    BY <2>3, Joined
  <2>5. QED
    BY <2>4 DEF JoinedRows
<1>10. n \in Nat /\ Len(whole) = n /\ (m = b + 1 => n = k + 1)
  <2>1. Len(whole) = k + (m - b)
    BY <1>6, <1>9
  <2>2. Len(whole) = n
    BY <2>1
  <2>3. n \in Nat
    <3>1. CASE m = b
      BY <3>1
    <3>2. CASE m = b + 1
      BY <3>2
    <3>3. QED
      BY <3>1, <3>2
  <2>4. m = b + 1 => n = k + 1
    OBVIOUS
  <2>5. QED
    BY <2>2, <2>3, <2>4
<1>11. DOMAIN whole = 1..n /\ whole = [i \in 1..n |-> whole[i]]
  BY <1>9, <1>10
<1>12. \A i \in 1..n : ImportRow(whole[i])
  <2> SUFFICES ASSUME NEW i \in 1..n PROVE ImportRow(whole[i])
    OBVIOUS
  <2>1. CASE i \in 1..k
    <3>1. whole[i] = g[i] /\ ImportRow(g[i])
      BY <1>2, <1>3, <1>6, <1>9, <2>1
    <3>2. QED
      BY <3>1
  <2>2. CASE i \notin 1..k
    <3>1. i = k + 1 /\ m = b + 1 /\ m \in 1..m
      BY <2>2
    <3>2. whole[i] = made[m]
      BY <1>6, <1>9, <3>1
    <3>3. QED
      BY <1>1, <3>1, <3>2
  <2>3. QED
    BY <2>1, <2>2
<1>13. ImportTable(whole)
  BY <1>10, <1>11, <1>12, TableMade
<1>14. \A i \in 1..k : whole[i] = f[i]
  BY <1>3, <1>6, <1>9
<1>15. m = b + 1 => whole[n] = made[m]
  BY <1>6, <1>9, <1>10
<1>16. QED
  BY <1>8, <1>10, <1>11, <1>13, <1>14, <1>15 DEF CommittedAs

\* Tables with a row appended or replaced.
LEMMA AppendedTable ==
    ASSUME NEW rows, ImportTable(rows), NEW row, ImportRow(row)
    PROVE  /\ ImportTable(Append(rows, row)) /\ Len(Append(rows, row)) = Len(rows) + 1
           /\ \A i \in 1..Len(rows) : Append(rows, row)[i] = rows[i]
           /\ Append(rows, row)[Len(rows) + 1] = row
<1>1. PICK n : n = Len(rows)
  OBVIOUS
<1>2. n \in Nat /\ \A i \in 1..n : ImportRow(rows[i])
  BY <1>1, TableDomain
<1>3. PICK S : S = Range(rows) \cup {row}
  OBVIOUS
<1>4. rows \in Seq(S) /\ row \in S
  <2>1. rows \in Seq(Range(rows)) /\ Range(rows) \subseteq S
    BY <1>3 DEF ImportTable
  <2>2. QED
    BY <1>3, <2>1, SeqMonotonic
<1>5. PICK longer : longer = Append(rows, row)
  OBVIOUS
<1>6. /\ longer \in Seq(S) /\ Len(longer) = n + 1 /\ DOMAIN longer = 1..(n + 1)
      /\ \A i \in 1..n : longer[i] = rows[i]
      /\ longer[n + 1] = row /\ longer = [i \in 1..(n + 1) |-> longer[i]]
  <2>1. /\ longer \in Seq(S) /\ Len(longer) = Len(rows) + 1
        /\ \A i \in 1..Len(rows) : longer[i] = rows[i]
        /\ longer[Len(rows) + 1] = row
    BY <1>4, <1>5, AppendProperties
  <2>2. /\ Len(longer) = n + 1 /\ \A i \in 1..n : longer[i] = rows[i]
        /\ longer[n + 1] = row
    BY <1>1, <2>1
  <2>3. DOMAIN longer = 1..(n + 1) /\ longer \in [1..(n + 1) -> S]
    BY <1>2, <2>1, <2>2, LenProperties
  <2>4. QED
    BY <2>1, <2>2, <2>3
<1>7. \A i \in 1..(n + 1) : ImportRow(longer[i])
  <2> SUFFICES ASSUME NEW i \in 1..(n + 1) PROVE ImportRow(longer[i])
    OBVIOUS
  <2>1. CASE i \in 1..n
    BY <1>2, <1>6, <2>1
  <2>2. CASE i = n + 1
    BY <1>6, <2>2
  <2>3. QED
    BY <1>2, <2>1, <2>2
<1>8. ImportTable(longer)
  BY <1>2, <1>6, <1>7, TableMade
<1>9. QED
  BY <1>1, <1>5, <1>6, <1>8

With(rows, t, row) == [rows EXCEPT ![t] = row]

LEMMA ReplacedTable ==
    ASSUME NEW rows, ImportTable(rows), NEW t \in DOMAIN rows, NEW row, ImportRow(row)
    PROVE  /\ ImportTable(With(rows, t, row)) /\ Len(With(rows, t, row)) = Len(rows)
           /\ DOMAIN With(rows, t, row) = DOMAIN rows
           /\ With(rows, t, row)[t] = row
           /\ \A i \in DOMAIN rows \ {t} : With(rows, t, row)[i] = rows[i]
<1>1. PICK n : n = Len(rows)
  OBVIOUS
<1>2. n \in Nat /\ DOMAIN rows = 1..n /\ \A i \in 1..n : ImportRow(rows[i])
  BY <1>1, TableDomain
<1>3. PICK other : other = With(rows, t, row)
  OBVIOUS
<1>4. /\ DOMAIN other = 1..n /\ other = [i \in 1..n |-> other[i]]
      /\ other[t] = row /\ \A i \in DOMAIN rows \ {t} : other[i] = rows[i]
  BY <1>2, <1>3 DEF With
<1>5. \A i \in 1..n : ImportRow(other[i])
  BY <1>2, <1>4
<1>6. ImportTable(other) /\ Len(other) = n
  BY <1>2, <1>4, <1>5, TableMade
<1>7. QED
  BY <1>1, <1>2, <1>3, <1>4, <1>6

\* The three ways a transaction makes a table of its snapshot of n rows.
TableOf(rows, n) == ImportTable(rows) /\ n = Len(rows)

AppendedRows(rows, n, apps, draft, made) ==
    /\ ImportTable(made) /\ Len(made) = n + 1
    /\ \A i \in 1..n : made[i] = rows[i]
    /\ SameReport(made[n + 1], draft) /\ made[n + 1].status = draft.status /\ Resolves(made[n + 1], apps, draft)

ReplacedRows(rows, n, apps, draft, target, made) ==
    /\ ImportTable(made) /\ Len(made) = n + 1
    /\ \A i \in 1..n : i # target => made[i] = rows[i]
    /\ SameReport(made[target], rows[target]) /\ made[target].status = "superseded"
    /\ SameReport(made[n + 1], draft) /\ made[n + 1].status = draft.status /\ Resolves(made[n + 1], apps, draft)
    /\ made[n + 1].supersedes = target

RevivedRows(rows, n, apps, draft, target, older, made) ==
    /\ ImportTable(made) /\ Len(made) = n
    /\ \A i \in 1..n : i # target /\ i # older => made[i] = rows[i]
    /\ SameReport(made[target], rows[target]) /\ made[target].status = "superseded"
    /\ SameReport(made[older], rows[older]) /\ made[older].status = "accepted"
    /\ made[older].supersedes = target /\ Resolves(made[older], apps, draft)

LEMMA MadeTables ==
    ASSUME NEW rows, NEW n, TableOf(rows, n), NEW apps, NEW draft, NEW target, NEW made
    PROVE  /\ Appends(rows, apps, draft, made) => AppendedRows(rows, n, apps, draft, made)
           /\ Replaces(rows, apps, draft, target, made) => ReplacedRows(rows, n, apps, draft, target, made)
           /\ \A older : Revives(rows, apps, draft, target, older, made) => RevivedRows(rows, n, apps, draft, target, older, made)
<1>0. ImportTable(rows) /\ n = Len(rows)
  BY DEF TableOf
<1>1. n \in Nat /\ DOMAIN rows = 1..n /\ \A i \in 1..n : ImportRow(rows[i])
  BY <1>0, TableDomain
<1>2. ASSUME Appends(rows, apps, draft, made)
      PROVE  /\ ImportTable(made) /\ Len(made) = n + 1
             /\ \A i \in 1..n : made[i] = rows[i]
             /\ SameReport(made[n + 1], draft) /\ made[n + 1].status = draft.status /\ Resolves(made[n + 1], apps, draft)
  <2>1. PICK row : row = NewImport(apps, draft, NoTarget)
    OBVIOUS
  <2>2. ImportRow(row) /\ SameReport(row, draft) /\ row.status = draft.status /\ Resolves(row, apps, draft)
    BY <2>1, NewRow
  <2>3. made = Append(rows, row)
    BY <1>2, <2>1 DEF Appends
  <2>4. QED
    BY <1>0, <1>1, <2>2, <2>3, AppendedTable
<1>3. ASSUME Names(rows, draft, target)
      PROVE  LET marked == Marked(rows, target)
             IN  /\ ImportTable(marked) /\ Len(marked) = n /\ DOMAIN marked = 1..n
                 /\ \A i \in 1..n : i # target => marked[i] = rows[i]
                 /\ target \in 1..n
                 /\ SameReport(marked[target], rows[target]) /\ marked[target].status = "superseded"
  <2>1. target \in DOMAIN rows
    BY <1>3 DEF Names
  <2>2. PICK row : row = markFinancialReportSuperseded(rows[target])
    OBVIOUS
  <2>3. ImportRow(row) /\ SameReport(row, rows[target]) /\ row.status = "superseded"
    BY <1>1, <2>1, <2>2, MarkedRow
  <2>4. Marked(rows, target) = With(rows, target, row)
    BY <2>2 DEF Marked, With
  <2>5. PICK marked : marked = Marked(rows, target)
    OBVIOUS
  <2>6. /\ ImportTable(marked) /\ Len(marked) = Len(rows) /\ DOMAIN marked = DOMAIN rows
        /\ marked[target] = row /\ \A i \in DOMAIN rows \ {target} : marked[i] = rows[i]
    <3>1. marked = With(rows, target, row)
      BY <2>4, <2>5
    <3>2. /\ ImportTable(With(rows, target, row)) /\ Len(With(rows, target, row)) = Len(rows)
          /\ DOMAIN With(rows, target, row) = DOMAIN rows
          /\ With(rows, target, row)[target] = row
          /\ \A i \in DOMAIN rows \ {target} : With(rows, target, row)[i] = rows[i]
      <4>1. ImportTable(rows)
        BY <1>0
      <4>2. QED
        BY <2>1, <2>3, <4>1, ReplacedTable
    <3>3. QED
      BY <3>1, <3>2
  <2>7. QED
    BY <1>0, <1>1, <2>1, <2>3, <2>5, <2>6
<1>4. PICK marked : marked = Marked(rows, target)
  OBVIOUS
<1>5. ASSUME Replaces(rows, apps, draft, target, made)
      PROVE  /\ ImportTable(made) /\ Len(made) = n + 1
             /\ \A i \in 1..n : i # target => made[i] = rows[i]
             /\ SameReport(made[target], rows[target]) /\ made[target].status = "superseded"
             /\ SameReport(made[n + 1], draft) /\ made[n + 1].status = draft.status /\ Resolves(made[n + 1], apps, draft)
             /\ made[n + 1].supersedes = target
  <2>1. PICK row : row = NewImport(apps, draft, target)
    OBVIOUS
  <2>2. ImportRow(row) /\ SameReport(row, draft) /\ row.status = draft.status /\ row.supersedes = target /\ Resolves(row, apps, draft)
    BY <2>1, NewRow
  <2>3. made = Append(marked, row) /\ Names(rows, draft, target)
    BY <1>4, <1>5, <2>1 DEF Replaces
  <2>4. /\ ImportTable(marked) /\ Len(marked) = n
        /\ \A i \in 1..n : i # target => marked[i] = rows[i]
        /\ target \in 1..n
        /\ SameReport(marked[target], rows[target]) /\ marked[target].status = "superseded"
    BY <1>3, <1>4, <2>3
  <2>5. /\ ImportTable(made) /\ Len(made) = n + 1 /\ made[n + 1] = row
        /\ \A i \in 1..n : made[i] = marked[i]
    <3>1. /\ ImportTable(Append(marked, row)) /\ Len(Append(marked, row)) = Len(marked) + 1
          /\ \A i \in 1..Len(marked) : Append(marked, row)[i] = marked[i]
          /\ Append(marked, row)[Len(marked) + 1] = row
      BY <2>2, <2>4, AppendedTable
    <3>2. QED
      BY <2>3, <2>4, <3>1
  <2>6. QED
    BY <2>2, <2>4, <2>5
<1>6. ASSUME NEW older, Revives(rows, apps, draft, target, older, made)
      PROVE  /\ ImportTable(made) /\ Len(made) = n
             /\ \A i \in 1..n : i # target /\ i # older => made[i] = rows[i]
             /\ SameReport(made[target], rows[target]) /\ made[target].status = "superseded"
             /\ SameReport(made[older], rows[older]) /\ made[older].status = "accepted"
             /\ made[older].supersedes = target /\ Resolves(made[older], apps, draft)
  <2>1. Names(rows, draft, target) /\ older \in DOMAIN rows /\ older # target
    BY <1>6 DEF Revives, findFinancialReportByDigest
  <2>2. /\ ImportTable(marked) /\ Len(marked) = n /\ DOMAIN marked = 1..n
        /\ \A i \in 1..n : i # target => marked[i] = rows[i]
        /\ target \in 1..n
        /\ SameReport(marked[target], rows[target]) /\ marked[target].status = "superseded"
    BY <1>3, <1>4, <2>1
  <2>3. PICK row : row = reviveFinancialReport(marked[older], apps, draft, target)
    OBVIOUS
  <2>4. marked[older] = rows[older] /\ ImportRow(marked[older])
    BY <1>1, <2>1, <2>2
  <2>5. ImportRow(row) /\ SameReport(row, rows[older]) /\ row.status = "accepted" /\ row.supersedes = target
        /\ Resolves(row, apps, draft)
    <3>1. PICK old : old = marked[older]
      OBVIOUS
    <3>2. row = reviveFinancialReport(old, apps, draft, target) /\ ImportRow(old)
      BY <2>3, <2>4, <3>1
    <3>3. ImportRow(row) /\ SameReport(row, old) /\ row.status = "accepted" /\ row.supersedes = target
          /\ Resolves(row, apps, draft)
      BY <3>2, RevivedRow
    <3>4. QED
      BY <2>4, <3>1, <3>3
  <2>6. made = With(marked, older, row)
    BY <1>4, <1>6, <2>3 DEF Revives, With
  <2>7. /\ ImportTable(made) /\ Len(made) = Len(marked) /\ DOMAIN made = DOMAIN marked
        /\ made[older] = row /\ \A i \in DOMAIN marked \ {older} : made[i] = marked[i]
    <3>1. older \in DOMAIN marked
      BY <1>1, <2>1, <2>2
    <3>2. /\ ImportTable(With(marked, older, row)) /\ Len(With(marked, older, row)) = Len(marked)
          /\ DOMAIN With(marked, older, row) = DOMAIN marked
          /\ With(marked, older, row)[older] = row
          /\ \A i \in DOMAIN marked \ {older} : With(marked, older, row)[i] = marked[i]
      BY <2>2, <2>5, <3>1, ReplacedTable
    <3>3. QED
      BY <2>6, <3>2
  <2>8. QED
    BY <2>1, <2>2, <2>5, <2>7
<1>7. QED
  BY <1>2, <1>5, <1>6 DEF AppendedRows, ReplacedRows, RevivedRows

LEMMA CommitWrites ==
    ASSUME IInv, NEW r \in Requests, NEW answer, Commit(r, answer), NEW q, q = request[r]
    PROVE  \/ imports' = imports
           \/ Adds(q.apps, q.draft)
           \/ \E j : Supersedes(q.apps, q.draft, q.target, j)
<1>1. Underway(q, imports) /\ ImportTable(imports) /\ ~Stale(r) /\ PeriodCountsOnce
  BY DEF IInv, TypeOK, Commit
<1>2. PICK seen, apps, draft, target :
          seen = q.snapshot /\ apps = q.apps /\ draft = q.draft /\ target = q.target
  OBVIOUS
<1>3. PICK made : made = Body(r).rows
  OBVIOUS
<1>4. Committed(seen, made)
  BY <1>2, <1>3 DEF Commit, Committed
<1>5. PICK k : k = Len(imports)
  OBVIOUS
<1>6. PICK b : b = Len(seen)
  OBVIOUS
<1>7. PICK m : m = Len(made)
  OBVIOUS
<1>8. /\ ImportTable(seen) /\ b \in Nat /\ DOMAIN seen = 1..b /\ k \in Nat /\ DOMAIN imports = 1..k /\ b <= k
      /\ \A i \in 1..b : SameReport(seen[i], imports[i])
  BY <1>1, <1>2, <1>5, <1>6, TableDomain DEF Underway
<1>9. /\ \A i \in 1..k : SameScope(imports[i], draft) \/ i = target => i \in 1..b /\ seen[i] = imports[i]
      /\ \A i \in 1..b : SameScope(seen[i], draft) \/ i = target => i \in 1..k /\ seen[i] = imports[i]
  BY <1>1, <1>2, <1>8, FreshSnapshot
<1>10. /\ draft.status \in {"accepted", "unrecognized"} /\ (target # NoTarget => draft.status = "accepted")
  BY <1>1, <1>2 DEF Underway
<1>11. ASSUME ImportTable(made), m = b \/ m = b + 1
       PROVE  /\ CommittedAs(seen, made, k, b, m) /\ m \in Nat
  <2>1. m \in Nat
    BY <1>7, <1>11, TableDomain
  <2>2. CommitsTo(seen, made, k, b, m)
    BY <1>1, <1>4, <1>5, <1>6, <1>7, <1>8, <1>11, <2>1 DEF CommitsTo
  <2>3. QED
    BY <2>1, <2>2, CommittedRows
<1>12. CASE made = seen
  <2>1. CommittedAs(seen, made, k, b, m) /\ m = b
    BY <1>6, <1>7, <1>8, <1>11, <1>12
  <2>2. /\ ImportTable(imports') /\ DOMAIN imports' = 1..k
        /\ \A i \in 1..k : imports'[i] = imports[i]
    BY <1>8, <1>12, <2>1 DEF CommittedAs
  <2>3. imports = [i \in 1..k |-> imports[i]] /\ imports' = [i \in 1..k |-> imports'[i]]
    BY <1>1, <1>8, <2>2 DEF ImportTable
  <2>4. QED
    BY <2>2, <2>3
<1>13. CASE target = NoTarget /\ Appends(seen, apps, draft, made)
  <2>1. /\ ImportTable(made) /\ m = b + 1
        /\ \A i \in 1..b : made[i] = seen[i]
        /\ SameReport(made[b + 1], draft) /\ made[b + 1].status = draft.status /\ Resolves(made[b + 1], apps, draft)
    <3>1. TableOf(seen, b)
      BY <1>6, <1>8 DEF TableOf
    <3>2. AppendedRows(seen, b, apps, draft, made)
      BY <1>13, <3>1, MadeTables
    <3>3. QED
      BY <1>7, <3>2 DEF AppendedRows
  <2>2. CommittedAs(seen, made, k, b, m)
    BY <1>11, <2>1
  <2>3. /\ ImportTable(imports') /\ Len(imports') = k + 1 /\ DOMAIN imports' = 1..(k + 1)
        /\ \A i \in 1..k : imports'[i] = imports[i]
        /\ imports'[k + 1] = made[b + 1]
    BY <1>8, <2>1, <2>2 DEF CommittedAs
  <2>4. \A i \in 1..k : SameScope(imports[i], draft) =>
            imports[i].file # draft.file /\ ~(draft.status = "accepted" /\ imports[i].status = "accepted")
    <3> SUFFICES ASSUME NEW i \in 1..k, SameScope(imports[i], draft)
                 PROVE  imports[i].file # draft.file /\ ~(draft.status = "accepted" /\ imports[i].status = "accepted")
      OBVIOUS
    <3>1. i \in DOMAIN seen /\ seen[i] = imports[i] /\ SameScope(seen[i], draft)
      BY <1>8, <1>9
    <3>2. seen[i].file # draft.file
      BY <1>13, <3>1 DEF Appends, findFinancialReportByDigest
    <3>3. ~(draft.status = "accepted" /\ seen[i].status = "accepted")
      BY <1>13, <3>1 DEF Appends, Occupied
    <3>4. QED
      BY <3>1, <3>2, <3>3
  <2>5. Adds(apps, draft)
    BY <1>5, <1>8, <2>1, <2>3, <2>4 DEF Adds
  <2>6. QED
    BY <1>2, <2>5
<1>14. ASSUME Names(seen, draft, target)
       PROVE  /\ target \in 1..k /\ target \in 1..b /\ imports[target] = seen[target]
              /\ imports[target].status = "accepted" /\ SameScope(imports[target], draft)
  BY <1>8, <1>9, <1>14 DEF Names
<1>15. CASE target # NoTarget /\ Replaces(seen, apps, draft, target, made)
  <2>1. Names(seen, draft, target) /\ findFinancialReportByDigest(seen, draft) = {}
    BY <1>15 DEF Replaces
  <2>2. /\ ImportTable(made) /\ m = b + 1
        /\ \A i \in 1..b : i # target => made[i] = seen[i]
        /\ SameReport(made[target], seen[target]) /\ made[target].status = "superseded"
        /\ SameReport(made[b + 1], draft) /\ made[b + 1].status = draft.status /\ Resolves(made[b + 1], apps, draft)
        /\ made[b + 1].supersedes = target
    <3>1. TableOf(seen, b)
      BY <1>6, <1>8 DEF TableOf
    <3>2. ReplacedRows(seen, b, apps, draft, target, made)
      BY <1>15, <3>1, MadeTables
    <3>3. QED
      BY <1>7, <3>2 DEF ReplacedRows
  <2>3. CommittedAs(seen, made, k, b, m)
    BY <1>11, <2>2
  <2>4. /\ target \in 1..k /\ target \in 1..b /\ imports[target] = seen[target]
        /\ imports[target].status = "accepted" /\ SameScope(imports[target], draft)
    BY <1>14, <2>1
  <2>5. /\ ImportTable(imports') /\ Len(imports') = k + 1 /\ DOMAIN imports' = 1..(k + 1)
        /\ \A i \in 1..k : imports'[i] = IF i \in 1..b /\ made[i] # seen[i] THEN made[i] ELSE imports[i]
        /\ imports'[k + 1] = made[b + 1]
    BY <1>8, <2>2, <2>3 DEF CommittedAs
  <2>6. imports'[target] = made[target]
    BY <2>2, <2>4, <2>5
  <2>7. \A i \in 1..k : i # target => imports'[i] = imports[i]
    BY <2>2, <2>5
  <2>8. \A i \in 1..k : SameScope(imports[i], draft) => imports[i].file # draft.file
    BY <1>8, <1>9, <2>1 DEF findFinancialReportByDigest
  <2>9. (k + 1) \notin 1..k /\ (k + 1) # target /\ (k + 1) \in 1..(k + 1) /\ 1..(k + 1) = 1..k \cup {k + 1}
        /\ k + 1 \in Nat
    BY <1>8, <2>4
  <2>10. PICK j : j = k + 1
    OBVIOUS
  <2>11. /\ target \in 1..k /\ imports[target].status = "accepted" /\ SameScope(imports[target], draft)
         /\ j # target /\ j \in 1..(k + 1) /\ j \notin 1..k
         /\ ImportTable(imports') /\ Len(imports') = j /\ j \in Nat
         /\ DOMAIN imports' = 1..k \cup {j} /\ DOMAIN imports' = 1..j
         /\ \A i \in 1..k \ {target, j} : imports'[i] = imports[i]
         /\ SameReport(imports'[target], imports[target]) /\ imports'[target].status = "superseded"
         /\ SameReport(imports'[j], draft) /\ imports'[j].status = "accepted" /\ imports'[j].supersedes = target
         /\ Resolves(imports'[j], apps, draft)
    BY <1>10, <1>15, <2>2, <2>4, <2>5, <2>6, <2>7, <2>9, <2>10
  <2>12. Supersedes(apps, draft, target, j)
    BY <1>5, <1>8, <2>8, <2>11 DEF Supersedes
  <2>13. QED
    BY <1>2, <2>12
<1>16. ASSUME target # NoTarget, NEW older, Revives(seen, apps, draft, target, older, made)
       PROVE  Supersedes(apps, draft, target, older)
  <2>1. /\ Names(seen, draft, target) /\ older # target
        /\ older \in 1..b /\ SameScope(seen[older], draft) /\ seen[older].file = draft.file
    BY <1>8, <1>16 DEF Revives, findFinancialReportByDigest
  <2>2. /\ ImportTable(made) /\ m = b
        /\ \A i \in 1..b : i # target /\ i # older => made[i] = seen[i]
        /\ SameReport(made[target], seen[target]) /\ made[target].status = "superseded"
        /\ SameReport(made[older], seen[older]) /\ made[older].status = "accepted"
        /\ made[older].supersedes = target /\ Resolves(made[older], apps, draft)
    <3>1. TableOf(seen, b)
      BY <1>6, <1>8 DEF TableOf
    <3>2. RevivedRows(seen, b, apps, draft, target, older, made)
      BY <1>16, <3>1, MadeTables
    <3>3. QED
      BY <1>7, <3>2 DEF RevivedRows
  <2>3. CommittedAs(seen, made, k, b, m)
    BY <1>11, <2>2
  <2>4. /\ target \in 1..k /\ target \in 1..b /\ imports[target] = seen[target]
        /\ imports[target].status = "accepted" /\ SameScope(imports[target], draft)
    BY <1>14, <2>1
  <2>5. older \in 1..k /\ imports[older] = seen[older]
    BY <1>9, <2>1
  <2>6. /\ ImportTable(imports') /\ Len(imports') = k /\ DOMAIN imports' = 1..k
        /\ \A i \in 1..k : imports'[i] = IF i \in 1..b /\ made[i] # seen[i] THEN made[i] ELSE imports[i]
    BY <1>8, <2>2, <2>3 DEF CommittedAs
  <2>7. imports'[target] = made[target]
    BY <2>2, <2>4, <2>6
  <2>8. imports'[older] = made[older]
    BY <2>1, <2>5, <2>6
  <2>9. \A i \in 1..k \ {target, older} : imports'[i] = imports[i]
    BY <2>2, <2>6
  <2>10. /\ SameReport(imports'[target], imports[target]) /\ imports'[target].status = "superseded"
         /\ SameReport(imports'[older], draft) /\ imports'[older].status = "accepted"
         /\ imports'[older].supersedes = target /\ SameReport(imports[older], draft)
         /\ Resolves(imports'[older], apps, draft)
    BY <2>1, <2>2, <2>4, <2>5, <2>7, <2>8 DEF SameReport, SameScope
  <2>11. older \in 1..(k + 1) /\ 1..k = 1..k \cup {older}
    BY <1>8, <2>5
  <2>12. QED
    BY <1>5, <1>8, <2>1, <2>4, <2>5, <2>6, <2>9, <2>10, <2>11 DEF Supersedes
<1>17. \/ made = seen
       \/ target = NoTarget /\ Appends(seen, apps, draft, made)
       \/ target # NoTarget /\ Replaces(seen, apps, draft, target, made)
       \/ target # NoTarget /\ \E older : Revives(seen, apps, draft, target, older, made)
  BY <1>2, <1>3, BodyResult
<1>18. QED
  BY <1>2, <1>12, <1>13, <1>15, <1>16, <1>17

--------------------------------------------------------------------------------
(* The steps preserve the invariant.                                         *)

\* A table only grows, and its rows keep their reports.
Grown(rows, later) ==
    /\ ImportTable(later) /\ Len(rows) <= Len(later)
    /\ \A i \in DOMAIN rows : i \in DOMAIN later /\ SameReport(later[i], rows[i])

LEMMA UnderwayStill ==
    ASSUME NEW rows, NEW later, ImportTable(rows), Grown(rows, later), NEW q, Underway(q, rows)
    PROVE  Underway(q, later)
<1>1. PICK seen : seen = q.snapshot
  OBVIOUS
<1>2. ImportTable(seen) /\ Len(seen) <= Len(rows) /\ \A i \in DOMAIN seen : SameReport(seen[i], rows[i])
  BY <1>1 DEF Underway
<1>3. /\ Len(seen) \in Nat /\ DOMAIN seen = 1..Len(seen)
      /\ Len(rows) \in Nat /\ DOMAIN rows = 1..Len(rows)
      /\ Len(later) \in Nat
  BY <1>2, TableDomain DEF Grown
<1>4. DOMAIN seen \subseteq DOMAIN rows /\ Len(seen) <= Len(later)
  BY <1>2, <1>3 DEF Grown
<1>5. \A i \in DOMAIN seen : SameReport(seen[i], later[i])
  BY <1>2, <1>4 DEF Grown, SameReport, SameScope
<1>6. QED
  BY <1>1, <1>4, <1>5 DEF Underway

LEMMA AddsGrows ==
    ASSUME ImportTable(imports), PeriodCountsOnce, NEW apps, NEW draft, Adds(apps, draft)
    PROVE  Grown(imports, imports') /\ PeriodCountsOnce'
<1>1. PICK n : n = Len(imports)
  OBVIOUS
<1>2. n \in Nat /\ DOMAIN imports = 1..n
  BY <1>1, TableDomain
<1>3. /\ \A i \in 1..n : SameScope(imports[i], draft) =>
            imports[i].file # draft.file /\ ~(draft.status = "accepted" /\ imports[i].status = "accepted")
      /\ DOMAIN imports' = 1..(n + 1) /\ ImportTable(imports') /\ Len(imports') = n + 1
      /\ \A i \in 1..n : imports'[i] = imports[i]
      /\ SameReport(imports'[n + 1], draft) /\ imports'[n + 1].status = draft.status
  BY <1>1, <1>2 DEF Adds
<1>4. Grown(imports, imports')
  BY <1>1, <1>2, <1>3 DEF Grown, SameReport, SameScope
<1>5. ASSUME NEW i \in 1..n, SameScope(imports'[i], imports'[n + 1])
      PROVE  /\ imports'[i].file # imports'[n + 1].file
             /\ ~(imports'[i].status = "accepted" /\ imports'[n + 1].status = "accepted")
  <2>1. SameScope(imports[i], draft) /\ imports'[n + 1].file = draft.file
    BY <1>3, <1>5 DEF SameReport, SameScope
  <2>2. QED
    BY <1>3, <2>1
<1>6. PeriodCountsOnce'
  <2> SUFFICES ASSUME NEW i \in 1..(n + 1), NEW j \in 1..(n + 1), i # j, SameScope(imports'[i], imports'[j])
               PROVE  /\ imports'[i].file # imports'[j].file
                      /\ ~(imports'[i].status = "accepted" /\ imports'[j].status = "accepted")
    BY <1>3 DEF PeriodCountsOnce, SameScope
  <2>1. CASE i \in 1..n /\ j \in 1..n
    BY <1>2, <1>3, <2>1 DEF PeriodCountsOnce
  <2>2. CASE i \in 1..n /\ j = n + 1
    BY <1>5, <2>2
  <2>3. CASE i = n + 1 /\ j \in 1..n
    <3>1. SameScope(imports'[j], imports'[n + 1])
      BY <2>3 DEF SameScope
    <3>2. QED
      BY <1>5, <2>3, <3>1
  <2>4. QED
    BY <1>2, <2>1, <2>2, <2>3
<1>7. QED
  BY <1>4, <1>6

LEMMA SupersedesGrows ==
    ASSUME ImportTable(imports), PeriodCountsOnce, NEW apps, NEW draft, NEW target, NEW j, Supersedes(apps, draft, target, j)
    PROVE  Grown(imports, imports') /\ PeriodCountsOnce'
<1>1. PICK n : n = Len(imports)
  OBVIOUS
<1>2. n \in Nat /\ DOMAIN imports = 1..n
  BY <1>1, TableDomain
<1>3. /\ target \in 1..n /\ imports[target].status = "accepted"
      /\ SameScope(imports[target], draft) /\ j # target /\ j \in 1..(n + 1)
      /\ ImportTable(imports') /\ Len(imports') \in Nat
      /\ DOMAIN imports' = 1..n \cup {j} /\ DOMAIN imports' = 1..Len(imports')
      /\ \A i \in 1..n \ {target, j} : imports'[i] = imports[i]
      /\ SameReport(imports'[target], imports[target]) /\ imports'[target].status = "superseded"
      /\ SameReport(imports'[j], draft) /\ imports'[j].status = "accepted"
      /\ j \in 1..n => SameReport(imports[j], draft)
      /\ j \notin 1..n => \A i \in 1..n : SameScope(imports[i], draft) => imports[i].file # draft.file
  BY <1>1, <1>2 DEF Supersedes
<1>4. \A i \in 1..n : SameReport(imports'[i], imports[i])
  BY <1>3 DEF SameReport, SameScope
<1>5. n <= Len(imports')
  <2>1. CASE n = 0
    BY <1>3, <2>1
  <2>2. CASE n # 0
    <3>1. n \in 1..n
      BY <1>2, <2>2
    <3>2. n \in 1..Len(imports')
      BY <1>3, <3>1
    <3>3. QED
      BY <1>2, <1>3, <3>2
  <2>3. QED
    BY <2>1, <2>2
<1>6. Grown(imports, imports')
  BY <1>1, <1>2, <1>3, <1>4, <1>5 DEF Grown
\* The period's only accepted row was the named one.
<1>7. \A i \in 1..n \ {target, j} : SameScope(imports[i], draft) => imports[i].status # "accepted"
  BY <1>2, <1>3 DEF PeriodCountsOnce, SameScope
<1>8. \A i \in 1..n \ {j} : SameScope(imports[i], draft) => imports[i].file # draft.file
  <2>1. CASE j \in 1..n
    BY <1>2, <1>3, <2>1 DEF PeriodCountsOnce, SameReport, SameScope
  <2>2. CASE j \notin 1..n
    BY <1>3, <2>2
  <2>3. QED
    BY <2>1, <2>2
<1>9. ASSUME NEW i \in 1..n \ {j}, SameScope(imports'[i], draft)
      PROVE  imports'[i].file # draft.file /\ imports'[i].status # "accepted"
  <2>1. SameScope(imports[i], draft) /\ imports'[i].file = imports[i].file
    BY <1>4, <1>9 DEF SameReport, SameScope
  <2>2. imports'[i].status # "accepted"
    BY <1>3, <1>7, <2>1
  <2>3. QED
    BY <1>8, <2>1, <2>2
<1>10. PeriodCountsOnce'
  <2> SUFFICES ASSUME NEW a \in 1..n \cup {j}, NEW c \in 1..n \cup {j}, a # c, SameScope(imports'[a], imports'[c])
               PROVE  /\ imports'[a].file # imports'[c].file
                      /\ ~(imports'[a].status = "accepted" /\ imports'[c].status = "accepted")
    BY <1>3 DEF PeriodCountsOnce, SameScope
  <2>1. CASE a = j
    <3>1. c \in 1..n \ {j} /\ SameScope(imports'[c], draft) /\ imports'[a].file = draft.file
      BY <1>3, <2>1 DEF SameReport, SameScope
    <3>2. QED
      BY <1>9, <3>1
  <2>2. CASE c = j
    <3>1. a \in 1..n \ {j} /\ SameScope(imports'[a], draft) /\ imports'[c].file = draft.file
      BY <1>3, <2>2 DEF SameReport, SameScope
    <3>2. QED
      BY <1>9, <3>1
  <2>3. CASE a # j /\ c # j
    <3>1. a \in 1..n /\ c \in 1..n /\ SameReport(imports'[a], imports[a]) /\ SameReport(imports'[c], imports[c])
      BY <1>4, <2>3
    <3>2. SameScope(imports[a], imports[c])
      BY <3>1 DEF SameReport, SameScope
    <3>3. imports[a].file # imports[c].file /\ ~(imports[a].status = "accepted" /\ imports[c].status = "accepted")
      BY <1>2, <3>1, <3>2 DEF PeriodCountsOnce
    <3>4. imports'[a].file # imports'[c].file
      BY <3>1, <3>3 DEF SameReport
    <3>5. \A i \in {a, c} : imports'[i].status = "accepted" => imports[i].status = "accepted"
      BY <1>3, <2>3, <3>1
    <3>6. QED
      BY <3>3, <3>4, <3>5
  <2>4. QED
    BY <2>1, <2>2, <2>3
<1>11. QED
  BY <1>6, <1>10

LEMMA SameTable ==
    ASSUME ImportTable(imports), PeriodCountsOnce, UNCHANGED imports
    PROVE  Grown(imports, imports') /\ PeriodCountsOnce'
<1>1. Len(imports) \in Nat
  BY TableDomain
<1>2. QED
  BY <1>1 DEF Grown, SameReport, SameScope, PeriodCountsOnce

\* What is left to show of a step: the table grows, a period counts once, and a request
\* that moves is answered or begins a transaction on the table.
Begins(q, rows) ==
    /\ q = [pc |-> "tx", target |-> q.target, draft |-> q.draft, attempt |-> q.attempt,
            snapshot |-> rows, apps |-> q.apps]
    /\ q.target \in Nat
    /\ q.draft.status \in {"accepted", "unrecognized"}
    /\ q.target # NoTarget => q.draft.status = "accepted"

LEMMA BegunIsUnderway ==
    ASSUME NEW rows, ImportTable(rows), NEW q, Begins(q, rows)
    PROVE  Underway(q, rows)
<1>1. PICK n : n = Len(rows)
  OBVIOUS
<1>2. n \in Nat
  BY <1>1, TableDomain
<1>3. q.snapshot = rows
  BY DEF Begins
<1>4. n <= n
  BY <1>2
<1>5. QED
  BY <1>1, <1>3, <1>4 DEF Begins, Underway, SameReport, SameScope

LEMMA StepKeeps ==
    ASSUME IInv, Grown(imports, imports'), PeriodCountsOnce',
           NEW r \in Requests, NEW q, request' = [request EXCEPT ![r] = q],
           q.pc = "done" \/ (Begins(q, imports) /\ UNCHANGED imports)
    PROVE  IInv'
<1>1. ImportTable(imports) /\ ImportTable(imports')
  BY DEF IInv, TypeOK, Grown
<1>2. request = [s \in Requests |-> request[s]] /\ request' = [s \in Requests |-> request'[s]]
      /\ request'[r] = q /\ \A s \in Requests \ {r} : request'[s] = request[s]
  BY DEF IInv, TypeOK
<1>3. ASSUME NEW s \in Requests, request'[s].pc = "tx"
      PROVE  Underway(request'[s], imports')
  <2>1. CASE s # r
    <3>1. request'[s] = request[s] /\ Underway(request[s], imports)
      BY <1>2, <1>3, <2>1 DEF IInv, TypeOK
    <3>2. Underway(request[s], imports')
      BY <1>1, <3>1, UnderwayStill
    <3>3. QED
      BY <3>1, <3>2
  <2>2. CASE s = r
    <3>1. request'[s] = q /\ Begins(q, imports) /\ imports' = imports
      BY <1>2, <1>3, <2>2
    <3>2. Underway(q, imports)
      BY <1>1, <3>1, BegunIsUnderway
    <3>3. QED
      BY <3>1, <3>2
  <2>3. QED
    BY <2>1, <2>2
<1>4. QED
  BY <1>1, <1>2, <1>3 DEF IInv, TypeOK

LEMMA CommitKeeps ==
    ASSUME IInv, NEW r \in Requests, NEW answer, Commit(r, answer)
    PROVE  IInv'
<1>1. ImportTable(imports) /\ PeriodCountsOnce
  BY DEF IInv, TypeOK
<1>2. PICK q : q = request[r]
  OBVIOUS
<1>3. \/ imports' = imports
      \/ Adds(q.apps, q.draft)
      \/ \E j : Supersedes(q.apps, q.draft, q.target, j)
  BY <1>2, CommitWrites
<1>4. Grown(imports, imports') /\ PeriodCountsOnce'
  BY <1>1, <1>3, SameTable, AddsGrows, SupersedesGrows
<1>5. PICK p : p = [pc |-> "done", answer |-> answer]
  OBVIOUS
<1>6. request' = [request EXCEPT ![r] = p] /\ p.pc = "done"
  BY <1>5 DEF Commit, Done
<1>7. QED
  BY <1>4, <1>6, StepKeeps

\* A draft is accepted or unrecognized.
LEMMA DraftStatus ==
    ASSUME NEW u, prepareDraft(u).ok
    PROVE  prepareDraft(u).status \in {"accepted", "unrecognized"}
<1>1. PICK parsed : parsed = ParseAppleConsolidated(u.file)
  OBVIOUS
<1>2. PICK none : none = << >>
  OBVIOUS
<1>3. PICK ordered : ordered = (u.period # << >> /\ u.period[1] <= u.period[2])
  OBVIOUS
<1>4. \/ prepareDraft(u) \in {Refused("invalid"), Refused("too_large")}
      \/ prepareDraft(u) = [ok |-> TRUE, provider |-> u.provider, file |-> u.file,
                            period |-> parsed.period, status |-> "accepted", totals |-> parsed.totals]
      \/ prepareDraft(u) = [ok |-> TRUE, provider |-> u.provider, file |-> u.file,
                            period |-> u.period, status |-> "unrecognized", totals |-> none]
  BY <1>1, <1>2, <1>3 DEF prepareDraft
<1>5. QED
  BY <1>4 DEF Refused

\* A request that changes no row: it is answered, or it begins a transaction.
LEMMA RequestKeeps ==
    ASSUME IInv, UNCHANGED imports, NEW r \in Requests, NEW q, request' = [request EXCEPT ![r] = q],
           q.pc = "done" \/ Begins(q, imports)
    PROVE  IInv'
<1>1. ImportTable(imports) /\ PeriodCountsOnce
  BY DEF IInv, TypeOK
<1>2. Grown(imports, imports') /\ PeriodCountsOnce'
  BY <1>1, SameTable
<1>3. QED
  BY <1>2, StepKeeps

LEMMA SubmitKeeps ==
    ASSUME IInv, NEW r \in Requests, NEW u, NEW t \in 0..(Len(imports) + 1), Submit(r, u, t)
    PROVE  IInv'
<1>0. t \in Nat /\ UNCHANGED imports
  BY DEF Submit
<1>1. PICK draft : draft = prepareDraft(u)
  OBVIOUS
<1>2. draft.ok => draft.status \in {"accepted", "unrecognized"}
  BY <1>1, DraftStatus
<1>3. PICK q : q = Transaction(t, draft, 1)
  OBVIOUS
<1>4. \/ \E answer : request' = Done(r, answer)
      \/ /\ draft.ok /\ (t # NoTarget => draft.status = "accepted")
         /\ request' = [request EXCEPT ![r] = q]
  BY <1>1, <1>3 DEF Submit
<1>5. CASE \E answer : request' = Done(r, answer)
  <2>1. PICK answer : request' = Done(r, answer)
    BY <1>5
  <2>2. PICK p : p = [pc |-> "done", answer |-> answer]
    OBVIOUS
  <2>3. request' = [request EXCEPT ![r] = p] /\ p.pc = "done"
    BY <2>1, <2>2 DEF Done
  <2>4. QED
    BY <1>0, <2>3, RequestKeeps
<1>6. CASE draft.ok /\ (t # NoTarget => draft.status = "accepted") /\ request' = [request EXCEPT ![r] = q]
  <2>1. Begins(q, imports)
    BY <1>0, <1>2, <1>3, <1>6 DEF Transaction, Begins
  <2>2. QED
    BY <1>0, <1>6, <2>1, RequestKeeps
<1>7. QED
  BY <1>4, <1>5, <1>6

LEMMA ConflictKeeps ==
    ASSUME IInv, NEW r \in Requests, Conflict(r)
    PROVE  IInv'
<1>0. UNCHANGED imports
  BY DEF Conflict
<1>1. Underway(request[r], imports)
  BY DEF IInv, TypeOK, Conflict
<1>2. PICK old : old = request[r]
  OBVIOUS
<1>3. PICK q : q = Transaction(old.target, old.draft, old.attempt + 1)
  OBVIOUS
<1>4. request' = Done(r, "unavailable") \/ request' = [request EXCEPT ![r] = q]
  BY <1>2, <1>3 DEF Conflict, IInv, TypeOK
<1>5. Begins(q, imports)
  BY <1>1, <1>2, <1>3 DEF Begins, Transaction, Underway
<1>6. PICK p : p = [pc |-> "done", answer |-> "unavailable"]
  OBVIOUS
<1>7. p.pc = "done" /\ Done(r, "unavailable") = [request EXCEPT ![r] = p]
  BY <1>6 DEF Done
<1>8. CASE request' = [request EXCEPT ![r] = p]
  BY <1>0, <1>7, <1>8, RequestKeeps
<1>9. CASE request' = [request EXCEPT ![r] = q]
  BY <1>0, <1>5, <1>9, RequestKeeps
<1>10. QED
  BY <1>4, <1>7, <1>8, <1>9

LEMMA AnswerKeeps ==
    ASSUME IInv, NEW r \in Requests, Refuse(r) \/ Pull(r)
    PROVE  IInv'
<1>1. PICK answer : request' = Done(r, answer) /\ UNCHANGED imports
  BY DEF Refuse, Pull
<1>2. PICK p : p = [pc |-> "done", answer |-> answer]
  OBVIOUS
<1>3. request' = [request EXCEPT ![r] = p] /\ p.pc = "done"
  BY <1>1, <1>2 DEF Done
<1>4. QED
  BY <1>1, <1>3, RequestKeeps

LEMMA IdleKeeps ==
    ASSUME IInv, UNCHANGED <<imports, request>>
    PROVE  IInv'
BY DEF IInv, TypeOK, PeriodCountsOnce

LEMMA InitIInv == Init => IInv
<1> SUFFICES ASSUME Init PROVE IInv
  OBVIOUS
<1>1. imports = << >> /\ request = [r \in Requests |-> Idle]
  BY DEF Init
<1>2. DOMAIN imports = {} /\ Len(imports) = 0
  BY <1>1
<1>3. ImportTable(imports)
  BY <1>1, <1>2 DEF ImportTable
<1>4. \A r \in Requests : request[r].pc = "idle"
  BY <1>1 DEF Idle
<1>5. PeriodCountsOnce
  BY <1>2 DEF PeriodCountsOnce
<1>6. QED
  BY <1>1, <1>3, <1>4, <1>5 DEF IInv, TypeOK

LEMMA NextIInv ==
    ASSUME IInv, [Next]_vars
    PROVE  IInv'
<1>1. CASE \E r \in Requests, u \in Uploads, t \in 0 .. Len(imports) + 1 : Submit(r, u, t)
  BY <1>1, SubmitKeeps
<1>2. CASE \E r \in Requests : Conflict(r) \/ Refuse(r) \/ Pull(r)
  BY <1>2, ConflictKeeps, AnswerKeeps
<1>3. CASE \E r \in Requests, a \in {"existing", "conflict", "created", "not_found", "not_accepted",
                                     "scope_mismatch", "unavailable"} : Commit(r, a)
  BY <1>3, CommitKeeps
<1>4. CASE \E a \in Applications : PutApplication(a)
  BY <1>4, IdleKeeps DEF PutApplication
<1>5. CASE UNCHANGED vars
  BY <1>5, IdleKeeps DEF vars
<1>6. QED
  BY <1>1, <1>2, <1>3, <1>4, <1>5 DEF Next

\* The inductive invariant: the table only holds rows, a transaction under way has a draft
\* the service accepts and a snapshot whose rows the table still has, and a period counts once.
THEOREM Invariance == Spec => []IInv
BY InitIInv, NextIInv, PTL DEF Spec

\* Of all uploads and replacements of one period, however the transactions interleave, are
\* retried or lose their answers, at most one import is accepted, and no file is stored
\* twice (SaveFinancialReport, SupersedeFinancialReport).
THEOREM OneImportPerPeriod == Spec => []PeriodCountsOnce
<1>1. IInv => PeriodCountsOnce
  BY DEF IInv
<1>2. QED
  BY <1>1, Invariance, PTL

\* Only a commit changes the table, and the accepted row it takes out is the one its request
\* names.
LEMMA CommitNames ==
    ASSUME IInv, NEW r \in Requests, NEW answer, Commit(r, answer)
    PROVE  ReplacedByName
<1>1. ImportTable(imports) /\ PeriodCountsOnce /\ request[r].pc = "tx" /\ request'[r].pc = "done"
  BY DEF IInv, TypeOK, Commit, Done
<1>2. PICK q : q = request[r]
  OBVIOUS
<1>3. \/ imports' = imports
      \/ Adds(q.apps, q.draft)
      \/ \E j : Supersedes(q.apps, q.draft, q.target, j)
  BY <1>2, CommitWrites
<1> SUFFICES ASSUME NEW i \in DOMAIN imports, imports[i].status = "accepted", imports'[i].status # "accepted"
             PROVE  \E s \in Requests, j \in DOMAIN imports' :
                       /\ request[s].pc = "tx" /\ request'[s].pc = "done"
                       /\ request[s].target = i
                       /\ imports'[j].status = "accepted" /\ imports'[j].supersedes = i
                       /\ imports'[j].file = request[s].draft.file
                       /\ SameScope(imports'[j], imports[i])
  BY DEF ReplacedByName
<1>4. imports'[i] # imports[i]
  OBVIOUS
<1>5. ~Adds(q.apps, q.draft)
  BY <1>4 DEF Adds
<1>6. PICK j : Supersedes(q.apps, q.draft, q.target, j)
  BY <1>3, <1>4, <1>5
<1>7. /\ j \in DOMAIN imports' /\ imports'[j].status = "accepted" /\ imports'[j].supersedes = q.target
      /\ SameReport(imports'[j], q.draft) /\ SameScope(imports[q.target], q.draft)
      /\ (i = q.target \/ i = j \/ imports'[i] = imports[i])
  BY <1>6 DEF Supersedes
<1>8. i = q.target
  BY <1>4, <1>7
<1>9. imports'[j].file = q.draft.file /\ SameScope(imports'[j], imports[i])
  BY <1>7, <1>8 DEF SameReport, SameScope
<1>10. QED
  BY <1>1, <1>2, <1>7, <1>8, <1>9

\* Two administrators who replace the same accepted import cannot both succeed: an accepted
\* report leaves its period only by a request that named it, whose file takes its place in
\* the same step (SupersedeFinancialReport and its serializable transaction).
THEOREM ReplacementIsNamed == Spec => CurrentWasNamed
<1>1. IInv /\ [Next]_vars => [ReplacedByName]_vars
  <2> SUFFICES ASSUME IInv, Next PROVE ReplacedByName
    BY DEF vars, ReplacedByName
  <2>1. CASE \E r \in Requests, a \in {"existing", "conflict", "created", "not_found", "not_accepted",
                                       "scope_mismatch", "unavailable"} : Commit(r, a)
    BY <2>1, CommitNames
  <2>2. CASE UNCHANGED imports
    BY <2>2 DEF ReplacedByName
  <2>3. UNCHANGED imports \/ \E r \in Requests, a \in {"existing", "conflict", "created", "not_found",
                                "not_accepted", "scope_mismatch", "unavailable"} : Commit(r, a)
    BY DEF Next, Submit, Conflict, Refuse, Pull, PutApplication
  <2>4. QED
    BY <2>1, <2>2, <2>3
<1>2. QED
  BY <1>1, Invariance, PTL DEF Spec, CurrentWasNamed

--------------------------------------------------------------------------------
(* The parser's row loop, by induction on the rows of a file.                *)

\* Every nonempty set of numbers has a smallest one.
LEMMA SmallestNumber ==
    ASSUME NEW T, T \subseteq Nat, T # {}
    PROVE  \E x \in T : \A y \in T : x <= y
<1>1. PICK x \in T : \A y \in T : ~ (<<y, x>> \in OpToRel(<, Nat))
  BY WFMin, NatLessThanWellFounded
<1>2. \A y \in T : ~(y < x)
  BY <1>1 DEF OpToRel
<1>3. x \in T
  BY <1>1
<1>4. \A y \in T : y \in Nat
  OBVIOUS
<1>5. QED
  BY <1>2, <1>3, <1>4

\* What holds at zero and goes from one number to the next holds up to n.
LEMMA UpTo ==
    ASSUME NEW n \in Nat, NEW S, 0 \in S, \A i \in 1 .. n : i - 1 \in S => i \in S
    PROVE  0 .. n \subseteq S
<1> DEFINE T == {i \in 0 .. n : i \notin S}
<1> SUFFICES ASSUME T # {} PROVE FALSE
  OBVIOUS
<1>0. T \subseteq Nat
  OBVIOUS
<1>1. PICK x \in T : \A y \in T : x <= y
  BY <1>0, SmallestNumber
<1>2. x \in 1 .. n /\ x - 1 \in 0 .. n
  BY <1>1
<1>3. x - 1 \in S
  BY <1>1, <1>2
<1>4. QED
  BY <1>1, <1>2, <1>3

\* The row loop up to row n.
LoopTo(rows, n, loop) == loop = [i \in 0 .. n |-> IF i = 0 THEN EmptyLoop ELSE ReadRow(loop[i - 1], rows[i])]

\* There is such a loop, for every file.
LEMMA LoopExists ==
    ASSUME NEW rows, NEW n \in Nat
    PROVE  \E loop : LoopTo(rows, n, loop)
<1> DEFINE S == {i \in Nat : \E loop : LoopTo(rows, i, loop)}
<1>1. 0 \in S
  <2>1. LoopTo(rows, 0, [i \in 0 .. 0 |-> EmptyLoop])
    BY DEF LoopTo
  <2>2. QED
    BY <2>1
<1>2. ASSUME NEW i \in 1 .. n, i - 1 \in S PROVE i \in S
  <2>1. PICK loop : LoopTo(rows, i - 1, loop)
    BY <1>2
  <2> DEFINE longer == [j \in 0 .. i |-> IF j = i THEN ReadRow(loop[i - 1], rows[i]) ELSE loop[j]]
  <2>2. \A j \in 0 .. i - 1 : longer[j] = loop[j]
    OBVIOUS
  <2>3. ASSUME NEW j \in 0 .. i PROVE longer[j] = IF j = 0 THEN EmptyLoop ELSE ReadRow(longer[j - 1], rows[j])
    <3>1. CASE j = i
      BY <2>2, <3>1
    <3>2. CASE j # i
      <4>1. j \in 0 .. i - 1 /\ (j # 0 => j - 1 \in 0 .. i - 1)
        BY <3>2
      <4>2. loop[j] = IF j = 0 THEN EmptyLoop ELSE ReadRow(loop[j - 1], rows[j])
        BY <2>1, <4>1 DEF LoopTo
      <4>3. QED
        BY <2>2, <4>1, <4>2
    <3>3. QED
      BY <3>1, <3>2
  <2>4. LoopTo(rows, i, longer)
    BY <2>3 DEF LoopTo
  <2>5. i \in Nat
    OBVIOUS
  <2>6. QED
    BY <2>4, <2>5
<1>3. n \in S
  <2>1. 0 .. n \subseteq S
    BY <1>1, <1>2, UpTo
  <2>2. QED
    BY <2>1
<1>4. QED
  BY <1>3

\* It is the one ReadRows computes.
LEMMA LoopIs ==
    ASSUME NEW rows, Len(rows) \in Nat
    PROVE  \E loop : LoopTo(rows, Len(rows), loop) /\ ReadRows(rows) = loop[Len(rows)]
<1> DEFINE loop == CHOOSE l : l = [n \in 0 .. Len(rows) |-> IF n = 0 THEN EmptyLoop ELSE ReadRow(l[n - 1], rows[n])]
<1>1. ReadRows(rows) = loop[Len(rows)]
  BY DEF ReadRows
<1>2. LoopTo(rows, Len(rows), loop)
  <2>1. \E l : l = [n \in 0 .. Len(rows) |-> IF n = 0 THEN EmptyLoop ELSE ReadRow(l[n - 1], rows[n])]
    BY LoopExists DEF LoopTo
  <2>2. loop = [n \in 0 .. Len(rows) |-> IF n = 0 THEN EmptyLoop ELSE ReadRow(loop[n - 1], rows[n])]
    BY <2>1, Zenon
  <2> HIDE DEF loop
  <2>3. QED
    BY <2>2 DEF LoopTo
<1>3. QED
  BY <1>1, <1>2

\* The fields of the loop's state.
LoopFields == {"ok", "rows", "start", "end", "scales", "totals"}

\* What the loop keeps: the running totals of a currency have the scale seen for it.
LoopFits(acc) ==
    /\ DOMAIN acc = LoopFields
    /\ \A k \in DOMAIN acc.totals :
         /\ k[2] \in DOMAIN acc.scales /\ acc.scales[k[2]] \in Nat
         /\ acc.totals[k] = [c |-> acc.totals[k].c, s |-> acc.scales[k[2]]] /\ acc.totals[k].c \in Int

\* A row that is accepted has the scale of its currency.
LEMMA ReadRowFits ==
    ASSUME NEW acc, LoopFits(acc), NEW row, IsDecimal(row.extended)
    PROVE  LoopFits(ReadRow(acc, row))
<1>1. CASE ~ (acc.ok /\ RowAccepted(acc, row))
  <2>1. ReadRow(acc, row) = [acc EXCEPT !.ok = FALSE]
    BY <1>1 DEF ReadRow
  <2>2. /\ DOMAIN ReadRow(acc, row) = LoopFields /\ ReadRow(acc, row).totals = acc.totals
        /\ ReadRow(acc, row).scales = acc.scales
    BY <2>1 DEF LoopFits, LoopFields
  <2>3. QED
    BY <2>2 DEF LoopFits
<1>2. CASE acc.ok /\ RowAccepted(acc, row)
  <2> DEFINE key == <<row.identifier, row.currency>>
             amount == row.extended
             sum == IF key \in DOMAIN acc.totals THEN Add(acc.totals[key], amount) ELSE amount
  <2>1. PICK next : next = ReadRow(acc, row)
    OBVIOUS
  <2>2. /\ DOMAIN next = LoopFields /\ next.scales = Put(acc.scales, row.currency, amount.s)
        /\ next.totals = Put(acc.totals, key, sum)
    BY <1>2, <2>1 DEF ReadRow, TakeRow, LoopFits, LoopFields
  <2>3. amount = [c |-> amount.c, s |-> amount.s] /\ amount.c \in Int /\ amount.s \in Nat
    BY <1>2 DEF RowAccepted, IsDecimal
  <2>4. row.currency \in DOMAIN acc.scales => acc.scales[row.currency] = amount.s
    BY <1>2 DEF RowAccepted, ScaleAgrees
  <2>5. sum = [c |-> sum.c, s |-> amount.s] /\ sum.c \in Int
    <3>1. CASE key \in DOMAIN acc.totals
      <4>1. key[2] = row.currency
        OBVIOUS
      <4>2. PICK total : total = acc.totals[key]
        OBVIOUS
      <4>3. total = [c |-> total.c, s |-> amount.s] /\ total.c \in Int
        BY <2>4, <3>1, <4>1, <4>2 DEF LoopFits
      <4>4. Add(total, amount) = [c |-> total.c + amount.c, s |-> amount.s]
        BY <2>3, <4>3 DEF Add
      <4>5. QED
        BY <2>3, <3>1, <4>2, <4>3, <4>4
    <3>2. CASE key \notin DOMAIN acc.totals
      BY <2>3, <3>2
    <3>3. QED
      BY <3>1, <3>2
  <2> HIDE DEF sum
  <2>6. DOMAIN next.totals = DOMAIN acc.totals \cup {key} /\ next.totals[key] = sum
        /\ \A k \in DOMAIN acc.totals \ {key} : next.totals[k] = acc.totals[k]
    BY <2>2 DEF Put
  <2>7. DOMAIN next.scales = DOMAIN acc.scales \cup {row.currency} /\ next.scales[row.currency] = amount.s
        /\ \A c \in DOMAIN acc.scales : next.scales[c] = acc.scales[c]
    BY <2>2, <2>4 DEF Put
  <2>8. ASSUME NEW k \in DOMAIN next.totals
        PROVE  /\ k[2] \in DOMAIN next.scales /\ next.scales[k[2]] \in Nat
               /\ next.totals[k] = [c |-> next.totals[k].c, s |-> next.scales[k[2]]] /\ next.totals[k].c \in Int
    <3>1. CASE k = key
      <4>1. k[2] = row.currency
        BY <3>1
      <4>2. QED
        BY <2>3, <2>5, <2>6, <2>7, <3>1, <4>1
    <3>2. CASE k # key
      <4>1. k \in DOMAIN acc.totals /\ next.totals[k] = acc.totals[k]
        BY <2>6, <2>8, <3>2
      <4>2. QED
        BY <2>7, <4>1 DEF LoopFits
    <3>3. QED
      BY <3>1, <3>2
  <2>9. QED
    BY <2>1, <2>2, <2>8 DEF LoopFits
<1>3. QED
  BY <1>1, <1>2

\* The loop over a file keeps it, by induction on its rows.
LEMMA ReadRowsFits ==
    ASSUME NEW file, ReportFile(file)
    PROVE  LoopFits(ReadRows(file.rows))
<1>1. PICK rows : rows = file.rows
  OBVIOUS
<1>2. PICK n : n = Len(rows)
  OBVIOUS
<1>3. n \in Nat /\ \A i \in 1 .. n : IsDecimal(rows[i].extended)
  <2>1. rows \in Seq(Range(rows)) /\ \A row \in Range(rows) : IsDecimal(row.extended)
    BY <1>1 DEF ReportFile
  <2>2. n \in Nat /\ \A i \in 1 .. n : rows[i] \in Range(rows)
    BY <1>2, <2>1, LenProperties, ElementOfSeq
  <2>3. QED
    BY <2>1, <2>2
<1>4. PICK loop : LoopTo(rows, n, loop) /\ ReadRows(rows) = loop[n]
  BY <1>2, <1>3, LoopIs
<1>5. \A i \in 0 .. n : loop[i] = IF i = 0 THEN EmptyLoop ELSE ReadRow(loop[i - 1], rows[i])
  BY <1>4 DEF LoopTo
<1> DEFINE S == {i \in 0 .. n : LoopFits(loop[i])}
<1>6. 0 \in S
  <2>1. LoopFits(EmptyLoop)
    BY DEF LoopFits, EmptyLoop, LoopFields
  <2>2. loop[0] = EmptyLoop
    BY <1>3, <1>5
  <2>3. QED
    BY <1>3, <2>1, <2>2
<1>7. \A i \in 1 .. n : i - 1 \in S => i \in S
  <2>1. ASSUME NEW i \in 1 .. n, i - 1 \in S PROVE i \in S
    <3>1. loop[i] = ReadRow(loop[i - 1], rows[i]) /\ LoopFits(loop[i - 1]) /\ i \in 0 .. n
      BY <1>3, <1>5, <2>1
    <3>2. LoopFits(loop[i])
      BY <1>3, <3>1, ReadRowFits
    <3>3. QED
      BY <3>1, <3>2
  <2>2. QED
    BY <2>1
<1>8. n \in S
  <2> HIDE DEF S
  <2>1. 0 .. n \subseteq S
    BY <1>3, <1>6, <1>7, UpTo
  <2>2. QED
    BY <1>3, <2>1
<1>9. QED
  BY <1>1, <1>4, <1>8

--------------------------------------------------------------------------------
(* Accepted reports add up.                                                  *)

\* The amounts of one currency have one scale, whichever the identifier or application.
OneScale(amounts) ==
    \A x, y \in DOMAIN amounts :
        amounts[x].amount.s \in Nat /\ (x[2] = y[2] => amounts[x].amount.s = amounts[y].amount.s)

\* What a transaction takes from the parser passes the store's own check.
Sums(draft) ==
    OneScale(draft.totals) /\ \A k \in DOMAIN draft.totals : validateIdentifierTotal(draft.totals[k])

ReportsSum ==
    /\ \A i \in DOMAIN imports : imports[i].status = "accepted" => OneScale(imports[i].amounts)
    /\ \A r \in Requests : request[r].pc = "tx" => Sums(request[r].draft)

\* A total at the currency's exponent is exact at some exponent up to its scale.
LEMMA TotalValid ==
    ASSUME NEW currency, NEW amount, amount.s \in Nat, NEW total,
           total = [amount |-> amount, minor |-> appleMinorUnits(currency, amount)]
    PROVE  validateIdentifierTotal(total)
<1>1. PICK none : none = NoMinor
  OBVIOUS
<1>2. total.amount = amount /\ total.minor = appleMinorUnits(currency, amount)
  OBVIOUS
<1>3. CASE currency \notin DOMAIN Exponent
  BY <1>2, <1>3 DEF appleMinorUnits, validateIdentifierTotal
<1>4. CASE currency \in DOMAIN Exponent
  <2>1. PICK e \in Nat : e = Exponent[currency]
    BY <1>4, ReportAssumption
  <2>2. total.minor = MinorUnits(amount, e)
    BY <1>2, <1>4, <2>1 DEF appleMinorUnits
  <2>3. CASE amount.s < e
    <3>1. MinorUnits(amount, e) = NoMinor
      BY <2>3 DEF MinorUnits
    <3>2. QED
      BY <2>2, <3>1 DEF validateIdentifierTotal
  <2>4. CASE ~ (amount.s < e)
    <3>1. e \in 0 .. amount.s
      BY <2>1, <2>4
    <3>2. QED
      BY <1>2, <2>2, <3>1 DEF validateIdentifierTotal
  <2>5. QED
    BY <2>3, <2>4
<1>5. QED
  BY <1>3, <1>4

\* What the parser makes of a file adds up.
LEMMA ParsedSums ==
    ASSUME NEW file, ReportFile(file), NEW totals, totals = ParseAppleConsolidated(file).totals
    PROVE  OneScale(totals) /\ \A k \in DOMAIN totals : validateIdentifierTotal(totals[k])
<1>1. PICK acc : acc = ReadRows(file.rows)
  OBVIOUS
<1>2. LoopFits(acc)
  BY <1>1, ReadRowsFits
<1>3. totals = [k \in DOMAIN acc.totals |-> [amount |-> acc.totals[k], minor |-> appleMinorUnits(k[2], acc.totals[k])]]
  BY <1>1 DEF ParseAppleConsolidated
<1>4. ASSUME NEW k \in DOMAIN totals
      PROVE  /\ totals[k].amount.s \in Nat /\ totals[k].amount.s = acc.scales[k[2]]
             /\ validateIdentifierTotal(totals[k])
  <2>1. PICK amount, total : amount = acc.totals[k] /\ total = totals[k]
    OBVIOUS
  <2>2. total = [amount |-> amount, minor |-> appleMinorUnits(k[2], amount)]
    BY <1>3, <1>4, <2>1
  <2>3. k \in DOMAIN acc.totals
    BY <1>3, <1>4
  <2>4. amount.s \in Nat /\ amount.s = acc.scales[k[2]]
    <3>1. PICK scale, units : scale = acc.scales[k[2]] /\ units = amount.c
      OBVIOUS
    <3>2. scale \in Nat /\ amount = [c |-> units, s |-> scale]
      BY <1>2, <2>1, <2>3, <3>1 DEF LoopFits
    <3>3. QED
      BY <3>1, <3>2
  <2>5. validateIdentifierTotal(total)
    BY <2>2, <2>4, TotalValid
  <2>6. total.amount = amount
    BY <2>2
  <2>7. QED
    BY <2>1, <2>4, <2>5, <2>6
<1>5. OneScale(totals)
  BY <1>4 DEF OneScale
<1>6. QED
  BY <1>4, <1>5

\* So does a draft; one that is not recognized has no totals.
LEMMA DraftSums ==
    ASSUME NEW u \in Uploads, NEW draft, draft = prepareDraft(u), draft.ok
    PROVE  Sums(draft)
<1>0. ReportFile(u.file)
  BY FinancialAssumption
<1>1. PICK parsed : parsed = ParseAppleConsolidated(u.file)
  OBVIOUS
<1>2. PICK none : none = << >>
  OBVIOUS
<1>3. PICK ordered : ordered = (u.period # << >> /\ u.period[1] <= u.period[2])
  OBVIOUS
<1>4. \/ draft \in {Refused("invalid"), Refused("too_large")}
      \/ draft = [ok |-> TRUE, provider |-> u.provider, file |-> u.file,
                  period |-> parsed.period, status |-> "accepted", totals |-> parsed.totals]
      \/ draft = [ok |-> TRUE, provider |-> u.provider, file |-> u.file,
                  period |-> u.period, status |-> "unrecognized", totals |-> none]
  BY <1>1, <1>2, <1>3 DEF prepareDraft
<1>5. draft.totals = parsed.totals \/ draft.totals = none
  BY <1>4 DEF Refused
<1>6. PICK totals : totals = parsed.totals
  OBVIOUS
<1>7. OneScale(totals) /\ \A k \in DOMAIN totals : validateIdentifierTotal(totals[k])
  BY <1>0, <1>1, <1>6, ParsedSums
<1>8. DOMAIN none = {}
  BY <1>2
<1>9. OneScale(none)
  BY <1>8 DEF OneScale
<1>10. QED
  BY <1>5, <1>6, <1>7, <1>8, <1>9 DEF Sums

\* The applications' amounts have the scales of the identifiers they come from.
LEMMA ResolvedScale ==
    ASSUME NEW apps, NEW draft, OneScale(draft.totals)
    PROVE  OneScale(resolveFinancialReportAmounts(apps, draft))
<1> DEFINE app(k) == {a \in ProductionApps(apps, draft.provider) : a.identifier = k[1]}
           keys == {k \in DOMAIN draft.totals : app(k) # {}}
           id(k) == (CHOOSE a \in app(k) : TRUE).id
           key(x) == CHOOSE k \in keys : <<id(k), k[2]>> = x
<1>1. PICK amounts : amounts = resolveFinancialReportAmounts(apps, draft)
  OBVIOUS
<1>2. amounts = [x \in {<<id(k), k[2]>> : k \in keys} |-> draft.totals[key(x)]]
  BY <1>1 DEF resolveFinancialReportAmounts
<1> HIDE DEF id
<1>3. ASSUME NEW x \in DOMAIN amounts
      PROVE  \E k \in DOMAIN draft.totals : x[2] = k[2] /\ amounts[x] = draft.totals[k]
  <2>1. amounts[x] = draft.totals[key(x)] /\ \E k \in keys : <<id(k), k[2]>> = x
    BY <1>2, <1>3
  <2>2. key(x) \in keys /\ <<id(key(x)), key(x)[2]>> = x
    BY <2>1, Zenon
  <2> HIDE DEF key
  <2>3. key(x) \in DOMAIN draft.totals
    BY <2>2
  <2>4. x[2] = key(x)[2]
    BY <2>2
  <2>5. QED
    BY <2>1, <2>3, <2>4
<1>4. QED
  BY <1>1, <1>3 DEF OneScale

\* What a commit makes of the table.
LEMMA CommitSums ==
    ASSUME IInv, ReportsSum, NEW r \in Requests, NEW answer, Commit(r, answer)
    PROVE  \A i \in DOMAIN imports' : imports'[i].status = "accepted" => OneScale(imports'[i].amounts)
<1>1. PICK q : q = request[r]
  OBVIOUS
<1>2. \/ imports' = imports
      \/ Adds(q.apps, q.draft)
      \/ \E j : Supersedes(q.apps, q.draft, q.target, j)
  BY <1>1, CommitWrites
<1>3. OneScale(resolveFinancialReportAmounts(q.apps, q.draft))
  <2>1. OneScale(q.draft.totals)
    BY <1>1 DEF Commit, ReportsSum, Sums
  <2>2. QED
    BY <2>1, ResolvedScale
<1>4. ASSUME NEW i \in DOMAIN imports', imports'[i].status = "accepted"
      PROVE  (i \in DOMAIN imports /\ imports'[i] = imports[i]) \/ Resolves(imports'[i], q.apps, q.draft)
  <2>1. CASE imports' = imports
    BY <1>4, <2>1
  <2>2. CASE Adds(q.apps, q.draft)
    <3>1. PICK n : n = Len(imports)
      OBVIOUS
    <3>2. n \in Nat /\ DOMAIN imports = 1 .. n
      BY <3>1, TableDomain DEF IInv, TypeOK
    <3>3. DOMAIN imports' = 1 .. n + 1 /\ Resolves(imports'[n + 1], q.apps, q.draft) /\ \A j \in 1 .. n : imports'[j] = imports[j]
      BY <2>2, <3>1, <3>2 DEF Adds
    <3>4. i \in 1 .. n \/ i = n + 1
      BY <1>4, <3>2, <3>3
    <3>5. QED
      BY <3>2, <3>3, <3>4
  <2>3. ASSUME NEW j, Supersedes(q.apps, q.draft, q.target, j)
        PROVE  (i \in DOMAIN imports /\ imports'[i] = imports[i]) \/ Resolves(imports'[i], q.apps, q.draft)
    BY <1>4, <2>3 DEF Supersedes
  <2>4. QED
    BY <1>2, <2>1, <2>2, <2>3
<1>5. QED
  BY <1>3, <1>4 DEF ReportsSum, Resolves

\* A request that moves: what it is to store adds up.
LEMMA SumsKept ==
    ASSUME IInv, ReportsSum, NEW r \in Requests, NEW q, request' = [request EXCEPT ![r] = q],
           q.pc = "tx" => Sums(q.draft),
           \A i \in DOMAIN imports' : imports'[i].status = "accepted" => OneScale(imports'[i].amounts)
    PROVE  ReportsSum'
<1>1. request'[r] = q /\ \A s \in Requests \ {r} : request'[s] = request[s]
  BY DEF IInv, TypeOK
<1>2. \A s \in Requests : request'[s].pc = "tx" => Sums(request'[s].draft)
  BY <1>1 DEF ReportsSum
<1>3. QED
  BY <1>2 DEF ReportsSum, Sums

\* An answered request stores nothing more.
LEMMA AnsweredSums ==
    ASSUME IInv, ReportsSum, NEW r \in Requests, NEW answer, request' = Done(r, answer),
           \A i \in DOMAIN imports' : imports'[i].status = "accepted" => OneScale(imports'[i].amounts)
    PROVE  ReportsSum'
<1>1. PICK q : q = [pc |-> "done", answer |-> answer]
  OBVIOUS
<1>2. q.pc # "tx" /\ request' = [request EXCEPT ![r] = q]
  BY <1>1 DEF Done
<1>3. QED
  BY <1>2, SumsKept

\* Every step keeps the reports addable.
LEMMA NextSums ==
    ASSUME IInv, ReportsSum, [Next]_vars
    PROVE  ReportsSum'
<1>0. ASSUME UNCHANGED imports
      PROVE  \A i \in DOMAIN imports' : imports'[i].status = "accepted" => OneScale(imports'[i].amounts)
  BY <1>0 DEF ReportsSum
<1>1. ASSUME NEW r \in Requests, NEW u \in Uploads, NEW t, Submit(r, u, t) PROVE ReportsSum'
  <2>1. PICK draft : draft = prepareDraft(u)
    OBVIOUS
  <2>2. PICK q : q = Transaction(t, draft, 1)
    OBVIOUS
  <2>3. UNCHANGED imports /\ \/ \E answer : request' = Done(r, answer)
                             \/ draft.ok /\ request' = [request EXCEPT ![r] = q]
    BY <1>1, <2>1, <2>2 DEF Submit
  <2>4. q.draft = draft
    BY <2>2 DEF Transaction
  <2>5. draft.ok => Sums(draft)
    BY <2>1, DraftSums
  <2>6. CASE \E answer : request' = Done(r, answer)
    BY <1>0, <2>3, <2>6, AnsweredSums
  <2>7. CASE draft.ok /\ request' = [request EXCEPT ![r] = q]
    BY <1>0, <2>3, <2>4, <2>5, <2>7, SumsKept
  <2>8. QED
    BY <2>3, <2>6, <2>7
<1>2. ASSUME NEW r \in Requests, Conflict(r) PROVE ReportsSum'
  <2>1. PICK old : old = request[r]
    OBVIOUS
  <2>2. PICK q : q = Transaction(old.target, old.draft, old.attempt + 1)
    OBVIOUS
  <2>3. UNCHANGED imports /\ old.pc = "tx" /\ (request' = Done(r, "unavailable") \/ request' = [request EXCEPT ![r] = q])
    BY <1>2, <2>1, <2>2 DEF Conflict, IInv, TypeOK
  <2>4. q.draft = old.draft /\ Sums(old.draft)
    BY <2>1, <2>2, <2>3 DEF Transaction, ReportsSum
  <2>5. CASE request' = Done(r, "unavailable")
    BY <1>0, <2>3, <2>5, AnsweredSums
  <2>6. CASE request' = [request EXCEPT ![r] = q]
    BY <1>0, <2>3, <2>4, <2>6, SumsKept
  <2>7. QED
    BY <2>3, <2>5, <2>6
<1>3. ASSUME NEW r \in Requests, Refuse(r) \/ Pull(r) PROVE ReportsSum'
  <2>1. PICK answer : request' = Done(r, answer) /\ UNCHANGED imports
    BY <1>3 DEF Refuse, Pull
  <2>2. QED
    BY <1>0, <2>1, AnsweredSums
<1>4. ASSUME NEW r \in Requests, NEW answer, Commit(r, answer) PROVE ReportsSum'
  <2>1. request' = Done(r, answer)
    BY <1>4 DEF Commit
  <2>2. QED
    BY <1>4, <2>1, CommitSums, AnsweredSums
<1>5. CASE UNCHANGED <<imports, request>>
  BY <1>5 DEF ReportsSum
<1>6. QED
  BY <1>1, <1>2, <1>3, <1>4, <1>5 DEF Next, PutApplication, vars

\* Amounts of one scale add up to a decimal.
LEMMA ScaleSums ==
    ASSUME NEW i \in DOMAIN imports, OneScale(imports[i].amounts)
    PROVE  Invalid \notin Range(sumRecognizedAmounts(i))
<1> DEFINE amounts == imports[i].amounts
           rows(c) == {k \in DOMAIN amounts : k[2] = c}
           scales(c) == {amounts[k].amount.s : k \in rows(c)}
           scale(c) == CHOOSE s \in scales(c) : TRUE
           total(c) == MapThenSumSet(LAMBDA k : amounts[k].amount.c, rows(c))
           currencies == {k[2] : k \in DOMAIN amounts}
<1>1. sumRecognizedAmounts(i) = [c \in currencies |-> IF Cardinality(scales(c)) # 1 THEN Invalid ELSE [c |-> total(c), s |-> scale(c)]]
  BY DEF sumRecognizedAmounts
<1> HIDE DEF total
<1>2. ASSUME NEW c \in currencies
      PROVE  Cardinality(scales(c)) = 1 /\ scale(c) \in Nat
  <2>1. PICK k \in DOMAIN amounts : k[2] = c
    BY <1>2
  <2>2. PICK s : s = amounts[k].amount.s
    OBVIOUS
  <2>3. s \in Nat /\ scales(c) = {s}
    BY <2>1, <2>2 DEF OneScale
  <2>4. Cardinality(scales(c)) = 1
    BY <2>3, FS_Singleton
  <2>5. scale(c) = s
    BY <2>3
  <2>6. QED
    BY <2>3, <2>4, <2>5
<1> HIDE DEF scales, scale, currencies
<1>3. ASSUME NEW c \in currencies PROVE sumRecognizedAmounts(i)[c] # Invalid
  <2>1. sumRecognizedAmounts(i)[c] = [c |-> total(c), s |-> scale(c)]
    BY <1>1, <1>2, <1>3
  <2>2. sumRecognizedAmounts(i)[c].s \in Nat
    BY <1>2, <1>3, <2>1
  <2>3. Invalid.s \notin Nat
    BY DEF Invalid
  <2>4. QED
    BY <2>2, <2>3
<1>4. DOMAIN sumRecognizedAmounts(i) = currencies
  BY <1>1
<1>5. QED
  BY <1>3, <1>4 DEF Range

\* A file the parser accepts passes the store's own checks, and every accepted report can be
\* summed per currency (ParseAppleConsolidated's scale check, resolveFinancialReportAmounts,
\* sumRecognizedAmounts), for files of any length and any interleaving of the requests.
THEOREM AcceptedReportsSum == Spec => []AcceptedReportSums
<1>1. Init => ReportsSum
  <2> SUFFICES ASSUME Init PROVE ReportsSum
    OBVIOUS
  <2>1. imports = << >> /\ DOMAIN imports = {} /\ request = [r \in Requests |-> Idle]
    BY DEF Init
  <2>2. \A r \in Requests : request[r].pc = "idle"
    BY <2>1 DEF Idle
  <2>3. QED
    BY <2>1, <2>2 DEF ReportsSum
<1>2. IInv /\ ReportsSum /\ [Next]_vars => ReportsSum'
  BY NextSums
<1>3. ReportsSum => AcceptedReportSums
  BY ScaleSums DEF ReportsSum, AcceptedReportSums, Sums
<1>4. QED
  BY <1>1, <1>2, <1>3, Invariance, PTL DEF Spec

====
