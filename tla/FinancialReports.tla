---- MODULE FinancialReports ----
(***************************************************************************)
(* Official financial reports: the administrator's upload and supersede    *)
(* requests, the serializable transactions that store them, and the        *)
(* revenue recognized from the accepted reports.  One project; a file      *)
(* stands for its SHA-256 digest.  The requests interleave with each other *)
(* and with the registration of applications, which runs at read committed *)
(* and is therefore invisible to serializable conflict detection.          *)
(***************************************************************************)
EXTENDS AppleFinancialReport, FiniteSetsExt, TLC

CONSTANTS
    Applications,   \* [id, provider, environment, identifier]: what may be registered
    Initially,      \* those registered before the first report
    Uploads,        \* the uploads an administrator may send
    Requests,       \* the requests of the administrators
    MaxAttempts     \* maximumTransactionAttempts of the store

ASSUME FinancialAssumption ==
    /\ MaxAttempts \in Nat \ {0} /\ Initially \subseteq Applications
    /\ \A u \in Uploads : ReportFile(u.file)
    /\ \A a, b \in Applications :     \* applications_store_scope_unique
         a.provider = b.provider /\ a.environment = b.environment /\ a.identifier = b.identifier => a = b

VARIABLES
    registered, \* the applications table
    imports,    \* financial_report_imports with their financial_report_amounts
    request     \* the requests: what they ask, their transaction, their answer

vars == <<registered, imports, request>>

Idle == [pc |-> "idle"]
NoTarget == 0

-----------------------------------------------------------------------------
(* The service: from an upload to a draft.                                 *)

KnownKind == [apple |-> "apple_financial_consolidated", google |-> "google_play_earnings", huawei |-> "huawei_settlement"]

ReportKind(upload) == upload.provider \in DOMAIN KnownKind /\ KnownKind[upload.provider] = upload.kind

\* Each form field and the file at most once, no other field, and the whole
\* body under the byte limit.
readFinancialUpload(upload) == upload.form = "ok"

\* Plain bytes, or a gzip that opens and stays under the limit.
decodeReportBody(upload) == upload.body \in {"plain", "gzip"}

Refused(answer) == [ok |-> FALSE, answer |-> answer]

\* Apple's period comes from the file and nothing else is recognized; the
\* other providers state theirs and are stored as unrecognized.
prepareDraft(upload) ==
    LET parsed == ParseAppleConsolidated(upload.file)
        draft(period, status, totals) ==
            [ok |-> TRUE, provider |-> upload.provider, file |-> upload.file,
             period |-> period, status |-> status, totals |-> totals]
    IN  CASE ~ ReportKind(upload) \/ upload.body \in {"empty", "gzip_invalid"} -> Refused("invalid")
          [] upload.body = "oversized" -> Refused("too_large")
          [] upload.provider = "apple" /\ decodeReportBody(upload) ->
               IF upload.period = << >> /\ parsed.ok
               THEN draft(parsed.period, "accepted", parsed.totals) ELSE Refused("invalid")
          [] OTHER ->
               IF upload.period # << >> /\ upload.period[1] <= upload.period[2]
               THEN draft(upload.period, "unrecognized", << >>) ELSE Refused("invalid")

-----------------------------------------------------------------------------
(* The store: one transaction on a snapshot of imports and applications.   *)

SameScope(row, draft) == row.provider = draft.provider /\ row.period = draft.period

findFinancialReportByDigest(rows, draft) ==
    {i \in DOMAIN rows : SameScope(rows[i], draft) /\ rows[i].file = draft.file}

Occupied(rows, draft) == {i \in DOMAIN rows : SameScope(rows[i], draft) /\ rows[i].status = "accepted"}

ProductionApps(apps, provider) == {a \in apps : a.environment = "production" /\ a.provider = provider}

\* The amount of every production application the file names; every other
\* identifier is dropped.  An identifier is unique within production, so the
\* ambiguous match and the merge of two rows cannot happen.
resolveFinancialReportAmounts(apps, draft) ==
    LET app(k) == {a \in ProductionApps(apps, draft.provider) : a.identifier = k[1]}
        keys   == {k \in DOMAIN draft.totals : app(k) # {}}
    IN  [x \in {<<(CHOOSE a \in app(k) : TRUE).id, k[2]>> : k \in keys} |->
           draft.totals[CHOOSE k \in keys : <<(CHOOSE a \in app(k) : TRUE).id, k[2]>> = x]]

NewImport(apps, draft, supersedes) ==
    [provider |-> draft.provider, period |-> draft.period, file |-> draft.file,
     status |-> draft.status, supersedes |-> supersedes,
     amounts |-> IF draft.status = "accepted" THEN resolveFinancialReportAmounts(apps, draft)
                 ELSE << >>]

\* A superseded row keeps its history and loses its amounts.
markFinancialReportSuperseded(row) == [row EXCEPT !.status = "superseded", !.amounts = << >>]

\* An older digest becomes the accepted import and its amounts are rewritten.
reviveFinancialReport(row, apps, draft, supersedes) ==
    [row EXCEPT !.status = "accepted", !.supersedes = supersedes,
                !.amounts = resolveFinancialReportAmounts(apps, draft)]

Result(rows, answer) == [rows |-> rows, answer |-> answer]

saveFinancialReport(rows, apps, draft) ==
    IF findFinancialReportByDigest(rows, draft) # {} THEN Result(rows, "existing")
    ELSE IF draft.status = "accepted" /\ Occupied(rows, draft) # {} THEN Result(rows, "conflict")
    ELSE Result(Append(rows, NewImport(apps, draft, NoTarget)), "created")

\* Faulty variant: whatever is current for the period is replaced, not the
\* import the request named.
supersedeWhateverIsCurrent(rows, apps, draft, target) ==
    LET current == IF Occupied(rows, draft) = {} THEN target
                   ELSE CHOOSE i \in Occupied(rows, draft) : TRUE
        marked == [rows EXCEPT ![current] = markFinancialReportSuperseded(@)]
    IN  IF target \notin DOMAIN rows THEN Result(rows, "not_found")
        ELSE IF findFinancialReportByDigest(rows, draft) # {} THEN Result(rows, "existing")
        ELSE Result(Append(marked, NewImport(apps, draft, current)), "created")

\* The named import must be the accepted one of the draft's period.  The same
\* file changes nothing, a known file is revived, a new one is inserted.
supersedeFinancialReport(rows, apps, draft, target) ==
    LET existing == findFinancialReportByDigest(rows, draft)
        marked   == [rows EXCEPT ![target] = markFinancialReportSuperseded(@)]
        older    == CHOOSE i \in existing : TRUE
    IN  CASE target \notin DOMAIN rows -> Result(rows, "not_found")
          [] target \in DOMAIN rows /\ rows[target].status # "accepted" -> Result(rows, "not_accepted")
          [] target \in DOMAIN rows /\ rows[target].status = "accepted" /\ ~ SameScope(rows[target], draft) ->
               Result(rows, "scope_mismatch")
          [] OTHER ->
               IF existing = {}
               THEN Result(Append(marked, NewImport(apps, draft, target)), "created")
               ELSE IF older = target THEN Result(rows, "existing")
               ELSE Result([marked EXCEPT ![older] = reviveFinancialReport(@, apps, draft, target)], "created")

\* The store's own check of a total: its minor units are the decimal at some
\* exponent up to its scale.
validateIdentifierTotal(total) ==
    total.minor # NoMinor => \E e \in 0 .. total.amount.s : MinorUnits(total.amount, e) = total.minor

\* The callback of the transaction; a total that fails the check rolls it back.
Body(r) ==
    LET q == request[r]
        result == IF q.target = NoTarget THEN saveFinancialReport(q.snapshot, q.apps, q.draft)
                  ELSE supersedeFinancialReport(q.snapshot, q.apps, q.draft, q.target)
    IN  IF \/ result.answer # "created"
           \/ \A k \in DOMAIN q.draft.totals : validateIdentifierTotal(q.draft.totals[k])
        THEN result ELSE Result(q.snapshot, "invalid")

-----------------------------------------------------------------------------
(* Requests.                                                               *)

Done(r, answer) ==
    [request EXCEPT ![r] = [pc |-> "done", answer |-> answer]]

Transaction(target, draft, attempt) ==
    [pc |-> "tx", target |-> target, draft |-> draft, attempt |-> attempt,
     snapshot |-> imports, apps |-> registered]

\* uploadFinancialReport and supersedeFinancialReport up to the snapshot of
\* their transaction.  target is NoTarget for an upload; it may name no row.
Submit(r, upload, target) ==
    /\ request[r].pc = "idle"
    /\ request' =
         LET draft == prepareDraft(upload)
         IN  IF ~ readFinancialUpload(upload)
             THEN Done(r, IF upload.form = "oversized" THEN "too_large" ELSE "invalid")
             ELSE IF ~ draft.ok THEN Done(r, draft.answer)
             ELSE IF target # NoTarget /\ draft.status # "accepted" THEN Done(r, "not_accepted")
             ELSE [request EXCEPT ![r] = Transaction(target, draft, 1)]
    /\ UNCHANGED <<registered, imports>>

\* Faulty variant: read committed, no conflict is ever detected.
NeverStale(r) == FALSE

\* Another transaction changed rows of this draft's period, or the row this
\* request locks, after the snapshot was taken.
Stale(r) ==
    LET q == request[r]
        seen(rows) == {<<i, rows[i]>> : i \in {j \in DOMAIN rows : SameScope(rows[j], q.draft) \/ j = q.target}}
    IN  seen(q.snapshot) # seen(imports)

\* The transaction on an unchanged period commits; its answer may be lost on
\* the way back, after which the client knows no more than "unavailable".
Commit(r, answer) ==
    /\ request[r].pc = "tx"
    /\ ~ Stale(r)
    /\ LET seen == request[r].snapshot
           mine == Body(r)
       IN  /\ answer \in {mine.answer, "unavailable"}
           /\ imports' = [i \in DOMAIN imports |->
                             IF i \in DOMAIN seen /\ mine.rows[i] # seen[i] THEN mine.rows[i] ELSE imports[i]]
                         \o SubSeq(mine.rows, Len(seen) + 1, Len(mine.rows))
    /\ request' = Done(r, answer)
    /\ UNCHANGED registered

\* A serialization failure, a deadlock or a lock timeout rolls back; the
\* transaction runs again on a new snapshot until its attempts are used up.
Conflict(r) ==
    /\ request[r].pc = "tx"
    /\ \E other \in Requests \ {r} : request[other].pc \in {"tx", "done"}
    /\ request' = IF request[r].attempt = MaxAttempts THEN Done(r, "unavailable")
                  ELSE [request EXCEPT ![r] = Transaction(@.target, @.draft, @.attempt + 1)]
    /\ UNCHANGED <<registered, imports>>

\* The unique index on accepted periods refuses the insert of a period that
\* was taken after the snapshot.
Refuse(r) ==
    /\ request[r].pc = "tx"
    /\ Stale(r)
    /\ request[r].target = NoTarget /\ request[r].draft.status = "accepted"
    /\ Body(r).answer = "created" /\ Occupied(imports, request[r].draft) # {}
    /\ request' = Done(r, "conflict")
    /\ UNCHANGED <<registered, imports>>

\* A pull is checked and always refused: no provider's contract is pinned.
Pull(r) ==
    /\ request[r].pc = "idle"
    /\ request' = Done(r, "invalid")
    /\ UNCHANGED <<registered, imports>>

\* An application is created by the control plane; it never changes again.
PutApplication(a) ==
    /\ a \notin registered
    /\ registered' = registered \cup {a}
    /\ UNCHANGED <<imports, request>>

Init ==
    /\ registered = Initially
    /\ imports = << >>
    /\ request = [r \in Requests |-> Idle]

Next ==
    \/ \E r \in Requests, u \in Uploads, t \in 0 .. Len(imports) + 1 : Submit(r, u, t)
    \/ \E r \in Requests : Conflict(r) \/ Refuse(r) \/ Pull(r)
    \/ \E r \in Requests, a \in {"existing", "conflict", "created", "not_found", "not_accepted",
                                 "scope_mismatch", "unavailable"} : Commit(r, a)
    \/ \E a \in Applications : PutApplication(a)

Spec == Init /\ [][Next]_vars

-----------------------------------------------------------------------------
(* Recognized revenue, a pure read of one snapshot.                        *)

\* The latest accepted import of a provider, or the one of the asked period.
chooseFinancialImports(provider, query) ==
    LET fits == {i \in DOMAIN imports : /\ imports[i].status = "accepted" /\ imports[i].provider = provider
                                        /\ query # << >> => imports[i].period = query}
        later(i, j) == \/ imports[i].period[2] > imports[j].period[2]
                       \/ /\ imports[i].period[2] = imports[j].period[2]
                          /\ imports[i].period[1] >= imports[j].period[1]
    IN  {i \in fits : \A j \in fits : later(i, j)}

Covered(i) == {k[1] : k \in DOMAIN imports[i].amounts}

\* Applications of the provider the report has no row for.
Missing(provider, i) == {a.id : a \in ProductionApps(registered, provider)} \ Covered(i)

providerReportCoverage(provider, i) == {a.id : a \in ProductionApps(registered, provider)} \cap Covered(i) # {}

\* One total per currency; Invalid when the scales disagree.
sumRecognizedAmounts(i) ==
    [c \in {k[2] : k \in DOMAIN imports[i].amounts} |->
        LET rows == {k \in DOMAIN imports[i].amounts : k[2] = c}
            scales == {imports[i].amounts[k].amount.s : k \in rows}
        IN  IF Cardinality(scales) # 1 THEN Invalid
            ELSE [c |-> MapThenSumSet(LAMBDA k : imports[i].amounts[k].amount.c, rows),
                  s |-> CHOOSE s \in scales : TRUE]]

recognizeProviderAmounts(provider, query) ==
    LET chosen == chooseFinancialImports(provider, query)
        i == CHOOSE j \in chosen : TRUE
    IN  IF chosen = {} THEN [state |-> "uncovered"]
        ELSE IF ~ providerReportCoverage(provider, i) \/ Invalid \in Range(sumRecognizedAmounts(i))
        THEN [state |-> "uncovered"]
        ELSE [state |-> IF Missing(provider, i) = {} THEN "complete" ELSE "zero_filled",
              report |-> i, sums |-> sumRecognizedAmounts(i)]

Providers == {a.provider : a \in {b \in registered : b.environment = "production"}}

adminRecognizedRevenue(query) ==
    LET parts == [p \in Providers |-> recognizeProviderAmounts(p, query)]
    IN  [parts |-> parts,
         status |-> IF Providers # {}
                    THEN IF \A p \in Providers : parts[p].state = "complete"
                         THEN "reports_imported" ELSE "store_reports_required"
                    ELSE IF registered # {} THEN "sandbox_only" ELSE "no_applications"]

-----------------------------------------------------------------------------
(* Properties.                                                             *)

Periods == {imports[i].period : i \in DOMAIN imports}

\* A period counts once: of all uploads and replacements of one period, in
\* any interleaving, retry and lost answer, at most one is accepted and no
\* file is stored twice (SaveFinancialReport, SupersedeFinancialReport).
PeriodCountsOnce ==
    \A i, j \in DOMAIN imports :
        i # j /\ SameScope(imports[i], imports[j]) =>
            /\ imports[i].file # imports[j].file
            /\ ~ (imports[i].status = "accepted" /\ imports[j].status = "accepted")

\* A step that takes an accepted report out of its period is the commit of a
\* request that names it and puts its own file in its place.
ReplacedByName ==
    \A i \in DOMAIN imports :
        imports[i].status = "accepted" /\ imports'[i].status # "accepted" =>
           \E r \in Requests, j \in DOMAIN imports' :
              /\ request[r].pc = "tx" /\ request'[r].pc = "done"
              /\ request[r].target = i
              /\ imports'[j].status = "accepted" /\ imports'[j].supersedes = i
              /\ imports'[j].file = request[r].draft.file
              /\ SameScope(imports'[j], imports[i])

\* An accepted report leaves a period only by a request that named it, and
\* that request's file takes its place in the same step: two administrators
\* who replace the same import cannot both succeed.
CurrentWasNamed == [][ReplacedByName]_vars

\* What the dashboard calls recognized revenue is, for every provider and
\* currency it shows, what the rows of the one accepted file of that period
\* say of the applications it covers; once the status says the reports are
\* imported it covers every production application; and an accepted file, one
\* replaced and accepted again included, covers the applications it names that
\* were registered before it.
RevenueIsTheFiles ==
    /\ \A query \in Periods \cup {<< >>} :
        LET revenue == adminRecognizedRevenue(query)
        IN  \A p \in Providers :
              LET part == revenue.parts[p]
                  row  == imports[part.report]
                  ids  == {a.identifier : a \in {b \in ProductionApps(registered, p) : b.id \in Covered(part.report)}}
              IN  part.state # "uncovered" =>
                    /\ row.status = "accepted" /\ (query = << >> \/ row.period = query)
                    /\ revenue.status = "reports_imported" =>
                         ids = {a.identifier : a \in ProductionApps(registered, p)}
                    /\ \A c \in DOMAIN part.sums :
                         part.sums[c].c =
                           MapThenSumSet(LAMBDA id : FileTotal(row.file, id, c, part.sums[c].s), ids)
    /\ \A i \in DOMAIN imports :
        imports[i].status = "accepted" =>
            \A a \in ProductionApps(Initially, imports[i].provider) :
                \/ \A row \in Range(imports[i].file.rows) : row.identifier # a.identifier
                \/ a.id \in Covered(i)

\* A file the parser accepts passes the store's own checks and can always be
\* summed: no stored report makes a provider look uncovered because its rows
\* do not add up.
AcceptedReportSums ==
    /\ \A i \in DOMAIN imports :
         imports[i].status = "accepted" => Invalid \notin Range(sumRecognizedAmounts(i))
    /\ \A r \in Requests :
         request[r].pc = "tx" =>
            \A k \in DOMAIN request[r].draft.totals : validateIdentifierTotal(request[r].draft.totals[k])

====
