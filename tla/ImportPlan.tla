---- MODULE ImportPlan ----
(***************************************************************************)
(* The plan of a historical import: how an export of RevenueCat becomes,   *)
(* per subscriber, the grants an apply writes (parseExport, planSubscriber,*)
(* mapGrant, decideAccess).                                                *)
(*                                                                         *)
(* Times are numbers from 1, 0 is an absent time; external ids are numbers,*)
(* NoId an empty one.  A row that cannot be imported is refused; which     *)
(* failure code the report gives it is left out.  The catalog is the one   *)
(* Apply loads, so that the kind of every product is known.                *)
(***************************************************************************)
EXTENDS Naturals, FiniteSets, Functions

CONSTANTS
    Mapping,        \* the operator's file: [canonical, entitlements, products]
    Catalog,        \* NewCatalog: [applications, products, entitlements, storeProducts]
    AnonymousIds,   \* external ids with the anonymous prefix
    InvalidIds      \* external ids ValidateExternalCustomerID refuses

\* Mapping.Validate: the canonical column is one of the two, entitlements and products
\* are named, and a store product is mapped once.
ValidMapping(mapping) ==
    /\ mapping.canonical \in {"original", "lastSeen"}
    /\ DOMAIN mapping.entitlements # {} /\ mapping.products # {}
    /\ \A m \in mapping.products : m.environment \in {"production", "sandbox"}
    /\ \A m, n \in mapping.products :
           m.store = n.store /\ m.environment = n.environment /\ m.provider = n.provider => m = n

\* A product number of the model stands for an application and a product.
ASSUME MappingAssumption ==
    /\ ValidMapping(Mapping)
    /\ \A m, n \in Mapping.products : m.product = n.product => m.application = n.application

NoId == 0

\* What the readers make of the cells: times, product and transaction numbers; an absent
\* one is 0.
Cells(cells) == \A c \in cells : c \in Nat
Numbered(table) ==
    table = [k \in DOMAIN table |-> table[k]] /\ IsFiniteSet(DOMAIN table) /\ DOMAIN table \subseteq Nat

ReadLine(r) ==
    Cells({r.provider, r.start, r.effectiveEnd, r.updated, r.originalTransaction, r.transaction})

ReadSubscriber(s) ==
    /\ s.requested \in Nat /\ Numbered(s.entitlements)
    /\ \A e \in Range(s.entitlements) : Cells({e.provider, e.expires, e.grace, e.purchased})
    /\ \A p \in Range(s.subscriptions) : Cells({p.purchased, p.expires, p.grace, p.transaction})
    /\ \A list \in Range(s.nonSubscriptions) :
           Numbered(list) /\ \A p \in Range(list) : Cells({p.purchased, p.transaction})

ReadFile(file) ==
    /\ Numbered(file.lines)
    /\ \A line \in Range(file.lines) :
           IF file.format = "transactions_csv" THEN ReadLine(line) ELSE ReadSubscriber(line)

\* The id a line is filed under.
LineId(file, line) == IF file.format = "transactions_csv" THEN line[Mapping.canonical] ELSE line.id

--------------------------------------------------------------------------------
(* parseExport: rows of an export file in one normal form, by subscriber.    *)

\* sourceRow
EmptyRow ==
    [store |-> "", sandbox |-> FALSE, provider |-> 0, entitlements |-> {}, listInvalid |-> FALSE,
     start |-> 0, end |-> 0, grace |-> 0, effectiveEnd |-> 0, updated |-> 0,
     autoRenewable |-> FALSE, refunded |-> 0, unsubscribe |-> 0, billing |-> 0,
     autoResume |-> 0, lineage |-> 0, observed |-> 0, ambiguous |-> FALSE, missing |-> FALSE]

\* The SHA-256 of a lineage's material: a transaction id if there is one, otherwise the
\* product and the start of the purchase.
Fingerprint(transactions, provider, start) ==
    LET given == {i \in DOMAIN transactions : transactions[i] # 0}
    IN  IF given # {} THEN transactions[CHOOSE i \in given : \A j \in given : i <= j]
        ELSE 100 + 10 * provider + start

\* transactionRow: one line of a transactions feed.  Without updated_at the row is
\* observed when the import runs.
transactionRow(r, t) ==
    [EmptyRow EXCEPT
        !.store = r.store, !.sandbox = r.sandbox, !.provider = r.provider,
        !.entitlements = r.entitlements, !.listInvalid = r.listInvalid,
        !.start = r.start, !.end = r.end, !.grace = r.grace, !.effectiveEnd = r.effectiveEnd,
        !.updated = r.updated, !.autoRenewable = r.autoRenewable, !.refunded = r.refunded,
        !.unsubscribe = r.unsubscribe, !.billing = r.billing, !.autoResume = r.autoResume,
        !.lineage = Fingerprint(<<r.originalTransaction, r.transaction>>, r.provider, r.start),
        !.observed = IF r.updated # 0 THEN r.updated ELSE t]

\* parseTransactionsCSV: the lines of one canonical id form one subscriber, numbered by
\* the line its id first appears on; a line without an id is a subscriber of its own.
\* The column that is not the canonical one holds an alias.
parseTransactionsCSV(lines, t) ==
    LET id(i) == lines[i][Mapping.canonical]
        alias(i) == lines[i][IF Mapping.canonical = "original" THEN "lastSeen" ELSE "original"]
        Lines(i) == {j \in DOMAIN lines : j = i \/ (id(i) # NoId /\ id(j) = id(i))}
    IN  [i \in {j \in DOMAIN lines : \A k \in Lines(j) : j <= k} |->
            [id |-> id(i), aliases |-> {alias(j) : j \in Lines(i)},
             rows |-> [j \in Lines(i) |-> transactionRow(lines[j], t)]]]

\* subscriberBoundary: grace when it is strictly after expiry.
subscriberBoundary(expires, grace) == IF grace > expires THEN grace ELSE expires

\* fillSubscriberPurchase: the dates of a purchase; an end only beside a boundary.
fillSubscriberPurchase(row, p, expires, grace) ==
    [row EXCEPT !.store = p.store, !.sandbox = p.sandbox, !.start = p.purchased,
                !.effectiveEnd = subscriberBoundary(expires, grace),
                !.end = expires, !.grace = grace]

\* The purchase of a product bought several times: the latest instant, the first if
\* none is dated.
LatestPurchase(purchases) ==
    purchases[CHOOSE i \in DOMAIN purchases :
                  \A j \in DOMAIN purchases :
                      \/ purchases[j].purchased < purchases[i].purchased
                      \/ purchases[j].purchased = purchases[i].purchased /\ i <= j]

\* subscriberGrantRow: one entitlement of a Customer Info object joined to the
\* subscription or the other purchase of its product.
subscriberGrantRow(e, s, observed) ==
    LET row == [EmptyRow EXCEPT !.provider = e.provider, !.entitlements = {e.id}, !.observed = observed]
        subscribed == e.provider \in DOMAIN s.subscriptions
        bought == e.provider \in DOMAIN s.nonSubscriptions
    IN  IF subscribed /\ bought THEN [row EXCEPT !.ambiguous = TRUE]
        ELSE IF subscribed THEN
            LET p == s.subscriptions[e.provider]
            IN  [fillSubscriberPurchase(row, p, p.expires, p.grace) EXCEPT
                    !.refunded = p.refunded, !.unsubscribe = p.unsubscribe, !.billing = p.billing,
                    !.autoResume = p.autoResume, !.autoRenewable = TRUE,
                    !.lineage = Fingerprint(<<p.transaction>>, e.provider, p.purchased)]
        ELSE IF bought /\ s.nonSubscriptions[e.provider] # << >> THEN
            LET p == LatestPurchase(s.nonSubscriptions[e.provider])
                filled == fillSubscriberPurchase(row, p, e.expires, e.grace)
            IN  [filled EXCEPT
                    !.start = IF @ = 0 THEN e.purchased ELSE @,
                    !.lineage = Fingerprint(<<p.transaction>>, e.provider, p.purchased)]
        ELSE [row EXCEPT !.missing = TRUE]

\* decodeSubscriberLine: one Customer Info object, observed at its request date.
decodeSubscriberLine(s, t) ==
    LET observed == IF s.requested # 0 THEN s.requested ELSE t
    IN  [id |-> s.id, aliases |-> {s.original} \cup s.aliases,
         rows |-> [k \in DOMAIN s.entitlements |-> subscriberGrantRow(s.entitlements[k], s, observed)]]

\* parseExport: the drafts of a file that was read to its end.
parseExport(file, t) ==
    IF file.format = "transactions_csv" THEN parseTransactionsCSV(file.lines, t)
    ELSE [k \in DOMAIN file.lines |-> decodeSubscriberLine(file.lines[k], t)]

--------------------------------------------------------------------------------
(* decideAccess and mapGrant: the grant of one row, or none.                 *)

\* What the dates of a row say at instant t, before its start is looked at.
Verdict(row, t) ==
    IF row.refunded # 0 THEN [access |-> "denied", reason |-> "refunded"]
    ELSE IF row.effectiveEnd = 0 THEN [access |-> "allowed", reason |-> "purchase_valid"]
    ELSE IF t >= row.effectiveEnd
    THEN [access |-> "denied",
          reason |-> IF row.autoResume > t THEN "paused"
                     ELSE IF row.billing # 0 THEN "billing_issue" ELSE "expired"]
    ELSE [access |-> "allowed",
          reason |-> IF row.grace > t /\ (row.end = 0 \/ t >= row.end) THEN "grace_period"
                     ELSE IF row.unsubscribe # 0 THEN "canceled_at_period_end" ELSE "purchase_valid"]

\* The period of a row starts, and ends after its start.
Coherent(row) == row.start # 0 /\ (row.effectiveEnd = 0 \/ row.effectiveEnd > row.start)

\* The failures of decideAccess: a consumable, an open subscription, a period of another
\* kind than the product's, access without a coherent period.
Undecided(row, kind, t) ==
    \/ kind = "consumable"
    \/ row.effectiveEnd = 0 /\ (row.autoRenewable \/ kind # "non_consumable")
    \/ row.effectiveEnd # 0 /\ kind # "subscription"
    \/ Verdict(row, t).access = "allowed" /\ ~Coherent(row)

\* Faulty variant: a period that has not begun is decided like any other.
decideAccessEarly(row, t) ==
    [access |-> Verdict(row, t).access, reason |-> Verdict(row, t).reason,
     starts |-> row.start, ends |-> IF Coherent(row) THEN row.effectiveEnd ELSE 0]

\* decideAccess: nothing is allowed before its start.
decideAccess(row, t) ==
    LET verdict == Verdict(row, t)
        early == verdict.access = "allowed" /\ t < row.start
    IN  [access |-> IF early THEN "denied" ELSE verdict.access,
         reason |-> IF early THEN "provider_decision" ELSE verdict.reason,
         starts |-> row.start, ends |-> IF Coherent(row) THEN row.effectiveEnd ELSE 0]

\* requiresStoreProduct
requiresStoreProduct(store) == store \in {"app_store", "play_store"}

\* The catalog has the application and product a row is mapped to, in the environment of
\* the row, and the product grants the entitlement.
InCatalog(m, row, environment, key) ==
    /\ m.application \in DOMAIN Catalog.applications /\ m.product \in DOMAIN Catalog.products
    /\ Catalog.applications[m.application] = environment
    /\ key \in Catalog.entitlements /\ key \in Catalog.products[m.product].grants
    /\ requiresStoreProduct(row.store) => <<m.application, row.provider>> \in Catalog.storeProducts

\* mapGrant: the grant of an entitlement a row names, as a set of at most one.
mapGrant(row, exported, t) ==
    LET environment == IF row.sandbox THEN "sandbox" ELSE "production"
        mapped == {m \in Mapping.products :
                      /\ m.store = row.store /\ m.environment = environment
                      /\ m.provider = row.provider}
        decision == decideAccess(row, t)
    IN  {[product |-> m.product, entitlement |-> Mapping.entitlements[exported],
          lineage |-> row.lineage, access |-> decision.access, reason |-> decision.reason,
          starts |-> decision.starts, ends |-> decision.ends, at |-> row.observed] :
         m \in {n \in mapped :
                  /\ ~row.missing /\ exported \in DOMAIN Mapping.entitlements
                  /\ InCatalog(n, row, environment, Mapping.entitlements[exported])
                  /\ ~Undecided(row, Catalog.products[n.product].kind, t)}}

--------------------------------------------------------------------------------
(* planSubscriber and Plan.                                                  *)

\* after: the later update, then the later end (any end before none), then the later start.
after(row, other) ==
    IF row.updated # other.updated THEN row.updated > other.updated
    ELSE IF row.effectiveEnd # other.effectiveEnd THEN row.effectiveEnd > other.effectiveEnd
    ELSE row.start > other.start

\* uniqueAliases
uniqueAliases(draft) == draft.aliases \ {draft.id, NoId}

\* applyAliasConflicts: an alias is claimed by two subscribers, or is one itself.
AliasConflict(draft, drafts) ==
    \E other \in Range(drafts) :
        /\ other.id \notin {NoId, draft.id}
        /\ (uniqueAliases(other) \cup {other.id}) \cap uniqueAliases(draft) # {}

\* Some grant a row asks for cannot be made.
RowRefused(row, t) ==
    row.ambiguous \/ row.listInvalid \/ \E e \in row.entitlements : mapGrant(row, e, t) = {}

\* One grant per product, entitlement and lineage: that of the row after the others, the
\* first of equal ones.
PlannedGrants(rows, t) ==
    LET candidates ==
            UNION {{i} \X UNION {mapGrant(rows[i], e, t) : e \in rows[i].entitlements} : i \in DOMAIN rows}
        SameKey(g, h) == <<g.product, g.entitlement, g.lineage>> = <<h.product, h.entitlement, h.lineage>>
        Replaces(c, d) ==
            /\ SameKey(c[2], d[2])
            /\ \/ after(rows[c[1]], rows[d[1]])
               \/ c[1] < d[1] /\ ~after(rows[d[1]], rows[c[1]])
    IN  {c[2] : c \in {d \in candidates : ~\E e \in candidates : Replaces(e, d)}}

\* Faulty variant: rows that are refused are passed over, the subscriber is not.
planSubscriberPartly(draft, drafts, skipAnonymous, t) ==
    [id |-> draft.id, aliases |-> uniqueAliases(draft),
     skipped |-> skipAnonymous /\ draft.id \in AnonymousIds,
     fatal |-> draft.id \in InvalidIds \cup {NoId},
     grants |-> PlannedGrants(draft.rows, t)]

\* planSubscriber: one refused row fails the whole subscriber.
planSubscriber(draft, drafts, skipAnonymous, t) ==
    LET valid == draft.id \notin InvalidIds \cup {NoId}
        skipped == valid /\ skipAnonymous /\ draft.id \in AnonymousIds
    IN  [id |-> draft.id, aliases |-> uniqueAliases(draft), skipped |-> skipped,
         fatal |-> /\ ~skipped
                   /\ \/ ~valid \/ AliasConflict(draft, drafts)
                      \/ uniqueAliases(draft) \cap InvalidIds # {}
                      \/ \E row \in Range(draft.rows) : RowRefused(row, t),
         grants |-> PlannedGrants(draft.rows, t)]

\* Plan: the subscribers of a file, decided at instant t.
Plan(file, skipAnonymous, t) ==
    LET drafts == parseExport(file, t)
    IN  [k \in DOMAIN drafts |-> planSubscriber(drafts[k], drafts, skipAnonymous, t)]

====
