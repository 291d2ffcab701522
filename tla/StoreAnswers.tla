---- MODULE StoreAnswers ----
(***************************************************************************)
(* One purchase of one customer over time: the store is asked (by a        *)
(* verification or by a reconciliation), its answer is normalized by the   *)
(* provider's adapter, checked and stored, and readers derive access from  *)
(* the stored rows as time passes.  Every ask commits on its own; asks     *)
(* that overlap are the subject of CustomerEntitlements.                   *)
(***************************************************************************)
EXTENDS StoreResult

CONSTANTS MaxTime,    \* the last instant
          MaxAsks,    \* asks of one behaviour
          ClockSkew, MaxPrice, Tries,
          Customer,   \* the binding references of the customer
          Catalog,    \* products the catalog maps, with their kinds
          Asks,       \* per provider, the asks: [verify, request, server]
          Legacy      \* per provider, sets of rows an earlier release may have stored

VARIABLES provider, now,
          asked,      \* the store was asked at this instant
          asks,       \* asks so far
          rows,       \* purchase_observations with their references
          heard,      \* per product, the last answer that reported it
          outcome,    \* how the last ask ended
          told        \* the products of the answer stored at this instant

vars == <<provider, now, asked, asks, rows, heard, outcome, told>>

AppleStore == INSTANCE AppleAdapter
GoogleStore == INSTANCE GooglePlayAdapter
HuaweiStore == INSTANCE HuaweiAdapter

None == << >>

(***************************************************************************)
(* What the stores send                                                    *)
(***************************************************************************)
Optional(t) == t = << >> \/ (t = <<t[1]>> /\ t[1] \in Nat \ {0})

TransactionFields ==
    {"id", "bundle", "original", "product", "type", "environment", "account", "purchased", "expires", "revoked", "family",
     "upgraded", "price", "signed"}
PurchaseDataFields ==
    {"application", "product", "subscription", "token", "order", "state", "purchased", "expires", "grace",
     "cancellation", "cancel", "renew", "retry", "valid", "payload", "price", "currency", "signed"}

\* The signed transactions of an answer, and a transaction but for the price that may be missing.
Transactions(ask) == {ask.server.transaction} \cup {row.transaction : row \in Range(ask.server.status.rows)}
Unpriced(t) == [t EXCEPT !.price = << >>]
PricesAgree(p, q) == p = q \/ << >> \in {p, q}

\* The App Store: an ask is about the lineage of the transaction it submits, only a
\* subscription expires, and billing grace is not the paid period.
AppleSays(ask) ==
    /\ ask.server.status.rows \in Seq(Range(ask.server.status.rows))
    /\ ask.server.transaction.original = ask.request.transaction.original
    /\ \A t \in Transactions(ask) :
         /\ DOMAIN t = TransactionFields /\ Optional(t.expires)
         /\ t.type # "subscription" => t.expires = << >>
    /\ \A row \in Range(ask.server.status.rows) :
         Optional(row.renewal.grace) /\ (row.status = 4 => row.renewal.grace # row.transaction.expires)

GoogleSays(ask) ==
    /\ ask.server.purchase.items \in Seq(Range(ask.server.purchase.items))
    /\ \A item \in Range(ask.server.purchase.items) :
         /\ Optional(item.expiry) /\ item.plans \subseteq {"auto", "prepaid"}
         /\ item.replacement = << >> \/ item.replacement = <<item.replacement[1]>>

\* Huawei: billing grace, if there is one, ends after the paid period.
HuaweiSays(ask) ==
    LET p == ask.server.purchase
    IN  /\ DOMAIN p = PurchaseDataFields /\ {p.expires, p.grace, p.cancel} \subseteq Nat
        /\ p.grace = 0 \/ p.grace > p.expires
        /\ ask.request.kind # "subscription" => p.expires = 0

\* A grace row of an earlier release, whose identity does not tell the grace end.
LegacyRow(row) ==
    /\ row = [id |-> row.id, snapshot |-> row.snapshot, price |-> row.price, at |-> 0,
              refs |-> AppleStore!observationReferences(row.id.t)]
    /\ row.id.decision[1] = "grace_period" /\ row.id.expiry = <<row.id.expiry[1]>>
    /\ \A ask \in Asks["apple"] : \A t \in Transactions(ask) :
         Unpriced(t) = row.id.t => PricesAgree(t.price, row.price)

RequestFields == {"application", "kind", "claimed", "bindings", "queries"}

ASSUME AnswersAssumption ==
    /\ MaxTime \in Nat \ {0} /\ MaxAsks \in Nat /\ ClockSkew \in Nat /\ Tries \in Nat \ {0}
    /\ DOMAIN Legacy = DOMAIN Asks /\ DOMAIN Asks = {"apple", "google", "huawei"}
    /\ \A p \in DOMAIN Asks : \A ask \in Asks[p] :
         RequestFields \subseteq DOMAIN ask.request /\ ask.request.kind \in {"subscription", "non_consumable"}
    /\ \A ask \in Asks["apple"] : AppleSays(ask)
    /\ \A a, b \in Asks["apple"] : \A t \in Transactions(a), u \in Transactions(b) :
         Unpriced(t) = Unpriced(u) => PricesAgree(t.price, u.price)
    /\ \A ask \in Asks["google"] : GoogleSays(ask)
    /\ \A ask \in Asks["huawei"] : HuaweiSays(ask)
    /\ \A a, b \in Asks["huawei"] :
         a.server.purchase.token = b.server.purchase.token => a.server.purchase.subscription = b.server.purchase.subscription
    /\ Legacy["google"] = {} /\ Legacy["huawei"] = {}
    /\ \A stored \in Legacy["apple"] :
         /\ \A row \in stored : LegacyRow(row)
         /\ \A row, other \in stored : row.id = other.id => row = other

\* The adapter's result.
Answer(ask, request) ==
    CASE provider = "apple"  -> IF ask.verify THEN AppleStore!Verify(request, ask.server, now) ELSE AppleStore!Reconcile(request, ask.server, now)
      [] provider = "google" -> IF ask.verify THEN GoogleStore!Verify(request, ask.server, now) ELSE GoogleStore!Reconcile(request, ask.server, now)
      [] provider = "huawei" -> IF ask.verify THEN HuaweiStore!Verify(request, ask.server, now) ELSE HuaweiStore!Reconcile(request, ask.server, now)

\* A claim follows an App Store lineage to its current product.
claimedProductsForValidation(claimed, found) ==
    IF /\ provider = "apple" /\ Cardinality(claimed) = 1 /\ Len(found.observations) = 1
       /\ found.observations[1].snapshot.kind = "subscription"
    THEN {found.observations[1].snapshot.product} ELSE claimed

productsForValidation(claimed, found) == claimedProductsForValidation(ProductsForClaim(found, claimed), found)

indexCatalogProducts(found) ==
    IF Products(found) \subseteq DOMAIN Catalog THEN
        Must(\A o \in Range(found.observations) : Catalog[o.snapshot.product] = o.snapshot.kind, "permanent")
    ELSE "not_found"

Stored(o) == [id |-> o.id, snapshot |-> o.snapshot, price |-> o.price, at |-> o.at, refs |-> o.refs]

\* The same snapshot under an identity; a price only has to agree where one is given.
observationMatches(stored, id, o) ==
    \E r \in stored : r.id = id /\ r.snapshot = o.snapshot /\ o.price \in {<< >>, r.price}

\* An unchanged snapshot stays under the identity an earlier release gave it.
reuseMatchingSnapshot(stored, o) ==
    IF o.prior # << >> /\ observationMatches(stored, o.prior[1], o) THEN o.prior[1] ELSE o.id

\* Faulty variant: a sighting of a stored snapshot leaves its time alone.
refreshNothing(r, o) == r

\* The freshest sighting of an unchanged snapshot.
refreshObservationTime(r, o) == [r EXCEPT !.at = IF o.at > r.at THEN o.at ELSE r.at]

enrichObservationPrice(stored, id, o) ==
    {IF r.id = id /\ r.price = << >> THEN [r EXCEPT !.price = o.price] ELSE r : r \in stored}

verifyObservationReferences(stored, id, o) == \A r \in stored : r.id = id => r.refs = o.refs

insertObservation(stored, id) == \A r \in stored : r.id # id

SaveObservation(saved, o) ==
    LET id == reuseMatchingSnapshot(saved.rows, o)
        enriched == enrichObservationPrice(saved.rows, id, o)
    IN  IF ~ saved.ok THEN saved
        ELSE IF insertObservation(saved.rows, id) THEN [saved EXCEPT !.rows = @ \cup {[Stored(o) EXCEPT !.id = id]}]
        ELSE [ok |-> observationMatches(enriched, id, o) /\ verifyObservationReferences(enriched, id, o),
              rows |-> {IF r.id = id THEN refreshObservationTime(r, o) ELSE r : r \in enriched}]

persist(found) ==
    LET saved[n \in 0 .. Len(found.observations)] ==
            IF n = 0 THEN [ok |-> TRUE, rows |-> rows] ELSE SaveObservation(saved[n - 1], found.observations[n])
    IN  saved[Len(found.observations)]

\* PurchaseContextByReference: the rows a lookup by the purchase may return.
Newest(stored) == {r \in stored : \A s \in stored : s.at <= r.at}

\* What the answer was about, as the reference reads it.
Said(ask) ==
    CASE provider = "apple" /\ ask.request.kind = "subscription" ->
           LET answered == ask.server.status.rows
               row == answered[CHOOSE i \in DOMAIN answered : answered[i].original = ask.request.transaction.original]
           IN  [transaction |-> row.transaction, status |-> row.status, renewal |-> row.renewal]
      [] provider = "apple" /\ ask.request.kind # "subscription" -> [transaction |-> ask.server.transaction, status |-> 0]
      [] OTHER -> [kind |-> ask.request.kind, purchase |-> ask.server.purchase]

Init ==
    /\ provider \in DOMAIN Asks
    /\ now = 1 /\ asked = FALSE /\ asks = 0
    /\ rows \in Legacy[provider] \cup {{}}
    /\ heard = [p \in DOMAIN Catalog |-> None]
    /\ outcome = <<"none">> /\ told = {}

Tick == now < MaxTime /\ now' = now + 1 /\ asked' = FALSE /\ told' = {} /\ UNCHANGED <<provider, asks, rows, heard, outcome>>

\* A reconciliation asks about the product that a lookup by the purchase finds.
RequestFor(ask, newest) ==
    IF ask.verify THEN ask.request ELSE [ask.request EXCEPT !.claimed = {newest.snapshot.product}]

\* What was found is checked and stored in one transaction.
Finish(ask, request, found) ==
    LET products == productsForValidation(request.claimed, found)
        valid == IF ask.verify THEN ValidateForVerification(found, request, products)
                 ELSE ValidateForReconciliation(found, request, products)
        accepted == found.ok /\ valid /\ indexCatalogProducts(found) = ""
        failure == IF ~ found.ok THEN found.kind ELSE IF ~ valid THEN "rejected" ELSE indexCatalogProducts(found)
        saved == persist(found)
    IN  IF ~ accepted THEN outcome' = <<"refused", failure>> /\ UNCHANGED <<rows, heard, told>>
        ELSE IF ~ saved.ok THEN outcome' = <<"conflict">> /\ UNCHANGED <<rows, heard, told>>
        ELSE /\ outcome' = <<"stored">>
             /\ rows' = saved.rows /\ told' = Products(found)
             /\ heard' = [p \in DOMAIN Catalog |-> IF p \in Products(found) THEN <<Said(ask)>> ELSE heard[p]]

\* Verify and Reconcile of the verification service.
Ask ==
    /\ ~ asked /\ asks < MaxAsks /\ asked' = TRUE /\ asks' = asks + 1 /\ UNCHANGED <<provider, now>>
    /\ \E ask \in Asks[provider], newest \in Newest(rows) \cup {None} :
         /\ (newest = None) = ask.verify
         /\ \E found \in {Answer(ask, RequestFor(ask, newest))} : Finish(ask, RequestFor(ask, newest), found)

Next == Tick \/ Ask
Spec == Init /\ [][Next]_vars

(***************************************************************************)
(* Properties                                                              *)
(***************************************************************************)
\* Access to a product as every reader derives it: the newest row of the
\* purchase, denied once its end has passed.
Reads(p) ==
    LET mine == Newest({r \in rows : r.snapshot.product = p})
    IN  {AccessAt(r.snapshot.access, r.snapshot.end, now) : r \in mine}

StoreGrants(p) ==
    /\ heard[p] # None
    /\ CASE provider = "apple"  -> AppleStore!StoreGrants(heard[p][1], p, now)
         [] provider = "google" -> GoogleStore!StoreGrants(heard[p][1], p, now)
         [] provider = "huawei" -> HuaweiStore!StoreGrants(heard[p][1], p, now)

\* No correct answer is turned away because its identity is taken by another
\* snapshot, however often the purchase was stored before (SaveObservation's
\* ErrConflict stays unreachable for one customer).
NoSnapshotConflict == outcome # <<"conflict">>

\* A product is served only while the last answer about it says so: across
\* renewals, grace, refunds and replacements, and as time passes between asks.
ServedAsAnswered == \A p \in DOMAIN Catalog : heard[p] # None => ("allowed" \in Reads(p) => StoreGrants(p))

\* And right after an answer was stored, a product it grants is served: no
\* older row, no skew and no end in the past hides it.
AnswerIsServed == \A p \in told : StoreGrants(p) => Reads(p) = {"allowed"}

\* A lookup by the purchase finds a product its newest answer grants, if that
\* answer grants any: never the product a replacement ended.
LookupFindsCurrent ==
    \A p \in told : StoreGrants(p) => \A r \in Newest(rows) : StoreGrants(r.snapshot.product)

====
