---- MODULE AppleAdapter ----
(***************************************************************************)
(* The App Store adapter: from a signed transaction or a stored            *)
(* transaction id to a normalized observation.  A signed payload is the    *)
(* record of its fields with its signature's verdict; server is what       *)
(* Apple's two endpoints answer while the request runs.                    *)
(***************************************************************************)
EXTENDS StoreResult

CONSTANT ClockSkew   \* maximumNotificationClockSkew

invalid == "invalid_evidence"

productKind(type) == IF type \in {"subscription", "non_consumable"} THEN type ELSE ""

\* The App Store Server API status of a call.
classifyProviderStatus(http) ==
    IF do(http) # "" THEN do(http)
    ELSE CASE http \in 200 .. 299 -> ""
           [] http \in {401, 403} -> "unauthorized"
           [] http = 404 -> "not_found"
           [] http = 429 -> "rate_limited"
           [] http >= 500 -> "temporary"
           [] OTHER -> "permanent"

\* The credential is opened, decoded and bound to the application.
configuration(application) ==
    CASE application.credential = "missing" -> "unauthorized"
      [] application.credential = "malformed" -> "permanent"
      [] application.credential = "ok" -> ""

query(server) ==
    Guarded(<<classifyProviderStatus(server.http), Must(server.transaction.signed, invalid)>>,
            [ok |-> TRUE, transaction |-> server.transaction])

validateStatusResponseScope(application, answer) == answer.environment = application.environment

\* Exactly one row of the lineage, with both payloads and a known status.
selectSubscriptionStatus(answer, original) == {i \in DOMAIN answer.rows : answer.rows[i].original = original}

querySubscriptionStatus(application, answer, original) ==
    LET found == selectSubscriptionStatus(answer, original)
        row == answer.rows[CHOOSE i \in found : TRUE]
    IN  Guarded(<<classifyProviderStatus(answer.http),
                  Must(validateStatusResponseScope(application, answer), invalid),
                  Must(Cardinality(found) = 1, invalid),
                  Must(\A i \in found : answer.rows[i].status \in 1 .. 5, invalid),
                  Must(\A i \in found : answer.rows[i].transaction.signed /\ answer.rows[i].renewal.signed, invalid)>>,
                [ok |-> TRUE, transaction |-> row.transaction, renewal |-> row.renewal, status |-> row.status])

\* claimed is {} for the transaction of a status row, which may name the
\* lineage's current product.
validateTransactionScope(request, kind, t, claimed) ==
    /\ t.id # "" /\ t.original # "" /\ t.product # ""
    /\ t.bundle = request.application.store /\ t.environment = request.application.environment
    /\ productKind(t.type) = kind
    /\ claimed # {} => claimed = {t.product}
    /\ t.account # "" /\ <<"customer_binding", "app_account_token", t.account>> \in request.bindings

compareTransactions(a, b) ==
    a.id = b.id /\ a.original = b.original /\ a.product = b.product /\ a.account = b.account

validateRenewalScope(request, t, renewal) ==
    /\ renewal.environment = request.application.environment
    /\ renewal.original = t.original /\ renewal.product = t.product /\ renewal.account = t.account
    /\ renewal.auto \in {0, 1}

normalizeState(kind, t, now) ==
    CASE t.revoked /\ t.family -> <<"revoked", "denied", "revoked">>
      [] t.revoked /\ ~ t.family -> <<"refunded", "denied", "refunded">>
      [] ~ t.revoked /\ kind = "subscription" /\ ~ After(t.expires, now) -> <<"expired", "denied", "expired">>
      [] OTHER -> <<"active", "allowed", "purchase_valid">>

normalizeRenewal(renewal, now) ==
    [mode   |-> "auto",
     renew  |-> IF renewal.auto = 1 THEN "enabled" ELSE "disabled",
     next   |-> IF renewal.auto = 1 THEN renewal.nextProduct ELSE "",
     nextAt |-> IF renewal.auto = 1 /\ After(renewal.date, now) THEN renewal.date ELSE << >>]

Decision(access, end) == [access |-> access, end |-> end]

\* Faulty variant: the signed expiry is published inside the skew window too.
normalizeActiveUnadjusted(t, renewal, now) ==
    IF t.expires # << >> /\ t.expires[1] + ClockSkew > now
    THEN Decision(<<"active", "allowed", "purchase_valid">>, t.expires)
    ELSE Decision(<<"expired", "denied", "expired">>, t.expires)

\* An active status whose expiry has just passed stays allowed for the skew,
\* and so does the end that readers compare with their clock.
normalizeActive(t, renewal, now) ==
    CASE t.expires = << >> -> Decision(<<"unresolved", "unresolved", "unresolved">>, t.expires)
      [] t.expires # << >> /\ t.expires[1] + ClockSkew <= now -> Decision(<<"expired", "denied", "expired">>, t.expires)
      [] OTHER -> Decision(IF renewal.auto = 0 THEN <<"canceled", "allowed", "canceled_at_period_end">>
                           ELSE <<"active", "allowed", "purchase_valid">>,
                           IF After(t.expires, now) THEN t.expires ELSE <<t.expires[1] + ClockSkew>>)

normalizeSubscriptionStatus(t, status, renewal, now) ==
    CASE t.revoked -> Decision(normalizeState("subscription", t, now), t.expires)
      [] ~ t.revoked /\ status = 1 -> normalizeActive(t, renewal, now)
      [] ~ t.revoked /\ status = 2 -> Decision(<<"expired", "denied", "expired">>, t.expires)
      [] ~ t.revoked /\ status = 3 -> Decision(<<"on_hold", "denied", "billing_issue">>, t.expires)
      [] ~ t.revoked /\ status = 4 ->
           Decision(IF After(renewal.grace, now) THEN <<"grace_period", "allowed", "grace_period">>
                    ELSE <<"on_hold", "denied", "billing_issue">>, renewal.grace)
      [] ~ t.revoked /\ status = 5 -> Decision(<<"revoked", "denied", "revoked">>, t.expires)

\* The expiry as the identity spells it: a missing or different end shows.
snapshotExpiresIdentity(expires, end) ==
    IF end = expires THEN <<Value(expires)>> ELSE <<Value(expires), Value(end)>>

\* Faulty variant: only the transaction's expiry is part of the identity.
observationSnapshotIdentityOfExpiry(application, t, snapshot, end) ==
    [application |-> application, t |-> [t EXCEPT !.price = << >>], expiry |-> <<Value(t.expires)>>,
     decision |-> <<snapshot.state, snapshot.access, snapshot.reason>>,
     renewal |-> <<snapshot.mode, snapshot.renew, snapshot.next, snapshot.nextAt>>]

\* Everything that affects access; the price may be added later.
observationSnapshotIdentity(application, t, snapshot, end) ==
    [application |-> application, t |-> [t EXCEPT !.price = << >>],
     expiry |-> snapshotExpiresIdentity(t.expires, end),
     decision |-> <<snapshot.state, snapshot.access, snapshot.reason>>,
     renewal |-> <<snapshot.mode, snapshot.renew, snapshot.next, snapshot.nextAt>>]

providerState(t, state) == IF t.revoked THEN "revoked" ELSE IF t.upgraded THEN "upgraded" ELSE state

observationReferences(t) ==
    References({<<"transaction", "transaction_id", t.id>>, <<"lineage", "original_transaction_id", t.original>>,
                <<"query", "transaction_id", t.id>>, <<"customer_binding", "app_account_token", t.account>>})

observation(request, kind, t, status, renewal, now) ==
    LET decision == IF kind = "subscription" THEN normalizeSubscriptionStatus(t, status, renewal, now)
                    ELSE Decision(normalizeState(kind, t, now), t.expires)
        renews == IF kind = "subscription" THEN normalizeRenewal(renewal, now)
                  ELSE [mode |-> "none", renew |-> "not_applicable", next |-> "", nextAt |-> << >>]
        Snapshot(access, end) ==
            [product |-> t.product, kind |-> kind, state |-> access[1],
             provider |-> providerState(t, access[1]), access |-> access[2],
             reason |-> access[3], family |-> t.family,
             occurred |-> t.purchased, start |-> t.purchased, end |-> end,
             mode |-> renews.mode, renew |-> renews.renew, next |-> renews.next, nextAt |-> renews.nextAt]
        Identity(snapshot, end) == observationSnapshotIdentity(request.application.id, t, snapshot, end)
        Observation(snapshot, identity, prior) ==
            [id |-> identity, prior |-> IF prior = identity THEN << >> ELSE <<prior>>,
             application |-> request.application.id, snapshot |-> snapshot, price |-> t.price, at |-> Sighting(now),
             refs |-> observationReferences(t)]
        Observed(snapshot) == Observation(snapshot, Identity(snapshot, snapshot.end), Identity(snapshot, t.expires))
    IN  Observed(Snapshot(decision.access, decision.end))

result(request, kind, t, status, renewal, now) ==
    LET seen == observation(request, kind, t, status, renewal, now)
    IN  Guarded(<<Must(~ (kind = "subscription" /\ status = 1 /\ t.expires = << >>), invalid),
                  Must(ObservationValid(seen), invalid)>>,
                [ok |-> TRUE, observations |-> <<seen>>, named |-> {}, actions |-> {}])

\* The status of the lineage, compared with the transaction that led to it.
subscriptionResult(request, original, account, status, now) ==
    LET q == querySubscriptionStatus(request.application, status, original)
    IN  IF ~ q.ok THEN q
        ELSE Guarded(<<Must(validateTransactionScope(request, "subscription", q.transaction, {}), invalid),
                       Must(account # "" => /\ q.transaction.original = original
                                            /\ q.transaction.account = account, invalid),
                       Must(validateRenewalScope(request, q.transaction, q.renewal), invalid)>>,
                     result(request, "subscription", q.transaction, q.status, q.renewal, now))

Verify(request, server, now) ==
    LET submitted == request.transaction
        checks == <<configuration(request.application),
                    Must(submitted.signed, invalid),
                    Must(validateTransactionScope(request, request.kind, submitted, request.claimed), invalid)>>
        q == query(server)
    IN  Guarded(checks,
          IF request.kind = "subscription"
          THEN subscriptionResult(request, submitted.original, submitted.account, server.status, now)
          ELSE IF ~ q.ok THEN q
          ELSE Guarded(<<Must(validateTransactionScope(request, request.kind, q.transaction, request.claimed), invalid),
                         Must(compareTransactions(submitted, q.transaction), invalid)>>,
                       result(request, request.kind, q.transaction, 0, << >>, now)))

\* The stored transaction is asked first; its lineage leads to the status.
Reconcile(request, server, now) ==
    LET q == query(server)
        t == q.transaction
    IN  Guarded(<<Must(Cardinality(request.claimed) = 1, invalid),
                  Must(\E r \in request.queries : r[2] = "transaction_id", invalid), configuration(request.application)>>,
          IF ~ q.ok THEN q
          ELSE Guarded(<<Must(productKind(t.type) = request.kind, invalid),
                         Must(validateTransactionScope(request, request.kind, t, request.claimed), invalid)>>,
                 IF request.kind = "subscription"
                 THEN subscriptionResult(request, t.original, "", server.status, now)
                 ELSE result(request, request.kind, t, 0, << >>, now)))

\* What Apple's answer says by itself: the product is to be served at an instant.
StoreGrants(answer, product, instant) ==
    /\ answer.transaction.product = product /\ ~ answer.transaction.revoked
    /\ \/ answer.transaction.type = "non_consumable"
       \/ answer.status = 1 /\ instant < Value(answer.transaction.expires) + ClockSkew
       \/ answer.status = 4 /\ instant < Value(answer.renewal.grace)

====
