---- MODULE GooglePlayAdapter ----
(***************************************************************************)
(* The Google Play adapter: from a purchase token to the observations of   *)
(* its line items.  server is what Google answers while the request runs:  *)
(* the OAuth exchange (token, grant), the purchase, the acknowledgement.   *)
(* A line item carries its plans, a subset of {"auto", "prepaid"}, and the *)
(* product a pending (deferred) or a completed replacement names, as an    *)
(* optional value.                                                         *)
(***************************************************************************)
EXTENDS StoreResult

invalid == "invalid_evidence"

statusFailure(http) ==
    IF do(http) # "" THEN do(http)
    ELSE CASE http \in 200 .. 299 -> ""
           [] http \in {401, 403} -> "unauthorized"
           [] http \in {404, 410} -> "not_found"
           [] http = 409 -> "conflict"
           [] http = 429 -> "rate_limited"
           [] http >= 500 -> "temporary"
           [] OTHER -> "permanent"

configuration(application) ==
    CASE application.credential = "missing" -> "unauthorized"
      [] application.credential = "malformed" -> "permanent"
      [] application.credential = "ok" -> ""

\* A refused assertion is a credential problem, whatever status reports it.
accessToken(server) ==
    LET failure == statusFailure(server.token)
    IN  IF do(server.token) # "" THEN do(server.token)
        ELSE IF failure \in {"not_found", "conflict", "permanent"} THEN "unauthorized"
        ELSE IF failure # "" THEN failure
        ELSE Must(server.grant, "unauthorized")

parseEvidence(request) == Must(request.token # "" /\ request.kind \in {"subscription", "non_consumable"}, invalid)

validateEnvironment(application, test) == (application.environment = "Production") = ~ test

normalizeProductState(state) ==
    CASE state = "PURCHASED" -> <<"active", "allowed", "purchase_valid">>
      [] state = "CANCELLED" -> <<"refunded", "denied", "refunded">>
      [] state = "PENDING" -> <<"pending", "unresolved", "pending_payment">>
      [] OTHER -> <<"unresolved", "unresolved", "unresolved">>

normalizeSubscriptionState(state) ==
    CASE state = "PENDING" -> <<"pending", "unresolved", "pending_payment">>
      [] state = "ACTIVE" -> <<"active", "allowed", "purchase_valid">>
      [] state = "PAUSED" -> <<"paused", "denied", "paused">>
      [] state = "IN_GRACE_PERIOD" -> <<"grace_period", "allowed", "grace_period">>
      [] state = "ON_HOLD" -> <<"on_hold", "denied", "billing_issue">>
      [] state = "CANCELED" -> <<"canceled", "allowed", "canceled_at_period_end">>
      [] state = "EXPIRED" -> <<"expired", "denied", "expired">>
      [] state = "PENDING_PURCHASE_CANCELED" -> <<"revoked", "denied", "revoked">>
      [] OTHER -> <<"unresolved", "unresolved", "unresolved">>

Renewal(mode, renew) == [mode |-> mode, renew |-> renew, next |-> "", nextAt |-> << >>]

subscriptionRenewal(item) ==
    CASE "auto" \in item.plans -> Renewal("auto", IF item.auto THEN "enabled" ELSE "disabled")
      [] item.plans = {"prepaid"} -> Renewal("prepaid", "not_applicable")
      [] item.plans = {} -> Renewal("unknown", "unknown")

\* A pending replacement decides how the subscription goes on.
replacementRenewal(pending) ==
    LET renewal == subscriptionRenewal(pending)
    IN  [renewal EXCEPT !.next = IF renewal.mode = "auto" /\ renewal.renew = "enabled" THEN pending.product ELSE ""]

OnePlan(item) == Cardinality(item.plans) <= 1

\* The item that grants access now, and the item that will replace it or was
\* replaced by it; an empty answer is refused.
selectSubscriptionItems(items, now) ==
    LET one(current) == <<[current |-> current, pending |-> << >>, replaced |-> << >>]>>
        deferring == {i \in DOMAIN items : items[i].deferred # << >>}
        current == IF 1 \in deferring THEN items[1] ELSE items[2]
        next == IF 1 \in deferring THEN items[2] ELSE items[1]
        old == IF Value(items[1].expiry) > Value(items[2].expiry) THEN items[2] ELSE items[1]
        new == IF Value(items[1].expiry) > Value(items[2].expiry) THEN items[1] ELSE items[2]
    IN  CASE Len(items) = 1 -> one(items[1])
          [] Len(items) = 2 /\ deferring # {} ->
               IF \/ next.product \in {"", current.product} \/ current.deferred # <<next.product>>
                  \/ next.deferred # << >> \/ current.expiry = << >> \/ next.expiry # << >>
               THEN << >>
               ELSE <<[current |-> current, pending |-> <<next>>, replaced |-> << >>]>>
          [] Len(items) = 2 /\ deferring = {} ->
               IF \/ old.product \in {"", new.product} \/ old.expiry = << >>
                  \/ Value(old.expiry) >= Value(new.expiry) \/ After(old.expiry, now)
                  \/ "auto" \in old.plans /\ old.auto
                  \/ new.replacement # << >> /\ new.replacement # <<old.product>>
               THEN << >>
               ELSE <<[current |-> new, pending |-> << >>, replaced |-> <<old>>]>>
          [] OTHER -> << >>

subscriptionProducts(purchase) ==
    UNION {{i.product} \cup Range(i.deferred) \cup Range(i.replacement) : i \in Range(purchase.items)} \ {""}

googleReferences(token, order, linked, account) ==
    References({<<"transaction", "order_id", order>>, <<"lineage", "purchase_token", token>>,
                <<"linked_lineage", "purchase_token", linked>>, <<"query", "purchase_token", token>>,
                <<"customer_binding", "obfuscated_external_account_id", account>>})

Snapshot(product, kind, provider, access, occurred, start, end, renewal) ==
    [product |-> product, kind |-> kind, state |-> access[1], provider |-> provider, access |-> access[2],
     reason |-> access[3], family |-> FALSE, occurred |-> occurred, start |-> start, end |-> end,
     mode |-> renewal.mode, renew |-> renewal.renew, next |-> renewal.next, nextAt |-> renewal.nextAt]

Observation(application, identity, snapshot, at, refs) ==
    [id |-> identity, prior |-> << >>, application |-> application.id, snapshot |-> snapshot,
     price |-> << >>, at |-> at, refs |-> refs]

productObservationIdentity(application, token, purchase, item, access) ==
    [application |-> application.id, token |-> token, product |-> item.product, order |-> purchase.order,
     account |-> purchase.account, completed |-> purchase.completed, state |-> purchase.state, access |-> access]

productObservations(application, token, purchase, at) ==
    LET item == purchase.items[1]
        access == normalizeProductState(purchase.state)
        period == IF access[1] = "pending" THEN << >> ELSE purchase.completed
        observation ==
            Observation(application, productObservationIdentity(application, token, purchase, item, access),
                        Snapshot(item.product, "non_consumable", purchase.state, access, purchase.completed,
                                 period, << >>, Renewal("none", "not_applicable")),
                        at, googleReferences(token, purchase.order, "", purchase.account))
    IN  IF Len(purchase.items) # 1 THEN Failure(invalid)
        ELSE Guarded(<<Must(validateEnvironment(application, purchase.test), invalid),
                       Must(item.product # "" /\ purchase.account # "", invalid),
                       Must(ObservationValid(observation), invalid)>>,
                     [ok |-> TRUE, observations |-> <<observation>>])

\* The ended item and what never changes about its purchase.
replacedItemObservationIdentity(application, token, purchase, item, renewal) ==
    [replaced |-> TRUE, application |-> application.id, token |-> token, linked |-> purchase.linked,
     product |-> item.product, order |-> item.order, account |-> purchase.account, start |-> purchase.start,
     expiry |-> item.expiry, renewal |-> renewal]

\* Faulty variant: the ended item is observed when the current one is.
replacedAtTheSameTime(application, token, purchase, item, at) ==
    LET renewal == subscriptionRenewal(item)
    IN  Observation(application, replacedItemObservationIdentity(application, token, purchase, item, renewal),
                    Snapshot(item.product, "subscription", "EXPIRED", normalizeSubscriptionState("EXPIRED"),
                             purchase.start, purchase.start, << >>, renewal),
                    at, googleReferences(token, item.order, purchase.linked, purchase.account))

\* The item a replacement ended, as expired and as seen one microsecond
\* before the current one.
replacedItemObservation(application, token, purchase, item, at) ==
    LET renewal == subscriptionRenewal(item)
        end == IF purchase.start # << >> /\ After(item.expiry, purchase.start[1]) THEN item.expiry ELSE << >>
    IN  Observation(application, replacedItemObservationIdentity(application, token, purchase, item, renewal),
                    Snapshot(item.product, "subscription", "EXPIRED", normalizeSubscriptionState("EXPIRED"),
                             purchase.start, purchase.start, end, renewal),
                    at - 1, googleReferences(token, item.order, purchase.linked, purchase.account))

subscriptionObservationIdentity(application, token, purchase, item, access, renewal) ==
    [application |-> application.id, token |-> token, linked |-> purchase.linked, product |-> item.product,
     order |-> purchase.order, itemOrder |-> item.order, account |-> purchase.account, start |-> purchase.start,
     expiry |-> item.expiry, state |-> purchase.state, access |-> access, mode |-> renewal.mode,
     renew |-> renewal.renew, next |-> renewal.next]

\* The item that grants access now; a pending or revoked purchase has no period.
currentObservation(application, token, purchase, item, renewal, at) ==
    LET access == normalizeSubscriptionState(purchase.state)
        cleared == access[1] \in {"pending", "revoked"}
        start == IF cleared THEN << >> ELSE purchase.start
    IN  Observation(application, subscriptionObservationIdentity(application, token, purchase, item, access, renewal),
                    Snapshot(item.product, "subscription", purchase.state, access, start, start,
                             IF cleared THEN << >> ELSE item.expiry, renewal),
                    at, googleReferences(token, IF item.order = "" THEN purchase.order ELSE item.order,
                                         purchase.linked, purchase.account))

itemObservations(application, token, purchase, items, at) ==
    LET renewal == IF items.pending = << >> THEN subscriptionRenewal(items.current) ELSE replacementRenewal(items.pending[1])
    IN  <<currentObservation(application, token, purchase, items.current, renewal, at)>>
        \o IF items.replaced = << >> THEN << >>
           ELSE <<replacedItemObservation(application, token, purchase, items.replaced[1], at)>>

subscriptionObservations(application, token, purchase, now, at) ==
    LET selected == selectSubscriptionItems(purchase.items, now)
        items == selected[1]
        observations == itemObservations(application, token, purchase, items, at)
    IN  IF selected = << >> THEN Failure(invalid)
        ELSE Guarded(<<Must(validateEnvironment(application, purchase.test), invalid),
                       Must(items.current.product # "" /\ purchase.account # "", invalid),
                       Must(\A i \in {items.current} \cup Range(items.pending) \cup Range(items.replaced) : OnePlan(i), invalid),
                       Must(\A o \in Range(observations) : ObservationValid(o), invalid)>>,
                     [ok |-> TRUE, observations |-> observations])

\* The product a one-item purchase says it replaced; Google gives no period for it.
itemReplacementObservation(application, token, purchase, at) ==
    LET item == purchase.items[1]
    IN  IF Len(purchase.items) # 1 \/ item.replacement \in {<< >>, <<"">>, <<item.product>>} THEN << >>
        ELSE <<replacedItemObservation(application, token, purchase,
                 [product |-> item.replacement[1], order |-> "", expiry |-> << >>, plans |-> {}, auto |-> FALSE,
                  deferred |-> << >>, replacement |-> << >>], at)>>

AcknowledgeableStates == {"PURCHASED", "ACTIVE", "PAUSED", "IN_GRACE_PERIOD", "ON_HOLD", "CANCELED"}

\* A completed purchase is acknowledged once its result is stored.
acknowledgementActions(observation, purchase) ==
    IF purchase.state \notin AcknowledgeableStates \/ purchase.acknowledgement = "acknowledged" THEN {}
    ELSE {[product |-> observation.snapshot.product, kind |-> observation.snapshot.kind,
           refs |-> ReferencesFor(observation, "query")]}

AcknowledgementKnown(purchase) ==
    purchase.state \in AcknowledgeableStates => purchase.acknowledgement \in {"acknowledged", "pending"}

\* What was seen, with what Google waits for and the product it says was replaced.
queryResult(purchase, kind, seen, replaced) ==
    IF ~ seen.ok THEN seen
    ELSE Guarded(<<Must(AcknowledgementKnown(purchase), invalid),
                   Must(\A r \in Range(replaced) : ObservationValid(r), invalid)>>,
           [ok |-> TRUE, observations |-> seen.observations, replaced |-> replaced,
            actions |-> acknowledgementActions(seen.observations[1], purchase),
            products |-> IF kind = "subscription" THEN subscriptionProducts(purchase) ELSE {}])

query(application, token, kind, server, now) ==
    LET purchase == server.purchase
        at == Sighting(now)
    IN  Guarded(<<accessToken(server), statusFailure(server.http)>>,
          IF kind = "subscription"
          THEN queryResult(purchase, kind, subscriptionObservations(application, token, purchase, now, at),
                           itemReplacementObservation(application, token, purchase, at))
          ELSE queryResult(purchase, kind, productObservations(application, token, purchase, at), << >>))

\* The replaced product of a one-item purchase is reported to whoever asks for it.
requestedObservations(q, requested) ==
    IF q.replaced # << >> /\ requested = {q.replaced[1].snapshot.product} THEN q.observations \o q.replaced ELSE q.observations

verificationResult(q, requested) ==
    [ok |-> TRUE, observations |-> requestedObservations(q, requested),
     named |-> IF Cardinality(q.products) > 1 THEN q.products ELSE {}, actions |-> q.actions]

Verify(request, server, now) ==
    LET Checked(found) ==
            Guarded(<<Must(ValidateForVerification(found, request, ProductsForClaim(found, request.claimed)), invalid)>>, found)
        Result(q) == IF ~ q.ok THEN q ELSE Checked(verificationResult(q, request.claimed))
    IN  Guarded(<<parseEvidence(request), configuration(request.application)>>,
                Result(query(request.application, request.token, request.kind, server, now)))

Reconcile(request, server, now) ==
    LET Checked(found) ==
            Guarded(<<Must(ValidateForReconciliation(found, request, ProductsForClaim(found, request.claimed)), invalid)>>, found)
        Result(q) == IF ~ q.ok THEN q ELSE Checked(verificationResult(q, request.claimed))
    IN  Guarded(<<Must(Cardinality(request.claimed) = 1, invalid), Must(request.token # "", invalid),
                  configuration(request.application)>>,
                Result(query(request.application, request.token, request.kind, server, now)))

\* The purchase a token replaces, before any customer is known for it.
LinkedPurchase(request, server, now) ==
    LET Linked(current) ==
            [ok |-> TRUE, product |-> current.snapshot.product,
             linked |-> {r[3] : r \in ReferencesFor(current, "linked_lineage")},
             bindings |-> ReferencesFor(current, "customer_binding")]
        Result(q) == IF ~ q.ok THEN q ELSE Linked(q.observations[1])
    IN  Guarded(<<Must(request.kind = "subscription", invalid), Must(request.token # "", invalid),
                  configuration(request.application)>>,
                Result(query(request.application, request.token, "subscription", server, now)))

\* One acknowledgement; a purchase Google is still changing is tried again.
acknowledge(server) ==
    LET failure == statusFailure(server.acknowledge)
    IN  IF failure = "conflict" THEN "temporary" ELSE failure

PostCommit(application, server) ==
    IF configuration(application) # "" THEN configuration(application)
    ELSE IF accessToken(server) # "" THEN accessToken(server)
    ELSE acknowledge(server)

\* What Google's answer says by itself: the product is to be served at an instant.
StoreGrants(answer, product, instant) ==
    IF answer.kind = "non_consumable"
    THEN answer.purchase.state = "PURCHASED" /\ answer.purchase.items[1].product = product
    ELSE /\ answer.purchase.state \in {"ACTIVE", "IN_GRACE_PERIOD", "CANCELED"}
         /\ \E i \in Range(answer.purchase.items) : i.product = product /\ After(i.expiry, instant)

====
