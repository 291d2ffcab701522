---- MODULE HuaweiAdapter ----
(***************************************************************************)
(* The Huawei AppGallery adapter: from signed purchase data or a purchase  *)
(* token to a normalized observation.  Times are numbers as in Huawei's    *)
(* JSON, 0 when absent.  server is what Huawei answers: the OAuth endpoint *)
(* (token, grant), the order or subscription endpoint to the two tries a   *)
(* rejected token allows (http), and the signed purchase with its response *)
(* code.  Prices are hundredths, amounts in milliunits after the adapter.  *)
(***************************************************************************)
EXTENDS StoreResult

CONSTANTS MaxPrice,   \* math.MaxInt64 / 10
          Tries       \* tries of one purchase query, the second with a new token

invalid == "invalid_evidence"

configuration(application) ==
    CASE application.credential = "missing" -> "unauthorized"
      [] application.credential = "malformed" -> "permanent"
      [] application.credential = "ok" -> ""

fetchToken(server) ==
    IF do(server.token) # "" THEN do(server.token)
    ELSE IF server.token = 429 \/ server.token >= 500 THEN "temporary"
    ELSE IF server.token \notin 200 .. 299 THEN "unauthorized"
    ELSE Must(server.grant, "unauthorized")

\* The last try: the first one Huawei does not answer with 401.
LastTry(server) ==
    LET answered == {i \in 1 .. Tries : server.http[i] # 401}
    IN  IF answered = {} THEN Tries ELSE CHOOSE i \in answered : \A j \in answered : i <= j

statusFailure(http) ==
    IF do(http) # "" THEN do(http)
    ELSE CASE http \in 200 .. 299 -> ""
           [] http \in {401, 403} -> "unauthorized"
           [] http = 404 -> "not_found"
           [] http = 429 -> "rate_limited"
           [] http >= 500 -> "temporary"
           [] OTHER -> "permanent"

responseFailure(code) == CASE code = "ok" -> "" [] code = "5xx" -> "temporary" [] code = "other" -> "permanent"

query(server) ==
    Guarded(<<fetchToken(server), statusFailure(server.http[LastTry(server)]), responseFailure(server.code),
              Must(server.purchase.signed, invalid)>>,
            [ok |-> TRUE, purchase |-> server.purchase])

validatePurchasePrice(p) == p.price \in 0 .. MaxPrice /\ p.currency

validateSubmittedScope(request, p) ==
    /\ p.application = request.application.store /\ p.product # "" /\ p.token # ""
    /\ request.claimed # {} => request.claimed = {p.product}
    /\ validatePurchasePrice(p)

\* The price may have changed since the receipt was signed.
comparePurchases(a, b) ==
    /\ a.application = b.application /\ a.product = b.product
    /\ a.subscription = b.subscription /\ a.token = b.token
    /\ validatePurchasePrice(b)

InGrace(p, now) == p.retry = 1 /\ p.grace > now

\* Faulty variant: the expiration date alone keeps a subscription running.
RunningByDate(p, now) == p.expires > now

Running(p, now) == p.valid /\ p.expires > now

normalizeState(kind, p, now) ==
    CASE kind = "subscription" /\ p.cancel > 0 -> <<"revoked", "denied", "revoked">>
      [] kind # "subscription" /\ p.state = 2 -> <<"refunded", "denied", "refunded">>
      [] p.state = 1 /\ ~ (kind = "subscription" /\ p.cancel > 0) -> <<"revoked", "denied", "revoked">>
      [] kind = "subscription" /\ p.cancel <= 0 /\ p.state = 2 ->
           <<"refunded", IF InGrace(p, now) \/ Running(p, now) THEN "allowed" ELSE "denied", "refunded">>
      [] kind = "subscription" /\ p.cancel <= 0 /\ p.state = 0 ->
           IF InGrace(p, now) THEN <<"grace_period", "allowed", "grace_period">>
           ELSE IF ~ Running(p, now) THEN <<"expired", "denied", "expired">>
           ELSE IF p.renew = 0 \/ p.cancellation > 0 THEN <<"canceled", "allowed", "canceled_at_period_end">>
           ELSE <<"active", "allowed", "purchase_valid">>
      [] kind # "subscription" /\ p.state = 0 -> <<"active", "allowed", "purchase_valid">>
      [] p.state \notin 0 .. 2 /\ (kind = "subscription" => p.cancel <= 0) -> <<"pending", "unresolved", "pending_payment">>

\* The end of billing grace, when that is what keeps the subscription allowed.
graceEnd(kind, p, access, now) ==
    IF kind = "subscription" /\ access = "allowed" /\ InGrace(p, now) /\ p.grace > p.expires THEN <<p.grace>> ELSE << >>

\* Every field that can change the snapshot; a grace end only when there is one.
observationSnapshotIdentity(application, kind, p, access, renew, end) ==
    [application |-> application.id, kind |-> kind, p |-> [p EXCEPT !.subscription = "", !.signed = TRUE],
     access |-> access, renew |-> renew, graceEnd |-> end]

observation(application, kind, p, now) ==
    LET access == normalizeState(kind, p, now)
        grace == graceEnd(kind, p, access[2], now)
        renew == IF kind # "subscription" THEN "not_applicable" ELSE IF p.renew = 1 THEN "enabled" ELSE "disabled"
        snapshot == [product |-> p.product, kind |-> kind, state |-> access[1], provider |-> ToString(p.state),
                     access |-> access[2], reason |-> access[3], family |-> FALSE,
                     occurred |-> <<p.purchased>>, start |-> <<p.purchased>>,
                     end |-> IF grace # << >> THEN grace ELSE IF p.expires > 0 THEN <<p.expires>> ELSE << >>,
                     mode |-> IF kind = "subscription" THEN "auto" ELSE "none", renew |-> renew,
                     next |-> "", nextAt |-> << >>]
    IN  [id |-> observationSnapshotIdentity(application, kind, p, access, renew, grace), prior |-> << >>,
         application |-> application.id, snapshot |-> snapshot, price |-> <<p.price * 10>>, at |-> Sighting(now),
         refs |-> References({<<"transaction", "order_id", p.order>>, <<"query", "purchase_token", p.token>>,
                              <<"query", "subscription_id", p.subscription>>,
                              <<"customer_binding", "developer_payload", p.payload>>})]

result(application, kind, p, now) ==
    LET seen == observation(application, kind, p, now)
    IN  Guarded(<<Must(validatePurchasePrice(p), invalid), Must(ObservationValid(seen), invalid)>>,
                [ok |-> TRUE, observations |-> <<seen>>, named |-> {}, actions |-> {}])

Verify(request, server, now) ==
    LET submitted == request.purchase
        q == query(server)
    IN  Guarded(<<Must(validateSubmittedScope(request, submitted), invalid), configuration(request.application),
                  Must(submitted.signed, invalid), Must(request.kind = "subscription" => submitted.subscription # "", invalid)>>,
          IF ~ q.ok THEN q
          ELSE Guarded(<<Must(comparePurchases(submitted, q.purchase), invalid)>>,
                       result(request.application, request.kind, q.purchase, now)))

Reconcile(request, server, now) ==
    LET q == query(server)
        value(kind) == {r[3] : r \in {r \in request.queries : r[2] = kind}}
        p == q.purchase
    IN  Guarded(<<Must(value("purchase_token") # {} /\ Cardinality(request.claimed) = 1, invalid),
                  Must(request.kind = "subscription" => value("subscription_id") # {}, invalid),
                  configuration(request.application)>>,
          IF ~ q.ok THEN q
          ELSE Guarded(<<Must(/\ p.token \in value("purchase_token") /\ {p.product} = request.claimed
                              /\ p.application = request.application.store
                              /\ value("subscription_id") # {} => p.subscription \in value("subscription_id"), invalid)>>,
                       result(request.application, request.kind, p, now)))

\* What Huawei's answer says by itself: the product is to be served at an instant.
StoreGrants(answer, product, instant) ==
    LET p == answer.purchase
    IN  /\ p.product = product
        /\ IF answer.kind = "non_consumable" THEN p.state = 0
           ELSE p.state \in {0, 2} /\ p.cancel <= 0 /\ ((p.retry = 1 /\ p.grace > instant) \/ (p.valid /\ p.expires > instant))

====
