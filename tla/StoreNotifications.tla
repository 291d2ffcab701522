---- MODULE StoreNotifications ----
(***************************************************************************)
(* The provider callbacks and what each adapter makes of them before they  *)
(* are kept.  A push is the record of the fields its provider sends, a     *)
(* signature is its verdict, a malformed text is "".  The result is an     *)
(* envelope (token "" is audit-only) or a failure; "invalid_notification"  *)
(* and "unauthorized_notification" are the adapters' own errors.           *)
(***************************************************************************)
EXTENDS StoreResult

CONSTANTS ClockSkew,         \* maximumNotificationClockSkew
          MaxPrice, Tries    \* of the Huawei adapter

AppleStore == INSTANCE AppleAdapter
GoogleStore == INSTANCE GooglePlayAdapter
HuaweiStore == INSTANCE HuaweiAdapter

malformed == "invalid_notification"

Envelope(kind, token, product, productKind, external, subscription, unsigned) ==
    [ok |-> TRUE, kind |-> kind, token |-> token, product |-> product, productKind |-> productKind,
     external |-> external, subscription |-> subscription, unsigned |-> unsigned]
AuditOnly(kind) == Envelope(kind, "", "", "", "", "", FALSE)

(***************************************************************************)
(* App Store Server Notifications V2                                       *)
(***************************************************************************)
validateNotificationDataScope(application, data) ==
    /\ data.bundle = application.store /\ data.environment = application.environment
    /\ application.environment = "Production" => data.appleID = application.id
    /\ data.status \in 0 .. 5

validateNotificationTransaction(application, t) ==
    /\ t.bundle = application.store /\ t.environment = application.environment
    /\ t.id # "" /\ t.original # "" /\ t.product # "" /\ t.account # ""

\* NotificationEnvelope.Validate of the App Store
appleEnvelopeValid(push) == push.uuid # "" /\ push.type # "" /\ push.at > 0 /\ push.subtype

appleValidateNotification(application, push, now) ==
    LET data == push.data[1]
        t == data.transaction[1]
        renewals == Range(data.renewal)
    IN  Guarded(<<AppleStore!configuration(application),
                  Must(push.signed, malformed),
                  Must(push.version = "2.0" /\ push.uuid # "" /\ push.type # "" /\ push.at <= now + ClockSkew, malformed),
                  Must(push.data # << >>, malformed)>>,
          IF ~ validateNotificationDataScope(application, data) THEN Failure(malformed)
          ELSE IF data.transaction = << >>
          THEN Guarded(<<Must(appleEnvelopeValid(push), malformed)>>, AuditOnly("audit"))
          ELSE Guarded(<<Must(t.signed /\ validateNotificationTransaction(application, t), malformed),
                         Must(\A r \in renewals : r.signed, malformed)>>,
                 \* A consumable, say, is kept for the audit only.
                 IF AppleStore!productKind(t.type) = "" THEN AuditOnly("audit")
                 ELSE Guarded(<<Must(\A r \in renewals :
                                       AppleStore!validateRenewalScope([application |-> application], t, r), malformed),
                                Must(appleEnvelopeValid(push), malformed)>>,
                        Envelope("transaction", t.original, t.product, AppleStore!productKind(t.type), t.account, "", FALSE))))

(***************************************************************************)
(* Huawei IAP V2                                                           *)
(***************************************************************************)
\* Order events are not signed.
huaweiValidateNotification(application, push) ==
    LET refused == "invalid_evidence"
        order == push.event = "ORDER"
        subscription == push.event = "SUBSCRIPTION"
    IN  Guarded(<<Must(push.version = "v2" /\ push.at > 0 /\ push.application = application.store, refused),
                  Must(Cardinality(push.bodies) = 1, refused),
                  Must(order \/ subscription, refused),
                  Must(push.bodies = {push.event} /\ push.bodyVersion = "v2", refused),
                  Must(order => push.type \in {1, 2} /\ push.token # "" /\ push.product # "", refused),
                  IF order THEN "" ELSE HuaweiStore!configuration(application),
                  Must(order \/ push.signed, refused),
                  Must(subscription => push.type > 0 /\ push.subscription # "" /\ push.token # "" /\ push.product # "", refused)>>,
                IF order THEN Envelope("order", push.token, push.product, "non_consumable", "", "", TRUE)
                ELSE Envelope("subscription", push.token, push.product, "subscription", "", push.subscription, FALSE))

RequiresReferenceAuthentication(envelope) == envelope.unsigned

(***************************************************************************)
(* Google Play real-time developer notifications                           *)
(***************************************************************************)
\* Exactly one variant, complete in its own fields.
normalizeDeveloperNotification(variants) ==
    LET v == variants[1]
        valid == CASE v.kind = "subscription" -> v.version = "1.0" /\ v.type > 0 /\ v.token # ""
                   [] v.kind = "one_time_product" -> v.version = "1.0" /\ v.type > 0 /\ v.token # "" /\ v.product # ""
                   [] v.kind = "voided_purchase" -> v.token # "" /\ v.order # "" /\ v.refund > 0 /\ v.type \in {1, 2}
                   [] v.kind = "pending_refund_review" -> v.version = "1.0" /\ v.refund > 0 /\ v.token # "" /\ v.order # ""
                   [] v.kind = "test" -> v.version = "1.0"
    IN  IF Len(variants) # 1 THEN Failure(malformed)
        ELSE Guarded(<<Must(valid, malformed)>>,
               CASE v.kind = "subscription" -> Envelope(v.kind, v.token, "", "subscription", "", "", FALSE)
                 [] v.kind = "one_time_product" -> Envelope(v.kind, v.token, v.product, "non_consumable", "", "", FALSE)
                 [] v.kind = "voided_purchase" ->
                      Envelope(v.kind, v.token, "", IF v.type = 1 THEN "subscription" ELSE "non_consumable", "", "", FALSE)
                 [] OTHER -> AuditOnly(v.kind))

\* NotificationEnvelope.Validate of Google Play, when it is made and again when
\* it is worked on.
googleEnvelopeValid(e) ==
    CASE e.kind = "subscription" -> e.token # "" /\ e.productKind = "subscription" /\ e.product = ""
      [] e.kind = "one_time_product" -> e.token # "" /\ e.productKind = "non_consumable" /\ e.product # ""
      [] e.kind = "voided_purchase" -> e.token # "" /\ e.productKind \in {"subscription", "non_consumable"}
      [] OTHER -> {e.token, e.productKind, e.product} = {""}

decodeNotification(application, push) ==
    LET e == normalizeDeveloperNotification(push.variants)
    IN  Guarded(<<Must(push.subscription = application.topic /\ push.message # "", malformed),
                  Must(push.version = "1.0" /\ push.package = application.store /\ push.at > 0, malformed),
                  Must(e.ok => googleEnvelopeValid(e), malformed)>>, e)

\* The bearer is Google's OIDC token: its verdict, its audience and its account.
googleValidateNotification(application, push) ==
    Guarded(<<GoogleStore!configuration(application), Must(application.topic # "", "permanent"),
              Must(push.bearer = application.pusher, "unauthorized_notification")>>,
            decodeNotification(application, push))

\* What the worker asks the store about: nothing for an audit-only envelope.
VerificationEvidence(envelope) == envelope.token

====
