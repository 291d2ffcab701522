---- MODULE Notifications ----
(***************************************************************************)
(* Provider callbacks and client submissions about the same purchases.  A  *)
(* push is validated and kept in the inbox; the worker binds it to a known *)
(* purchase, or to the one it replaces, asks the store, stores the answer, *)
(* acknowledges it and schedules the daily refresh.  A client verifies or  *)
(* restores the same purchases meanwhile, and customers are merged.  The   *)
(* store's state of a purchase is a phase; every phase has another answer. *)
(* DurableQueue models the queue: here an attempt ends done, failed for    *)
(* good or open for another attempt.                                       *)
(***************************************************************************)
EXTENDS StoreNotifications

CONSTANTS Provider,     \* world -> its provider; the next four constants are per world
          Purchases,    \* token -> [kind, product, account, linked, answers: one per phase, outages, submitted]
          Pushes,       \* message -> [push, phase]: what the store sends once the purchase is in that phase
          Legacy,       \* sets of <<message, envelope>> an earlier release may have left open in the inbox
          Requests,     \* client requests: [session, items: sequence of [external, token]]
          Customers,    \* external customer ids
          Merges,       \* <<source, target>> pairs the host may merge
          Application,  \* the application with its credential and its push configuration
          Catalog,      \* product -> kind
          MaxRestore,   \* purchases of one restore request
          MaxFailures, MaxPushes, MaxRequests, MaxMerges

VARIABLES world,        \* the store with its purchases
          phase,        \* the store's state of every purchase
          canonical,    \* external id -> the customer it resolves to
          rows,         \* token -> its rows; the store only moves on, so phases order the sightings
          evidence,     \* submission or message -> the customer it was stored for
          acknowledged, \* tokens the store holds as acknowledged
          scheduled,    \* tokens with a daily refresh
          inbox,        \* message -> [status, envelope, failure]
          job,          \* message or "client" -> the running attempt
          client,       \* [request, next, answer] of the client's last request
          missed,       \* tokens whose missing refresh was logged or reported to the client
          failures, pushes, requests, merges

vars == <<world, phase, canonical, rows, evidence, acknowledged, scheduled, inbox, job, client, missed,
          failures, pushes, requests, merges>>

provider == Provider[world]
Tokens == DOMAIN Purchases[world]
Messages == DOMAIN Pushes[world]
Actors == Messages \cup {"client"}
Purchase(t) == Purchases[world][t]
now == 1
None == << >>
Idle == [pc |-> "idle"]
Absent == [status |-> "none", envelope |-> << >>, failure |-> ""]

\* What the callback of message m says, and the envelopes the inbox may hold for it.
Announced(w, m) ==
    LET push == Pushes[w][m].push
    IN  CASE Provider[w] = "apple"  -> appleValidateNotification(Application, push, now)
          [] Provider[w] = "huawei" -> huaweiValidateNotification(Application, push)
          [] Provider[w] = "google" -> googleValidateNotification(Application, push)
Envelopes(w, m) == {e \in {Announced(w, m)} : e.ok} \cup {left[m] : left \in {l \in Legacy[w] : m \in DOMAIN l}}

\* The signed transaction an App Store callback carries.
SignedTransaction(w, m) == Pushes[w][m].push.data[1].transaction[1]

\* A store is consistent: a purchase keeps the account it was made with, and every
\* answer or signed record about it names that account.  The service compares it with
\* the customer it asks for, never with the rows it has stored before.
NamesAccount(w, p) ==
    CASE Provider[w] = "google" -> \A server \in Range(p.answers) \cup p.outages : server.purchase.account = p.account
      [] Provider[w] = "huawei" -> \A server \in Range(p.answers) \cup p.outages : server.purchase.payload = p.account
      [] Provider[w] = "apple"  -> p.submitted.account = p.account

\* Whenever Google Play is asked about a purchase it also names the purchase it
\* replaces, and it never says by itself that one it waits for is acknowledged.
GoogleSays(p, server) ==
    /\ "purchase" \in DOMAIN server /\ {"state", "acknowledgement", "linked", "account"} \subseteq DOMAIN server.purchase
    /\ server.purchase.linked = p.linked
    /\ p.acknowledgeable => /\ server.purchase.state \in GoogleStore!AcknowledgeableStates
                            /\ server.purchase.acknowledgement # "acknowledged"

\* What it announces is about a purchase of the kind it says, in a state it can be in,
\* and only Huawei's unsigned callbacks name purchases it does not have.
StoreSays(w, m, e) ==
    /\ Provider[w] # "huawei" => e.token \in DOMAIN Purchases[w] \cup {""}
    /\ e.token \in DOMAIN Purchases[w] =>
         /\ e.productKind = Purchases[w][e.token].kind
         /\ Provider[w] = "apple" => SignedTransaction(w, m).account = Purchases[w][e.token].account
         /\ Pushes[w][m].phase \in DOMAIN Purchases[w][e.token].answers
    /\ \A f \in Envelopes(w, m) : f.token = e.token

ASSUME NotificationsAssumption ==
    /\ {MaxRestore, MaxFailures, MaxPushes, MaxRequests, MaxMerges} \subseteq Nat
    /\ Merges \subseteq Customers \X Customers
    /\ \A w \in DOMAIN Provider :
         /\ Provider[w] \in {"apple", "google", "huawei"}
         /\ "" \notin DOMAIN Purchases[w] /\ "client" \notin DOMAIN Pushes[w]
         /\ DOMAIN Purchases[w] \cap DOMAIN Pushes[w] = {}
         /\ \A t \in DOMAIN Purchases[w] :
              LET p == Purchases[w][t]
              IN  /\ p.answers \in Seq(Range(p.answers)) /\ p.answers # << >>
                  /\ p.linked # "" => Provider[w] = "google" /\ p.linked \in DOMAIN Purchases[w]
                  /\ Provider[w] = "google" => \A server \in Range(p.answers) \cup p.outages : GoogleSays(p, server)
                  /\ NamesAccount(w, p)
         /\ \A m \in DOMAIN Pushes[w] : \A e \in Envelopes(w, m) : StoreSays(w, m, e)
         /\ \A left \in Legacy[w] : DOMAIN left \subseteq DOMAIN Pushes[w]
         /\ \A r \in Requests[w] :
              /\ r.items \in Seq(Range(r.items))
              /\ \A i \in DOMAIN r.items : r.items[i].token \in DOMAIN Purchases[w]

(***************************************************************************)
(* Reading                                                                 *)
(***************************************************************************)
CustomerByExternalID(e) == canonical[e]

\* Every product has a mapping in the catalog.
CatalogProducts(products) == products \subseteq DOMAIN Catalog

\* Faulty variant: two known customers are the same.
anyCustomer(left, right) == {left, right} \subseteq Customers

\* An unknown id is not the same customer.
sameCanonicalCustomer(left, right) ==
    /\ {left, right} \subseteq Customers
    /\ CustomerByExternalID(left) = CustomerByExternalID(right)

Latest(t) == CHOOSE r \in rows[t] : \A s \in rows[t] : s.phase <= r.phase
\* The customer and the product of the latest sighting; << >> is not found.
PurchaseContextByReference(t) == IF t \notin Tokens \/ rows[t] = {} THEN None ELSE <<Latest(t)>>

\* A purchase token a client has submitted; its evidence has the subscription id.
PurchaseSubmissionByReference(t) == \E r \in rows[t] : r.submitted
storedHuaweiSubscriptionID(t) == IF PurchaseSubmissionByReference(t) THEN Purchase(t).submitted.subscription ELSE ""

bindingKind == [apple |-> "app_account_token", google |-> "obfuscated_external_account_id", huawei |-> "developer_payload"]

\* The signed transaction an attempt begins with: the callback's, or the client's.
Evidence(a) ==
    IF provider = "apple" /\ a.key \in Messages THEN SignedTransaction(world, a.key) ELSE Purchase(a.token).submitted

\* What the adapter is asked for one purchase of one customer.
RequestFor(a) ==
    [application |-> Application, kind |-> a.kind, claimed |-> a.claimed, token |-> a.token,
     bindings |-> {<<"customer_binding", bindingKind[provider], a.external>>},
     queries |-> {<<"query", "purchase_token", a.token>>}
                 \cup IF a.subscription = "" THEN {} ELSE {<<"query", "subscription_id", a.subscription>>},
     transaction |-> Evidence(a), purchase |-> Evidence(a)]

\* An attempt to verify (evidence of a client or of Apple) or to reconcile.
Attempt(key, verify, token, kind, external, claimed, subscription) ==
    [pc |-> "ask", key |-> key, verify |-> verify, token |-> token, kind |-> kind, external |-> external,
     claimed |-> claimed, subscription |-> subscription, customer |-> "", found |-> << >>, acknowledge |-> FALSE, phase |-> 0]
Refuse(kind) == [pc |-> "end", failure |-> kind]

isRetryable(kind) == Retryable(kind) \/ kind \in {"unavailable", "deadline"}

\* The status of an error answer.
writeError(kind) ==
    CASE kind \in {"deadline", "unavailable", "rate_limited", "temporary"} -> 503
      [] kind = "unauthorized_notification" -> 401
      [] kind \in {"invalid_notification", "invalid_request"} -> 400
      [] kind \in {"storage_not_found", "not_found"} -> 404
      [] kind = "storage_conflict" -> 409
      [] kind = "invalid_evidence" -> 422
      [] kind \in {"unauthorized", "permanent", "conflict"} -> 502
      [] OTHER -> 500

(***************************************************************************)
(* Binding a notification to a customer                                    *)
(***************************************************************************)
handleAppleInbox(m, e) ==
    Attempt(m, TRUE, e.token, e.productKind, e.external, {e.product}, "")

\* A message of an earlier release has no subscription id.
huaweiReconciliationCommand(m, e) ==
    LET found == PurchaseContextByReference(e.token)
        subscription == IF e.productKind = "subscription" /\ e.subscription = "" THEN storedHuaweiSubscriptionID(e.token)
                        ELSE e.subscription
    IN  IF found = None THEN Refuse("invalid_evidence")
        ELSE IF found[1].kind # e.productKind \/ found[1].product # e.product THEN Refuse("invalid_evidence")
        ELSE IF e.productKind = "subscription" /\ subscription = "" THEN Refuse("temporary")
        ELSE Attempt(m, FALSE, e.token, e.productKind, found[1].owner, {found[1].product}, subscription)

\* Faulty variant: a purchase no client has verified is left for its client.
googlePlayKnownPurchase(m, e) ==
    LET found == PurchaseContextByReference(e.token)
    IN  IF found # None THEN
            IF found[1].kind # e.productKind \/ e.product \notin {"", found[1].product} THEN Refuse("invalid_evidence")
            ELSE Attempt(m, FALSE, e.token, e.productKind, found[1].owner, {found[1].product}, "")
        ELSE Refuse("temporary")

\* A subscription no client has verified may replace one that is known.
googlePlayReconciliationCommand(m, e) ==
    LET found == PurchaseContextByReference(e.token)
    IN  IF ~ googleEnvelopeValid(e) THEN Refuse("rejected")
        ELSE IF found # None THEN
            IF found[1].kind # e.productKind \/ e.product \notin {"", found[1].product} THEN Refuse("invalid_evidence")
            ELSE Attempt(m, FALSE, e.token, e.productKind, found[1].owner, {found[1].product}, "")
        ELSE IF e.kind = "subscription" THEN [pc |-> "unbound", token |-> e.token]
        ELSE Refuse("temporary")

\* linked is what the store says the purchase replaces.
googlePlayReplacement(m, t, linked) ==
    LET token == IF linked.linked = {} THEN "" ELSE CHOOSE x \in linked.linked : TRUE
        replaced == PurchaseContextByReference(token)
        accounts == {r[3] : r \in {r \in linked.bindings : r[2] = bindingKind.google}}
        account == CHOOSE x \in accounts : TRUE
    IN  IF token = "" \/ replaced = None THEN Refuse("temporary")
        ELSE IF replaced[1].kind # "subscription" \/ accounts = {} THEN Refuse("invalid_evidence")
        ELSE IF account # replaced[1].owner /\ ~ sameCanonicalCustomer(account, replaced[1].owner) THEN Refuse("invalid_evidence")
        ELSE Attempt(m, FALSE, t, "subscription", account, {linked.product}, "")

HandleInbox(m, e) ==
    IF VerificationEvidence(e) = "" THEN Refuse("")
    ELSE CASE provider = "apple"  -> handleAppleInbox(m, e)
           [] provider = "huawei" -> huaweiReconciliationCommand(m, e)
           [] provider = "google" -> googlePlayReconciliationCommand(m, e)

(***************************************************************************)
(* How an attempt ends                                                     *)
(***************************************************************************)
Working(a, step) == job[a].pc = step
CanFail == failures < MaxFailures

\* The worker settles the message, or leaves it open for another attempt.
EndJob(m, kind) ==
    /\ job' = [job EXCEPT ![m] = Idle]
    /\ inbox' = [inbox EXCEPT ![m].status = IF kind = "" THEN "done" ELSE IF isRetryable(kind) THEN "open" ELSE "failed",
                              ![m].failure = kind]
    /\ UNCHANGED <<client, missed>>

\* Faulty variant: a restore goes on after an item that failed.
EndItemAnyway(kind) ==
    LET t == job["client"].token
        last == client.next = Len(client.request.items)
    IN  /\ job' = [job EXCEPT !["client"] = Idle]
        /\ client' = IF last THEN [client EXCEPT !.answer = 200] ELSE [client EXCEPT !.next = @ + 1]
        /\ missed' = IF kind # "" /\ rows[t] # {} THEN missed \cup {t} ELSE missed
        /\ UNCHANGED inbox

\* The first error answers the request; a stored item it interrupts is reported.
EndItem(kind) ==
    LET t == job["client"].token
        last == client.next = Len(client.request.items)
    IN  /\ job' = [job EXCEPT !["client"] = Idle]
        /\ client' = IF kind # "" THEN [client EXCEPT !.answer = writeError(kind)]
                     ELSE IF last THEN [client EXCEPT !.answer = 200]
                     ELSE [client EXCEPT !.next = @ + 1]
        /\ missed' = IF kind # "" /\ rows[t] # {} THEN missed \cup {t} ELSE missed
        /\ UNCHANGED inbox

End(a, kind) == IF a = "client" THEN EndItem(kind) ELSE EndJob(a, kind)

\* The attempt goes on as next, or ends.
Continue(a, next) ==
    IF next.pc = "end" THEN End(a, next.failure)
    ELSE job' = [job EXCEPT ![a] = next] /\ UNCHANGED <<inbox, client, missed>>

(***************************************************************************)
(* The verification service                                                *)
(***************************************************************************)
\* What the store says now: an acknowledged purchase says so.
Said(t) ==
    LET server == Purchase(t).answers[phase[t]]
    IN  IF provider = "google" /\ t \in acknowledged THEN [server EXCEPT !.purchase.acknowledgement = "acknowledged"] ELSE server

\* A call is answered, or fails in one of the ways the store may fail.
Calls(t) == {Said(t)} \cup (IF CanFail THEN Purchase(t).outages ELSE {})
Called(t, server) == failures' = IF server = Said(t) THEN failures ELSE failures + 1

Verify(request, server) ==
    CASE provider = "apple"  -> AppleStore!Verify(request, server, now)
      [] provider = "google" -> GoogleStore!Verify(request, server, now)
      [] provider = "huawei" -> HuaweiStore!Verify(request, server, now)
Reconcile(request, server) ==
    CASE provider = "google" -> GoogleStore!Reconcile(request, server, now)
      [] provider = "huawei" -> HuaweiStore!Reconcile(request, server, now)

Answer(a, server) ==
    LET request == RequestFor(a)
        Valid(found, claimed) == IF a.verify THEN ValidateForVerification(found, request, claimed)
                                 ELSE ValidateForReconciliation(found, request, claimed)
        Checked(found) ==
            IF ~ found.ok THEN Refuse(found.kind)
            ELSE IF ~ Valid(found, IF provider = "apple" THEN Products(found) ELSE ProductsForClaim(found, a.claimed))
                 THEN Refuse("rejected")
            ELSE [a EXCEPT !.pc = "answered", !.customer = CustomerByExternalID(a.external), !.found = found.observations,
                           !.acknowledge = found.actions # {}, !.phase = phase[a.token]]
    IN  Checked(IF a.verify THEN Verify(request, server) ELSE Reconcile(request, server))

\* The scope is resolved and the store is asked.
Ask(a) ==
    /\ Working(a, "ask")
    /\ LET current == job[a]
           known == current.external \in Customers /\ CatalogProducts(current.claimed)
       IN  IF ~ known THEN Continue(a, Refuse("storage_not_found")) /\ UNCHANGED failures
           ELSE \E server \in Calls(current.token) :
                  /\ Called(current.token, server)
                  /\ \E next \in {Answer(current, server)} : Continue(a, next)
    /\ UNCHANGED <<world, phase, canonical, rows, evidence, acknowledged, scheduled, pushes, requests, merges>>

\* The submission or signal is stored once, for the canonical customer; a
\* retry keeps the customer it was first stored for.
SaveEvidence(key, owner) == IF evidence[key] = None THEN owner ELSE evidence[key][1]

\* refreshObservationTime: the freshest sighting of a snapshot that is stored already.
Refreshed(r, a) ==
    IF r.phase < a.phase /\ \E o \in Range(a.found) : o.id = r.id THEN [r EXCEPT !.phase = a.phase] ELSE r

\* A new snapshot is a new row of the evidence's customer; a known one is seen again.
\* (The identities of one answer are distinct.)
SaveObservation(stored, owner, a) ==
    LET new == {o \in Range(a.found) : \A r \in stored : r.id # o.id}
    IN  {Refreshed(r, a) : r \in stored}
        \cup {[id |-> o.id, product |-> o.snapshot.product, kind |-> o.snapshot.kind, owner |-> owner,
               submitted |-> a.verify, phase |-> a.phase] : o \in new}

\* The catalog has the kind of product the store has.
indexCatalogProducts(found) == \A o \in Range(found) : Catalog[o.snapshot.product] = o.snapshot.kind

\* One transaction: the customer is resolved again, then everything is stored.  The
\* evidence, and a row with the identity of a snapshot that is stored again, must
\* belong to the customer; nothing asks whose the other rows of the purchase are.
Persist(a) ==
    /\ Working(a, "answered")
    /\ LET current == job[a]
           t == current.token
           owner == CustomerByExternalID(current.external)
           Closure(customers) == \A c \in customers : canonical[c] = owner
           stored == SaveEvidence(current.key, owner)
           saved == SaveObservation(rows[t], stored, current)
           again == {r \in rows[t] : \E o \in Range(current.found) : o.id = r.id}
           failure == IF ~ Closure({current.customer}) THEN "storage_conflict"
                      ELSE IF ~ CatalogProducts({o.snapshot.product : o \in Range(current.found)}) THEN "storage_not_found"
                      ELSE IF ~ indexCatalogProducts(current.found) THEN "rejected"
                      ELSE IF ~ Closure({stored} \cup {r.owner : r \in again}) THEN "storage_conflict" ELSE ""
       IN  IF failure # "" THEN End(a, failure) /\ UNCHANGED <<rows, evidence>>
           ELSE /\ rows' = [rows EXCEPT ![t] = saved]
                /\ evidence' = [evidence EXCEPT ![current.key] = <<stored>>]
                /\ job' = [job EXCEPT ![a].pc = "stored"]
                /\ UNCHANGED <<inbox, client, missed>>
    /\ UNCHANGED <<world, phase, canonical, acknowledged, scheduled, failures, pushes, requests, merges>>

\* Faulty variant: a failed acknowledgement is passed over.
PostCommitFailureOf(failure) == ""

\* A failed acknowledgement is the attempt's failure, although it is stored.
PostCommitFailure(failure) == failure

\* A purchase Google still waits for is acknowledged once it is stored.
PostCommit(a) ==
    /\ Working(a, "stored")
    /\ LET t == job[a].token
           onward == [job EXCEPT ![a].pc = "posted"]
       IN  IF ~ job[a].acknowledge
           THEN job' = onward /\ UNCHANGED <<acknowledged, inbox, client, missed, failures>>
           ELSE \E server \in Calls(t) :
                  LET failed == GoogleStore!PostCommit(Application, server)
                      failure == PostCommitFailure(failed)
                  IN  /\ Called(t, server)
                      /\ acknowledged' = IF failed = "" THEN acknowledged \cup {t} ELSE acknowledged
                      /\ IF failure # "" THEN End(a, failure)
                         ELSE job' = onward /\ UNCHANGED <<inbox, client, missed>>
    /\ UNCHANGED <<world, phase, canonical, rows, evidence, scheduled, pushes, requests, merges>>

\* Faulty variant: nothing is scheduled.
requiresNothing(a) == FALSE

\* Huawei's worker leaves the refresh to the submission it depends on.
requiresReconciliation(a) == job[a].kind = "subscription" /\ (a # "client" => provider # "huawei")

\* The worker fails with the schedule; the client's answer does not.
Schedule(a) ==
    /\ Working(a, "posted")
    /\ LET t == job[a].token
       IN  IF ~ requiresReconciliation(a) THEN End(a, "") /\ UNCHANGED <<scheduled, failures>>
           ELSE \/ /\ scheduled' = scheduled \cup {t}
                   /\ End(a, "") /\ UNCHANGED failures
                \/ /\ CanFail /\ failures' = failures + 1 /\ UNCHANGED scheduled
                   /\ IF a # "client" THEN EndJob(a, "unavailable")
                      ELSE /\ missed' = missed \cup {t} /\ UNCHANGED inbox
                           /\ job' = [job EXCEPT !["client"] = Idle]
                           /\ client' = IF client.next = Len(client.request.items) THEN [client EXCEPT !.answer = 200]
                                        ELSE [client EXCEPT !.next = @ + 1]
    /\ UNCHANGED <<world, phase, canonical, rows, evidence, acknowledged, pushes, requests, merges>>

(***************************************************************************)
(* The worker                                                              *)
(***************************************************************************)
World == <<world, phase, canonical, rows, evidence, acknowledged, scheduled, pushes, requests, merges>>

\* An attempt that ends like the one before it changes nothing and is no step.
Effective(m) == LET next == HandleInbox(m, inbox[m].envelope) IN next.pc = "end" => next.failure # inbox[m].failure \/ next.failure = ""

\* The message is opened and looked up; an outage of the storage is retried.
Begin(m) ==
    /\ inbox[m].status = "open" /\ Working(m, "idle")
    /\ \/ Effective(m) /\ Continue(m, HandleInbox(m, inbox[m].envelope)) /\ UNCHANGED failures
       \/ CanFail /\ failures' = failures + 1 /\ EndJob(m, "unavailable")
    /\ UNCHANGED World

\* The store is asked what an unknown purchase replaces; a purchase it does not
\* find yet is asked for again.
LinkedPurchase(m) ==
    /\ Working(m, "unbound")
    /\ LET t == job[m].token
       IN  \E server \in Calls(t) :
             \E linked \in {GoogleStore!LinkedPurchase([application |-> Application, kind |-> "subscription", token |-> t], server, now)} :
                 /\ Called(t, server)
                 /\ Continue(m, IF linked.ok THEN [pc |-> "linked", token |-> t, linked |-> linked]
                                ELSE Refuse(IF linked.kind = "not_found" THEN "temporary" ELSE linked.kind))
    /\ UNCHANGED World

BindReplacement(m) ==
    /\ Working(m, "linked")
    /\ Continue(m, googlePlayReplacement(m, job[m].token, job[m].linked))
    /\ UNCHANGED failures /\ UNCHANGED World

\* The process dies or the deadline passes: a job is rescued, a client hears an error.
Crash(a) ==
    /\ ~ Working(a, "idle") /\ CanFail
    /\ failures' = failures + 1
    /\ End(a, "deadline")
    /\ UNCHANGED World

(***************************************************************************)
(* The HTTP API                                                            *)
(***************************************************************************)
\* An unsigned order event proves itself by a purchase that is already stored,
\* read in the transaction that keeps it.
Authentic(e) ==
    RequiresReferenceAuthentication(e) =>
        LET found == PurchaseContextByReference(e.token)
        IN  found # None /\ found[1].product = e.product /\ found[1].kind = e.productKind

huaweiNotification(push) ==
    LET e == huaweiValidateNotification(Application, push)
    IN  IF e.ok /\ ~ Authentic(e) THEN Failure("invalid_evidence") ELSE e
googlePlayNotification(push) == googleValidateNotification(Application, push)
appleNotification(push) == appleValidateNotification(Application, push, now)

\* A message that is new, or that failed for good, is worked on.
SaveInboxMessage(row, e) ==
    IF row.status \in {"none", "failed"} THEN [status |-> "open", envelope |-> e, failure |-> ""] ELSE row

\* One delivery, perhaps not the first one, of what the store has to say.
Push(m) ==
    LET push == Pushes[world][m].push
        e == CASE provider = "apple"  -> appleNotification(push)
               [] provider = "huawei" -> huaweiNotification(push)
               [] provider = "google" -> googlePlayNotification(push)
        kept == IF e.ok THEN SaveInboxMessage(inbox[m], e) ELSE inbox[m]
    IN  /\ pushes < MaxPushes /\ pushes' = IF kept = inbox[m] THEN pushes ELSE pushes + 1
        /\ e.ok /\ e.token \in Tokens => phase[e.token] >= Pushes[world][m].phase
        /\ inbox' = [inbox EXCEPT ![m] = kept]
        /\ UNCHANGED <<world, phase, canonical, rows, evidence, acknowledged, scheduled, job, client, missed,
                       failures, requests, merges>>

\* verifyPurchase is a request of one item; every item is the session's own.
restorePurchases(r) ==
    LET refused == IF Len(r.items) \notin 1 .. MaxRestore THEN 400
                   ELSE IF \E i \in DOMAIN r.items : r.items[i].external # r.session THEN 401 ELSE 0
    IN  /\ Working("client", "idle") /\ client.answer # 0
        /\ requests < MaxRequests /\ requests' = requests + 1
        /\ client' = [request |-> r, next |-> 1, answer |-> refused]
        /\ UNCHANGED <<world, phase, canonical, rows, evidence, acknowledged, scheduled, inbox, job, missed,
                       failures, pushes, merges>>

\* The items of a request are verified one after the other.
verify ==
    /\ Working("client", "idle") /\ client.answer = 0
    /\ LET item == client.request.items[client.next]
           p == Purchase(item.token)
       IN  job' = [job EXCEPT !["client"] = Attempt(item.token, TRUE, item.token, p.kind, item.external, {p.product}, "")]
    /\ UNCHANGED <<world, phase, canonical, rows, evidence, acknowledged, scheduled, inbox, client, missed,
                   failures, pushes, requests, merges>>

(***************************************************************************)
(* The store and the host                                                  *)
(***************************************************************************)
Advance(t) ==
    /\ phase[t] < Len(Purchase(t).answers)
    /\ phase' = [phase EXCEPT ![t] = @ + 1]
    /\ UNCHANGED <<world, canonical, rows, evidence, acknowledged, scheduled, inbox, job, client, missed,
                   failures, pushes, requests, merges>>

\* One customer's purchases become another's; rows keep their customer.  The customers'
\* purchases grant different entitlements, so the merge meets no entitlement conflict.
MergeCustomers(source, target) ==
    /\ merges < MaxMerges /\ merges' = merges + 1
    /\ source # target /\ canonical[source] = source /\ canonical[target] = target
    /\ canonical' = [e \in Customers |-> IF canonical[e] = source THEN target ELSE canonical[e]]
    /\ UNCHANGED <<world, phase, rows, evidence, acknowledged, scheduled, inbox, job, client, missed,
                   failures, pushes, requests>>

Init ==
    /\ world \in DOMAIN Provider
    /\ canonical = [e \in Customers |-> e]
    /\ rows = [t \in Tokens |-> {}]
    /\ evidence = [k \in Tokens \cup Messages |-> None]
    /\ acknowledged = {} /\ scheduled = {} /\ missed = {}
    /\ \E left \in Legacy[world] :
         /\ inbox = [m \in Messages |-> IF m \in DOMAIN left THEN [status |-> "open", envelope |-> left[m], failure |-> ""] ELSE Absent]
         /\ phase = [t \in Tokens |-> IF \E m \in DOMAIN left : left[m].token = t THEN Len(Purchase(t).answers) ELSE 1]
    /\ job = [a \in Actors |-> Idle]
    /\ client = [request |-> << >>, next |-> 0, answer |-> 200]
    /\ failures = 0 /\ pushes = 0 /\ requests = 0 /\ merges = 0

Work(a) == Ask(a) \/ Persist(a) \/ PostCommit(a) \/ Schedule(a)
Handle(m) == Begin(m) \/ LinkedPurchase(m) \/ BindReplacement(m) \/ Work(m)

Next ==
    \/ \E m \in Messages : Handle(m) \/ Push(m)
    \/ \E a \in Actors : Crash(a)
    \/ verify \/ Work("client")
    \/ \E r \in Requests[world] : restorePurchases(r)
    \/ \E t \in Tokens : Advance(t)
    \/ \E c \in Merges : MergeCustomers(c[1], c[2])

\* The queue works every open message again, and a running attempt goes on:
\* weak fairness of Handle(m), with its enabling condition and its effect
\* written out (a crash has the effect too, but only MaxFailures times).
\* Only messages about replacements need it; nothing is assumed of clients,
\* stores or the host.
Ready(m) == m \in Messages /\ inbox[m].status = "open" /\ (Working(m, "idle") => Effective(m) \/ CanFail)
Moved(m) == m \in Messages /\ (job'[m] # job[m] \/ (inbox[m].status = "open" /\ inbox'[m] # inbox[m]))
Replaces(w, e) == e.ok /\ e.token \in DOMAIN Purchases[w] /\ Purchases[w][e.token].linked # ""
AllReplacements == UNION {{m \in DOMAIN Pushes[w] : Replaces(w, Announced(w, m))} : w \in {w \in DOMAIN Pushes : Provider[w] = "google"}}
Fairness == \A m \in AllReplacements : []<>~ Ready(m) \/ []<><<Moved(m)>>_vars
Spec == Init /\ [][Next]_vars
FairSpec == Spec /\ Fairness

(***************************************************************************)
(* Properties                                                              *)
(***************************************************************************)
Owner(t) == canonical[Latest(t).owner]
Token(m) == inbox[m].envelope.token
Kept(m) == inbox[m].status # "none" /\ Token(m) \in Tokens

\* A message that is done has reached the customer: an answer at least as new
\* as what it announced is stored, and a purchase Google waits for is
\* acknowledged, whichever failures, duplicates and crashes came before.
DoneIsApplied ==
    \A m \in Messages :
        inbox[m].status = "done" /\ Kept(m) =>
            /\ \E r \in rows[Token(m)] : r.phase >= Pushes[world][m].phase
            /\ provider = "google" /\ Purchase(Token(m)).acknowledgeable => Token(m) \in acknowledged

\* A replacement no client has verified belongs to the customer of the purchase
\* it replaces (googlePlayReplacement), also when the two are merged later.
ReplacementStaysWithOwner ==
    \A t \in Tokens :
        rows[t] # {} /\ Purchase(t).linked # "" /\ ~ PurchaseSubmissionByReference(t) =>
            rows[Purchase(t).linked] # {} /\ Owner(t) = Owner(Purchase(t).linked)

\* A request answered with success stored, acknowledged and kept for its own
\* customer every purchase it lists, not only the first ones.
SuccessMeansEveryItem ==
    client.answer = 200 /\ client.request # << >> =>
        \A i \in DOMAIN client.request.items :
            LET item == client.request.items[i]
            IN  /\ rows[item.token] # {} /\ Owner(item.token) = canonical[item.external]
                /\ provider = "google" /\ Purchase(item.token).acknowledgeable => item.token \in acknowledged

\* A stored subscription without a daily refresh is still being worked on, or
\* was reported: in the log, to the client, or as an open or failed message.
NoSilentlyUnscheduled ==
    \A t \in Tokens :
        rows[t] # {} /\ Purchase(t).kind = "subscription" /\ t \notin scheduled =>
            \/ t \in missed
            \/ \E a \in Actors : ~ Working(a, "idle") /\ job[a].token = t
            \/ \E m \in Messages : Kept(m) /\ Token(m) = t /\ inbox[m].status \in {"open", "failed"}

AnnouncedReplacement(m) ==
    /\ m \in Messages /\ Kept(m) /\ inbox[m].status = "open"
    /\ LET replaced == Purchase(Token(m)).linked
       IN  replaced # "" /\ rows[replaced] # {} /\ Owner(replaced) = Purchase(Token(m)).account
ReplacementSettled(m) ==
    m \in Messages => merges > 0 \/ inbox[m].status = "failed" \/ (Kept(m) /\ Token(m) \in acknowledged)

\* The app may never come back: a replacement that is announced is still stored
\* and acknowledged, unless the store refuses it for good.  (Until a merge: see
\* MergedPurchaseStaysBound.)
ReplacementNeedsNoClient == \A m \in AllReplacements : AnnouncedReplacement(m) ~> ReplacementSettled(m)

\* Once a purchase is stored, a merge leaves its notifications bound to the
\* customer the store knows: none is refused for good as long as the store's
\* account is one of the ids of the customer who owns the purchase.
MergedPurchaseStaysBound ==
    [][\A m \in Messages :
        inbox[m].status = "open" /\ Token(m) \in Tokens /\ rows[Token(m)] # {} /\ Owner(Token(m)) = canonical[Purchase(Token(m)).account] =>
            ~ (inbox'[m].status = "failed" /\ inbox'[m].failure = "invalid_evidence")]_vars

====
