---- MODULE NotificationsProofs ----
(***************************************************************************)
(* Notifications' four invariants, for every set of stores, purchases,     *)
(* callbacks and requests that NotificationsAssumption admits.             *)
(* First what the adapters promise: a result that is no success names its  *)
(* failure, and Google Play's names the acknowledgement it waits for.      *)
(* Then the inductive invariant IInv: what a message, an attempt and the   *)
(* client's request know about the stored rows.  Its parts are made of     *)
(* facts that no step takes back (Grows), so an actor that does not move   *)
(* keeps what it knows and a step is only about the actor that takes it.   *)
(***************************************************************************)
EXTENDS Notifications, WellFoundedInduction, TLAPS

--------------------------------------------------------------------------------
(* The adapters.                                                             *)

\* Every nonempty set of numbers has a smallest one.
LEMMA SmallestNumber ==
    ASSUME NEW T, T \subseteq Nat, T # {}
    PROVE  \E x \in T : \A y \in T : x <= y
<1>1. PICK x \in T : \A y \in T : ~ (<<y, x>> \in OpToRel(<, Nat))
  BY WFMin, NatLessThanWellFounded
<1>2. \A y \in T : ~(y < x)
  BY <1>1 DEF OpToRel
<1>3. x \in T
  BY <1>1
<1>4. \A y \in T : y \in Nat
  OBVIOUS
<1>5. QED
  BY <1>2, <1>3, <1>4

\* A result that is no success names its failure.
Sound(result) == result.ok \/ result.kind # ""

\* A result behind checks that is a success has passed them.
LEMMA GuardedPasses ==
    ASSUME NEW checks, NEW result, Guarded(checks, result).ok
    PROVE  Guarded(checks, result) = result
BY DEF Guarded, Failure

\* A list of checks that has passed.
Passed(checks) == \A i \in DOMAIN checks : checks[i] = ""
LEMMA Passes == \A g, checks, final : g = Guarded(checks, final) /\ g.ok => g = final /\ Passed(checks)
<1> SUFFICES ASSUME NEW g, NEW checks, NEW final, g = Guarded(checks, final), g.ok
             PROVE  g = final /\ Passed(checks)
  OBVIOUS
<1>1. {i \in DOMAIN checks : checks[i] # ""} = {}
  BY DEF Guarded, Failure
<1>2. QED
  BY <1>1 DEF Guarded, Passed

\* The only account an observation names is this one.
Names(o, account) == \A r \in o.refs : r[1] = "customer_binding" => r[3] = account

\* A sequence of one or two observations and its first one; what may be appended to it.
Begins(s, o) == s = <<o>> \/ s = <<o>> \o << >> \/ \E p : s = <<o>> \o <<p>>
AtMostOne(s) == s = << >> \/ \E p : s = <<p>>
Leads(s, o) == 1 \in DOMAIN s /\ s[1] = o

\* The first one stays in front.
LEMMA BeginsRange ==
    \A s, o, r : Begins(s, o) /\ AtMostOne(r) => /\ s[1] = o /\ o \in Range(s)
                                               /\ o \in Range(s \o r)
<1> SUFFICES ASSUME NEW s, NEW o, NEW r, Begins(s, o), AtMostOne(r)
             PROVE  s[1] = o /\ o \in Range(s) /\ o \in Range(s \o r)
  OBVIOUS
<1>1. \A x : Leads(<<x>>, x) /\ Leads(<<x>> \o << >>, x)
  BY DEF Leads
<1>2. \A x, y : Leads(<<x>> \o <<y>>, x)
  BY DEF Leads
<1>3. \E n \in {s} : Leads(n, o)
  BY <1>1, <1>2 DEF Begins
<1>4. ASSUME NEW q, q \in Seq(Range(q)), Leads(q, o), NEW p
      PROVE  Leads(q \o << >>, o) /\ Leads(q \o <<p>>, o)
  BY <1>4 DEF Leads
<1>5. s \in Seq(Range(s))
  <2>1. \A x : <<x>> \in Seq(Range(<<x>>)) /\ <<x>> \o << >> \in Seq(Range(<<x>> \o << >>))
    BY DEF Range
  <2>2. \A x, y : <<x>> \o <<y>> \in Seq(Range(<<x>> \o <<y>>))
    BY DEF Range
  <2>3. QED
    BY <2>1, <2>2 DEF Begins
<1>6. Leads(s \o r, o)
  BY <1>3, <1>4, <1>5 DEF AtMostOne
<1>7. QED
  BY <1>3, <1>6 DEF Leads, Range

\* A valid result is bound to the customer that was asked for.
LEMMA ValidNames ==
    ASSUME NEW found, NEW request, NEW claimed, NEW kind, NEW external, NEW account, NEW o \in Range(found.observations),
           ValidateForVerification(found, request, claimed) \/ ValidateForReconciliation(found, request, claimed),
           request.bindings = {<<"customer_binding", kind, external>>}, Names(o, account)
    PROVE  external = account
<1>1. PICK b : b = <<"customer_binding", kind, external>>
  OBVIOUS
<1>2. request.bindings = {b} /\ b[1] = "customer_binding" /\ b[3] = external
  BY <1>1
<1>3. ReferencesFor(o, "customer_binding") \cap request.bindings # {}
  BY <1>2 DEF ValidateForVerification, ValidateForReconciliation, validate
<1>4. b \in o.refs
  BY <1>2, <1>3 DEF ReferencesFor
<1>5. QED
  BY <1>2, <1>4 DEF Names

\* A failure with a name is sound.
LEMMA FailureSound == ASSUME NEW kind, kind # "" PROVE Sound(Failure(kind))
BY DEF Sound, Failure

\* Checks in front of a sound result: the first one that fails names the failure.
LEMMA GuardedSound ==
    ASSUME NEW checks, NEW result, DOMAIN checks \subseteq Nat, Sound(result)
    PROVE  Sound(Guarded(checks, result))
<1> DEFINE failed == {i \in DOMAIN checks : checks[i] # ""}
<1>1. CASE failed = {}
  BY <1>1 DEF Guarded
<1>2. CASE failed # {}
  <2> DEFINE first == CHOOSE i \in failed : \A j \in failed : i <= j
  <2>1. first \in failed
    BY <1>2, SmallestNumber
  <2>2. checks[first] # ""
    BY <2>1
  <2>3. Guarded(checks, result) = Failure(checks[first])
    BY <1>2 DEF Guarded
  <2> HIDE DEF first
  <2>4. QED
    BY <2>2, <2>3, FailureSound
<1>3. QED
  BY <1>1, <1>2

\* The same for the lists of checks the adapters write.
LEMMA ChecksSound ==
    /\ \A a, r : Sound(r) => Sound(Guarded(<<a>>, r))
    /\ \A a, b, r : Sound(r) => Sound(Guarded(<<a, b>>, r))
    /\ \A a, b, c, r : Sound(r) => Sound(Guarded(<<a, b, c>>, r))
    /\ \A a, b, c, d, r : Sound(r) => Sound(Guarded(<<a, b, c, d>>, r))
    /\ \A a, b, c, d, e, r : Sound(r) => Sound(Guarded(<<a, b, c, d, e>>, r))
<1>1. \A a, b, c, d, e :
         /\ DOMAIN <<a>> \subseteq Nat /\ DOMAIN <<a, b>> \subseteq Nat /\ DOMAIN <<a, b, c>> \subseteq Nat
         /\ DOMAIN <<a, b, c, d>> \subseteq Nat /\ DOMAIN <<a, b, c, d, e>> \subseteq Nat
  OBVIOUS
<1>2. QED
  BY <1>1, GuardedSound

\* The adapters share StoreResult's checks.
LEMMA HuaweiGuarded == \A c, r : HuaweiStore!Guarded(c, r) = Guarded(c, r)
BY DEF Guarded, Failure, HuaweiStore!Guarded, HuaweiStore!Failure

\* The same for Huawei's lists of checks.
LEMMA HuaweiChecks ==
    /\ \A a, r : Sound(r) => Sound(HuaweiStore!Guarded(<<a>>, r))
    /\ \A a, b, r : Sound(r) => Sound(HuaweiStore!Guarded(<<a, b>>, r))
    /\ \A a, b, c, r : Sound(r) => Sound(HuaweiStore!Guarded(<<a, b, c>>, r))
    /\ \A a, b, c, d, r : Sound(r) => Sound(HuaweiStore!Guarded(<<a, b, c, d>>, r))
BY ChecksSound, HuaweiGuarded

\* The adapters name their failures.
LEMMA HuaweiSound ==
    ASSUME NEW request, NEW server, NEW instant
    PROVE  Sound(HuaweiStore!Verify(request, server, instant)) /\ Sound(HuaweiStore!Reconcile(request, server, instant))
<1>1. Sound(HuaweiStore!query(server))
  <2>1. \A a, b, c, d, p : Sound(HuaweiStore!Guarded(<<a, b, c, d>>, [ok |-> TRUE, purchase |-> p]))
    BY HuaweiChecks DEF Sound
  <2>2. QED
    BY <2>1, Zenon DEF HuaweiStore!query
<1>2. ASSUME NEW application, NEW kind, NEW p PROVE Sound(HuaweiStore!result(application, kind, p, instant))
  <2>1. \A a, b, o : Sound(HuaweiStore!Guarded(<<a, b>>, [ok |-> TRUE, observations |-> o, named |-> {}, actions |-> {}]))
    BY HuaweiChecks DEF Sound
  <2>2. QED
    BY <2>1, Zenon DEF HuaweiStore!result
<1>3. Sound(HuaweiStore!Verify(request, server, instant))
  BY <1>1, <1>2, HuaweiChecks, Zenon DEF HuaweiStore!Verify
<1>4. Sound(HuaweiStore!Reconcile(request, server, instant))
  BY <1>1, <1>2, HuaweiChecks, Zenon DEF HuaweiStore!Reconcile
<1>5. QED
  BY <1>3, <1>4

\* Huawei's result is about the purchase Huawei has.
LEMMA HuaweiNames ==
    ASSUME NEW request, NEW server, NEW instant, NEW found,
           found = HuaweiStore!Verify(request, server, instant) \/ found = HuaweiStore!Reconcile(request, server, instant), found.ok
    PROVE  \E o \in Range(found.observations) : Names(o, server.purchase.payload)
<1> DEFINE q == HuaweiStore!query(server)
           r == HuaweiStore!result(request.application, request.kind, q.purchase, instant)
           o == HuaweiStore!observation(request.application, request.kind, q.purchase, instant)
<1>1. \E outer, inner : \/ ~ q.ok /\ found = HuaweiStore!Guarded(outer, q)
                        \/ q.ok /\ found = HuaweiStore!Guarded(outer, HuaweiStore!Guarded(inner, r))
  <2>1. CASE found = HuaweiStore!Verify(request, server, instant)
    <3>1. CASE q.ok
      BY <2>1, <3>1, Zenon DEF HuaweiStore!Verify
    <3>2. CASE ~ q.ok
      BY <2>1, <3>2, Zenon DEF HuaweiStore!Verify
    <3>3. QED
      BY <3>1, <3>2
  <2>2. CASE found = HuaweiStore!Reconcile(request, server, instant)
    <3>1. CASE q.ok
      BY <2>2, <3>1, Zenon DEF HuaweiStore!Reconcile
    <3>2. CASE ~ q.ok
      BY <2>2, <3>2, Zenon DEF HuaweiStore!Reconcile
    <3>3. QED
      BY <3>1, <3>2
  <2>3. QED
    BY <2>1, <2>2
<1>2. \E checks : r = HuaweiStore!Guarded(checks, [ok |-> TRUE, observations |-> <<o>>, named |-> {}, actions |-> {}])
  BY Zenon DEF HuaweiStore!result
<1>3. \E checks : q = HuaweiStore!Guarded(checks, [ok |-> TRUE, purchase |-> server.purchase])
  BY Zenon DEF HuaweiStore!query
<1>4. \E a, b, c, d : o.refs = HuaweiStore!References({<<"transaction", "order_id", a>>, <<"query", "purchase_token", b>>,
                                                      <<"query", "subscription_id", c>>,
                                                      <<"customer_binding", "developer_payload", q.purchase.payload>>})
  BY DEF HuaweiStore!observation
<1> HIDE DEF q, r, o
<1>5. q.ok /\ found = r
  BY <1>1, HuaweiGuarded, Passes
<1>6. q = [ok |-> TRUE, purchase |-> server.purchase]
  BY <1>3, <1>5, HuaweiGuarded, Passes
<1>7. r = [ok |-> TRUE, observations |-> <<o>>, named |-> {}, actions |-> {}]
  BY <1>2, <1>5, HuaweiGuarded, Passes
<1>8. o \in Range(found.observations)
  <2>1. found.observations = <<o>>
    BY <1>5, <1>7
  <2>2. QED
    BY <2>1 DEF Range
<1>9. Names(o, server.purchase.payload)
  <2>1. q.purchase.payload = server.purchase.payload
    BY <1>6
  <2> SUFFICES ASSUME NEW x \in o.refs, x[1] = "customer_binding" PROVE x[3] = server.purchase.payload
    BY DEF Names
  <2>2. \E y : \/ x = <<"transaction", "order_id", y>> \/ x = <<"query", "purchase_token", y>>
              \/ x = <<"query", "subscription_id", y>>
              \/ x = <<"customer_binding", "developer_payload", q.purchase.payload>>
    BY <1>4, Zenon DEF HuaweiStore!References
  <2>3. QED
    BY <2>1, <2>2
<1>10. QED
  BY <1>8, <1>9

\* Apple's adapter uses the shared checks.
LEMMA AppleGuarded == \A c, r : AppleStore!Guarded(c, r) = Guarded(c, r)
BY DEF Guarded, Failure, AppleStore!Guarded, AppleStore!Failure

\* The same for Apple's lists of checks.
LEMMA AppleChecks ==
    /\ \A a, b, r : Sound(r) => Sound(AppleStore!Guarded(<<a, b>>, r))
    /\ \A a, b, c, r : Sound(r) => Sound(AppleStore!Guarded(<<a, b, c>>, r))
    /\ \A a, b, c, d, e, r : Sound(r) => Sound(AppleStore!Guarded(<<a, b, c, d, e>>, r))
BY ChecksSound, AppleGuarded

\* Apple's adapter names every failure of result.
LEMMA AppleSound ==
    ASSUME NEW request, NEW server, NEW instant
    PROVE  Sound(AppleStore!Verify(request, server, instant))
<1>1. Sound(AppleStore!query(server))
  <2>1. \A a, b, p : Sound(AppleStore!Guarded(<<a, b>>, [ok |-> TRUE, transaction |-> p]))
    BY AppleChecks DEF Sound
  <2>2. QED
    BY <2>1, Zenon DEF AppleStore!query
<1>2. ASSUME NEW kind, NEW t, NEW status, NEW renewal
      PROVE  Sound(AppleStore!result(request, kind, t, status, renewal, instant))
  <2>1. \A a, b, o : Sound(AppleStore!Guarded(<<a, b>>, [ok |-> TRUE, observations |-> o, named |-> {}, actions |-> {}]))
    BY AppleChecks DEF Sound
  <2>2. QED
    BY <2>1, Zenon DEF AppleStore!result
<1>3. ASSUME NEW application, NEW answer, NEW original
      PROVE  Sound(AppleStore!querySubscriptionStatus(application, answer, original))
  <2>1. \A a, b, c, d, e, t, r, u :
           Sound(AppleStore!Guarded(<<a, b, c, d, e>>, [ok |-> TRUE, transaction |-> t, renewal |-> r, status |-> u]))
    BY AppleChecks DEF Sound
  <2>2. PICK found : found = AppleStore!selectSubscriptionStatus(answer, original)
    OBVIOUS
  <2>3. PICK a, b, c, d, e :
          /\ a = AppleStore!classifyProviderStatus(answer.http)
          /\ b = AppleStore!Must(AppleStore!validateStatusResponseScope(application, answer), AppleStore!invalid)
          /\ c = AppleStore!Must(AppleStore!Cardinality(found) = 1, AppleStore!invalid)
          /\ d = AppleStore!Must(\A i \in found : answer.rows[i].status \in 1 .. 5, AppleStore!invalid)
          /\ e = AppleStore!Must(\A i \in found : answer.rows[i].transaction.signed /\ answer.rows[i].renewal.signed,
                                AppleStore!invalid)
    OBVIOUS
  <2>4. PICK row : row = answer.rows[CHOOSE i \in found : TRUE]
    OBVIOUS
  <2>5. AppleStore!querySubscriptionStatus(application, answer, original)
          = AppleStore!Guarded(<<a, b, c, d, e>>,
              [ok |-> TRUE, transaction |-> row.transaction, renewal |-> row.renewal, status |-> row.status])
    BY <2>2, <2>3, <2>4, Zenon DEF AppleStore!querySubscriptionStatus
  <2>6. QED
    BY <2>1, <2>5
<1>4. ASSUME NEW original, NEW account, NEW status
      PROVE  Sound(AppleStore!subscriptionResult(request, original, account, status, instant))
  BY <1>2, <1>3, AppleChecks, Zenon DEF AppleStore!subscriptionResult
<1>5. QED
  BY <1>1, <1>2, <1>4, AppleChecks, Zenon DEF AppleStore!Verify

\* Apple's adapter accepts the account that was asked for only.
LEMMA AppleNames ==
    ASSUME NEW request, NEW server, NEW instant, AppleStore!Verify(request, server, instant).ok,
           NEW external, request.bindings = {<<"customer_binding", "app_account_token", external>>}
    PROVE  external = request.transaction.account
<1>1. PICK found : found = AppleStore!Verify(request, server, instant)
  OBVIOUS
<1>2. PICK a, b, c : c = AppleStore!Must(AppleStore!validateTransactionScope(request, request.kind, request.transaction,
                                                                           request.claimed), AppleStore!invalid)
                    /\ a = AppleStore!configuration(request.application)
                    /\ b = AppleStore!Must(request.transaction.signed, AppleStore!invalid)
  OBVIOUS
<1>3. \E r : found = AppleStore!Guarded(<<a, b, c>>, r)
  BY <1>1, <1>2, Zenon DEF AppleStore!Verify
<1>4. c = ""
  <2>1. Passed(<<a, b, c>>)
    BY <1>1, <1>3, AppleGuarded, Passes
  <2>2. 3 \in DOMAIN <<a, b, c>> /\ <<a, b, c>>[3] = c
    OBVIOUS
  <2>3. QED
    BY <2>1, <2>2 DEF Passed
<1>5. AppleStore!validateTransactionScope(request, request.kind, request.transaction, request.claimed)
  BY <1>2, <1>4 DEF AppleStore!Must, AppleStore!invalid
<1>6. <<"customer_binding", "app_account_token", request.transaction.account>> \in request.bindings
  BY <1>5 DEF AppleStore!validateTransactionScope
<1>7. QED
  BY <1>6

\* Google Play's adapter uses the shared checks.
LEMMA GoogleGuarded == \A c, r : GoogleStore!Guarded(c, r) = Guarded(c, r)
BY DEF Guarded, Failure, GoogleStore!Guarded, GoogleStore!Failure

\* The same for Google Play's lists of checks.
LEMMA GoogleChecks ==
    /\ \A a, r : Sound(r) => Sound(GoogleStore!Guarded(<<a>>, r))
    /\ \A a, b, r : Sound(r) => Sound(GoogleStore!Guarded(<<a, b>>, r))
    /\ \A a, b, c, r : Sound(r) => Sound(GoogleStore!Guarded(<<a, b, c>>, r))
    /\ \A a, b, c, d, r : Sound(r) => Sound(GoogleStore!Guarded(<<a, b, c, d>>, r))
    /\ \A c, r : GoogleStore!Guarded(c, r).ok => GoogleStore!Guarded(c, r) = r
BY ChecksSound, GoogleGuarded, GuardedPasses

\* What Google Play's references name.
LEMMA GoogleReferencesName ==
    \A o, token, order, linked, account : o.refs = GoogleStore!googleReferences(token, order, linked, account) => Names(o, account)
<1> SUFFICES ASSUME NEW o, NEW token, NEW order, NEW linked, NEW account,
                    o.refs = GoogleStore!googleReferences(token, order, linked, account),
                    NEW x \in o.refs, x[1] = "customer_binding"
             PROVE  x[3] = account
  BY DEF Names
<1>1. \E y : \/ x = <<"transaction", "order_id", y>> \/ x = <<"lineage", "purchase_token", y>>
            \/ x = <<"linked_lineage", "purchase_token", y>> \/ x = <<"query", "purchase_token", y>>
            \/ x = <<"customer_binding", "obfuscated_external_account_id", account>>
  BY Zenon DEF GoogleStore!googleReferences, GoogleStore!References
<1>2. QED
  BY <1>1

\* A one-time product of Google Play that is seen names its account.
LEMMA GoogleProductSeen ==
    ASSUME NEW application, NEW token, NEW purchase, NEW at, GoogleStore!productObservations(application, token, purchase, at).ok
    PROVE  \E o : /\ Begins(GoogleStore!productObservations(application, token, purchase, at).observations, o)
                 /\ Names(o, purchase.account)
<1>1. PICK seen : seen = GoogleStore!productObservations(application, token, purchase, at)
  OBVIOUS
<1>2. GoogleStore!Failure("invalid_evidence").ok = FALSE
  BY DEF GoogleStore!Failure
<1>3. PICK item, access, period, identity, snapshot, o, checks, empty :
         /\ o = GoogleStore!Observation(application, identity, snapshot, at,
                                       GoogleStore!googleReferences(token, purchase.order, empty, purchase.account))
         /\ seen = GoogleStore!Guarded(checks, [ok |-> TRUE, observations |-> <<o>>])
  BY <1>1, <1>2, Zenon DEF GoogleStore!productObservations, GoogleStore!invalid
<1>4. seen = [ok |-> TRUE, observations |-> <<o>>]
  BY <1>1, <1>3, GoogleGuarded, Passes
<1>5. o.refs = GoogleStore!googleReferences(token, purchase.order, empty, purchase.account)
  BY <1>3 DEF GoogleStore!Observation
<1>6. QED
  BY <1>1, <1>4, <1>5, GoogleReferencesName DEF Begins

\* A purchase of Google Play that is seen names the one it replaces.
LEMMA GoogleSeen ==
    ASSUME NEW application, NEW token, NEW purchase, NEW instant, NEW at
    PROVE  /\ Sound(GoogleStore!productObservations(application, token, purchase, at))
           /\ LET seen == GoogleStore!subscriptionObservations(application, token, purchase, instant, at)
              IN  /\ Sound(seen)
                  /\ seen.ok => \E order, o :
                       /\ Begins(seen.observations, o)
                       /\ o.refs = GoogleStore!googleReferences(token, order, purchase.linked, purchase.account)
<1>1. Sound(GoogleStore!Failure("invalid_evidence")) /\ GoogleStore!Failure("invalid_evidence").ok = FALSE
  BY DEF Sound, GoogleStore!Failure
<1>2. Sound(GoogleStore!productObservations(application, token, purchase, at))
  <2>1. \A a, b, c, o : Sound(GoogleStore!Guarded(<<a, b, c>>, [ok |-> TRUE, observations |-> o]))
    BY GoogleChecks DEF Sound
  <2>2. QED
    BY <1>1, <2>1, Zenon DEF GoogleStore!productObservations, GoogleStore!invalid
<1> DEFINE seen == GoogleStore!subscriptionObservations(application, token, purchase, instant, at)
<1>3. Sound(seen)
  <2>1. \A a, b, c, d, o : Sound(GoogleStore!Guarded(<<a, b, c, d>>, [ok |-> TRUE, observations |-> o]))
    BY GoogleChecks DEF Sound
  <2>2. QED
    BY <1>1, <2>1, Zenon DEF GoogleStore!subscriptionObservations, GoogleStore!invalid
<1>4. ASSUME seen.ok
      PROVE  \E order, o :
                 /\ Begins(seen.observations, o)
                 /\ o.refs = GoogleStore!googleReferences(token, order, purchase.linked, purchase.account)
  <2> DEFINE items == GoogleStore!selectSubscriptionItems(purchase.items, instant)[1]
             observed == GoogleStore!itemObservations(application, token, purchase, items, at)
  <2>1. \E checks : seen = GoogleStore!Guarded(checks, [ok |-> TRUE, observations |-> observed])
    BY <1>1, <1>4, Zenon DEF GoogleStore!subscriptionObservations, GoogleStore!invalid
  <2>2. seen.observations = observed
    BY <2>1, <1>4, GoogleChecks
  <2>3. \E renewal : Begins(observed, GoogleStore!currentObservation(application, token, purchase, items.current, renewal, at))
    <3> HIDE DEF items
    <3>1. \E renewal, e : \/ observed = <<GoogleStore!currentObservation(application, token, purchase, items.current, renewal, at)>> \o << >>
                          \/ observed = <<GoogleStore!currentObservation(application, token, purchase, items.current, renewal, at)>> \o <<e>>
      <4>1. CASE items.replaced = << >>
        BY <4>1, Zenon DEF GoogleStore!itemObservations
      <4>2. CASE items.replaced # << >>
        BY <4>2, Zenon DEF GoogleStore!itemObservations
      <4>3. QED
        BY <4>1, <4>2
    <3> HIDE DEF observed
    <3>2. QED
      BY <3>1, Zenon DEF Begins
  <2>4. \A i, renewal : \E order :
           GoogleStore!currentObservation(application, token, purchase, i, renewal, at).refs
             = GoogleStore!googleReferences(token, order, purchase.linked, purchase.account)
    BY DEF GoogleStore!currentObservation, GoogleStore!Observation
  <2> HIDE DEF observed, items
  <2>5. QED
    BY <2>2, <2>3, <2>4
<1>5. QED
  BY <1>2, <1>3, <1>4

\* What Google is still waiting for is an action of the result.
Settled(purchase) == purchase.state \notin GoogleStore!AcknowledgeableStates \/ purchase.acknowledgement = "acknowledged"

\* A query of Google Play is sound.
LEMMA GoogleQuery ==
    ASSUME NEW application, NEW token, NEW kind, NEW server, NEW instant
    PROVE  LET q == GoogleStore!query(application, token, kind, server, instant)
           IN  /\ Sound(q)
               /\ q.ok /\ q.actions = {} => Settled(server.purchase)
               /\ q.ok => AtMostOne(q.replaced) /\ \E o : Begins(q.observations, o) /\ Names(o, server.purchase.account)
               /\ q.ok /\ kind = "subscription" => \E order, account :
                    q.observations[1].refs = GoogleStore!googleReferences(token, order, server.purchase.linked, account)
<1> DEFINE q == GoogleStore!query(application, token, kind, server, instant)
           p == server.purchase
           at == GoogleStore!Sighting(instant)
           one == GoogleStore!productObservations(application, token, p, at)
           many == GoogleStore!subscriptionObservations(application, token, p, instant, at)
           seen == IF kind = "subscription" THEN many ELSE one
<1>1. \E checks, replaced : AtMostOne(replaced) /\ q = GoogleStore!Guarded(checks, GoogleStore!queryResult(p, kind, seen, replaced))
  <2>0. AtMostOne(GoogleStore!itemReplacementObservation(application, token, p, at)) /\ AtMostOne(<< >>)
    BY Zenon DEF GoogleStore!itemReplacementObservation, AtMostOne
  <2>1. CASE kind = "subscription"
    BY <2>0, <2>1, Zenon DEF GoogleStore!query
  <2>2. CASE kind # "subscription"
    BY <2>0, <2>2, Zenon DEF GoogleStore!query
  <2>3. QED
    BY <2>1, <2>2
<1>2. Sound(seen)
  BY GoogleSeen
<1> HIDE DEF one, many
<1>3. \A replaced : LET r == GoogleStore!queryResult(p, kind, seen, replaced)
                    IN  /\ Sound(r)
                        /\ r.ok => /\ seen.ok /\ r.observations = seen.observations /\ r.replaced = replaced
                                   /\ r.actions = GoogleStore!acknowledgementActions(seen.observations[1], p)
  <2> SUFFICES ASSUME NEW replaced
               PROVE  LET r == GoogleStore!queryResult(p, kind, seen, replaced)
                      IN  /\ Sound(r)
                          /\ r.ok => /\ seen.ok /\ r.observations = seen.observations /\ r.replaced = replaced
                                     /\ r.actions = GoogleStore!acknowledgementActions(seen.observations[1], p)
    OBVIOUS
  <2> DEFINE r == GoogleStore!queryResult(p, kind, seen, replaced)
             whole(products) == [ok |-> TRUE, observations |-> seen.observations, replaced |-> replaced,
                                 actions |-> GoogleStore!acknowledgementActions(seen.observations[1], p), products |-> products]
  <2> HIDE DEF seen
  <2>1. CASE ~ seen.ok
    BY <1>2, <2>1, Zenon DEF GoogleStore!queryResult
  <2>2. CASE seen.ok
    <3>1. \E a, b, products : r = GoogleStore!Guarded(<<a, b>>, whole(products))
      BY <2>2, Zenon DEF GoogleStore!queryResult
    <3>2. \A products : /\ Sound(whole(products)) /\ whole(products).observations = seen.observations
                        /\ whole(products).replaced = replaced
                        /\ whole(products).actions = GoogleStore!acknowledgementActions(seen.observations[1], p)
      BY DEF Sound
    <3> HIDE DEF whole, r
    <3>3. PICK a, b, products : r = GoogleStore!Guarded(<<a, b>>, whole(products))
      BY <3>1
    <3>4. Sound(r)
      BY <3>2, <3>3, GoogleChecks
    <3>5. r.ok => r = whole(products)
      BY <3>3, GoogleChecks
    <3>6. QED
      BY <2>2, <3>2, <3>4, <3>5 DEF r
  <2>3. QED
    BY <2>1, <2>2
<1> HIDE DEF q, seen
<1>4. PICK checks, replaced : AtMostOne(replaced) /\ q = GoogleStore!Guarded(checks, GoogleStore!queryResult(p, kind, seen, replaced))
  BY <1>1
<1>5. Sound(q)
  <2>1. CASE kind = "subscription"
    BY <2>1, <1>3, GoogleChecks, Zenon DEF GoogleStore!query, q, seen, many, at, p
  <2>2. CASE kind # "subscription"
    BY <2>2, <1>3, GoogleChecks, Zenon DEF GoogleStore!query, q, seen, one, at, p
  <2>3. QED
    BY <2>1, <2>2
<1>6. ASSUME q.ok
      PROVE  /\ seen.ok /\ q.observations = seen.observations /\ q.replaced = replaced
             /\ q.actions = GoogleStore!acknowledgementActions(seen.observations[1], p)
  BY <1>3, <1>4, <1>6, GoogleChecks
<1>7. ASSUME NEW o, GoogleStore!acknowledgementActions(o, p) = {} PROVE Settled(p)
  BY <1>7 DEF GoogleStore!acknowledgementActions, Settled
<1>8. ASSUME kind = "subscription", seen.ok
      PROVE  \E order, o : /\ Begins(seen.observations, o)
                          /\ o.refs = GoogleStore!googleReferences(token, order, p.linked, p.account)
  BY <1>8, GoogleSeen DEF seen, many
<1>9. ASSUME kind = "subscription", seen.ok
      PROVE  \E order, account : seen.observations[1].refs = GoogleStore!googleReferences(token, order, p.linked, account)
  <2>1. PICK order, o : /\ Begins(seen.observations, o)
                        /\ o.refs = GoogleStore!googleReferences(token, order, p.linked, p.account)
    BY <1>8, <1>9
  <2>2. seen.observations[1] = o
    BY <2>1, BeginsRange DEF AtMostOne
  <2>3. QED
    BY <2>1, <2>2
<1>10. ASSUME seen.ok PROVE \E o : Begins(seen.observations, o) /\ Names(o, p.account)
  <2>1. CASE kind = "subscription"
    BY <1>8, <1>10, <2>1, GoogleReferencesName
  <2>2. CASE kind # "subscription"
    BY <1>10, <2>2, GoogleProductSeen DEF seen, one
  <2>3. QED
    BY <2>1, <2>2
<1>11. QED
  BY <1>4, <1>5, <1>6, <1>7, <1>9, <1>10 DEF q

\* A result of Google Play that leaves nothing to acknowledge is about a purchase that
\* needs no acknowledgement.
LEMMA GoogleSound ==
    ASSUME NEW request, NEW server, NEW instant,
           NEW found \in {GoogleStore!Verify(request, server, instant), GoogleStore!Reconcile(request, server, instant)}
    PROVE  /\ Sound(found) /\ (found.ok /\ found.actions = {} => Settled(server.purchase))
           /\ found.ok => \E o \in Range(found.observations) : Names(o, server.purchase.account)
<1> DEFINE q == GoogleStore!query(request.application, request.token, request.kind, server, instant)
           r == GoogleStore!verificationResult(q, request.claimed)
<1>1. Sound(q) /\ (q.ok /\ q.actions = {} => Settled(server.purchase))
  BY GoogleQuery
<1>2. r.ok = TRUE /\ r.actions = q.actions /\ r.observations \in {q.observations, q.observations \o q.replaced}
  BY DEF GoogleStore!verificationResult, GoogleStore!requestedObservations
<1>3. \E c, d : \/ ~ q.ok /\ \/ \E a, b : found = GoogleStore!Guarded(<<a, b>>, q)
                             \/ \E a, b, e : found = GoogleStore!Guarded(<<a, b, e>>, q)
                \/ q.ok /\ \/ \E a, b : found = GoogleStore!Guarded(<<a, b>>, GoogleStore!Guarded(<<c>>, r))
                           \/ \E a, b, e : found = GoogleStore!Guarded(<<a, b, e>>, GoogleStore!Guarded(<<c>>, r))
  <2>1. CASE found = GoogleStore!Verify(request, server, instant)
    <3>1. CASE q.ok
      BY <2>1, <3>1, Zenon DEF GoogleStore!Verify
    <3>2. CASE ~ q.ok
      BY <2>1, <3>2, Zenon DEF GoogleStore!Verify
    <3>3. QED
      BY <3>1, <3>2
  <2>2. CASE found = GoogleStore!Reconcile(request, server, instant)
    <3>1. CASE q.ok
      BY <2>2, <3>1, Zenon DEF GoogleStore!Reconcile
    <3>2. CASE ~ q.ok
      BY <2>2, <3>2, Zenon DEF GoogleStore!Reconcile
    <3>3. QED
      BY <3>1, <3>2
  <2>3. QED
    BY <2>1, <2>2
<1> HIDE DEF q, r
<1>4. Sound(r)
  BY <1>2 DEF Sound
<1>5. Sound(found)
  BY <1>1, <1>3, <1>4, GoogleChecks
<1>6. ASSUME found.ok PROVE q.ok /\ found = r
  BY <1>1, <1>3, <1>6, GoogleChecks
<1>7. ASSUME found.ok PROVE \E o \in Range(found.observations) : Names(o, server.purchase.account)
  <2>1. AtMostOne(q.replaced) /\ \E o : Begins(q.observations, o) /\ Names(o, server.purchase.account)
    BY <1>6, <1>7, GoogleQuery DEF q
  <2>2. PICK o : Begins(q.observations, o) /\ Names(o, server.purchase.account)
    BY <2>1
  <2>3. o \in Range(q.observations) /\ o \in Range(q.observations \o q.replaced)
    BY <2>1, <2>2, BeginsRange
  <2>4. QED
    BY <1>2, <1>6, <1>7, <2>2, <2>3
<1>8. QED
  BY <1>1, <1>2, <1>5, <1>6, <1>7

\* What Google Play says a purchase replaces is the purchase it replaces.
LEMMA GoogleLinked ==
    ASSUME NEW request, NEW server, NEW instant
    PROVE  LET linked == GoogleStore!LinkedPurchase(request, server, instant)
           IN  Sound(linked) /\ (linked.ok => linked.linked \subseteq {server.purchase.linked})
<1> DEFINE q == GoogleStore!query(request.application, request.token, "subscription", server, instant)
           o == q.observations[1]
           r == [ok |-> TRUE, product |-> o.snapshot.product,
                 linked |-> {x[3] : x \in GoogleStore!ReferencesFor(o, "linked_lineage")},
                 bindings |-> GoogleStore!ReferencesFor(o, "customer_binding")]
           linked == GoogleStore!LinkedPurchase(request, server, instant)
<1>1. /\ Sound(q)
      /\ q.ok => \E order, account : o.refs = GoogleStore!googleReferences(request.token, order, server.purchase.linked, account)
  BY GoogleQuery
<1>2. \E a, b, c : linked = GoogleStore!Guarded(<<a, b, c>>, IF ~ q.ok THEN q ELSE r)
  <2>1. CASE q.ok
    BY <2>1, Zenon DEF GoogleStore!LinkedPurchase
  <2>2. CASE ~ q.ok
    BY <2>2, Zenon DEF GoogleStore!LinkedPurchase
  <2>3. QED
    BY <2>1, <2>2
<1> HIDE DEF q, linked
<1>3. Sound(IF ~ q.ok THEN q ELSE r)
  BY <1>1 DEF Sound
<1>4. ASSUME q.ok PROVE r.linked \subseteq {server.purchase.linked}
  <2>1. PICK order, account : o.refs = GoogleStore!googleReferences(request.token, order, server.purchase.linked, account)
    BY <1>1, <1>4
  <2>2. \A x \in GoogleStore!ReferencesFor(o, "linked_lineage") : x[3] = server.purchase.linked
    <3> SUFFICES ASSUME NEW x, x \in o.refs, x[1] = "linked_lineage" PROVE x[3] = server.purchase.linked
      BY Zenon DEF GoogleStore!ReferencesFor
    <3>1. \E y : \/ x = <<"transaction", "order_id", y>> \/ x = <<"lineage", "purchase_token", y>>
                \/ x = <<"linked_lineage", "purchase_token", server.purchase.linked>> \/ x = <<"query", "purchase_token", y>>
                \/ x = <<"customer_binding", "obfuscated_external_account_id", y>>
      BY <2>1, Zenon DEF GoogleStore!googleReferences, GoogleStore!References
    <3>2. QED
      BY <3>1
  <2>3. QED
    BY <2>2
<1> HIDE DEF r
<1>5. linked.ok => q.ok /\ linked = r
  BY <1>2, GoogleChecks
<1>6. QED
  BY <1>2, <1>3, <1>4, <1>5, GoogleChecks DEF linked

\* The fields of the records that change field by field.
RowFields == {"id", "product", "kind", "owner", "submitted", "phase"}
MessageFields == {"status", "envelope", "failure"}
AttemptFields == {"pc", "key", "verify", "token", "kind", "external", "claimed", "subscription", "customer",
                  "found", "acknowledge", "phase"}

--------------------------------------------------------------------------------
(* Facts that no later step takes back: rows stay, with their customer and   *)
(* at least their sighting, customers only come together, the store forgets  *)
(* no acknowledgement.                                                       *)

\* Purchase t is stored for the customer of external id x.
Owned(t, x) == x \in Customers /\ \E r \in rows[t] : canonical[r.owner] = canonical[x]

\* An answer at least as new as phase n is stored.
Seen(t, n) == \E r \in rows[t] : r.phase >= n

Acked(t) == provider = "google" /\ Purchase(t).acknowledgeable => t \in acknowledged

\* The two purchases are stored for one customer.
SameOwner(t, u) == \E r \in rows[t], s \in rows[u] : canonical[r.owner] = canonical[s.owner]

Submitted(t) == \E r \in rows[t] : r.submitted

ItemDone(item) == Owned(item.token, item.external) /\ Acked(item.token)

--------------------------------------------------------------------------------
(* The inductive invariant.                                                  *)

TypeOK ==
    /\ world \in DOMAIN Provider
    /\ DOMAIN phase = Tokens /\ \A t \in Tokens : phase[t] \in DOMAIN Purchase(t).answers
    /\ canonical \in [Customers -> Customers]
    /\ DOMAIN rows = Tokens
    /\ DOMAIN evidence = Tokens \cup Messages
    /\ \A k \in Tokens \cup Messages : evidence[k] = None \/ evidence[k][1] \in Customers
    /\ DOMAIN inbox = Messages /\ \A m \in Messages : DOMAIN inbox[m] = MessageFields
    /\ DOMAIN job = Actors
    /\ DOMAIN client = {"request", "next", "answer"}

\* The rows of a purchase were seen by now and belong to the customer of the account the
\* store names.  Persist does not compare them: every answer was bound to that account.
RowsFit ==
    \A t \in Tokens :
        /\ \A r \in rows[t] : DOMAIN r = RowFields /\ r.owner \in Customers /\ r.phase \in 0 .. phase[t]
        /\ \A r \in rows[t] : Purchase(t).account \in Customers /\ canonical[r.owner] = canonical[Purchase(t).account]

\* A message that is kept says what the store has sent, about a state it has reached; one
\* that is done has been applied.
MessageFits(m) ==
    inbox[m].status # "none" =>
        /\ inbox[m].status \in {"open", "done", "failed"}
        /\ inbox[m].envelope \in Envelopes(world, m)
        /\ Token(m) \in Tokens => /\ Pushes[world][m].phase <= phase[Token(m)]
                                  /\ inbox[m].status = "done" => Seen(Token(m), Pushes[world][m].phase) /\ Acked(Token(m))

\* Who works on what: the worker on the purchase of its open message, the client on the
\* item it is at.
WorksOn(a) ==
    /\ job[a].token \in Tokens
    /\ a \in Messages => inbox[a].status = "open" /\ job[a].token = Token(a)
    /\ a = "client" => /\ client.answer = 0
                       /\ job[a].token = client.request.items[client.next].token
                       /\ job[a].external = client.request.items[client.next].external

\* An attempt that has not bound its purchase: what the store said it replaces is what it does replace.
UnboundFits(a) ==
    /\ a \in Messages /\ provider = "google" /\ WorksOn(a) /\ Purchase(job[a].token).kind = "subscription"
    /\ job[a].pc = "linked" => job[a].linked.linked \subseteq {Purchase(job[a].token).linked}

\* An attempt to reconcile is about a stored purchase, or about one that replaces a
\* stored purchase of the same customer.
Bound(a) ==
    LET t == job[a].token
    IN  \/ job[a].verify
        \/ rows[t] # {}
        \/ provider = "google" /\ (Purchase(t).linked # "" => Owned(Purchase(t).linked, job[a].external))

\* What an answered attempt knows, and what a stored one has done.
AnswerFits(a) ==
    LET t == job[a].token
    IN  /\ job[a].external \in Customers /\ Range(job[a].found) # {}
        /\ job[a].external = Purchase(t).account
        /\ job[a].phase \in 0 .. phase[t] /\ (a \in Messages => Pushes[world][a].phase <= job[a].phase)
        /\ job[a].acknowledge \/ Acked(t)
StoredFits(a) ==
    LET t == job[a].token
    IN  /\ Owned(t, job[a].external) /\ (a \in Messages => Seen(t, Pushes[world][a].phase))
        /\ job[a].pc = "posted" => Acked(t)

AttemptFits(a) ==
    /\ DOMAIN job[a] = AttemptFields /\ WorksOn(a)
    /\ job[a].kind = Purchase(job[a].token).kind
    /\ job[a].key = (IF a \in Messages THEN a ELSE job[a].token)
    /\ provider = "huawei" /\ a \in Messages => rows[job[a].token] # {}
    /\ (provider = "apple" => job[a].verify) /\ Bound(a)
    /\ job[a].pc # "ask" => AnswerFits(a)
    /\ job[a].pc \in {"stored", "posted"} => StoredFits(a)

JobFits(a) ==
    \/ job[a].pc = "idle"
    \/ job[a].pc \in {"unbound", "linked"} /\ UnboundFits(a)
    \/ job[a].pc \in {"ask", "answered", "stored", "posted"} /\ AttemptFits(a)

\* The items before the current one are done, and all of them when the answer says so.
ClientFits ==
    /\ client.answer = 0 \/ client.request # << >> => client.request \in Requests[world]
    /\ client.answer = 0 =>
         /\ client.next \in DOMAIN client.request.items
         /\ \A i \in 1 .. client.next - 1 : ItemDone(client.request.items[i])
    /\ client.answer = 200 /\ client.request # << >> =>
         \A i \in DOMAIN client.request.items : ItemDone(client.request.items[i])

\* Who has stored a subscription schedules it or reports it; Huawei's worker does not, so
\* it is no excuse there.
Excused(t) ==
    \/ t \in missed
    \/ job["client"].pc \in {"stored", "posted"} /\ job["client"].token = t
    \/ /\ provider # "huawei"
       /\ \E m \in Messages : Kept(m) /\ Token(m) = t /\ inbox[m].status \in {"open", "failed"}
Watched ==
    \A t \in Tokens : rows[t] # {} /\ Purchase(t).kind = "subscription" /\ t \notin scheduled => Excused(t)

ReplacementsFit ==
    \A t \in Tokens : rows[t] # {} /\ Purchase(t).linked # "" => Submitted(t) \/ SameOwner(t, Purchase(t).linked)

IInv ==
    /\ TypeOK /\ RowsFit /\ (\A m \in Messages : MessageFits(m)) /\ (\A a \in Actors : JobFits(a)) /\ ClientFits
    /\ Watched /\ ReplacementsFit

--------------------------------------------------------------------------------
(* What never shrinks.                                                       *)

Grows ==
    /\ world' = world
    /\ \A t \in Tokens : phase[t] <= phase'[t]
    /\ \A t \in Tokens : \A r \in rows[t] : \E s \in rows'[t] :
          s.owner = r.owner /\ r.phase <= s.phase /\ (r.submitted => s.submitted)
    /\ \A x, y \in Customers : canonical[x] = canonical[y] => canonical'[x] = canonical'[y]
    /\ acknowledged \subseteq acknowledged'

\* The constants say the same of the world in every state.
LEMMA SameWorld ==
    ASSUME world' = world
    PROVE  /\ provider' = provider /\ Tokens' = Tokens /\ Messages' = Messages /\ Actors' = Actors
           /\ \A t : Purchase(t)' = Purchase(t)
           /\ \A m : Envelopes(world, m)' = Envelopes(world, m)
<1>1. provider' = provider /\ Tokens' = Tokens /\ Messages' = Messages
  BY DEF provider, Tokens, Messages
<1>2. Actors' = Actors
  BY <1>1 DEF Actors
<1>3. \A t : Purchase(t)' = Purchase(t)
  BY DEF Purchase
<1>4. \A m : Envelopes(world, m)' = Envelopes(world, m)
  BY DEF Envelopes
<1>5. QED
  BY <1>1, <1>2, <1>3, <1>4

\* The phases are numbers.
LEMMA PhaseIsNat ==
    ASSUME TypeOK, RowsFit, NEW t \in Tokens
    PROVE  /\ phase[t] \in Nat /\ DOMAIN Purchase(t).answers \subseteq Nat
           /\ \A r \in rows[t] : r.phase \in Nat
<1>1. Purchase(t).answers \in Seq(Range(Purchase(t).answers))
  BY NotificationsAssumption DEF TypeOK, Tokens, Purchase
<1>2. DOMAIN Purchase(t).answers \subseteq Nat /\ phase[t] \in Nat
  BY <1>1 DEF TypeOK
<1>3. QED
  BY <1>2 DEF RowsFit

\* The phases stay numbers.
LEMMA PhaseStaysNat ==
    ASSUME TypeOK, RowsFit, TypeOK', RowsFit', world' = world, NEW t \in Tokens
    PROVE  phase'[t] \in Nat /\ \A r \in rows'[t] : r.phase \in Nat
<1>1. DOMAIN Purchase(t).answers \subseteq Nat
  BY PhaseIsNat
<1>2. phase'[t] \in DOMAIN Purchase(t)'.answers
  BY SameWorld DEF TypeOK
<1>3. phase'[t] \in Nat
  BY <1>1, <1>2, SameWorld
<1>4. \A r \in rows'[t] : r.phase \in 0 .. phase'[t]
  BY SameWorld DEF RowsFit
<1>5. QED
  BY <1>3, <1>4

\* A fact about a stored purchase stays true while things only grow.
LEMMA GrowthKeeps ==
    ASSUME TypeOK, RowsFit, TypeOK', RowsFit', Grows, NEW t \in Tokens
    PROVE  /\ \A x : Owned(t, x) => Owned(t, x)'
           /\ \A n \in Nat : Seen(t, n) => Seen(t, n)'
           /\ Acked(t) => Acked(t)'
           /\ \A u \in Tokens : SameOwner(t, u) => SameOwner(t, u)'
           /\ Submitted(t) => Submitted(t)'
           /\ rows[t] # {} => rows'[t] # {}
<1> USE SameWorld
<1>0. world' = world
  BY DEF Grows
<1>1. ASSUME NEW x, Owned(t, x) PROVE Owned(t, x)'
  BY <1>1 DEF Owned, Grows, RowsFit
<1>2. ASSUME NEW n \in Nat, Seen(t, n) PROVE Seen(t, n)'
  <2>1. PICK r \in rows[t] : r.phase >= n
    BY <1>2 DEF Seen
  <2>2. PICK s \in rows'[t] : r.phase <= s.phase
    BY <2>1 DEF Grows
  <2>3. r.phase \in Nat /\ s.phase \in Nat
    BY <1>0, PhaseIsNat, PhaseStaysNat
  <2>4. QED
    BY <2>1, <2>2, <2>3 DEF Seen
<1>3. Acked(t) => Acked(t)'
  BY <1>0 DEF Acked, Grows
<1>4. ASSUME NEW u \in Tokens, SameOwner(t, u) PROVE SameOwner(t, u)'
  BY <1>4 DEF SameOwner, Grows, RowsFit
<1>5. Submitted(t) => Submitted(t)'
  BY DEF Submitted, Grows
<1>6. rows[t] # {} => rows'[t] # {}
  BY DEF Grows
<1>7. QED
  BY <1>1, <1>2, <1>3, <1>4, <1>5, <1>6

--------------------------------------------------------------------------------
(* Who does not move keeps what it knows.                                    *)

\* Idle's only field.
LEMMA IdleIsIdle == Idle.pc = "idle"
BY Zenon DEF Idle

\* The client is no message.
LEMMA ClientIsActor ==
    ASSUME TypeOK
    PROVE  "client" \in Actors /\ "client" \notin Messages /\ \A m \in Messages : m \in Actors /\ m # "client"
<1>1. "client" \notin Messages
  BY NotificationsAssumption DEF TypeOK, Messages
<1>2. QED
  BY <1>1 DEF Actors

\* What the messages announce are states their purchases can be in.
LEMMA AnnouncedPhase ==
    ASSUME TypeOK, RowsFit, NEW m \in Messages, MessageFits(m), inbox[m].status # "none", Token(m) \in Tokens
    PROVE  Pushes[world][m].phase \in Nat /\ Token(m) # ""
<1>1. StoreSays(world, m, inbox[m].envelope)
  BY NotificationsAssumption DEF TypeOK, MessageFits, Messages
<1>2. Pushes[world][m].phase \in DOMAIN Purchase(Token(m)).answers
  BY <1>1 DEF StoreSays, Token, Tokens, Purchase
<1>3. "" \notin Tokens
  BY NotificationsAssumption DEF TypeOK, Tokens
<1>4. QED
  BY <1>2, <1>3, PhaseIsNat

\* A message the step leaves alone still fits.
LEMMA MessageKept ==
    ASSUME TypeOK, RowsFit, TypeOK', RowsFit', Grows, NEW m \in Messages, MessageFits(m), inbox'[m] = inbox[m]
    PROVE  MessageFits(m)'
<1>1. world' = world /\ Token(m)' = Token(m)
  BY DEF Grows, Token
<1> SUFFICES ASSUME inbox[m].status # "none" PROVE MessageFits(m)'
  BY DEF MessageFits
<1>2. inbox'[m].status \in {"open", "done", "failed"} /\ inbox'[m].envelope \in Envelopes(world, m)'
  BY <1>1, SameWorld DEF MessageFits
<1>3. ASSUME Token(m) \in Tokens
      PROVE  /\ Pushes[world][m].phase <= phase'[Token(m)]
             /\ inbox[m].status = "done" => Seen(Token(m), Pushes[world][m].phase)' /\ Acked(Token(m))'
  <2>1. Pushes[world][m].phase \in Nat
    BY <1>3, AnnouncedPhase
  <2>2. phase[Token(m)] \in Nat /\ phase'[Token(m)] \in Nat
    BY <1>1, <1>3, PhaseIsNat, PhaseStaysNat
  <2>3. Pushes[world][m].phase <= phase[Token(m)] /\ phase[Token(m)] <= phase'[Token(m)]
    BY <1>3 DEF MessageFits, Grows
  <2>4. ASSUME inbox[m].status = "done"
        PROVE  Seen(Token(m), Pushes[world][m].phase)' /\ Acked(Token(m))'
    <3>1. PICK t, n : t = Token(m) /\ n = Pushes[world][m].phase
      OBVIOUS
    <3>2. Seen(t, n) /\ Acked(t)
      BY <1>3, <2>4, <3>1 DEF MessageFits
    <3>3. Seen(t, n)' /\ Acked(t)'
      BY <1>3, <2>1, <3>1, <3>2, GrowthKeeps
    <3>4. QED
      BY <1>1, <3>1, <3>3 DEF Seen, Acked, Purchase
  <2>5. QED
    BY <2>1, <2>2, <2>3, <2>4
<1>4. QED
  BY <1>1, <1>2, <1>3, SameWorld DEF MessageFits

\* What a purchase replaces is a purchase of the same store.
LEMMA LinkedIsKnown ==
    ASSUME TypeOK, NEW t \in Tokens, Purchase(t).linked # ""
    PROVE  provider = "google" /\ Purchase(t).linked \in Tokens
BY NotificationsAssumption DEF TypeOK, Tokens, Purchase, provider

\* An attempt the step leaves alone still fits.
LEMMA JobKept ==
    ASSUME TypeOK, RowsFit, TypeOK', RowsFit', Grows, NEW a \in Actors, JobFits(a), job'[a] = job[a],
           a \in Messages => MessageFits(a),
           job[a].pc # "idle" /\ a \in Messages => inbox'[a] = inbox[a],
           job[a].pc # "idle" /\ a = "client" => client' = client
    PROVE  JobFits(a)'
<1>1. world' = world
  BY DEF Grows
<1> USE <1>1, SameWorld
<1>2. CASE job[a].pc = "idle"
  BY <1>2 DEF JobFits
<1>3. ASSUME job[a].pc # "idle", WorksOn(a) PROVE WorksOn(a)'
  BY <1>3 DEF WorksOn, Token
<1>4. CASE job[a].pc \in {"unbound", "linked"} /\ UnboundFits(a)
  <2>1. WorksOn(a)'
    BY <1>3, <1>4 DEF UnboundFits
  <2>2. UnboundFits(a)'
    BY <1>4, <2>1 DEF UnboundFits
  <2>3. QED
    BY <1>4, <2>2 DEF JobFits
<1>5. CASE job[a].pc \in {"ask", "answered", "stored", "posted"} /\ AttemptFits(a)
  <2>1. WorksOn(a) /\ WorksOn(a)'
    BY <1>3, <1>5 DEF AttemptFits
  <2>2. PICK t, x : t = job[a].token /\ x = job[a].external
    OBVIOUS
  <2>3. t \in Tokens
    BY <2>1, <2>2 DEF WorksOn
  <2>4. rows[t] # {} => rows'[t] # {}
    BY <2>3, GrowthKeeps
  <2>5. Bound(a)'
    <3>1. CASE job[a].verify \/ rows[t] # {}
      BY <2>2, <2>4, <3>1 DEF Bound
    <3>2. CASE provider = "google" /\ Purchase(t).linked = ""
      BY <2>2, <3>2 DEF Bound
    <3>3. CASE provider = "google" /\ Purchase(t).linked # "" /\ Owned(Purchase(t).linked, x)
      <4>1. PICK u \in Tokens : u = Purchase(t).linked
        BY <2>3, <3>3, LinkedIsKnown
      <4>2. Owned(u, x)'
        BY <3>3, <4>1, GrowthKeeps
      <4>3. QED
        BY <2>2, <3>3, <4>1, <4>2 DEF Bound, Owned
    <3>4. QED
      BY <1>5, <2>2, <3>1, <3>2, <3>3 DEF AttemptFits, Bound
  <2>6. ASSUME job[a].pc # "ask" PROVE AnswerFits(a)'
    <3>1. AnswerFits(a)
      BY <1>5, <2>6 DEF AttemptFits
    <3>2. phase[t] \in Nat /\ phase'[t] \in Nat /\ phase[t] <= phase'[t]
      BY <2>3, PhaseIsNat, PhaseStaysNat DEF Grows
    <3>3. Acked(t) => Acked(t)'
      BY <2>3, GrowthKeeps
    <3>4. job[a].phase \in 0 .. phase'[t]
      BY <2>2, <3>1, <3>2 DEF AnswerFits
    <3>5. QED
      BY <2>2, <3>1, <3>3, <3>4 DEF AnswerFits, Acked
  <2>7. ASSUME job[a].pc \in {"stored", "posted"} PROVE StoredFits(a)'
    <3>1. StoredFits(a)
      BY <1>5, <2>7 DEF AttemptFits
    <3>2. Owned(t, x)'
      BY <2>2, <2>3, <3>1, GrowthKeeps DEF StoredFits
    <3>3. ASSUME a \in Messages PROVE Seen(t, Pushes[world][a].phase)'
      <4>1. PICK n \in Nat : n = Pushes[world][a].phase
        BY <2>1, <2>3, <3>3, AnnouncedPhase DEF WorksOn
      <4>2. Seen(t, n)'
        BY <2>2, <2>3, <3>1, <3>3, <4>1, GrowthKeeps DEF StoredFits
      <4>3. QED
        BY <4>1, <4>2 DEF Seen
    <3>4. job[a].pc = "posted" => Acked(t)'
      BY <2>2, <2>3, <3>1, GrowthKeeps DEF StoredFits
    <3>5. QED
      BY <2>2, <3>2, <3>3, <3>4 DEF StoredFits, Owned, Seen, Acked
  <2>8. AttemptFits(a)'
    BY <1>5, <2>1, <2>2, <2>4, <2>5, <2>6, <2>7 DEF AttemptFits
  <2>9. QED
    BY <1>5, <2>8 DEF JobFits
<1>6. QED
  BY <1>2, <1>4, <1>5 DEF JobFits

\* The items of a request are purchases of the store.
LEMMA ItemsAreKnown ==
    ASSUME TypeOK, NEW r \in Requests[world]
    PROVE  /\ \E l \in Nat : l = Len(r.items) /\ DOMAIN r.items = 1 .. l
           /\ \A i \in DOMAIN r.items : r.items[i].token \in Tokens
<1>1. /\ r.items \in Seq(Range(r.items))
      /\ \A i \in DOMAIN r.items : r.items[i].token \in Tokens
  BY NotificationsAssumption DEF TypeOK, Tokens
<1>2. DOMAIN r.items = 1 .. Len(r.items) /\ Len(r.items) \in Nat
  BY <1>1
<1>3. QED
  BY <1>1, <1>2

\* An item that is done stays done.
LEMMA ItemKept ==
    ASSUME TypeOK, RowsFit, TypeOK', RowsFit', Grows, NEW item, item.token \in Tokens, ItemDone(item)
    PROVE  ItemDone(item)'
<1>1. PICK t, x : t = item.token /\ x = item.external
  OBVIOUS
<1>2. Owned(t, x)' /\ Acked(t)'
  BY <1>1, GrowthKeeps DEF ItemDone
<1>3. QED
  BY <1>1, <1>2 DEF ItemDone

\* The client's request, when the step leaves it alone.
LEMMA ClientKept ==
    ASSUME TypeOK, RowsFit, TypeOK', RowsFit', Grows, ClientFits, client' = client
    PROVE  ClientFits'
<1>1. world' = world
  BY DEF Grows
<1>2. ASSUME client.request \in Requests[world], NEW i \in DOMAIN client.request.items, ItemDone(client.request.items[i])
      PROVE  ItemDone(client.request.items[i])'
  <2>1. PICK item : item = client.request.items[i]
    OBVIOUS
  <2>2. item.token \in Tokens
    BY <1>2, <2>1, ItemsAreKnown
  <2>3. ItemDone(item)'
    BY <1>2, <2>1, <2>2, ItemKept
  <2>4. item = client'.request.items[i]
    BY <2>1
  <2>5. QED
    BY <2>3, <2>4 DEF ItemDone
<1>3. ASSUME client.answer = 0, NEW i \in 1 .. client.next - 1 PROVE i \in DOMAIN client.request.items
  <2>1. PICK l \in Nat : DOMAIN client.request.items = 1 .. l
    BY <1>3, ItemsAreKnown DEF ClientFits
  <2>2. client.next \in 1 .. l
    BY <1>3, <2>1 DEF ClientFits
  <2>3. QED
    BY <2>1, <2>2
<1>4. client.answer = 0 => \A i \in 1 .. client.next - 1 : ItemDone(client.request.items[i])'
  BY <1>2, <1>3 DEF ClientFits
<1>5. client.answer = 200 /\ client.request # << >> => \A i \in DOMAIN client.request.items : ItemDone(client.request.items[i])'
  BY <1>2 DEF ClientFits
<1>6. QED
  BY <1>1, <1>4, <1>5 DEF ClientFits

\* What was stored before the step still replaces a purchase of its customer.
LEMMA ReplacementsKept ==
    ASSUME TypeOK, RowsFit, TypeOK', RowsFit', Grows, ReplacementsFit,
           NEW t \in Tokens, rows[t] # {}, Purchase(t).linked # ""
    PROVE  Submitted(t)' \/ SameOwner(t, Purchase(t).linked)'
<1>1. PICK u \in Tokens : u = Purchase(t).linked
  BY LinkedIsKnown
<1>2. Submitted(t)' \/ SameOwner(t, u)'
  BY <1>1, GrowthKeeps DEF ReplacementsFit
<1>3. Purchase(t)' = Purchase(t)
  BY SameWorld DEF Grows
<1>4. QED
  BY <1>1, <1>2, <1>3 DEF SameOwner

\* Who only sees others move: nothing is stored or settled by this step.
LEMMA WatchedKept ==
    ASSUME IInv, world' = world, NEW a \in Actors,
           \A b \in Actors \ {a} : job'[b] = job[b], \A m \in Messages \ {a} : inbox'[m] = inbox[m],
           scheduled \subseteq scheduled', missed \subseteq missed',
           \A t \in Tokens : rows'[t] # {} => rows[t] # {} \/ Excused(t)',
           a = "client" /\ job[a].pc \in {"stored", "posted"} /\ Purchase(job[a].token).kind = "subscription" =>
               \/ job[a].token \in missed' \cup scheduled'
               \/ job'[a].pc \in {"stored", "posted"} /\ job'[a].token = job[a].token,
           a \in Messages /\ provider # "huawei" /\ Kept(a) /\ inbox[a].status \in {"open", "failed"}
             /\ Purchase(Token(a)).kind = "subscription" =>
               \/ Token(a) \in scheduled'
               \/ inbox'[a].status \in {"open", "failed"} /\ Token(a)' = Token(a)
    PROVE  Watched'
<1> SUFFICES ASSUME NEW t \in Tokens, rows'[t] # {}, Purchase(t).kind = "subscription", t \notin scheduled'
             PROVE  Excused(t)'
  BY SameWorld DEF Watched
<1> USE SameWorld
<1>1. CASE rows[t] = {}
  BY <1>1
<1>2. CASE rows[t] # {}
  <2>1. Excused(t)
    BY <1>2 DEF IInv, Watched
  <2>2. CASE t \in missed
    BY <2>2 DEF Excused
  <2>3. CASE job["client"].pc \in {"stored", "posted"} /\ job["client"].token = t
    <3>1. "client" \in Actors
      BY DEF Actors
    <3>2. QED
      BY <2>3, <3>1 DEF Excused
  <2>4. CASE provider # "huawei" /\ \E m \in Messages : Kept(m) /\ Token(m) = t /\ inbox[m].status \in {"open", "failed"}
    <3>1. PICK m \in Messages : Kept(m) /\ Token(m) = t /\ inbox[m].status \in {"open", "failed"}
      BY <2>4
    <3>2. inbox'[m].status \in {"open", "failed"} /\ Token(m)' = t
      <4>1. CASE m = a
        BY <2>4, <3>1, <4>1
      <4>2. CASE m # a
        BY <3>1, <4>2 DEF Token
      <4>3. QED
        BY <4>1, <4>2
    <3>3. Kept(m)'
      BY <3>2 DEF Kept
    <3>4. QED
      BY <2>4, <3>2, <3>3 DEF Excused
  <2>5. QED
    BY <2>1, <2>2, <2>3, <2>4 DEF Excused
<1>3. QED
  BY <1>1, <1>2

--------------------------------------------------------------------------------
(* How a step of one actor ends.                                             *)

\* A step that stores nothing.
Frame ==
    /\ UNCHANGED <<world, phase, canonical, rows, evidence>>
    /\ acknowledged \subseteq acknowledged' /\ scheduled \subseteq scheduled'

\* Such a step only lets things grow.
LEMMA FrameGrows == IInv /\ Frame => Grows /\ RowsFit'
<1> SUFFICES ASSUME IInv, Frame PROVE Grows /\ RowsFit'
  OBVIOUS
<1>1. \A t \in Tokens : phase[t] \in Nat /\ \A r \in rows[t] : r.phase \in Nat
  BY PhaseIsNat DEF IInv
<1>2. Grows
  BY <1>1 DEF Frame, Grows
<1>3. RowsFit'
  BY SameWorld DEF IInv, Frame, RowsFit
<1>4. QED
  BY <1>2, <1>3

\* Nothing is stored for the first time: what replaces what is known.
LEMMA FrameReplacements == IInv /\ Frame /\ TypeOK' => ReplacementsFit'
BY FrameGrows, SameWorld, ReplacementsKept DEF IInv, Frame, ReplacementsFit

\* Its types.
LEMMA FrameType ==
    ASSUME IInv, Frame, DOMAIN job' = Actors, DOMAIN inbox' = Messages, \A m \in Messages : DOMAIN inbox'[m] = MessageFields,
           DOMAIN client' = {"request", "next", "answer"}
    PROVE  TypeOK'
BY SameWorld DEF IInv, Frame, TypeOK

\* The attempt goes on.
LEMMA MoveStep ==
    ASSUME IInv, Frame, NEW a \in Actors, NEW next, job' = [job EXCEPT ![a] = next], UNCHANGED <<inbox, client, missed>>,
           JobFits(a)',
           a = "client" /\ job[a].pc \in {"stored", "posted"} => next.pc \in {"stored", "posted"} /\ next.token = job[a].token
    PROVE  IInv'
<1>1. TypeOK'
  BY FrameType DEF IInv, TypeOK
<1>2. Grows /\ RowsFit' /\ ReplacementsFit' /\ world' = world
  BY <1>1, FrameGrows, FrameReplacements DEF Frame
<1>3. \A m \in Messages' : MessageFits(m)'
  BY <1>1, <1>2, SameWorld, MessageKept DEF IInv
<1>4. \A b \in Actors' : JobFits(b)'
  <2>1. ASSUME NEW b \in Actors, b # a PROVE JobFits(b)'
    <3>1. job'[b] = job[b]
      BY <2>1 DEF IInv, TypeOK
    <3>2. QED
      BY <1>1, <1>2, <3>1, JobKept DEF IInv
  <2>2. QED
    BY <1>2, <2>1, SameWorld
<1>5. ClientFits'
  BY <1>1, <1>2, ClientKept DEF IInv
<1>6. Watched'
  <2>1. job'[a] = next /\ \A b \in Actors \ {a} : job'[b] = job[b]
    BY DEF IInv, TypeOK
  <2>2. \A t \in Tokens : rows'[t] # {} => rows[t] # {} \/ Excused(t)'
    BY DEF Frame
  <2>3. Token(a)' = Token(a)
    BY DEF Token
  <2>4. QED
    BY <1>2, <2>1, <2>2, <2>3, WatchedKept DEF Frame
<1>7. QED
  BY <1>1, <1>2, <1>3, <1>4, <1>5, <1>6 DEF IInv

\* The worker settles its message: as done only when everything is.
LEMMA EndJobStep ==
    ASSUME IInv, Frame, NEW m \in Messages, NEW kind, EndJob(m, kind), inbox[m].status = "open",
           kind = "" /\ Token(m) \in Tokens =>
               /\ Seen(Token(m), Pushes[world][m].phase) /\ Acked(Token(m))'
               /\ provider # "huawei" /\ Purchase(Token(m)).kind = "subscription" => Token(m) \in scheduled'
    PROVE  IInv'
<1>0. m \in Actors /\ m # "client" /\ m \in DOMAIN inbox /\ m \in DOMAIN job /\ DOMAIN inbox[m] = MessageFields
  BY ClientIsActor DEF IInv, TypeOK
<1>1. /\ DOMAIN inbox' = Messages /\ DOMAIN job' = Actors
      /\ \A n \in Messages \ {m} : inbox'[n] = inbox[n]
      /\ \A b \in Actors \ {m} : job'[b] = job[b]
      /\ job'[m] = Idle /\ UNCHANGED <<client, missed>>
  BY <1>0 DEF EndJob, IInv, TypeOK
<1>2. /\ DOMAIN inbox'[m] = MessageFields /\ inbox'[m].envelope = inbox[m].envelope
      /\ inbox'[m].status \in {"open", "done", "failed"}
      /\ inbox'[m].status = "done" => kind = ""
  BY <1>0 DEF EndJob, MessageFields
<1>3. TypeOK'
  <2>1. \A n \in Messages : DOMAIN inbox'[n] = MessageFields
    BY <1>1, <1>2 DEF IInv, TypeOK
  <2>2. QED
    BY <1>1, <2>1, FrameType DEF IInv, TypeOK
<1>4. Grows /\ RowsFit' /\ ReplacementsFit' /\ world' = world
  BY <1>3, FrameGrows, FrameReplacements DEF Frame
<1>5. Token(m)' = Token(m)
  BY <1>2 DEF Token
<1>6. \A n \in Messages' : MessageFits(n)'
  <2>1. ASSUME NEW n \in Messages, n # m PROVE MessageFits(n)'
    BY <1>1, <1>3, <1>4, <2>1, MessageKept DEF IInv
  <2>2. MessageFits(m)'
    <3>1. MessageFits(m)
      BY DEF IInv
    <3>2. inbox'[m].envelope \in Envelopes(world, m)'
      BY <1>2, <1>4, <3>1, SameWorld DEF MessageFits
    <3>3. Token(m) \in Tokens => Pushes[world][m].phase <= phase'[Token(m)]
      BY <3>1 DEF MessageFits, Frame
    <3>4. Token(m) \in Tokens /\ kind = "" => Seen(Token(m), Pushes[world][m].phase)' /\ Acked(Token(m))'
      BY <1>5 DEF Seen, Frame
    <3>5. Tokens' = Tokens
      BY <1>4, SameWorld
    <3>6. QED
      BY <1>2, <1>4, <1>5, <3>2, <3>3, <3>4, <3>5 DEF MessageFits
  <2>3. QED
    BY <1>4, <2>1, <2>2, SameWorld
<1>7. \A b \in Actors' : JobFits(b)'
  <2>1. ASSUME NEW b \in Actors, b # m PROVE JobFits(b)'
    BY <1>1, <1>3, <1>4, <2>1, JobKept DEF IInv
  <2>2. JobFits(m)'
    <3>1. job'[m].pc = "idle"
      BY <1>1, IdleIsIdle
    <3>2. QED
      BY <3>1 DEF JobFits
  <2>3. QED
    BY <1>4, <2>1, <2>2, SameWorld
<1>8. ClientFits'
  BY <1>1, <1>3, <1>4, ClientKept DEF IInv
<1>9. Watched'
  <2>1. Kept(m) /\ provider # "huawei" /\ Purchase(Token(m)).kind = "subscription" =>
           Token(m) \in scheduled' \/ inbox'[m].status \in {"open", "failed"}
    BY <1>2 DEF Kept
  <2>2. \A t \in Tokens : rows'[t] # {} => rows[t] # {} \/ Excused(t)'
    BY DEF Frame
  <2>3. QED
    BY <1>0, <1>1, <1>4, <1>5, <2>1, <2>2, WatchedKept DEF Frame
<1>10. QED
  BY <1>3, <1>4, <1>6, <1>7, <1>8, <1>9 DEF IInv

\* EndItem's answer to the client.
Replies(kind) ==
    client' = IF kind # "" THEN [client EXCEPT !.answer = writeError(kind)]
              ELSE IF client.next = Len(client.request.items) THEN [client EXCEPT !.answer = 200]
              ELSE [client EXCEPT !.next = @ + 1]

\* The positions up to an item of a request.
LEMMA ItemPositions ==
    ASSUME NEW items, NEW l \in Nat, DOMAIN items = 1 .. l, NEW n \in 1 .. l
    PROVE  /\ (n + 1) - 1 = n /\ (n # l => n + 1 \in DOMAIN items) /\ (n = l => DOMAIN items = 1 .. n)
           /\ n \in 1 .. n /\ \A i \in 1 .. n : i \in DOMAIN items /\ (i # n => i \in 1 .. n - 1)
OBVIOUS

\* No answer is both pending and a success.
LEMMA CodesDiffer == \A code : ~ (code = 0 /\ code = 200)
OBVIOUS

\* The status of an error is neither.
LEMMA WriteErrorIsError == \A kind : writeError(kind) \notin {0, 200}
BY DEF writeError

\* An item ends: the next one is begun only when it is done.
LEMMA EndItemStep ==
    ASSUME IInv, Frame, NEW kind, job["client"].pc # "idle",
           job' = [job EXCEPT !["client"] = Idle], inbox' = inbox, missed \subseteq missed', Replies(kind),
           kind = "" => Working("client", "posted"),
           rows[job["client"].token] # {} /\ Purchase(job["client"].token).kind = "subscription" =>
               job["client"].token \in missed' \cup scheduled'
    PROVE  IInv'
<1>0. "client" \in Actors /\ "client" \notin Messages /\ DOMAIN job = Actors /\ DOMAIN client = {"request", "next", "answer"}
  BY ClientIsActor DEF IInv, TypeOK
<1>1. job'["client"].pc = "idle" /\ DOMAIN job' = Actors /\ \A b \in Actors \ {"client"} : job'[b] = job[b]
  BY <1>0, IdleIsIdle
<1>2. DOMAIN client' = {"request", "next", "answer"} /\ client'.request = client.request
  BY <1>0 DEF Replies
<1>3. TypeOK'
  BY <1>1, <1>2, FrameType DEF IInv, TypeOK
<1>4. Grows /\ RowsFit' /\ ReplacementsFit' /\ world' = world
  BY <1>3, FrameGrows, FrameReplacements DEF Frame
<1>5. \A n \in Messages' : MessageFits(n)'
  BY <1>3, <1>4, SameWorld, MessageKept DEF IInv
<1>6. \A b \in Actors' : JobFits(b)'
  <2>1. ASSUME NEW b \in Actors, b # "client" PROVE JobFits(b)'
    BY <1>1, <1>3, <1>4, <2>1, JobKept DEF IInv
  <2>2. JobFits("client")'
    BY <1>1 DEF JobFits
  <2>3. QED
    BY <1>4, <2>1, <2>2, SameWorld
<1>7. WorksOn("client") /\ (kind = "" => StoredFits("client"))
  <2>1. JobFits("client")
    BY <1>0 DEF IInv
  <2>2. QED
    BY <1>0, <2>1 DEF Working, JobFits, UnboundFits, AttemptFits
<1>8. ClientFits'
  <2>1. client.answer = 0 /\ client.request \in Requests[world] /\ client.next \in DOMAIN client.request.items
    BY <1>7 DEF WorksOn, IInv, ClientFits
  <2>2. CASE kind # ""
    <3>1. client'.answer \notin {0, 200}
      BY <1>0, <2>2, WriteErrorIsError DEF Replies
    <3>2. QED
      BY <1>2, <1>4, <2>1, <3>1 DEF ClientFits
  <2>3. CASE kind = ""
    <3>1. PICK items, n : items = client.request.items /\ n = client.next
      OBVIOUS
    <3>2. PICK l \in Nat : l = Len(items) /\ DOMAIN items = 1 .. l
      BY <2>1, <3>1, ItemsAreKnown DEF IInv
    <3>20. /\ (n + 1) - 1 = n /\ (n # l => n + 1 \in DOMAIN items) /\ (n = l => DOMAIN items = 1 .. n)
           /\ n \in 1 .. n /\ \A i \in 1 .. n : i \in DOMAIN items /\ (i # n => i \in 1 .. n - 1)
      <4>1. n \in 1 .. l
        BY <2>1, <3>1, <3>2
      <4>2. QED
        BY <3>2, <4>1, ItemPositions
    <3>3. ItemDone(items[n])
      BY <1>0, <1>7, <2>3, <3>1 DEF Working, StoredFits, WorksOn, ItemDone
    <3>4. \A i \in 1 .. n : ItemDone(items[i])'
      <4>1. ASSUME NEW i \in 1 .. n PROVE ItemDone(items[i])'
        <5>1. ItemDone(items[i])
          <6>1. CASE i = n
            BY <3>3, <6>1
          <6>2. CASE i # n
            BY <2>1, <3>1, <3>20, <6>2 DEF IInv, ClientFits
          <6>3. QED
            BY <6>1, <6>2
        <5>2. i \in DOMAIN items /\ items[i].token \in Tokens
          BY <2>1, <3>1, <3>20, ItemsAreKnown DEF IInv
        <5>3. QED
          BY <1>3, <1>4, <5>1, <5>2, ItemKept DEF IInv
      <4>2. QED
        BY <4>1
    <3>5. client'.request.items = items
      BY <1>2, <3>1
    <3>6. CASE n = l
      <4>1. client'.answer = 200
        BY <1>0, <2>3, <3>1, <3>2, <3>20, <3>6 DEF Replies
      <4>2. \A i \in DOMAIN items : ItemDone(items[i])'
        BY <3>20, <3>4, <3>6
      <4>3. \A i \in DOMAIN client'.request.items : ItemDone(client.request.items[i])'
        BY <3>5, <4>2 DEF ItemDone
      <4>4. client'.request \in Requests[world']
        BY <1>2, <1>4, <2>1
      <4>5. client'.answer # 0
        BY <4>1, CodesDiffer, Zenon
      <4>6. QED
        BY <4>3, <4>4, <4>5, Zenon DEF ClientFits
    <3>7. CASE n # l
      <4>1. client'.answer = 0 /\ client'.next = n + 1
        BY <1>0, <2>1, <2>3, <3>1, <3>2, <3>20, <3>7 DEF Replies
      <4>2. n + 1 \in DOMAIN items
        BY <3>20, <3>7
      <4>3. \A i \in 1 .. (n + 1) - 1 : ItemDone(items[i])'
        BY <3>20, <3>4
      <4>4. \A i \in 1 .. client'.next - 1 : ItemDone(client.request.items[i])'
        BY <3>5, <4>1, <4>3 DEF ItemDone
      <4>5. client'.request \in Requests[world'] /\ client'.next \in DOMAIN client'.request.items
        BY <1>2, <1>4, <2>1, <3>5, <4>1, <4>2
      <4>6. client'.answer # 200
        BY <4>1, CodesDiffer, Zenon
      <4>7. QED
        BY <4>4, <4>5, <4>6, Zenon DEF ClientFits
    <3>8. QED
      BY <3>6, <3>7
  <2>4. QED
    BY <2>2, <2>3
<1>9. Watched'
  <2>1. \A t \in Tokens : rows'[t] # {} => rows[t] # {} \/ Excused(t)'
    BY DEF Frame
  <2>2. job["client"].pc \in {"stored", "posted"} => rows[job["client"].token] # {}
    <3>1. JobFits("client")
      BY <1>0 DEF IInv
    <3>2. QED
      BY <3>1 DEF JobFits, AttemptFits, StoredFits, Owned
  <2>3. QED
    BY <1>0, <1>1, <1>4, <2>1, <2>2, WatchedKept DEF Frame
<1>10. QED
  BY <1>3, <1>4, <1>5, <1>6, <1>8, <1>9 DEF IInv

\* A failure ends an attempt, whoever makes it.
LEMMA FailStep ==
    ASSUME IInv, Frame, NEW a \in Actors, NEW kind, kind # "", job[a].pc # "idle", End(a, kind)
    PROVE  IInv'
<1>1. CASE a = "client"
  <2>1. EndItem(kind)
    BY <1>1 DEF End
  <2>2. QED
    BY <1>1, <2>1, EndItemStep DEF EndItem, Replies
<1>2. CASE a # "client"
  <2>1. a \in Messages /\ EndJob(a, kind)
    BY <1>2 DEF End, Actors
  <2>2. inbox[a].status = "open"
    BY <2>1 DEF IInv, JobFits, UnboundFits, AttemptFits, WorksOn
  <2>3. QED
    BY <2>1, <2>2, EndJobStep
<1>3. QED
  BY <1>1, <1>2

--------------------------------------------------------------------------------
(* The actions.                                                              *)

\* The store or the host moves on.
LEMMA StillStep ==
    ASSUME IInv, TypeOK', RowsFit', Grows, UNCHANGED <<rows, job, inbox, client, missed, scheduled>>
    PROVE  IInv'
<1>1. world' = world
  BY DEF Grows
<1>2. \A m \in Messages' : MessageFits(m)'
  BY <1>1, SameWorld, MessageKept DEF IInv
<1>3. \A a \in Actors' : JobFits(a)'
  BY <1>1, SameWorld, JobKept DEF IInv
<1>4. ClientFits'
  BY ClientKept DEF IInv
<1>5. ReplacementsFit'
  BY <1>1, SameWorld, ReplacementsKept DEF IInv, ReplacementsFit
<1>6. Watched'
  <2>1. "client" \in Actors
    BY DEF Actors
  <2>2. Token("client")' = Token("client")
    BY DEF Token
  <2>3. QED
    BY <1>1, <2>1, <2>2, WatchedKept
<1>7. QED
  BY <1>2, <1>3, <1>4, <1>5, <1>6 DEF IInv

\* The store's state of a purchase moves on.
LEMMA StepAdvance == ASSUME IInv, NEW t \in Tokens, Advance(t) PROVE IInv'
<1>1. world' = world /\ UNCHANGED <<canonical, rows, evidence, acknowledged, scheduled, inbox, job, client, missed>>
  BY DEF Advance
<1>2. \A u \in Tokens : phase[u] \in Nat /\ DOMAIN Purchase(u).answers \subseteq Nat /\ \A r \in rows[u] : r.phase \in Nat
  BY PhaseIsNat DEF IInv
<1>3. phase'[t] = phase[t] + 1 /\ \A u \in Tokens \ {t} : phase'[u] = phase[u]
  BY DEF Advance, IInv, TypeOK
<1>4. phase[t] + 1 \in DOMAIN Purchase(t).answers
  <2>1. Purchase(t).answers \in Seq(Range(Purchase(t).answers))
    BY NotificationsAssumption DEF IInv, TypeOK, Tokens, Purchase
  <2>2. phase[t] \in DOMAIN Purchase(t).answers /\ phase[t] < Len(Purchase(t).answers)
    BY DEF Advance, IInv, TypeOK
  <2>3. QED
    BY <2>1, <2>2
<1>5. DOMAIN phase' = Tokens /\ \A u \in Tokens : phase'[u] \in DOMAIN Purchase(u).answers /\ phase[u] <= phase'[u]
  <2>1. DOMAIN phase' = Tokens
    BY DEF Advance, IInv, TypeOK
  <2>2. ASSUME NEW u \in Tokens PROVE phase'[u] \in DOMAIN Purchase(u).answers /\ phase[u] <= phase'[u]
    BY <1>2, <1>3, <1>4 DEF IInv, TypeOK
  <2>3. QED
    BY <2>1, <2>2
<1>6. TypeOK'
  BY <1>1, <1>5, SameWorld DEF IInv, TypeOK
<1>7. Grows
  BY <1>1, <1>2, <1>5 DEF Grows
<1>8. RowsFit'
  <2>1. ASSUME NEW u \in Tokens, NEW r \in rows[u] PROVE r.phase \in 0 .. phase'[u]
    <3>1. r.phase \in 0 .. phase[u] /\ phase'[u] \in Nat /\ phase[u] \in Nat /\ phase[u] <= phase'[u]
      BY <1>2, <1>5 DEF IInv, RowsFit
    <3>2. QED
      BY <3>1
  <2>2. QED
    BY <1>1, <2>1, SameWorld DEF IInv, RowsFit
<1>9. QED
  BY <1>1, <1>6, <1>7, <1>8, StillStep

\* Two customers become one.
LEMMA StepMerge == ASSUME IInv, NEW c \in Merges, MergeCustomers(c[1], c[2]) PROVE IInv'
<1>1. world' = world /\ UNCHANGED <<phase, rows, evidence, acknowledged, scheduled, inbox, job, client, missed>>
  BY DEF MergeCustomers
<1>2. PICK source, target \in Customers :
         canonical' = [e \in Customers |-> IF canonical[e] = source THEN target ELSE canonical[e]]
  <2>1. c \in Customers \X Customers
    BY NotificationsAssumption
  <2>2. c[1] \in Customers /\ c[2] \in Customers
    BY <2>1
  <2>3. QED
    BY <2>2 DEF MergeCustomers
<1>3. canonical' \in [Customers -> Customers]
  BY <1>2 DEF IInv, TypeOK
<1>4. \A x, y \in Customers : canonical[x] = canonical[y] => canonical'[x] = canonical'[y]
  BY <1>2
<1>5. TypeOK'
  BY <1>1, <1>3, SameWorld DEF IInv, TypeOK
<1>6. \A u \in Tokens : phase[u] \in Nat /\ \A r \in rows[u] : r.phase \in Nat
  BY PhaseIsNat DEF IInv
<1>7. Grows
  BY <1>1, <1>4, <1>6 DEF Grows
<1>8. RowsFit'
  BY <1>1, <1>4, SameWorld DEF IInv, RowsFit
<1>9. QED
  BY <1>1, <1>5, <1>7, <1>8, StillStep

\* The process dies or the deadline passes.
LEMMA StepCrash == ASSUME IInv, NEW a \in Actors, Crash(a) PROVE IInv'
<1>1. Frame
  BY DEF Crash, World, Frame
<1>2. QED
  BY <1>1, FailStep DEF Crash, Working

\* The client's next item is begun.
LEMMA StepVerify == ASSUME IInv, verify PROVE IInv'
<1> DEFINE item == client.request.items[client.next]
           next == Attempt(item.token, TRUE, item.token, Purchase(item.token).kind, item.external,
                           {Purchase(item.token).product}, "")
<1>1. Frame /\ UNCHANGED <<inbox, client, missed>> /\ job["client"].pc = "idle" /\ client.answer = 0
  BY DEF verify, Frame, Working
<1>2. job' = [job EXCEPT !["client"] = next]
  BY DEF verify
<1>3. "client" \in Actors /\ "client" \notin Messages
  BY ClientIsActor DEF IInv
<1>4. job'["client"] = next
  BY <1>2, <1>3 DEF IInv, TypeOK
<1>5. client.request \in Requests[world] /\ client.next \in DOMAIN client.request.items
  BY <1>1 DEF IInv, ClientFits
<1>6. item.token \in Tokens
  BY <1>5, ItemsAreKnown DEF IInv
<1>7. /\ DOMAIN next = AttemptFields /\ next.pc = "ask" /\ next.key = item.token /\ next.token = item.token /\ next.verify
      /\ next.external = item.external /\ next.kind = Purchase(item.token).kind
  BY DEF Attempt, AttemptFields
<1> HIDE DEF next
<1>8. AttemptFits("client")'
  <2>1. WorksOn("client")'
    BY <1>1, <1>3, <1>4, <1>6, <1>7, SameWorld DEF WorksOn, Frame
  <2>2. Bound("client")'
    BY <1>4, <1>7 DEF Bound
  <2>3. QED
    BY <1>1, <1>3, <1>4, <1>6, <1>7, <2>1, <2>2, SameWorld DEF AttemptFits, Frame
<1>9. JobFits("client")'
  BY <1>4, <1>7, <1>8 DEF JobFits
<1>10. QED
  BY <1>1, <1>2, <1>3, <1>9, MoveStep

\* A request arrives.
LEMMA StepRestore == ASSUME IInv, NEW r \in Requests[world], restorePurchases(r) PROVE IInv'
<1> DEFINE refused == IF Len(r.items) \notin 1 .. MaxRestore THEN 400
                      ELSE IF \E i \in DOMAIN r.items : r.items[i].external # r.session THEN 401 ELSE 0
<1>1. /\ Frame /\ UNCHANGED <<job, inbox, missed>> /\ job["client"].pc = "idle"
      /\ client' = [request |-> r, next |-> 1, answer |-> refused]
  BY DEF restorePurchases, Frame, Working
<1>2. client'.request = r /\ client'.next = 1 /\ client'.answer = refused /\ DOMAIN client' = {"request", "next", "answer"}
  BY <1>1
<1>3. "client" \in Actors
  BY ClientIsActor DEF IInv
<1>4. TypeOK'
  BY <1>1, <1>2, FrameType DEF IInv, TypeOK
<1>5. Grows /\ RowsFit' /\ ReplacementsFit' /\ world' = world
  BY <1>1, <1>4, FrameGrows, FrameReplacements DEF Frame
<1>6. \A m \in Messages' : MessageFits(m)'
  BY <1>1, <1>4, <1>5, SameWorld, MessageKept DEF IInv
<1>7. \A a \in Actors' : JobFits(a)'
  BY <1>1, <1>4, <1>5, SameWorld, JobKept DEF IInv
<1>8. ClientFits'
  <2>1. refused # 200 /\ (refused = 0 => 1 \in DOMAIN r.items)
    <3>1. PICK l \in Nat : l = Len(r.items) /\ DOMAIN r.items = 1 .. l
      BY ItemsAreKnown DEF IInv
    <3>2. MaxRestore \in Nat
      BY NotificationsAssumption
    <3>3. QED
      BY <3>1, <3>2
  <2>2. client'.request \in Requests[world']
    BY <1>2, <1>5
  <2>3. client'.answer = 0 => client'.next \in DOMAIN client'.request.items
    BY <1>2, <2>1
  <2>4. client'.answer # 200 /\ 1 .. client'.next - 1 = {}
    BY <1>2, <2>1
  <2>5. QED
    BY <2>2, <2>3, <2>4, Zenon DEF ClientFits
<1>9. Watched'
  <2>1. \A t \in Tokens : rows'[t] # {} => rows[t] # {} \/ Excused(t)'
    BY <1>1 DEF Frame
  <2>2. Token("client")' = Token("client")
    BY <1>1 DEF Token
  <2>3. QED
    BY <1>1, <1>3, <1>5, <2>1, <2>2, WatchedKept DEF Frame
<1>10. QED
  BY <1>4, <1>5, <1>6, <1>7, <1>8, <1>9 DEF IInv

\* A message is kept as the store announces it; the one an earlier delivery left says the same.
LEMMA StepPush == ASSUME IInv, NEW m \in Messages, Push(m) PROVE IInv'
<1> DEFINE push == Pushes[world][m].push
           e == CASE provider = "apple"  -> appleNotification(push)
                  [] provider = "huawei" -> huaweiNotification(push)
                  [] provider = "google" -> googlePlayNotification(push)
           kept == IF e.ok THEN SaveInboxMessage(inbox[m], e) ELSE inbox[m]
<1>1. /\ Frame /\ UNCHANGED <<job, client, missed>>
      /\ e.ok /\ e.token \in Tokens => phase[e.token] >= Pushes[world][m].phase
      /\ inbox' = [inbox EXCEPT ![m] = kept]
  BY DEF Push, Frame
<1>2. e.ok => e \in Envelopes(world, m)
  <2>1. e.ok => e = Announced(world, m)
    <3>1. provider \in {"apple", "huawei", "google"}
      BY NotificationsAssumption DEF IInv, TypeOK, provider
    <3>2. CASE provider = "apple"
      BY <3>2 DEF Announced, provider, appleNotification
    <3>3. CASE provider = "google"
      BY <3>3 DEF Announced, provider, googlePlayNotification
    <3>4. CASE provider = "huawei"
      <4>1. e = huaweiNotification(push) /\ Announced(world, m) = huaweiValidateNotification(Application, push)
        BY <3>4 DEF Announced, provider
      <4>2. huaweiNotification(push).ok => huaweiNotification(push) = huaweiValidateNotification(Application, push)
        BY DEF huaweiNotification, Failure
      <4>3. QED
        BY <4>1, <4>2
    <3>5. QED
      BY <3>1, <3>2, <3>3, <3>4
  <2> HIDE DEF e
  <2>2. QED
    BY <2>1 DEF Envelopes
<1> HIDE DEF e
<1>3. /\ m \in Actors /\ DOMAIN inbox' = Messages /\ inbox'[m] = kept
      /\ \A n \in Messages \ {m} : inbox'[n] = inbox[n]
  BY <1>1, ClientIsActor DEF IInv, TypeOK
<1>4. \/ inbox'[m] = inbox[m]
      \/ /\ inbox[m].status \in {"none", "failed"} /\ e.ok
         /\ inbox'[m].status = "open" /\ inbox'[m].envelope = e /\ DOMAIN inbox'[m] = MessageFields
  <2>1. \A x : LET row == [status |-> "open", envelope |-> x, failure |-> ""]
               IN  row.status = "open" /\ row.envelope = x /\ DOMAIN row = MessageFields
    BY DEF MessageFields
  <2>2. QED
    BY <1>3, <2>1 DEF SaveInboxMessage
<1> HIDE DEF kept
<1>5. TypeOK'
  <2>1. DOMAIN inbox'[m] = MessageFields
    BY <1>4 DEF IInv, TypeOK
  <2>2. \A n \in Messages : DOMAIN inbox'[n] = MessageFields
    BY <1>3, <2>1 DEF IInv, TypeOK
  <2>3. QED
    BY <1>1, <1>3, <2>2, FrameType DEF IInv, TypeOK
<1>6. Grows /\ RowsFit' /\ ReplacementsFit' /\ world' = world
  BY <1>1, <1>5, FrameGrows, FrameReplacements DEF Frame
<1>7. \A n \in Messages' : MessageFits(n)'
  <2>1. ASSUME NEW n \in Messages, inbox'[n] = inbox[n] PROVE MessageFits(n)'
    BY <1>5, <1>6, <2>1, MessageKept DEF IInv
  <2>2. ASSUME e.ok, inbox'[m].status = "open", inbox'[m].envelope = e PROVE MessageFits(m)'
    <3>1. inbox'[m].status = "open" /\ inbox'[m].envelope = e /\ Token(m)' = e.token
      BY <2>2 DEF Token
    <3>2. e.token \in Tokens => Pushes[world][m].phase <= phase'[e.token]
      BY <1>1, <2>2 DEF Frame
    <3>3. e \in Envelopes(world, m)' /\ Tokens' = Tokens
      BY <1>2, <1>6, <2>2, SameWorld
    <3>4. QED
      BY <1>6, <3>1, <3>2, <3>3 DEF MessageFits
  <2>3. QED
    BY <1>3, <1>4, <1>6, <2>1, <2>2, SameWorld
<1>8. \A a \in Actors' : JobFits(a)'
  <2>1. ASSUME NEW a \in Actors, a \in Messages, job[a].pc # "idle" PROVE inbox'[a] = inbox[a]
    <3>1. inbox[a].status = "open"
      BY <2>1 DEF IInv, JobFits, UnboundFits, AttemptFits, WorksOn
    <3>2. inbox[a].status \notin {"none", "failed"}
      BY <3>1
    <3>3. CASE a = m
      BY <1>4, <3>2, <3>3, Zenon
    <3>4. CASE a # m
      BY <1>3, <2>1, <3>4, Zenon
    <3>5. QED
      BY <3>3, <3>4
  <2>2. QED
    BY <1>1, <1>5, <1>6, <2>1, SameWorld, JobKept DEF IInv
<1>9. ClientFits'
  BY <1>1, <1>5, <1>6, ClientKept DEF IInv
<1>10. Watched'
  <2>1. ASSUME Kept(m), inbox[m].status \in {"open", "failed"}
        PROVE  inbox'[m].status \in {"open", "failed"} /\ Token(m)' = Token(m)
    <3>1. CASE inbox'[m] = inbox[m]
      BY <2>1, <3>1 DEF Token
    <3>2. CASE e.ok /\ inbox'[m].status = "open" /\ inbox'[m].envelope = e
      <4>1. MessageFits(m)
        BY DEF IInv
      <4>2. inbox[m].envelope \in Envelopes(world, m)
        BY <2>1, <4>1 DEF MessageFits
      <4>3. StoreSays(world, m, e)
        BY <1>2, <3>2, NotificationsAssumption DEF IInv, TypeOK, Messages
      <4>4. inbox[m].envelope.token = e.token
        BY <4>2, <4>3 DEF StoreSays
      <4>5. QED
        BY <3>2, <4>4 DEF Token
    <3>3. QED
      BY <1>4, <3>1, <3>2
  <2>2. \A t \in Tokens : rows'[t] # {} => rows[t] # {} \/ Excused(t)'
    BY <1>1 DEF Frame
  <2>3. m # "client"
    BY ClientIsActor DEF IInv
  <2>4. QED
    BY <1>1, <1>3, <1>6, <2>1, <2>2, <2>3, WatchedKept DEF Frame
<1>11. QED
  BY <1>5, <1>6, <1>7, <1>8, <1>9, <1>10 DEF IInv

\* The latest row of a purchase is one of its rows.
LEMMA LatestIsRow ==
    ASSUME TypeOK, RowsFit, NEW t \in Tokens, rows[t] # {}
    PROVE  Latest(t) \in rows[t]
<1>1. phase[t] \in Nat /\ \A r \in rows[t] : r.phase \in Nat /\ r.phase <= phase[t]
  <2>1. phase[t] \in Nat /\ \A r \in rows[t] : r.phase \in Nat
    BY PhaseIsNat
  <2>2. QED
    BY <2>1 DEF RowsFit
<1> DEFINE ages == {phase[t] - r.phase : r \in rows[t]}
<1>2. ages \subseteq Nat /\ ages # {}
  BY <1>1
<1>3. PICK x \in ages : \A y \in ages : x <= y
  BY <1>2, SmallestNumber
<1>4. PICK r \in rows[t] : x = phase[t] - r.phase
  BY <1>3
<1>5. \A s \in rows[t] : s.phase <= r.phase
  <2>1. ASSUME NEW s \in rows[t] PROVE s.phase <= r.phase
    <3>1. phase[t] - r.phase <= phase[t] - s.phase
      BY <1>3, <1>4
    <3>2. QED
      BY <1>1, <3>1
  <2>2. QED
    BY <2>1
<1>6. \E q \in rows[t] : \A s \in rows[t] : s.phase <= q.phase
  BY <1>4, <1>5
<1>7. QED
  BY <1>6, Zenon DEF Latest

\* What a lookup finds is the latest row of a purchase of the store.
LEMMA LookupIsRow ==
    ASSUME TypeOK, RowsFit, NEW t, PurchaseContextByReference(t) # None
    PROVE  t \in Tokens /\ rows[t] # {} /\ PurchaseContextByReference(t)[1] \in rows[t]
<1>1. t \in Tokens /\ rows[t] # {} /\ PurchaseContextByReference(t)[1] = Latest(t)
  BY DEF PurchaseContextByReference, None
<1>2. QED
  BY <1>1, LatestIsRow

\* What an attempt on purchase t may rest on.
MayBind(t, verified, external) ==
    /\ provider = "apple" => verified
    /\ provider = "huawei" => rows[t] # {}
    /\ \/ verified \/ rows[t] # {}
       \/ provider = "google" /\ (Purchase(t).linked # "" => Owned(Purchase(t).linked, external))

\* The worker has bound its message to a purchase.
LEMMA BindStep ==
    ASSUME IInv, Frame, NEW m \in Messages, inbox[m].status = "open", Token(m) \in Tokens,
           NEW verified, NEW external, NEW claimed, NEW subscription,
           job' = [job EXCEPT ![m] = Attempt(m, verified, Token(m), Purchase(Token(m)).kind, external, claimed, subscription)],
           UNCHANGED <<inbox, client, missed>>,
           MayBind(Token(m), verified, external)
    PROVE  IInv'
<1> DEFINE next == Attempt(m, verified, Token(m), Purchase(Token(m)).kind, external, claimed, subscription)
<1>1. m \in Actors /\ m # "client"
  BY ClientIsActor DEF IInv
<1>2. job'[m] = next
  BY <1>1 DEF IInv, TypeOK
<1>3. /\ DOMAIN next = AttemptFields /\ next.pc = "ask" /\ next.key = m /\ next.token = Token(m) /\ next.verify = verified
      /\ next.external = external /\ next.kind = Purchase(Token(m)).kind
  BY DEF Attempt, AttemptFields
<1>4. job' = [job EXCEPT ![m] = next]
  OBVIOUS
<1> HIDE DEF next
<1>5. world' = world /\ rows' = rows /\ canonical' = canonical
  BY DEF Frame
<1>6. PICK t : t = Token(m)
  OBVIOUS
<1>7. WorksOn(m)'
  BY <1>1, <1>2, <1>3, <1>5, SameWorld DEF WorksOn, Token
<1>8. Bound(m)'
  <2>1. job'[m].token = t /\ job'[m].verify = verified /\ job'[m].external = external
    BY <1>2, <1>3, <1>6
  <2>2. CASE verified \/ rows[t] # {}
    BY <1>5, <2>1, <2>2 DEF Bound
  <2>3. CASE provider = "google" /\ (Purchase(t).linked # "" => Owned(Purchase(t).linked, external))
    BY <1>5, <2>1, <2>3, SameWorld DEF Bound, Owned
  <2>4. QED
    BY <1>6, <2>2, <2>3 DEF MayBind
<1>9. AttemptFits(m)'
  BY <1>1, <1>2, <1>3, <1>5, <1>6, <1>7, <1>8, SameWorld DEF AttemptFits, MayBind
<1>10. JobFits(m)'
  BY <1>2, <1>3, <1>9 DEF JobFits
<1>11. QED
  BY <1>1, <1>4, <1>10, MoveStep

\* A refusal ends the attempt with its kind.
LEMMA RefusalEnds ==
    ASSUME NEW a, NEW kind, Continue(a, Refuse(kind))
    PROVE  End(a, kind)
<1>1. Refuse(kind).pc = "end" /\ Refuse(kind).failure = kind
  BY DEF Refuse
<1>2. QED
  BY <1>1 DEF Continue

\* Everything else goes on.
LEMMA OthersGoOn ==
    ASSUME NEW a, NEW next, next.pc # "end", Continue(a, next)
    PROVE  job' = [job EXCEPT ![a] = next] /\ UNCHANGED <<inbox, client, missed>>
BY DEF Continue

\* An attempt begins by asking.
LEMMA AttemptAsks ==
    \A key, verified, token, kind, external, claimed, subscription :
        Attempt(key, verified, token, kind, external, claimed, subscription).pc = "ask"
BY DEF Attempt

\* What an open message says.
LEMMA MessageSays ==
    ASSUME IInv, NEW m \in Messages, inbox[m].status = "open"
    PROVE  /\ provider # "huawei" => Token(m) \in Tokens \cup {""}
           /\ Token(m) \in Tokens => inbox[m].envelope.productKind = Purchase(Token(m)).kind
           /\ "" \notin Tokens
<1>1. inbox[m].envelope \in Envelopes(world, m)
  BY DEF IInv, MessageFits
<1>2. StoreSays(world, m, inbox[m].envelope)
  BY <1>1, NotificationsAssumption DEF IInv, TypeOK, Messages
<1>3. "" \notin Tokens
  BY NotificationsAssumption DEF IInv, TypeOK, Tokens
<1>4. QED
  BY <1>2, <1>3 DEF StoreSays, Token, Tokens, Purchase, provider

\* A retryable or final failure of the worker, also before the purchase is bound.
LEMMA FailJobStep ==
    ASSUME IInv, Frame, NEW m \in Messages, NEW kind, kind # "", inbox[m].status = "open", End(m, kind)
    PROVE  IInv'
<1>1. EndJob(m, kind)
  BY ClientIsActor DEF IInv, End
<1>2. QED
  BY <1>1, EndJobStep

\* The worker opens a message and looks its purchase up.
LEMMA StepBegin == ASSUME IInv, NEW m \in Messages, Begin(m) PROVE IInv'
<1> DEFINE e == inbox[m].envelope
           found == PurchaseContextByReference(e.token)
<1>1. Frame /\ inbox[m].status = "open" /\ job[m].pc = "idle" /\ m \in Actors /\ m # "client"
  BY ClientIsActor DEF Begin, World, Frame, Working, IInv
<1>2. CASE EndJob(m, "unavailable")
  BY <1>1, <1>2, EndJobStep
<1>3. ASSUME Continue(m, HandleInbox(m, e)) PROVE IInv'
  <2>1. e.token = Token(m)
    BY DEF Token
  <2>2. CASE e.token = ""
    <3>1. HandleInbox(m, e) = Refuse("")
      BY <2>2 DEF HandleInbox, VerificationEvidence
    <3>2. EndJob(m, "")
      BY <1>1, <1>3, <3>1, RefusalEnds DEF End
    <3>3. Token(m) \notin Tokens
      BY <1>1, <2>1, <2>2, MessageSays
    <3>4. QED
      BY <1>1, <3>2, <3>3, EndJobStep
  <2>3. CASE e.token # "" /\ provider = "apple"
    <3>1. HandleInbox(m, e) = handleAppleInbox(m, e)
      BY <2>3 DEF HandleInbox, VerificationEvidence
    <3>2. Token(m) \in Tokens /\ e.productKind = Purchase(Token(m)).kind
      BY <1>1, <2>1, <2>3, MessageSays
    <3>3. HandleInbox(m, e) = Attempt(m, TRUE, Token(m), Purchase(Token(m)).kind, e.external, {e.product}, "")
      BY <2>1, <3>1, <3>2 DEF handleAppleInbox
    <3>4. job' = [job EXCEPT ![m] = HandleInbox(m, e)] /\ UNCHANGED <<inbox, client, missed>>
      BY <1>3, <3>3, AttemptAsks, OthersGoOn
    <3>5. MayBind(Token(m), TRUE, e.external)
      BY <2>3 DEF MayBind
    <3>6. QED
      BY <1>1, <3>2, <3>3, <3>4, <3>5, BindStep
  <2>4. CASE e.token # "" /\ provider = "huawei"
    <3>1. HandleInbox(m, e) = huaweiReconciliationCommand(m, e)
      BY <2>4 DEF HandleInbox, VerificationEvidence
    <3>2. \/ \E kind \in {"invalid_evidence", "temporary"} : HandleInbox(m, e) = Refuse(kind)
          \/ \E subscription : /\ found # None
               /\ HandleInbox(m, e) = Attempt(m, FALSE, e.token, e.productKind, found[1].owner, {found[1].product}, subscription)
      BY <3>1, Zenon DEF huaweiReconciliationCommand
    <3>3. ASSUME NEW kind \in {"invalid_evidence", "temporary"}, HandleInbox(m, e) = Refuse(kind) PROVE IInv'
      <4>1. End(m, kind) /\ kind # ""
        BY <1>3, <3>3, RefusalEnds
      <4>2. QED
        BY <1>1, <4>1, FailJobStep
    <3>4. ASSUME NEW subscription, found # None,
                 HandleInbox(m, e) = Attempt(m, FALSE, e.token, e.productKind, found[1].owner, {found[1].product}, subscription)
          PROVE  IInv'
      <4>1. Token(m) \in Tokens /\ rows[Token(m)] # {} /\ e.productKind = Purchase(Token(m)).kind
        BY <1>1, <2>1, <3>4, LookupIsRow, MessageSays DEF IInv
      <4>2. job' = [job EXCEPT ![m] = HandleInbox(m, e)] /\ UNCHANGED <<inbox, client, missed>>
        BY <1>3, <3>4, AttemptAsks, OthersGoOn
      <4>3. HandleInbox(m, e) = Attempt(m, FALSE, Token(m), Purchase(Token(m)).kind, found[1].owner, {found[1].product}, subscription)
        BY <2>1, <3>4, <4>1
      <4>4. MayBind(Token(m), FALSE, found[1].owner)
        BY <2>4, <4>1 DEF MayBind
      <4>5. QED
        BY <1>1, <4>1, <4>2, <4>3, <4>4, BindStep
    <3>5. QED
      BY <3>2, <3>3, <3>4
  <2>5. CASE e.token # "" /\ provider = "google"
    <3>1. HandleInbox(m, e) = googlePlayReconciliationCommand(m, e)
      BY <2>5 DEF HandleInbox, VerificationEvidence
    <3>2. Token(m) \in Tokens /\ e.productKind = Purchase(Token(m)).kind
      BY <1>1, <2>1, <2>5, MessageSays
    <3>3. \/ \E kind \in {"rejected", "invalid_evidence", "temporary"} : HandleInbox(m, e) = Refuse(kind)
          \/ /\ found # None
             /\ HandleInbox(m, e) = Attempt(m, FALSE, e.token, e.productKind, found[1].owner, {found[1].product}, "")
          \/ /\ googleEnvelopeValid(e) /\ e.kind = "subscription"
             /\ HandleInbox(m, e) = [pc |-> "unbound", token |-> e.token]
      BY <3>1, Zenon DEF googlePlayReconciliationCommand
    <3>4. ASSUME NEW kind \in {"rejected", "invalid_evidence", "temporary"}, HandleInbox(m, e) = Refuse(kind) PROVE IInv'
      <4>1. End(m, kind) /\ kind # ""
        BY <1>3, <3>4, RefusalEnds
      <4>2. QED
        BY <1>1, <4>1, FailJobStep
    <3>5. ASSUME found # None,
                 HandleInbox(m, e) = Attempt(m, FALSE, e.token, e.productKind, found[1].owner, {found[1].product}, "")
          PROVE  IInv'
      <4>1. rows[Token(m)] # {}
        BY <2>1, <3>5, LookupIsRow DEF IInv
      <4>2. job' = [job EXCEPT ![m] = HandleInbox(m, e)] /\ UNCHANGED <<inbox, client, missed>>
        BY <1>3, <3>5, AttemptAsks, OthersGoOn
      <4>3. HandleInbox(m, e) = Attempt(m, FALSE, Token(m), Purchase(Token(m)).kind, found[1].owner, {found[1].product}, "")
        BY <2>1, <3>2, <3>5
      <4>4. MayBind(Token(m), FALSE, found[1].owner)
        BY <2>5, <4>1 DEF MayBind
      <4>5. QED
        BY <1>1, <3>2, <4>1, <4>2, <4>3, <4>4, BindStep
    <3>6. ASSUME googleEnvelopeValid(e), e.kind = "subscription", HandleInbox(m, e) = [pc |-> "unbound", token |-> e.token]
          PROVE  IInv'
      <4> DEFINE next == [pc |-> "unbound", token |-> e.token]
      <4>1. next.pc = "unbound" /\ next.token = Token(m)
        BY <2>1
      <4>2. Purchase(Token(m)).kind = "subscription"
        BY <3>2, <3>6 DEF googleEnvelopeValid
      <4> HIDE DEF next
      <4>3. job' = [job EXCEPT ![m] = next] /\ UNCHANGED <<inbox, client, missed>>
        BY <1>3, <3>6, <4>1, OthersGoOn DEF next
      <4>4. job'[m] = next
        BY <1>1, <4>3 DEF IInv, TypeOK
      <4>5. world' = world
        BY <1>1 DEF Frame
      <4>6. WorksOn(m)'
        BY <1>1, <3>2, <4>1, <4>3, <4>4, <4>5, SameWorld DEF WorksOn, Token
      <4>7. UnboundFits(m)'
        BY <2>5, <4>1, <4>2, <4>4, <4>5, <4>6, SameWorld DEF UnboundFits
      <4>8. JobFits(m)'
        BY <4>1, <4>4, <4>7 DEF JobFits
      <4>9. QED
        BY <1>1, <4>3, <4>8, MoveStep
    <3>7. QED
      BY <3>3, <3>4, <3>5, <3>6
  <2>6. provider \in {"apple", "huawei", "google"}
    BY NotificationsAssumption DEF IInv, TypeOK, provider
  <2>7. QED
    BY <2>2, <2>3, <2>4, <2>5, <2>6
<1>4. QED
  BY <1>2, <1>3 DEF Begin

\* What Google Play says to any call is about the purchase that is asked for.
LEMMA GoogleAnswers ==
    ASSUME IInv, provider = "google", NEW t \in Tokens, NEW server \in Calls(t)
    PROVE  /\ server.purchase.linked = Purchase(t).linked /\ server.purchase.account = Purchase(t).account
           /\ Purchase(t).acknowledgeable /\ Settled(server.purchase) => t \in acknowledged
<1>1. \A s \in Range(Purchase(t).answers) \cup Purchase(t).outages : GoogleSays(Purchase(t), s)
  BY NotificationsAssumption DEF IInv, TypeOK, Tokens, Purchase, provider
<1>2. Purchase(t).answers[phase[t]] \in Range(Purchase(t).answers)
  BY DEF IInv, TypeOK, Range
<1>3. PICK s \in Range(Purchase(t).answers) \cup Purchase(t).outages :
         \/ server = s
         \/ t \in acknowledged /\ server = [s EXCEPT !.purchase.acknowledgement = "acknowledged"]
  BY <1>2 DEF Calls, Said
<1>4. GoogleSays(Purchase(t), s) /\ s.purchase.account = Purchase(t).account
  <2>1. NamesAccount(world, Purchase(t))
    BY NotificationsAssumption DEF IInv, TypeOK, Tokens, Purchase
  <2>2. QED
    BY <1>1, <2>1 DEF NamesAccount, provider
<1>5. CASE server = s
  BY <1>4, <1>5 DEF GoogleSays, Settled
<1>6. CASE t \in acknowledged /\ server = [s EXCEPT !.purchase.acknowledgement = "acknowledged"]
  <2>1. "purchase" \in DOMAIN s /\ {"acknowledgement", "linked", "account"} \subseteq DOMAIN s.purchase
    BY <1>4 DEF GoogleSays
  <2>2. server.purchase = [s.purchase EXCEPT !.acknowledgement = "acknowledged"]
    BY <1>6, <2>1
  <2>3. server.purchase.linked = s.purchase.linked /\ server.purchase.account = s.purchase.account
    BY <2>1, <2>2
  <2>4. QED
    BY <1>4, <1>6, <2>3 DEF GoogleSays
<1>7. QED
  BY <1>3, <1>5, <1>6

\* The worker asks what an unknown purchase replaces.
LEMMA StepLinkedPurchase == ASSUME IInv, NEW m \in Messages, LinkedPurchase(m) PROVE IInv'
<1>1. Frame /\ job[m].pc = "unbound" /\ m \in Actors /\ m # "client"
  BY ClientIsActor DEF LinkedPurchase, World, Frame, Working, IInv
<1>2. UnboundFits(m)
  BY <1>1 DEF IInv, JobFits
<1>3. inbox[m].status = "open" /\ job[m].token = Token(m) /\ Token(m) \in Tokens /\ provider = "google"
  BY <1>2 DEF UnboundFits, WorksOn
<1>4. PICK t : t = Token(m)
  OBVIOUS
<1> DEFINE Said1(server) == GoogleStore!LinkedPurchase([application |-> Application, kind |-> "subscription", token |-> t], server, now)
<1>5. PICK server \in Calls(t) :
         Continue(m, IF Said1(server).ok THEN [pc |-> "linked", token |-> t, linked |-> Said1(server)]
                     ELSE Refuse(IF Said1(server).kind = "not_found" THEN "temporary" ELSE Said1(server).kind))
  BY <1>3, <1>4, Zenon DEF LinkedPurchase
<1>6. PICK linked : linked = Said1(server)
  OBVIOUS
<1>7. Sound(linked) /\ (linked.ok => linked.linked \subseteq {server.purchase.linked})
  BY <1>6, GoogleLinked
<1>8. Continue(m, IF linked.ok THEN [pc |-> "linked", token |-> t, linked |-> linked]
                  ELSE Refuse(IF linked.kind = "not_found" THEN "temporary" ELSE linked.kind))
  BY <1>5, <1>6
<1> HIDE DEF Said1
<1>9. CASE ~ linked.ok
  <2>1. PICK kind : kind = IF linked.kind = "not_found" THEN "temporary" ELSE linked.kind
    OBVIOUS
  <2>2. kind # ""
    BY <1>7, <1>9, <2>1 DEF Sound
  <2>3. End(m, kind)
    BY <1>8, <1>9, <2>1, RefusalEnds
  <2>4. QED
    BY <1>1, <1>3, <2>2, <2>3, FailJobStep
<1>10. CASE linked.ok
  <2> DEFINE next == [pc |-> "linked", token |-> t, linked |-> linked]
  <2>1. next.pc = "linked" /\ next.token = t /\ next.linked = linked
    OBVIOUS
  <2>2. Continue(m, next)
    BY <1>8, <1>10
  <2> HIDE DEF next
  <2>3. job' = [job EXCEPT ![m] = next] /\ UNCHANGED <<inbox, client, missed>>
    BY <2>1, <2>2, OthersGoOn
  <2>4. job'[m] = next /\ world' = world
    BY <1>1, <2>3 DEF IInv, TypeOK, Frame
  <2>5. linked.linked \subseteq {Purchase(t).linked}
    BY <1>3, <1>4, <1>7, <1>10, GoogleAnswers
  <2>6. WorksOn(m)'
    BY <1>1, <1>3, <1>4, <2>1, <2>3, <2>4, SameWorld DEF WorksOn, Token
  <2>7. UnboundFits(m)'
    BY <1>2, <1>3, <1>4, <2>1, <2>4, <2>5, <2>6, SameWorld DEF UnboundFits
  <2>8. JobFits(m)'
    BY <2>1, <2>4, <2>7 DEF JobFits
  <2>9. QED
    BY <1>1, <2>3, <2>8, MoveStep
<1>11. QED
  BY <1>9, <1>10

\* The worker binds a replacement to the customer of what it replaces.
LEMMA StepBindReplacement == ASSUME IInv, NEW m \in Messages, BindReplacement(m) PROVE IInv'
<1>1. Frame /\ job[m].pc = "linked" /\ m \in Actors /\ m # "client"
  BY ClientIsActor DEF BindReplacement, World, Frame, Working, IInv
<1>2. UnboundFits(m)
  BY <1>1 DEF IInv, JobFits
<1>3. /\ inbox[m].status = "open" /\ job[m].token = Token(m) /\ Token(m) \in Tokens /\ provider = "google"
      /\ Purchase(Token(m)).kind = "subscription" /\ job[m].linked.linked \subseteq {Purchase(Token(m)).linked}
  BY <1>1, <1>2 DEF UnboundFits, WorksOn
<1>4. PICK linked : linked = job[m].linked
  OBVIOUS
<1> DEFINE token == IF linked.linked = {} THEN "" ELSE CHOOSE x \in linked.linked : TRUE
           replaced == PurchaseContextByReference(token)
           accounts == {r[3] : r \in {r \in linked.bindings : r[2] = bindingKind.google}}
           account == CHOOSE x \in accounts : TRUE
           next == googlePlayReplacement(m, Token(m), linked)
<1>5. Continue(m, next)
  BY <1>3, <1>4 DEF BindReplacement
<1>6. \/ \E kind \in {"invalid_evidence", "temporary"} : next = Refuse(kind)
      \/ /\ token # "" /\ replaced # None
         /\ account = replaced[1].owner \/ sameCanonicalCustomer(account, replaced[1].owner)
         /\ next = Attempt(m, FALSE, Token(m), "subscription", account, {linked.product}, "")
  BY Zenon DEF googlePlayReplacement
<1> HIDE DEF next, replaced, accounts, account
<1>7. ASSUME NEW kind \in {"invalid_evidence", "temporary"}, next = Refuse(kind) PROVE IInv'
  <2>1. End(m, kind) /\ kind # ""
    BY <1>5, <1>7, RefusalEnds
  <2>2. QED
    BY <1>1, <1>3, <2>1, FailJobStep
<1>8. ASSUME token # "", replaced # None, account = replaced[1].owner \/ sameCanonicalCustomer(account, replaced[1].owner),
             next = Attempt(m, FALSE, Token(m), "subscription", account, {linked.product}, "")
      PROVE  IInv'
  <2>1. token = Purchase(Token(m)).linked
    BY <1>3, <1>4, <1>8
  <2> HIDE DEF token
  <2>2. replaced[1] \in rows[token] /\ token \in Tokens
    BY <1>8, LookupIsRow DEF replaced, IInv
  <2>3. replaced[1].owner \in Customers
    BY <2>2 DEF IInv, RowsFit
  <2>4. account \in Customers /\ canonical[account] = canonical[replaced[1].owner]
    BY <1>8, <2>3 DEF sameCanonicalCustomer, CustomerByExternalID
  <2>5. Owned(Purchase(Token(m)).linked, account)
    BY <2>1, <2>2, <2>4 DEF Owned
  <2>6. job' = [job EXCEPT ![m] = next] /\ UNCHANGED <<inbox, client, missed>>
    BY <1>5, <1>8, AttemptAsks, OthersGoOn
  <2>7. next = Attempt(m, FALSE, Token(m), Purchase(Token(m)).kind, account, {linked.product}, "")
    BY <1>3, <1>8
  <2>8. MayBind(Token(m), FALSE, account)
    BY <1>3, <2>5 DEF MayBind
  <2>9. QED
    BY <1>1, <1>3, <2>6, <2>7, <2>8, BindStep
<1>9. QED
  BY <1>6, <1>7, <1>8

\* The stores name their failures, and what Google Play waits for.
LEMMA StoresAreSound ==
    ASSUME IInv, NEW request, NEW server, NEW verified, provider = "apple" => verified,
           NEW found, found = IF verified THEN Verify(request, server) ELSE Reconcile(request, server)
    PROVE  /\ Sound(found)
           /\ provider = "google" /\ found.ok /\ found.actions = {} => Settled(server.purchase)
<1>1. provider \in {"apple", "google", "huawei"}
  BY NotificationsAssumption DEF IInv, TypeOK, provider
<1>2. CASE provider = "apple"
  <2>1. found = AppleStore!Verify(request, server, now)
    BY <1>2 DEF Verify
  <2>2. QED
    BY <1>2, <2>1, AppleSound
<1>3. CASE provider = "huawei"
  <2>1. found \in {HuaweiStore!Verify(request, server, now), HuaweiStore!Reconcile(request, server, now)}
    BY <1>3 DEF Verify, Reconcile
  <2>2. QED
    BY <1>3, <2>1, HuaweiSound
<1>4. CASE provider = "google"
  <2>1. found \in {GoogleStore!Verify(request, server, now), GoogleStore!Reconcile(request, server, now)}
    BY <1>4 DEF Verify, Reconcile
  <2>2. QED
    BY <2>1, GoogleSound
<1>5. QED
  BY <1>1, <1>2, <1>3, <1>4

\* A result that is valid has observations.
LEMMA ValidIsSeen ==
    ASSUME NEW found, NEW request, NEW claimed,
           ValidateForVerification(found, request, claimed) \/ ValidateForReconciliation(found, request, claimed)
    PROVE  Range(found.observations) # {}
BY DEF ValidateForVerification, ValidateForReconciliation, validate

\* What Huawei says to any call names the account of the purchase.
LEMMA HuaweiAnswers ==
    ASSUME IInv, provider = "huawei", NEW t \in Tokens, NEW server \in Calls(t)
    PROVE  server.purchase.payload = Purchase(t).account
<1>1. NamesAccount(world, Purchase(t))
  BY NotificationsAssumption DEF IInv, TypeOK, Tokens, Purchase
<1>2. \A s \in Range(Purchase(t).answers) \cup Purchase(t).outages : s.purchase.payload = Purchase(t).account
  BY <1>1 DEF NamesAccount, provider
<1>3. Purchase(t).answers[phase[t]] \in Range(Purchase(t).answers)
  BY DEF IInv, TypeOK, Range
<1>4. server \in Range(Purchase(t).answers) \cup Purchase(t).outages
  BY <1>3 DEF Calls, Said
<1>5. QED
  BY <1>2, <1>4

\* The signed transaction of an attempt on an App Store purchase names its account.
LEMMA AppleEvidence ==
    ASSUME IInv, provider = "apple", NEW a \in Actors, job[a].pc = "ask"
    PROVE  Evidence(job[a]).account = Purchase(job[a].token).account
<1>1. AttemptFits(a) /\ WorksOn(a)
  BY DEF IInv, JobFits, AttemptFits
<1>2. PICK t \in Tokens : t = job[a].token
  BY <1>1 DEF WorksOn
<1>3. CASE a \in Messages
  <2>1. job[a].key = a /\ inbox[a].envelope \in Envelopes(world, a) /\ inbox[a].envelope.token = t
    BY <1>1, <1>2, <1>3 DEF AttemptFits, WorksOn, Token, IInv, MessageFits
  <2>2. StoreSays(world, a, inbox[a].envelope)
    BY <1>3, <2>1, NotificationsAssumption DEF IInv, TypeOK, Messages
  <2>3. SignedTransaction(world, a).account = Purchase(t).account
    BY <2>1, <2>2 DEF StoreSays, Tokens, Purchase, provider
  <2>4. Evidence(job[a]) = SignedTransaction(world, a)
    BY <1>3, <2>1 DEF Evidence
  <2>5. QED
    BY <1>2, <2>3, <2>4
<1>4. CASE a \notin Messages
  <2>1. job[a].key = t /\ t \notin Messages
    BY <1>1, <1>2, <1>4, NotificationsAssumption DEF AttemptFits, IInv, TypeOK, Tokens, Messages
  <2>2. Evidence(job[a]) = Purchase(t).submitted
    BY <1>2, <2>1 DEF Evidence
  <2>3. NamesAccount(world, Purchase(t))
    BY NotificationsAssumption DEF IInv, TypeOK, Tokens, Purchase
  <2>4. QED
    BY <1>2, <2>2, <2>3 DEF NamesAccount, provider
<1>5. QED
  BY <1>3, <1>4

\* An answer that is accepted was asked for with the account the store names.
LEMMA AcceptedAccount ==
    ASSUME IInv, NEW a \in Actors, job[a].pc = "ask", NEW server \in Calls(job[a].token),
           NEW found, found = IF job[a].verify THEN Verify(RequestFor(job[a]), server) ELSE Reconcile(RequestFor(job[a]), server),
           found.ok, NEW claimed,
           \/ ValidateForVerification(found, RequestFor(job[a]), claimed)
           \/ ValidateForReconciliation(found, RequestFor(job[a]), claimed)
    PROVE  job[a].external = Purchase(job[a].token).account
<1>1. PICK t \in Tokens : t = job[a].token
  BY DEF IInv, JobFits, AttemptFits, WorksOn
<1>2. PICK x, request, kind : x = job[a].external /\ request = RequestFor(job[a]) /\ kind = bindingKind[provider]
  OBVIOUS
<1>3. request.bindings = {<<"customer_binding", kind, x>>} /\ request.transaction = Evidence(job[a])
  BY <1>2 DEF RequestFor
<1>4. provider \in {"apple", "google", "huawei"} /\ (provider = "apple" => job[a].verify)
  BY NotificationsAssumption DEF IInv, TypeOK, provider, JobFits, AttemptFits
<1>5. ASSUME NEW account, \E o \in Range(found.observations) : Names(o, account) PROVE x = account
  BY <1>2, <1>3, <1>5, ValidNames
<1>6. CASE provider = "apple"
  <2>1. kind = "app_account_token"
    BY <1>2, <1>6 DEF bindingKind
  <2>2. AppleStore!Verify(request, server, now).ok
    BY <1>2, <1>4, <1>6 DEF Verify
  <2>3. x = request.transaction.account
    BY <1>3, <2>1, <2>2, AppleNames
  <2>4. QED
    BY <1>2, <1>3, <1>6, <2>3, AppleEvidence
<1>7. CASE provider = "google"
  <2>1. found \in {GoogleStore!Verify(request, server, now), GoogleStore!Reconcile(request, server, now)}
    BY <1>2, <1>7 DEF Verify, Reconcile
  <2>2. x = server.purchase.account
    BY <1>5, <2>1, GoogleSound
  <2>3. QED
    BY <1>1, <1>2, <1>7, <2>2, GoogleAnswers
<1>8. CASE provider = "huawei"
  <2>1. found = HuaweiStore!Verify(request, server, now) \/ found = HuaweiStore!Reconcile(request, server, now)
    BY <1>2, <1>8 DEF Verify, Reconcile
  <2>2. x = server.purchase.payload
    BY <1>5, <2>1, HuaweiNames
  <2>3. QED
    BY <1>1, <1>2, <1>8, <2>2, HuaweiAnswers
<1>9. QED
  BY <1>4, <1>6, <1>7, <1>8

\* A running attempt of the verification service.
LEMMA AttemptRuns ==
    ASSUME IInv, NEW a \in Actors, job[a].pc \in {"ask", "answered", "stored", "posted"}
    PROVE  /\ AttemptFits(a) /\ job[a].token \in Tokens /\ a \in DOMAIN job
           /\ a \in Messages => inbox[a].status = "open" /\ job[a].token = Token(a) /\ MessageFits(a) /\ a # "client"
           /\ a \notin Messages => a = "client"
<1>1. AttemptFits(a)
  BY DEF IInv, JobFits
<1>2. QED
  BY <1>1, ClientIsActor DEF AttemptFits, WorksOn, IInv, TypeOK, Actors

\* It goes on as next, which keeps what the attempt is about.
LEMMA OnwardStep ==
    ASSUME IInv, Frame, NEW a \in Actors, job[a].pc \in {"ask", "answered", "stored", "posted"}, NEW next,
           job' = [job EXCEPT ![a] = next], UNCHANGED <<inbox, client, missed>>,
           DOMAIN next = AttemptFields, next.pc \in {"answered", "stored", "posted"},
           \A field \in {"key", "verify", "token", "kind", "external"} : next[field] = job[a][field],
           job[a].pc \in {"stored", "posted"} => next.pc \in {"stored", "posted"},
           AnswerFits(a)', next.pc \in {"stored", "posted"} => StoredFits(a)'
    PROVE  IInv'
<1>1. /\ AttemptFits(a) /\ job[a].token \in Tokens /\ a \in DOMAIN job
  BY AttemptRuns
<1>2. job'[a] = next
  BY <1>1
<1>3. /\ next.key = job[a].key /\ next.verify = job[a].verify /\ next.token = job[a].token
      /\ next.kind = job[a].kind /\ next.external = job[a].external
  OBVIOUS
<1>4. world' = world /\ rows' = rows /\ canonical' = canonical
  BY DEF Frame
<1>5. WorksOn(a)'
  BY <1>1, <1>2, <1>3, <1>4, SameWorld DEF AttemptFits, WorksOn, Token
<1>6. Bound(a)'
  <2>1. Bound(a)
    BY <1>1 DEF AttemptFits
  <2>2. QED
    BY <1>2, <1>3, <1>4, <2>1, SameWorld DEF Bound, Owned
<1>7. AttemptFits(a)'
  BY <1>1, <1>2, <1>3, <1>4, <1>5, <1>6, SameWorld DEF AttemptFits
<1>8. JobFits(a)'
  BY <1>2, <1>7 DEF JobFits
<1>9. QED
  BY <1>3, <1>8, MoveStep

\* The store is asked for the purchase.
LEMMA StepAsk == ASSUME IInv, NEW a \in Actors, Ask(a) PROVE IInv'
<1>1. Frame /\ job[a].pc = "ask"
  BY DEF Ask, Frame, Working
<1>2. PICK current, t : current = job[a] /\ t = job[a].token
  OBVIOUS
<1>3. AttemptFits(a) /\ t \in Tokens /\ a \in DOMAIN job
  BY <1>1, <1>2, AttemptRuns
<1>4. CASE Continue(a, Refuse("storage_not_found"))
  <2>1. End(a, "storage_not_found")
    BY <1>4, RefusalEnds
  <2>2. QED
    BY <1>1, <2>1, FailStep
<1>5. ASSUME current.external \in Customers, NEW server \in Calls(t), Continue(a, Answer(current, server)) PROVE IInv'
  <2> DEFINE request == RequestFor(current)
  <2>1. PICK found : found = IF current.verify THEN Verify(request, server) ELSE Reconcile(request, server)
    OBVIOUS
  <2>2. Sound(found) /\ (provider = "google" /\ found.ok /\ found.actions = {} => Settled(server.purchase))
    <3>1. provider = "apple" => current.verify
      BY <1>2, <1>3 DEF AttemptFits
    <3>2. QED
      BY <2>1, <3>1, StoresAreSound
  <2> DEFINE next == [current EXCEPT !.pc = "answered", !.customer = CustomerByExternalID(current.external),
                                     !.found = found.observations, !.acknowledge = found.actions # {},
                                     !.phase = phase[current.token]]
  <2>3. \/ ~ found.ok /\ Answer(current, server) = Refuse(found.kind)
        \/ Answer(current, server) = Refuse("rejected")
        \/ /\ found.ok /\ Answer(current, server) = next
           /\ \E claimed : \/ ValidateForVerification(found, request, claimed)
                           \/ ValidateForReconciliation(found, request, claimed)
    BY <2>1, Zenon DEF Answer
  <2>4. CASE ~ found.ok /\ Answer(current, server) = Refuse(found.kind)
    <3>1. End(a, found.kind) /\ found.kind # ""
      BY <1>5, <2>2, <2>4, RefusalEnds DEF Sound
    <3>2. QED
      BY <1>1, <3>1, FailStep
  <2>5. CASE Answer(current, server) = Refuse("rejected")
    <3>1. End(a, "rejected")
      BY <1>5, <2>5, RefusalEnds
    <3>2. QED
      BY <1>1, <3>1, FailStep
  <2>6. ASSUME found.ok, Answer(current, server) = next,
               \E claimed : ValidateForVerification(found, request, claimed) \/ ValidateForReconciliation(found, request, claimed)
        PROVE  IInv'
    <3>1. Range(found.observations) # {} /\ current.external = Purchase(t).account
      <4>1. PICK claimed : ValidateForVerification(found, request, claimed) \/ ValidateForReconciliation(found, request, claimed)
        BY <2>6
      <4>2. current.external = Purchase(t).account
        BY <1>1, <1>2, <1>5, <2>1, <2>6, <4>1, AcceptedAccount
      <4>3. QED
        BY <4>1, <4>2, ValidIsSeen
    <3> HIDE DEF request
    <3>2. DOMAIN current = AttemptFields
      BY <1>2, <1>3 DEF AttemptFits
    <3>3. /\ DOMAIN next = AttemptFields /\ next.pc = "answered" /\ next.found = found.observations
          /\ next.acknowledge = (found.actions # {}) /\ next.phase = phase[t] /\ next.token = t
          /\ next.external = current.external
          /\ \A field \in {"key", "verify", "token", "kind", "external"} : next[field] = current[field]
      BY <1>2, <3>2 DEF AttemptFields
    <3> HIDE DEF next
    <3>4. job' = [job EXCEPT ![a] = next] /\ UNCHANGED <<inbox, client, missed>>
      BY <1>5, <2>6, <3>3, OthersGoOn
    <3>5. job'[a] = next /\ world' = world /\ phase' = phase /\ acknowledged \subseteq acknowledged'
      BY <1>1, <1>3, <3>4 DEF Frame
    <3>6. next.acknowledge \/ Acked(t)'
      <4>1. CASE found.actions # {}
        BY <3>3, <4>1
      <4>2. CASE found.actions = {}
        <5>1. provider = "google" => Settled(server.purchase)
          BY <2>2, <2>6, <4>2
        <5>2. provider = "google" /\ Purchase(t).acknowledgeable => t \in acknowledged
          BY <1>3, <5>1, GoogleAnswers
        <5>3. QED
          BY <3>5, <5>2, SameWorld DEF Acked
      <4>3. QED
        BY <4>1, <4>2
    <3>7. phase[t] \in Nat /\ phase[t] \in 0 .. phase[t]
      BY <1>3, PhaseIsNat DEF IInv
    <3>8. a \in Messages => Pushes[world][a].phase <= phase[t]
      BY <1>1, <1>2, <1>3, AttemptRuns DEF MessageFits
    <3>9. AnswerFits(a)'
      <4>1. /\ job'[a].external \in Customers /\ Range(job'[a].found) # {} /\ job'[a].phase = phase[t] /\ job'[a].token = t
            /\ job'[a].external = Purchase(t).account
        BY <1>5, <3>1, <3>3, <3>5
      <4>2. job'[a].acknowledge \/ Acked(t)'
        BY <3>5, <3>6
      <4>3. QED
        BY <3>5, <3>7, <3>8, <4>1, <4>2, SameWorld DEF AnswerFits, Acked
    <3>10. QED
      BY <1>1, <1>2, <3>3, <3>4, <3>9, OnwardStep
  <2>7. QED
    BY <2>3, <2>4, <2>5, <2>6
<1>6. QED
  BY <1>2, <1>4, <1>5 DEF Ask

\* A row that is seen again.
LEMMA RefreshedRow ==
    ASSUME NEW r, NEW a, NEW n \in Nat, a.phase \in 0 .. n, DOMAIN r = RowFields, r.phase \in 0 .. n
    PROVE  /\ DOMAIN Refreshed(r, a) = RowFields /\ Refreshed(r, a).owner = r.owner
           /\ Refreshed(r, a).submitted = r.submitted
           /\ Refreshed(r, a).phase \in 0 .. n /\ r.phase <= Refreshed(r, a).phase
           /\ (\E o \in Range(a.found) : o.id = r.id) => Refreshed(r, a).phase >= a.phase
<1>1. CASE r.phase < a.phase /\ \E o \in Range(a.found) : o.id = r.id
  <2>1. Refreshed(r, a) = [r EXCEPT !.phase = a.phase]
    BY <1>1 DEF Refreshed
  <2>2. Refreshed(r, a).phase = a.phase /\ DOMAIN Refreshed(r, a) = RowFields /\ Refreshed(r, a).owner = r.owner
        /\ Refreshed(r, a).submitted = r.submitted
    BY <2>1 DEF RowFields
  <2>3. QED
    BY <1>1, <2>2
<1>2. CASE ~ (r.phase < a.phase /\ \E o \in Range(a.found) : o.id = r.id)
  <2>1. Refreshed(r, a) = r
    BY <1>2 DEF Refreshed
  <2>2. QED
    BY <1>2, <2>1
<1>3. QED
  BY <1>1, <1>2

\* What is saved: every row that was stored, and the answer.
Savable(stored, owner, a, n) ==
    /\ n \in Nat /\ owner \in Customers /\ a.phase \in 0 .. n /\ Range(a.found) # {}
    /\ \A r \in stored : DOMAIN r = RowFields /\ r.owner \in Customers /\ r.phase \in 0 .. n
Saved(saved, stored, owner, a, n) ==
    /\ \A s \in saved : s.owner = owner \/ \E r \in stored : s.owner = r.owner
    /\ \A s \in saved : DOMAIN s = RowFields /\ s.owner \in Customers /\ s.phase \in 0 .. n
    /\ \A r \in stored : \E s \in saved : s.owner = r.owner /\ r.phase <= s.phase /\ (r.submitted => s.submitted)
    /\ \E s \in saved : s.phase >= a.phase
    /\ stored = {} => \A s \in saved : s.submitted = a.verify
\* The rows of the transaction are those.
LEMMA SavedRows ==
    \A stored, owner, a, n : Savable(stored, owner, a, n) => Saved(SaveObservation(stored, owner, a), stored, owner, a, n)
<1> SUFFICES ASSUME NEW stored, NEW owner, NEW a, NEW n, Savable(stored, owner, a, n), NEW saved, saved = SaveObservation(stored, owner, a)
             PROVE  Saved(saved, stored, owner, a, n)
  OBVIOUS
<1>0. /\ n \in Nat /\ owner \in Customers /\ a.phase \in 0 .. n /\ Range(a.found) # {}
      /\ \A r \in stored : DOMAIN r = RowFields /\ r.owner \in Customers /\ r.phase \in 0 .. n
  BY DEF Savable
<1> DEFINE new == {o \in Range(a.found) : \A r \in stored : r.id # o.id}
           Row(o) == [id |-> o.id, product |-> o.snapshot.product, kind |-> o.snapshot.kind, owner |-> owner,
                      submitted |-> a.verify, phase |-> a.phase]
<1>1. saved = {Refreshed(r, a) : r \in stored} \cup {Row(o) : o \in new}
  BY DEF SaveObservation
<1>2. \A o : DOMAIN Row(o) = RowFields /\ Row(o).owner = owner /\ Row(o).phase = a.phase /\ Row(o).submitted = a.verify
  BY DEF RowFields
<1>3. \A r \in stored : /\ DOMAIN Refreshed(r, a) = RowFields /\ Refreshed(r, a).owner = r.owner
                        /\ Refreshed(r, a).submitted = r.submitted
                        /\ Refreshed(r, a).phase \in 0 .. n /\ r.phase <= Refreshed(r, a).phase
                        /\ (\E o \in Range(a.found) : o.id = r.id) => Refreshed(r, a).phase >= a.phase
  BY <1>0, RefreshedRow
<1> HIDE DEF Row
<1>4. \A s \in saved : DOMAIN s = RowFields /\ s.owner \in Customers /\ s.phase \in 0 .. n
  BY <1>0, <1>1, <1>2, <1>3
<1>5. \A r \in stored : \E s \in saved : s.owner = r.owner /\ r.phase <= s.phase /\ (r.submitted => s.submitted)
  BY <1>1, <1>3
<1>6. \E s \in saved : s.phase >= a.phase
  <2>1. PICK o \in Range(a.found) : TRUE
    BY <1>0
  <2>2. CASE o \in new
    <3>1. Row(o) \in saved
      BY <1>1, <2>2
    <3>2. a.phase >= a.phase
      BY <1>0
    <3>3. QED
      BY <1>2, <3>1, <3>2
  <2>3. CASE o \notin new
    <3>1. PICK r \in stored : r.id = o.id
      BY <2>1, <2>3
    <3>2. Refreshed(r, a) \in saved
      BY <1>1, <3>1
    <3>3. QED
      BY <1>3, <2>1, <3>1, <3>2
  <2>4. QED
    BY <2>2, <2>3
<1>7. stored = {} => \A s \in saved : s.submitted = a.verify
  BY <1>1, <1>2
<1>8. \A s \in saved : s.owner = owner \/ \E r \in stored : s.owner = r.owner
  BY <1>1, <1>2, <1>3
<1>9. QED
  BY <1>4, <1>5, <1>6, <1>7, <1>8 DEF Saved

\* The answer of attempt a is stored for the customer of its id.
Stores(a, owner, saved) ==
    /\ saved = SaveObservation(rows[job[a].token], owner, job[a]) /\ owner \in Customers
    /\ canonical[owner] = canonical[job[a].external]
    /\ rows' = [rows EXCEPT ![job[a].token] = saved]
    /\ evidence' = [evidence EXCEPT ![job[a].key] = <<owner>>]
    /\ job' = [job EXCEPT ![a].pc = "stored"]
    /\ UNCHANGED <<inbox, client, missed>>

\* Storing an answer keeps the invariant.
LEMMA StoreStep ==
    ASSUME IInv, NEW a \in Actors, job[a].pc = "answered", NEW owner, NEW saved, Stores(a, owner, saved),
           UNCHANGED <<world, phase, canonical, acknowledged, scheduled>>
    PROVE  IInv'
<1>1. PICK current, t, x : current = job[a] /\ t = job[a].token /\ x = job[a].external
  OBVIOUS
<1>2. /\ AttemptFits(a) /\ AnswerFits(a) /\ WorksOn(a) /\ t \in Tokens /\ a \in DOMAIN job
      /\ a \in Messages => inbox[a].status = "open" /\ t = Token(a) /\ MessageFits(a) /\ a # "client"
      /\ a \notin Messages => a = "client"
  <2>1. /\ AttemptFits(a) /\ t \in Tokens /\ a \in DOMAIN job
        /\ a \in Messages => inbox[a].status = "open" /\ t = Token(a) /\ MessageFits(a) /\ a # "client"
        /\ a \notin Messages => a = "client"
    BY <1>1, AttemptRuns
  <2>2. AnswerFits(a) /\ WorksOn(a)
    BY <2>1 DEF AttemptFits
  <2>3. QED
    BY <2>1, <2>2
<1>3. /\ DOMAIN current = AttemptFields /\ current.kind = Purchase(t).kind
      /\ current.key = (IF a \in Messages THEN a ELSE t) /\ current.key \in Tokens \cup Messages
      /\ x \in Customers /\ x = Purchase(t).account /\ Range(current.found) # {} /\ current.phase \in 0 .. phase[t]
      /\ a \in Messages => Pushes[world][a].phase <= current.phase
      /\ current.acknowledge \/ Acked(t)
  BY <1>1, <1>2 DEF AttemptFits, AnswerFits
<1>4. DOMAIN rows = Tokens /\ DOMAIN evidence = Tokens \cup Messages /\ DOMAIN job = Actors
  BY DEF IInv, TypeOK
<1>5. rows'[t] = saved /\ DOMAIN rows' = Tokens /\ \A u \in Tokens \ {t} : rows'[u] = rows[u]
  BY <1>1, <1>2, <1>4 DEF Stores
<1>6. phase[t] \in Nat /\ \A u \in Tokens : phase[u] \in Nat /\ \A r \in rows[u] : r.phase \in Nat
  BY <1>2, PhaseIsNat DEF IInv
<1>7. /\ \A s \in saved : DOMAIN s = RowFields /\ s.owner \in Customers /\ s.phase \in 0 .. phase[t]
      /\ \A r \in rows[t] : \E s \in saved : s.owner = r.owner /\ r.phase <= s.phase /\ (r.submitted => s.submitted)
      /\ \E s \in saved : s.phase >= current.phase
      /\ rows[t] = {} => \A s \in saved : s.submitted = current.verify
      /\ \A s \in saved : s.owner = owner \/ \E r \in rows[t] : s.owner = r.owner
  <2>1. \A r \in rows[t] : DOMAIN r = RowFields /\ r.owner \in Customers /\ r.phase \in 0 .. phase[t]
    BY <1>2 DEF IInv, RowsFit
  <2>2. saved = SaveObservation(rows[t], owner, current) /\ owner \in Customers
    BY <1>1 DEF Stores
  <2>3. Savable(rows[t], owner, current, phase[t])
    BY <1>3, <1>6, <2>1, <2>2 DEF Savable
  <2>4. QED
    BY <2>2, <2>3, SavedRows DEF Saved
<1>8. world' = world /\ canonical' = canonical /\ phase' = phase /\ acknowledged' = acknowledged
  OBVIOUS
<1>9. job'[a] = [current EXCEPT !.pc = "stored"] /\ DOMAIN job' = Actors /\ \A b \in Actors \ {a} : job'[b] = job[b]
  BY <1>1, <1>4 DEF Stores
<1>10. TypeOK'
  <2>1. DOMAIN evidence' = Tokens \cup Messages /\ \A k \in Tokens \cup Messages : evidence'[k] = None \/ evidence'[k][1] \in Customers
    <3>1. evidence' = [evidence EXCEPT ![current.key] = <<owner>>] /\ owner \in Customers
      BY <1>1 DEF Stores
    <3>2. QED
      BY <1>4, <3>1 DEF IInv, TypeOK
  <2>2. UNCHANGED <<inbox, client>>
    BY DEF Stores
  <2>3. QED
    BY <1>5, <1>8, <1>9, <2>1, <2>2, SameWorld DEF IInv, TypeOK
<1>11. RowsFit'
  <2>1. \A u \in Tokens : \A r \in rows'[u] : DOMAIN r = RowFields /\ r.owner \in Customers /\ r.phase \in 0 .. phase[u]
    BY <1>5, <1>7 DEF IInv, RowsFit
  <2>2. \A r \in rows[t] : canonical[r.owner] = canonical[x]
    BY <1>2, <1>3 DEF IInv, RowsFit
  <2>3. \A s \in saved : canonical[s.owner] = canonical[x]
    BY <1>1, <1>7, <2>2 DEF Stores
  <2>4. \A u \in Tokens : \A r \in rows'[u] : Purchase(u).account \in Customers /\ canonical[r.owner] = canonical[Purchase(u).account]
    BY <1>3, <1>5, <2>3 DEF IInv, RowsFit
  <2>5. QED
    BY <1>8, <2>1, <2>4, SameWorld DEF RowsFit
<1>12. Grows
  <2>1. \A u \in Tokens : \A r \in rows[u] : \E s \in rows'[u] : s.owner = r.owner /\ r.phase <= s.phase /\ (r.submitted => s.submitted)
    BY <1>5, <1>6, <1>7
  <2>2. QED
    BY <1>6, <1>8, <2>1 DEF Grows
<1>13. UNCHANGED <<inbox, client, missed>>
  BY DEF Stores
<1>14. saved # {} /\ Owned(t, x)'
  <2>1. saved # {} /\ \A s \in saved : canonical[s.owner] = canonical[x]
    BY <1>2, <1>3, <1>5, <1>7, <1>8, <1>11, SameWorld DEF RowsFit
  <2>2. QED
    BY <1>3, <1>5, <1>8, <2>1 DEF Owned
<1>15. ASSUME a \in Messages PROVE Seen(t, Pushes[world][a].phase)'
  <2>1. PICK n \in Nat : n = Pushes[world][a].phase
    BY <1>2, <1>15, AnnouncedPhase DEF IInv
  <2>2. PICK s \in saved : s.phase >= current.phase
    BY <1>7
  <2>3. s.phase \in 0 .. phase[t]
    BY <1>7, <2>2
  <2>4. s.phase >= n
    BY <1>3, <1>6, <1>15, <2>1, <2>2, <2>3
  <2>5. QED
    BY <1>5, <1>8, <2>1, <2>2, <2>4 DEF Seen
<1>16. JobFits(a)'
  <2>1. /\ job'[a].pc = "stored" /\ DOMAIN job'[a] = AttemptFields
        /\ \A field \in AttemptFields \ {"pc"} : job'[a][field] = current[field]
    BY <1>3, <1>9 DEF AttemptFields
  <2>2. /\ job'[a].token = t /\ job'[a].external = x /\ job'[a].kind = current.kind /\ job'[a].key = current.key
        /\ job'[a].verify = current.verify /\ job'[a].found = current.found /\ job'[a].phase = current.phase
        /\ job'[a].acknowledge = current.acknowledge
    BY <1>1, <2>1 DEF AttemptFields
  <2>3. WorksOn(a)'
    BY <1>1, <1>2, <1>8, <1>13, <2>2, SameWorld DEF WorksOn, Token
  <2>4. Bound(a)'
    BY <1>5, <1>14, <2>2 DEF Bound
  <2>5. AnswerFits(a)'
    BY <1>3, <1>8, <2>2, SameWorld DEF AnswerFits, Acked
  <2>6. StoredFits(a)'
    BY <1>8, <1>14, <1>15, <2>1, <2>2, SameWorld DEF StoredFits, Owned, Seen
  <2>7. provider = "apple" => current.verify
    BY <1>1, <1>2 DEF AttemptFits
  <2>8. AttemptFits(a)'
    BY <1>3, <1>5, <1>8, <1>14, <2>1, <2>2, <2>3, <2>4, <2>5, <2>6, <2>7, SameWorld DEF AttemptFits
  <2>9. QED
    BY <2>1, <2>8 DEF JobFits
<1>17. \A b \in Actors' : JobFits(b)'
  <2>1. ASSUME NEW b \in Actors, b # a PROVE JobFits(b)'
    BY <1>9, <1>10, <1>11, <1>12, <1>13, <2>1, JobKept DEF IInv
  <2>2. QED
    BY <1>8, <1>16, <2>1, SameWorld
<1>18. \A m \in Messages' : MessageFits(m)'
  BY <1>8, <1>10, <1>11, <1>12, <1>13, SameWorld, MessageKept DEF IInv
<1>19. ClientFits'
  BY <1>10, <1>11, <1>12, <1>13, ClientKept DEF IInv
<1>20. ReplacementsFit'
  <2>1. ASSUME NEW u \in Tokens, rows'[u] # {}, Purchase(u).linked # ""
        PROVE  Submitted(u)' \/ SameOwner(u, Purchase(u).linked)'
    <3>1. CASE rows[u] # {}
      BY <1>10, <1>11, <1>12, <2>1, <3>1, ReplacementsKept DEF IInv
    <3>2. CASE rows[u] = {}
      <4>1. u = t
        BY <1>5, <2>1, <3>2
      <4>2. CASE current.verify
        BY <1>5, <1>7, <1>14, <3>2, <4>1, <4>2 DEF Submitted
      <4>3. CASE ~ current.verify
        <5>1. Owned(Purchase(t).linked, x)
          BY <1>1, <1>2, <2>1, <3>2, <4>1, <4>3 DEF AttemptFits, Bound
        <5>2. PICK v \in Tokens : v = Purchase(t).linked
          BY <2>1, <4>1, LinkedIsKnown DEF IInv
        <5>3. PICK s \in rows[v] : canonical[s.owner] = canonical[x]
          BY <5>1, <5>2 DEF Owned
        <5>4. rows'[v] = rows[v]
          BY <1>5, <3>2, <4>1, <5>2, <5>3
        <5>5. PICK r \in rows'[t] : canonical[r.owner] = canonical[x]
          BY <1>8, <1>14 DEF Owned
        <5>6. SameOwner(t, v)'
          BY <1>8, <5>3, <5>4, <5>5 DEF SameOwner
        <5>7. QED
          BY <1>8, <4>1, <5>2, <5>6, SameWorld DEF SameOwner
      <4>4. QED
        BY <4>2, <4>3
    <3>3. QED
      BY <3>1, <3>2
  <2>2. QED
    BY <1>8, <2>1, SameWorld DEF ReplacementsFit
<1>21. Watched'
  <2>1. job'[a].pc = "stored" /\ job'[a].token = t
    BY <1>1, <1>3, <1>9 DEF AttemptFields
  <2>2. rows[t] # {} \/ Excused(t)'
    <3>1. CASE a = "client"
      BY <2>1, <3>1 DEF Excused
    <3>2. CASE a \in Messages /\ provider = "huawei"
      BY <1>1, <1>2, <3>2 DEF AttemptFits
    <3>3. CASE a \in Messages /\ provider # "huawei"
      <4>1. inbox'[a].status = "open" /\ Token(a)' = t /\ Kept(a)'
        BY <1>2, <1>8, <1>13, <3>3, SameWorld DEF Token, Kept
      <4>2. QED
        BY <1>8, <3>3, <4>1, SameWorld DEF Excused
    <3>4. QED
      BY <1>2, <3>1, <3>2, <3>3
  <2>3. \A u \in Tokens : rows'[u] # {} => rows[u] # {} \/ Excused(u)'
    BY <1>5, <2>2
  <2>4. Token(a)' = Token(a)
    BY <1>13 DEF Token
  <2>5. job[a].pc \notin {"stored", "posted"}
    OBVIOUS
  <2>6. QED
    BY <1>8, <1>9, <1>13, <2>3, <2>4, <2>5, WatchedKept
<1>22. QED
  BY <1>10, <1>11, <1>17, <1>18, <1>19, <1>20, <1>21 DEF IInv

\* The transaction stores the answer or refuses it.
LEMMA StepPersist == ASSUME IInv, NEW a \in Actors, Persist(a) PROVE IInv'
<1> DEFINE current == job[a]
           owner == CustomerByExternalID(current.external)
           Closure(customers) == \A c \in customers : canonical[c] = owner
           stored == SaveEvidence(current.key, owner)
           saved == SaveObservation(rows[current.token], stored, current)
           again == {r \in rows[current.token] : \E o \in Range(current.found) : o.id = r.id}
<1>1. job[a].pc = "answered" /\ UNCHANGED <<world, phase, canonical, acknowledged, scheduled>>
  BY DEF Persist, Working
<1>2. AttemptFits(a) /\ AnswerFits(a)
  <2>1. AttemptFits(a)
    BY <1>1, AttemptRuns
  <2>2. QED
    BY <1>1, <2>1 DEF AttemptFits
<1>3. \/ \E kind \in {"storage_conflict", "storage_not_found", "rejected"} : End(a, kind) /\ UNCHANGED <<rows, evidence>>
      \/ /\ Closure({stored} \cup {r.owner : r \in again})
         /\ rows' = [rows EXCEPT ![current.token] = saved]
         /\ evidence' = [evidence EXCEPT ![current.key] = <<stored>>]
         /\ job' = [job EXCEPT ![a].pc = "stored"]
         /\ UNCHANGED <<inbox, client, missed>>
  BY DEF Persist
<1>4. CASE \E kind \in {"storage_conflict", "storage_not_found", "rejected"} : End(a, kind) /\ UNCHANGED <<rows, evidence>>
  <2>1. PICK kind \in {"storage_conflict", "storage_not_found", "rejected"} : End(a, kind) /\ UNCHANGED <<rows, evidence>>
    BY <1>4
  <2>2. Frame /\ kind # "" /\ job[a].pc # "idle"
    BY <1>1, <2>1 DEF Frame
  <2>3. QED
    BY <2>1, <2>2, FailStep
<1>5. CASE /\ Closure({stored} \cup {r.owner : r \in again})
           /\ rows' = [rows EXCEPT ![current.token] = saved]
           /\ evidence' = [evidence EXCEPT ![current.key] = <<stored>>]
           /\ job' = [job EXCEPT ![a].pc = "stored"]
           /\ UNCHANGED <<inbox, client, missed>>
  <2>1. owner \in Customers
    BY <1>2 DEF AnswerFits, IInv, TypeOK, CustomerByExternalID
  <2>2. stored \in Customers
    <3>1. current.key \in Tokens \cup Messages
      BY <1>2 DEF AttemptFits, WorksOn
    <3>2. QED
      BY <2>1, <3>1 DEF IInv, TypeOK, SaveEvidence
  <2>3. canonical[stored] = canonical[job[a].external]
    BY <1>5 DEF CustomerByExternalID
  <2>4. Stores(a, stored, saved)
    BY <1>5, <2>2, <2>3 DEF Stores
  <2>5. QED
    BY <1>1, <2>4, StoreStep
<1>6. QED
  BY <1>3, <1>4, <1>5

\* What is stored is acknowledged.
LEMMA StepPostCommit == ASSUME IInv, NEW a \in Actors, PostCommit(a) PROVE IInv'
<1>1. Frame /\ job[a].pc = "stored"
  BY DEF PostCommit, Frame, Working
<1>2. PICK current, t : current = job[a] /\ t = job[a].token
  OBVIOUS
<1>3. AttemptFits(a) /\ AnswerFits(a) /\ StoredFits(a) /\ t \in Tokens /\ a \in DOMAIN job /\ DOMAIN current = AttemptFields
  <2>1. AttemptFits(a) /\ t \in Tokens /\ a \in DOMAIN job
    BY <1>1, <1>2, AttemptRuns
  <2>2. QED
    BY <1>1, <1>2, <2>1 DEF AttemptFits
<1>4. \/ \E kind : kind # "" /\ End(a, kind)
      \/ /\ current.acknowledge => t \in acknowledged'
         /\ job' = [job EXCEPT ![a].pc = "posted"] /\ UNCHANGED <<inbox, client, missed>>
  BY <1>2 DEF PostCommit, PostCommitFailure
<1>5. CASE \E kind : kind # "" /\ End(a, kind)
  BY <1>1, <1>5, FailStep
<1>6. CASE /\ current.acknowledge => t \in acknowledged'
           /\ job' = [job EXCEPT ![a].pc = "posted"] /\ UNCHANGED <<inbox, client, missed>>
  <2> DEFINE next == [current EXCEPT !.pc = "posted"]
  <2>1. job' = [job EXCEPT ![a] = next] /\ job'[a] = next
    BY <1>2, <1>3, <1>6
  <2>2. /\ DOMAIN next = AttemptFields /\ next.pc = "posted"
        /\ \A field \in AttemptFields \ {"pc"} : next[field] = current[field]
    BY <1>3 DEF AttemptFields
  <2> HIDE DEF next
  <2>3. /\ next.token = t /\ next.external = current.external /\ next.found = current.found
        /\ next.phase = current.phase /\ next.acknowledge = current.acknowledge
        /\ \A field \in {"key", "verify", "token", "kind", "external"} : next[field] = current[field]
    BY <1>2, <2>2 DEF AttemptFields
  <2>4. world' = world /\ phase' = phase /\ rows' = rows /\ canonical' = canonical /\ acknowledged \subseteq acknowledged'
    BY <1>1 DEF Frame
  <2>5. Acked(t)'
    BY <1>2, <1>3, <1>6, <2>4, SameWorld DEF AnswerFits, Acked
  <2>6. AnswerFits(a)'
    BY <1>2, <1>3, <2>1, <2>3, <2>4, <2>5, SameWorld DEF AnswerFits, Acked
  <2>7. StoredFits(a)'
    BY <1>2, <1>3, <2>1, <2>3, <2>4, <2>5, SameWorld DEF StoredFits, Owned, Seen, Acked
  <2>8. QED
    BY <1>1, <1>2, <1>6, <2>1, <2>2, <2>3, <2>6, <2>7, OnwardStep
<1>7. QED
  BY <1>4, <1>5, <1>6

\* The daily refresh is scheduled and the attempt ends.
LEMMA StepSchedule == ASSUME IInv, NEW a \in Actors, Schedule(a) PROVE IInv'
<1>1. Frame /\ job[a].pc = "posted" /\ Working(a, "posted")
  BY DEF Schedule, Frame, Working
<1>2. PICK t : t = job[a].token
  OBVIOUS
<1>3. /\ AttemptFits(a) /\ StoredFits(a) /\ t \in Tokens /\ job[a].kind = Purchase(t).kind
      /\ a \in Messages => inbox[a].status = "open" /\ t = Token(a) /\ a # "client"
      /\ a \notin Messages => a = "client"
  <2>1. /\ AttemptFits(a) /\ t \in Tokens
        /\ a \in Messages => inbox[a].status = "open" /\ t = Token(a) /\ a # "client"
        /\ a \notin Messages => a = "client"
    BY <1>1, <1>2, AttemptRuns
  <2>2. QED
    BY <1>1, <1>2, <2>1 DEF AttemptFits
<1>4. CASE a \in Messages
  <2>1. \/ EndJob(a, "unavailable")
        \/ EndJob(a, "") /\ (provider # "huawei" /\ Purchase(t).kind = "subscription" => t \in scheduled')
    BY <1>2, <1>3, <1>4 DEF Schedule, End, requiresReconciliation
  <2>2. CASE EndJob(a, "unavailable")
    BY <1>1, <1>3, <1>4, <2>2, EndJobStep
  <2>3. CASE EndJob(a, "") /\ (provider # "huawei" /\ Purchase(t).kind = "subscription" => t \in scheduled')
    <3>1. Seen(t, Pushes[world][a].phase) /\ Acked(t)
      BY <1>1, <1>2, <1>3, <1>4 DEF StoredFits
    <3>2. Acked(t)'
      BY <1>1, <3>1, SameWorld DEF Acked, Frame
    <3>3. Acked(Token(a))'
      <4>1. Token(a)' = t
        <5>1. a \in DOMAIN inbox /\ DOMAIN inbox[a] = MessageFields
          BY <1>4 DEF IInv, TypeOK
        <5>2. inbox'[a].envelope = inbox[a].envelope
          BY <2>3, <5>1 DEF EndJob, MessageFields
        <5>3. QED
          BY <1>3, <1>4, <5>2 DEF Token
      <4>2. QED
        BY <3>2, <4>1 DEF Acked, Purchase
    <3>4. QED
      BY <1>1, <1>3, <1>4, <2>3, <3>1, <3>3, EndJobStep
  <2>4. QED
    BY <2>1, <2>2, <2>3
<1>5. CASE a = "client"
  <2>1. /\ job' = [job EXCEPT !["client"] = Idle] /\ inbox' = inbox /\ missed \subseteq missed'
        /\ Purchase(t).kind = "subscription" => t \in missed' \cup scheduled'
    BY <1>2, <1>3, <1>5 DEF Schedule, End, EndItem, requiresReconciliation
  <2>2. Replies("")
    BY <1>5 DEF Schedule, End, EndItem, Replies, requiresReconciliation
  <2>3. QED
    BY <1>1, <1>2, <1>5, <2>1, <2>2, EndItemStep
<1>6. QED
  BY <1>3, <1>4, <1>5

--------------------------------------------------------------------------------
(* The whole system.                                                         *)

\* The inbox may hold messages of an earlier release; nothing else has happened.
LEMMA InitFits == Init => IInv
<1> SUFFICES ASSUME Init PROVE IInv
  OBVIOUS
<1>1. /\ world \in DOMAIN Provider /\ canonical = [e \in Customers |-> e] /\ rows = [t \in Tokens |-> {}]
      /\ evidence = [k \in Tokens \cup Messages |-> None]
      /\ job = [a \in Actors |-> Idle] /\ client = [request |-> << >>, next |-> 0, answer |-> 200]
  BY DEF Init
<1>2. PICK left \in Legacy[world] :
        /\ inbox = [m \in Messages |-> IF m \in DOMAIN left THEN [status |-> "open", envelope |-> left[m], failure |-> ""] ELSE Absent]
        /\ phase = [t \in Tokens |-> IF \E m \in DOMAIN left : left[m].token = t THEN Len(Purchase(t).answers) ELSE 1]
  BY DEF Init
<1>3. \A t \in Tokens : rows[t] = {}
  BY <1>1
<1>4. \A a \in Actors : job[a].pc = "idle"
  BY <1>1, IdleIsIdle
<1>5. DOMAIN left \subseteq Messages
  BY <1>1, NotificationsAssumption DEF Messages
<1>6. ASSUME NEW m \in Messages
      PROVE  /\ DOMAIN inbox[m] = MessageFields
             /\ inbox[m].status \in {"none", "open"}
             /\ inbox[m].status = "open" => m \in DOMAIN left /\ inbox[m].envelope = left[m]
  BY <1>2 DEF Absent, MessageFields
<1>7. ASSUME NEW t \in Tokens
      PROVE  /\ DOMAIN Purchase(t).answers = 1 .. Len(Purchase(t).answers)
             /\ Len(Purchase(t).answers) \in Nat \ {0}
  <2>1. Purchase(t).answers \in Seq(Range(Purchase(t).answers)) /\ Purchase(t).answers # << >>
    BY <1>1, NotificationsAssumption DEF Tokens, Purchase
  <2>2. QED
    BY <2>1
<1>8. TypeOK
  <2>1. DOMAIN phase = Tokens /\ \A t \in Tokens : phase[t] \in DOMAIN Purchase(t).answers
    <3>1. ASSUME NEW t \in Tokens PROVE phase[t] \in DOMAIN Purchase(t).answers
      <4>1. phase[t] \in {1, Len(Purchase(t).answers)}
        BY <1>2
      <4>2. QED
        BY <1>7, <4>1
    <3>2. QED
      BY <1>2, <3>1
  <2>2. canonical \in [Customers -> Customers]
    BY <1>1
  <2>3. DOMAIN inbox = Messages
    BY <1>2
  <2>4. DOMAIN evidence = Tokens \cup Messages /\ \A k \in Tokens \cup Messages : evidence[k] = None
    BY <1>1
  <2>5. DOMAIN rows = Tokens /\ DOMAIN job = Actors /\ DOMAIN client = {"request", "next", "answer"}
    BY <1>1
  <2>6. QED
    BY <1>1, <1>6, <2>1, <2>2, <2>3, <2>4, <2>5 DEF TypeOK
<1>9. RowsFit
  BY <1>3 DEF RowsFit
<1>10. ASSUME NEW m \in Messages PROVE MessageFits(m)
  <2> SUFFICES ASSUME inbox[m].status = "open" PROVE MessageFits(m)
    BY <1>6 DEF MessageFits
  <2>1. m \in DOMAIN left /\ inbox[m].envelope = left[m]
    BY <1>6
  <2>2. inbox[m].envelope \in Envelopes(world, m)
    BY <2>1 DEF Envelopes
  <2>3. ASSUME Token(m) \in Tokens PROVE Pushes[world][m].phase <= phase[Token(m)]
    <3>1. PICK t \in Tokens : t = Token(m)
      BY <2>3
    <3>2. StoreSays(world, m, inbox[m].envelope)
      BY <1>1, <2>2, NotificationsAssumption DEF Messages
    <3>3. Pushes[world][m].phase \in DOMAIN Purchase(t).answers
      BY <3>1, <3>2 DEF StoreSays, Token, Tokens, Purchase
    <3>4. left[m].token = t
      BY <2>1, <3>1 DEF Token
    <3>5. phase[t] = Len(Purchase(t).answers)
      BY <1>2, <2>1, <3>4
    <3>6. Pushes[world][m].phase <= phase[t]
      BY <1>7, <3>3, <3>5
    <3>7. QED
      BY <3>1, <3>6
  <2>4. QED
    BY <2>2, <2>3 DEF MessageFits
<1>11. ClientFits
  <2>1. client.request = << >> /\ client.answer = 200
    BY <1>1
  <2>2. client.answer # 0
    BY <2>1, CodesDiffer, Zenon
  <2>3. QED
    BY <2>1, <2>2, Zenon DEF ClientFits
<1>12. (\A a \in Actors : JobFits(a)) /\ Watched /\ ReplacementsFit
  BY <1>3, <1>4 DEF JobFits, Watched, ReplacementsFit
<1>13. QED
  BY <1>8, <1>9, <1>10, <1>11, <1>12 DEF IInv

\* Nothing changes.
LEMMA StepUnchanged == ASSUME IInv, UNCHANGED vars PROVE IInv'
<1>1. Frame /\ UNCHANGED <<rows, job, inbox, client, missed, scheduled>>
  BY DEF vars, Frame
<1>2. Grows /\ RowsFit'
  BY <1>1, FrameGrows
<1>3. TypeOK'
  BY <1>1, FrameType DEF IInv, TypeOK
<1>4. QED
  BY <1>1, <1>2, <1>3, StillStep

\* A step of the verification service.
LEMMA StepWork == ASSUME IInv, NEW a \in Actors, Work(a) PROVE IInv'
BY StepAsk, StepPersist, StepPostCommit, StepSchedule DEF Work

\* Every step keeps the invariant.
LEMMA StepNext == IInv /\ [Next]_vars => IInv'
<1> SUFFICES ASSUME IInv, [Next]_vars PROVE IInv'
  OBVIOUS
<1>1. "client" \in Actors /\ \A m \in Messages : m \in Actors
  BY ClientIsActor DEF IInv
<1>2. ASSUME NEW m \in Messages, Handle(m) PROVE IInv'
  BY <1>1, <1>2, StepBegin, StepLinkedPurchase, StepBindReplacement, StepWork DEF Handle
<1>3. ASSUME NEW m \in Messages, Push(m) PROVE IInv'
  BY <1>3, StepPush
<1>4. ASSUME NEW a \in Actors, Crash(a) PROVE IInv'
  BY <1>4, StepCrash
<1>5. CASE verify
  BY <1>5, StepVerify
<1>6. CASE Work("client")
  BY <1>1, <1>6, StepWork
<1>7. ASSUME NEW r \in Requests[world], restorePurchases(r) PROVE IInv'
  BY <1>7, StepRestore
<1>8. ASSUME NEW t \in Tokens, Advance(t) PROVE IInv'
  BY <1>8, StepAdvance
<1>9. ASSUME NEW c \in Merges, MergeCustomers(c[1], c[2]) PROVE IInv'
  BY <1>9, StepMerge
<1>10. CASE UNCHANGED vars
  BY <1>10, StepUnchanged
<1>11. QED
  BY <1>2, <1>3, <1>4, <1>5, <1>6, <1>7, <1>8, <1>9, <1>10 DEF Next

\* The inductive invariant holds in every reachable state, whatever the stores
\* announce, answer or fail to answer, and however callbacks, worker attempts, client
\* requests, crashes and merges interleave.
THEOREM NotificationsInvariant == Spec => []IInv
<1>1. Init => IInv
  BY InitFits
<1>2. IInv /\ [Next]_vars => IInv'
  BY StepNext
<1>3. QED
  BY <1>1, <1>2, PTL DEF Spec

\* The customer of a stored purchase is the one every row of it belongs to: the one of
\* the account the store names.
LEMMA OwnerOfRow ==
    ASSUME IInv, NEW t \in Tokens, NEW r \in rows[t]
    PROVE  Owner(t) = canonical[r.owner]
<1>1. Latest(t) \in rows[t]
  BY LatestIsRow DEF IInv
<1>2. QED
  BY <1>1 DEF IInv, RowsFit, Owner

\* A done callback has been applied (HandleInbox, Persist, PostCommit and Schedule
\* precede the settling of its message): an answer at least as new as what it announced
\* is stored and the purchase is acknowledged if Google Play waits for that.
THEOREM DoneCallbacksAreApplied == Spec => []DoneIsApplied
<1>1. IInv => DoneIsApplied
  BY DEF IInv, MessageFits, DoneIsApplied, Kept, Seen, Acked
<1>2. QED
  BY <1>1, NotificationsInvariant, PTL

\* A replacement that no client has submitted belongs to the customer of the purchase it
\* replaces: googlePlayReplacement binds it to that customer, and no merge, retry or
\* later callback parts the two.  (The store names one account per purchase:
\* NamesAccount.  SaveObservation asks for the customer of rows seen again only.)
THEOREM ReplacementsStayWithOwner == Spec => []ReplacementStaysWithOwner
<1>1. ASSUME IInv, NEW t \in Tokens, rows[t] # {}, Purchase(t).linked # "", ~ PurchaseSubmissionByReference(t)
      PROVE  rows[Purchase(t).linked] # {} /\ Owner(t) = Owner(Purchase(t).linked)
  <2>1. PICK u \in Tokens : u = Purchase(t).linked
    BY <1>1, LinkedIsKnown DEF IInv
  <2>2. SameOwner(t, u)
    BY <1>1, <2>1 DEF IInv, ReplacementsFit, Submitted, PurchaseSubmissionByReference
  <2>3. PICK r \in rows[t], s \in rows[u] : canonical[r.owner] = canonical[s.owner]
    BY <2>2 DEF SameOwner
  <2>4. Owner(t) = canonical[r.owner] /\ Owner(u) = canonical[s.owner]
    BY <1>1, <2>3, OwnerOfRow
  <2>5. QED
    BY <2>1, <2>3, <2>4
<1>2. IInv => ReplacementStaysWithOwner
  BY <1>1 DEF ReplacementStaysWithOwner
<1>3. QED
  BY <1>2, NotificationsInvariant, PTL

\* A restore or a verification that is answered with success has stored every purchase
\* of the request for its customer and acknowledged those Google Play waits for
\* (restorePurchases answers after the last item, and an item that fails ends it).
THEOREM SuccessCoversEveryItem == Spec => []SuccessMeansEveryItem
<1>1. ASSUME IInv, client.answer = 200, client.request # << >>, NEW i \in DOMAIN client.request.items, NEW item,
             item = client.request.items[i]
      PROVE  /\ rows[item.token] # {} /\ Owner(item.token) = canonical[item.external]
             /\ provider = "google" /\ Purchase(item.token).acknowledgeable => item.token \in acknowledged
  <2>1. ItemDone(item) /\ client.request \in Requests[world]
    BY <1>1 DEF IInv, ClientFits
  <2>2. item.token \in Tokens
    BY <1>1, <2>1, ItemsAreKnown DEF IInv
  <2>3. PICK r \in rows[item.token] : canonical[r.owner] = canonical[item.external]
    BY <2>1 DEF ItemDone, Owned
  <2>4. Owner(item.token) = canonical[r.owner]
    BY <1>1, <2>2, <2>3, OwnerOfRow
  <2>5. QED
    BY <2>1, <2>3, <2>4 DEF ItemDone, Acked
<1>2. IInv => SuccessMeansEveryItem
  BY <1>1 DEF SuccessMeansEveryItem
<1>3. QED
  BY <1>2, NotificationsInvariant, PTL

\* No stored subscription is left without its daily refresh unnoticed: whoever stored it
\* is still at work, has reported it, or has left a callback that is open or failed.
THEOREM NothingIsSilentlyUnscheduled == Spec => []NoSilentlyUnscheduled
<1>1. ASSUME IInv, NEW t \in Tokens, Excused(t)
      PROVE  \/ t \in missed
             \/ \E a \in Actors : ~ Working(a, "idle") /\ job[a].token = t
             \/ \E m \in Messages : Kept(m) /\ Token(m) = t /\ inbox[m].status \in {"open", "failed"}
  <2>1. "client" \in Actors
    BY DEF Actors
  <2>2. QED
    BY <1>1, <2>1 DEF Excused, Working
<1>2. IInv => NoSilentlyUnscheduled
  BY <1>1 DEF IInv, Watched, NoSilentlyUnscheduled
<1>3. QED
  BY <1>2, NotificationsInvariant, PTL

====
