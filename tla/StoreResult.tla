---- MODULE StoreResult ----
(***************************************************************************)
(* What the store adapters share: failures, purchase observations and the  *)
(* checks every provider result passes before it is stored.  An instant is *)
(* a number, an optional one << >> or <<t>>.  An absent text is "".  A     *)
(* reference is <<role, kind, value>>.  A hash is the record of the fields *)
(* it covers.  Quantities are left out.                                    *)
(***************************************************************************)
EXTENDS Naturals, Sequences, SequencesExt, FiniteSets

Failure(kind) == [ok |-> FALSE, kind |-> kind]

\* Failures the worker tries again.
Retryable(kind) == kind \in {"rate_limited", "temporary"}

\* A chain of checks: "" passes, the first other entry is the failure.
Must(holds, kind) == IF holds THEN "" ELSE kind
Guarded(checks, result) ==
    LET failed == {i \in DOMAIN checks : checks[i] # ""}
    IN  IF failed = {} THEN result ELSE Failure(checks[CHOOSE i \in failed : \A j \in failed : i <= j])

Value(t) == IF t = << >> THEN 0 ELSE t[1]
After(t, now) == t # << >> /\ t[1] > now

\* The time of a sighting; the odd values are one microsecond before an instant.
Sighting(now) == 2 * now

\* One bounded provider call: 0 stands for no answer, 1 for one over the limit.
do(http) == IF http = 0 THEN "temporary" ELSE IF http = 1 THEN "permanent" ELSE ""

\* An allowed period whose exclusive end has passed is denied by every reader.
AccessAt(access, end, now) == IF access = "allowed" /\ end # << >> /\ ~ After(end, now) THEN "denied" ELSE access

\* References with a value; observations keep them as a set.
References(candidates) == {r \in candidates : r[3] # ""}
ReferencesFor(o, role) == {r \in o.refs : r[1] = role}

RenewalValid(s) ==
    /\ s.mode \in {"none", "prepaid"} => s.renew = "not_applicable"
    /\ s.mode = "auto" => s.renew \in {"enabled", "disabled", "unknown"}
    /\ s.mode = "unknown" => s.renew = "unknown"
    /\ s.kind # "subscription" => s.mode = "none"
    /\ s.next # "" \/ s.nextAt # << >> => s.mode = "auto" /\ s.renew # "disabled"

PeriodValid(s) == IF s.start = << >> THEN s.end = << >> ELSE s.end = << >> \/ After(s.end, s.start[1])

\* PurchaseObservation.Validate
ObservationValid(o) ==
    LET s == o.snapshot
    IN  /\ s.product # "" /\ PeriodValid(s) /\ RenewalValid(s)
        /\ s.access = "allowed" =>
             /\ ReferencesFor(o, "transaction") # {}
             /\ s.occurred # << >> /\ s.start # << >>
             /\ s.kind = "subscription" => s.end # << >>
        /\ s.state = "pending" => s.access = "unresolved"
        /\ s.state \in {"expired", "revoked"} => s.access = "denied"
        /\ ReferencesFor(o, "transaction") \cup ReferencesFor(o, "query") # {}

Products(result) == {result.observations[i].snapshot.product : i \in DOMAIN result.observations}

\* A claim on a product the purchase names is replaced by the observed ones.
ProductsForClaim(result, claimed) ==
    IF Cardinality(claimed) = 1 /\ claimed \subseteq result.named THEN Products(result) ELSE claimed

\* VerificationResult.validate
validate(result, application, products, bindings, queries) ==
    LET seen == Range(result.observations)
    IN  /\ seen # {}
        /\ \A o \in seen :
             /\ ObservationValid(o)
             /\ o.application = application
             /\ bindings # {} => ReferencesFor(o, "customer_binding") \cap bindings # {}
             /\ queries # {} => ReferencesFor(o, "query") \cap queries # {}
        /\ Cardinality({o.id : o \in seen}) = Len(result.observations)
        /\ result.named # {} => Products(result) \subseteq result.named
        /\ \A a \in result.actions : \E o \in seen :
             /\ a.product = o.snapshot.product /\ a.kind = o.snapshot.kind
             /\ a.refs \cap ReferencesFor(o, "query") # {}
        /\ products # {} => Products(result) = products

ValidateForVerification(result, request, products) ==
    validate(result, request.application.id, products, request.bindings, {})

ValidateForReconciliation(result, request, products) ==
    /\ validate(result, request.application.id, products, request.bindings, request.queries)
    /\ \A o \in Range(result.observations) : o.snapshot.kind = request.kind

====
