---- MODULE CustomerEntitlements ----
(***************************************************************************)
(* From a provider's answer to a customer's current entitlement: the       *)
(* verification service (Verify and Reconcile), what its transaction       *)
(* stores, the projection refresh, customer merges and historical imports. *)
(*                                                                         *)
(* One project, one entitlement that every product grants.  A purchase     *)
(* lineage belongs to the customer whose external id the requests for it   *)
(* carry.  A provider snapshot is what an observation records of a lineage *)
(* at one moment; equal snapshots have one identity and one row, whose     *)
(* observed_at moves to the latest sighting.  The persistence transactions *)
(* are serializable and each takes the write barrier of its customer       *)
(* closure, so each is one action.                                         *)
(***************************************************************************)
EXTENDS EntitlementProjector, ImportPlan, FiniteSets

CONSTANTS
    Customers,      \* numbered from 1
    Lineages,       \* purchase lineages, numbered from 1
    Owner,          \* the customer whose external id a lineage is submitted under
    Snapshots,      \* [id, lineage, product, access, ends]: what a provider can answer
    Aliases,        \* external ids that are no customer's own
    Exports,        \* export files: [format, complete, lines]
    Batches,        \* batch ids an operator gives to imports
    Commands,       \* [export, batch, webhooks, skipAnonymous]: import commands
    IdBase,         \* customers and products are numbered below it
    Importers,      \* import commands that may run together
    Requests,       \* verifications that may be in flight together
    MaxNow,         \* bound of the model: clock ticks
    MaxOperations   \* bound of the model: provider calls and import commands

NoCustomer == 0
NoExport == 0

ASSUME EntitlementsAssumption ==
    /\ Lineages \subseteq Nat \ {0} /\ Customers \subseteq Nat \ {0}
    /\ Owner \in [Lineages -> Customers]
    /\ Aliases \cap Customers = {} /\ AnonymousIds \subseteq Customers
    /\ InvalidIds \cap (Customers \cup Aliases) = {}
    /\ \A k \in Commands : k.export \in DOMAIN Exports \ {NoExport} /\ k.batch \in Batches
    /\ \A s, t \in Snapshots : s.id = t.id => s = t
    /\ \A s \in Snapshots : /\ s.id \in Nat /\ s.lineage \in Lineages /\ s.ends \in Nat
                             /\ s.access \in {"allowed", "unresolved", "denied"}
    /\ IdBase \in Nat /\ Customers \cup {m.product : m \in Mapping.products} \subseteq 0..(IdBase - 1)
    /\ \A e, f \in DOMAIN Mapping.entitlements : Mapping.entitlements[e] = Mapping.entitlements[f]
    /\ \A k \in Commands :
           /\ ReadFile(Exports[k.export])
           /\ \A line \in Range(Exports[k.export].lines) :
                  LineId(Exports[k.export], line) \in Customers \cup InvalidIds \cup {NoId}
    /\ {MaxNow, MaxOperations} \subseteq Nat

VARIABLES
    now,        \* the wall clock
    operations, \* provider calls answered and imports started so far
    merged,     \* customers.merged_into_customer_id
    rows,       \* purchase_observations
    grants,     \* import_grants
    current,    \* customer_entitlements: the projection of a customer
    version,    \* its version, 0 when there is no row
    outbox,     \* entitlement.changed events
    request,    \* the requests in flight
    aliases,    \* customer_aliases
    batches,    \* import_batches: the export recorded under a batch id
    importer,   \* the import commands
    silent,     \* history: versions written by an import without webhooks
    newest      \* history: per lineage and product, the committed answer stamped last

importVars == <<aliases, batches, importer>>
vars == <<now, operations, merged, rows, grants, current, version, outbox, request,
          silent, newest, importVars>>

Idle == [pc |-> "idle"]

Init ==
    /\ now = 1
    /\ operations = 0
    /\ merged = [c \in Customers |-> NoCustomer]
    /\ rows = {} /\ grants = {}
    /\ current = [c \in Customers |-> NoProjection]
    /\ version = [c \in Customers |-> 0]
    /\ outbox = {}
    /\ request = [r \in Requests |-> Idle]
    /\ aliases = [a \in Aliases |-> NoCustomer]
    /\ batches = [b \in Batches |-> NoExport]
    /\ importer = [i \in Importers |-> Idle]
    /\ silent = {}
    /\ newest = {}

--------------------------------------------------------------------------------
(* Customer identity, as far as entitlements need it.                        *)

\* ResolveCustomer: the canonical customer behind an external id, one hop away.
ResolveCustomer(c) == IF merged[c] = NoCustomer THEN c ELSE merged[c]

\* customerClosure: the canonical customer and every customer merged into it.
CustomerClosure(c, into) == {d \in Customers : d = c \/ into[d] = c}

--------------------------------------------------------------------------------
(* RefreshCustomerProjectionWithOptions.                                     *)

\* Faulty variant: the row seen last per product instead of per purchase lineage.
CustomerEntitlementSourcesPerProduct(members, stored, imported) ==
    LET own(table) == {o \in table : o.customer \in members}
    IN  {o \in own(stored) : \A p \in own(stored) \ {o} : o.product = p.product => SeenLater(o, p)}
        \cup {[g EXCEPT !.export = NoExport] : g \in own(imported)}

\* The order of the rows of one product and lineage: the row seen last, an allowed one
\* before another seen at the same time.
RowPrecedes(o, p) ==
    \/ o.at > p.at
    \/ o.at = p.at /\ o.access = "allowed" /\ p.access # "allowed"
    \/ o.at = p.at /\ (o.access = "allowed" <=> p.access = "allowed") /\ o.id < p.id

\* CustomerEntitlementSources: per product and lineage the first row in that order;
\* likewise the import grant seen last.
CustomerEntitlementSources(members, stored, imported) ==
    LET own(table) == {o \in table : o.customer \in members}
    IN  {o \in own(stored) : \A p \in own(stored) \ {o} : SameSource(o, p) => RowPrecedes(o, p)}
        \cup {[g EXCEPT !.export = NoExport] :
                g \in {h \in own(imported) :
                         \A k \in own(imported) \ {h} : SameSource(h, k) => SeenLater(h, k)}}

\* projectionsEqual: the sighting time is not part of a projection.
ProjectionsEqual(p, q) == [p EXCEPT !.at = 0] = [q EXCEPT !.at = 0]

\* Faulty variant: every write counts as a change.
PutEntitlementAlways(c, projection) == projection # NoProjection

\* PutEntitlement: an equal projection is left alone.
PutEntitlement(c, projection) ==
    /\ projection # NoProjection
    /\ current[c] = NoProjection \/ ~ProjectionsEqual(current[c], projection)

\* AccessAt: an allowed period that is over is expired.
AccessAt(p, t) == IF p.access = "allowed" /\ p.ends # 0 /\ t >= p.ends THEN "denied" ELSE p.access

\* Faulty variant: the event describes the row as it was before the write.
StaleEntitlementEvent(c, projection, occurredAt) ==
    [customer |-> c, version |-> version[c] + 1,
     access |-> IF current[c] = NoProjection THEN "denied" ELSE AccessAt(current[c], occurredAt)]

\* Faulty variant: the event repeats the version the write replaced.
OldVersionEntitlementEvent(c, projection, occurredAt) ==
    [customer |-> c, version |-> version[c], access |-> AccessAt(projection, occurredAt)]

\* newEntitlementEvent: the access a read at that instant would show.
NewEntitlementEvent(c, projection, occurredAt) ==
    [customer |-> c, version |-> version[c] + 1, access |-> AccessAt(projection, occurredAt)]

\* Recompute the projection of a canonical customer and emit an event if it changed.
Refresh(c, stored, imported, into, occurredAt, webhooks) ==
    LET projection == Project(current[c],
                              CustomerEntitlementSources(CustomerClosure(c, into), stored, imported))
        changed == PutEntitlement(c, projection)
        event == NewEntitlementEvent(c, projection, occurredAt)
    IN  /\ current' = IF changed THEN [current EXCEPT ![c] = projection] ELSE current
        /\ version' = IF changed THEN [version EXCEPT ![c] = @ + 1] ELSE version
        /\ outbox' = IF changed /\ webhooks THEN outbox \cup {event} ELSE outbox
        /\ silent' = IF changed /\ ~webhooks THEN silent \cup {<<c, version[c] + 1>>} ELSE silent

--------------------------------------------------------------------------------
(* The clock.                                                                *)

Tick ==
    /\ now < MaxNow
    /\ now' = now + 1
    /\ UNCHANGED <<operations, merged, rows, grants, current, version, outbox, request,
                   silent, newest, importVars>>

--------------------------------------------------------------------------------
(* Verify and Reconcile.                                                     *)

\* loadScope, then the adapter's provider call: the provider answers with its state of
\* the moment.
Query(r, s) ==
    /\ request[r] = Idle
    /\ operations < MaxOperations
    /\ operations' = operations + 1
    /\ request' = [request EXCEPT ![r] =
           [pc |-> "queried", snapshot |-> s, customer |-> ResolveCustomer(Owner[s.lineage]),
            at |-> 0]]
    /\ UNCHANGED <<now, merged, rows, grants, current, version, outbox,
                   silent, newest, importVars>>

\* The adapter normalizes the answer and stamps it with its clock.
Normalize(r) ==
    /\ request[r].pc = "queried"
    /\ request' = [request EXCEPT ![r].pc = "normalized", ![r].at = now]
    /\ UNCHANGED <<now, operations, merged, rows, grants, current, version, outbox,
                   silent, newest, importVars>>

\* SaveEvidence and SaveObservation: one row per snapshot, under the customer of the
\* evidence that first showed it, its observed_at moved forward by a new sighting.
SaveObservation(s, at, owner) ==
    LET same == {o \in rows : o.id = s.id}
        seen == {at} \cup {o.at : o \in same}
    IN  (rows \ same) \cup
        {[kind |-> "store", product |-> s.product, lineage |-> s.lineage, access |-> s.access,
          ends |-> s.ends, at |-> CHOOSE t \in seen : \A u \in seen : u <= t, id |-> s.id,
          customer |-> IF same = {} THEN owner ELSE (CHOOSE o \in same : TRUE).customer]}

\* History: what the answer stamped last says of this lineage and product.
RecordSighting(s, at) ==
    LET known == {n \in newest : n.lineage = s.lineage /\ n.product = s.product}
        allows == s.access = "allowed"
    IN  IF \E n \in known : n.at > at THEN newest
        ELSE (newest \ known) \cup
             {[lineage |-> s.lineage, product |-> s.product, at |-> at,
               allowed |-> allows \/ \E n \in known : n.at = at /\ n.allowed]}

\* The owners an evidence row of this lineage can have: the customer that submits it
\* now, or the one that submitted the same bytes before (and may be merged since).
EvidenceCustomers(l, c) == {c} \cup {o.customer : o \in {p \in rows : p.lineage = l}}

\* persist: one serializable transaction behind the closure's write barrier.  The
\* customer loaded before the provider call may have been merged away since.
Persist(r) ==
    LET q == request[r]
        l == q.snapshot.lineage
        c == ResolveCustomer(Owner[l])
    IN  /\ q.pc = "normalized"
        /\ c = q.customer \/ merged[q.customer] = c
        /\ \E owner \in EvidenceCustomers(l, c) :
               rows' = SaveObservation(q.snapshot, q.at, owner)
        /\ Refresh(c, rows', grants, merged, q.at, TRUE)
        /\ newest' = RecordSighting(q.snapshot, q.at)
        /\ request' = [request EXCEPT ![r].pc = "committed"]
        /\ UNCHANGED <<now, operations, merged, grants, importVars>>

\* PostCommit and the answer: what the provider is told then is modelled in Notifications.
PostCommit(r) ==
    /\ request[r].pc = "committed"
    /\ request' = [request EXCEPT ![r] = Idle]
    /\ UNCHANGED <<now, operations, merged, rows, grants, current, version, outbox,
                   silent, newest, importVars>>

\* The provider call, the transaction or the acknowledgement fails, or the process dies.
Fail(r) ==
    /\ request[r] # Idle
    /\ request' = [request EXCEPT ![r] = Idle]
    /\ UNCHANGED <<now, operations, merged, rows, grants, current, version, outbox,
                   silent, newest, importVars>>

--------------------------------------------------------------------------------
(* Merges.                                                                   *)

\* MergeCustomers and the refresh of the canonical customer, in one transaction.
MergeCustomers(c, s) ==
    /\ c # s
    /\ merged[c] = NoCustomer /\ merged[s] = NoCustomer
    /\ \A d \in Customers : merged[d] # s
    /\ \A a \in Aliases : aliases[a] # s
    /\ ~(/\ current[c] # NoProjection /\ current[c].access = "allowed"
         /\ current[s] # NoProjection /\ current[s].access = "allowed")
    /\ merged' = [merged EXCEPT ![s] = c]
    /\ Refresh(c, rows, grants, merged', now, TRUE)
    /\ UNCHANGED <<now, operations, rows, grants, request, newest, importVars>>

--------------------------------------------------------------------------------
(* Historical imports: one command reads a file, plans it at its clock and   *)
(* applies it subscriber by subscriber.                                      *)

\* Apply up to Plan.  A file that was not read to its end is refused before anything is
\* written; skipped and failed subscribers of the plan are passed over.
StartImport(i, command) ==
    LET file == Exports[command.export]
        plan == Plan(file, command.skipAnonymous, now)
    IN  /\ importer[i].pc \in {"idle", "ended"}
        /\ operations < MaxOperations
        /\ operations' = operations + 1
        /\ importer' = [importer EXCEPT ![i] =
               IF ~file.complete THEN [pc |-> "ended", exit |-> 2]
               ELSE [pc |-> "planned", export |-> command.export, batch |-> command.batch,
                     webhooks |-> command.webhooks, at |-> now,
                     skipped |-> {s.id : s \in {p \in Range(plan) : p.skipped}},
                     todo |-> {<<k, plan[k]>> : k \in {j \in DOMAIN plan : ~plan[j].skipped /\ ~plan[j].fatal}},
                     failed |-> \E s \in Range(plan) : s.fatal]]
        /\ UNCHANGED <<now, merged, rows, grants, current, version, outbox, request,
                       silent, newest, aliases, batches>>

\* EnsureImportBatch: a batch id stands for one export; another one is a conflict.
EnsureImportBatch(i) ==
    LET q == importer[i]
        accepted == batches[q.batch] \in {NoExport, q.export}
    IN  /\ q.pc = "planned"
        /\ batches' = IF accepted THEN [batches EXCEPT ![q.batch] = q.export] ELSE batches
        /\ importer' = [importer EXCEPT ![i] =
               IF accepted THEN [q EXCEPT !.pc = "applying"] ELSE [pc |-> "ended", exit |-> 2]]
        /\ UNCHANGED <<now, operations, merged, rows, grants, current, version, outbox, request,
                       silent, newest, aliases>>

\* importCustomer: the customer behind the subscriber's id.  The customers of the model
\* exist, so none is created.
importCustomer(s) == ResolveCustomer(s.id)

\* PutCustomerAlias in an import: an id that is known must belong to the customer.
AliasRefused(c, a) ==
    IF a \in Customers THEN ResolveCustomer(a) # c ELSE aliases[a] \notin {NoCustomer, c}

\* Faulty variant: the identity of a grant depends on when it was observed.
GrantIDOfSighting(c, g) == IdBase * (IdBase * (IdBase * g.at + g.lineage) + g.product) + c

\* GrantID: a hash of the customer and of what identifies the grant, taken as free of
\* collisions.
GrantID(c, g) == IdBase * (IdBase * g.lineage + g.product) + c

\* importGrantRecord
importGrantRecord(q, c, g) ==
    [kind |-> "import", product |-> g.product, lineage |-> g.lineage, access |-> g.access,
     reason |-> g.reason, starts |-> g.starts, ends |-> g.ends, at |-> g.at,
     id |-> GrantID(c, g), customer |-> c, export |-> q.export]

\* UpsertImportGrant, for all grants of a subscriber: a grant replaces the one with its
\* identity, whenever either was observed.
UpsertImportGrants(table, written) ==
    {g \in table : \A h \in written : h.id # g.id} \cup written

\* The subscriber the loop over the plan comes to next.
NextSubscriber(todo) == CHOOSE p \in todo : \A other \in todo : p[1] <= other[1]

\* applySubscriber: one transaction that records the aliases, upserts the grants and
\* refreshes the projection; an alias of somebody else fails the subscriber.
ApplySubscriber(i) ==
    LET q == importer[i]
        s == NextSubscriber(q.todo)[2]
        c == importCustomer(s)
        refused == \E a \in s.aliases : AliasRefused(c, a)
    IN  /\ q.pc = "applying" /\ q.todo # {}
        /\ importer' = [importer EXCEPT ![i].todo = @ \ {NextSubscriber(@)}, ![i].failed = @ \/ refused]
        /\ IF refused THEN UNCHANGED <<aliases, grants, current, version, outbox, silent>>
           ELSE /\ aliases' = [a \in Aliases |-> IF a \in s.aliases THEN c ELSE aliases[a]]
                /\ grants' = UpsertImportGrants(grants, {importGrantRecord(q, c, g) : g \in s.grants})
                /\ Refresh(c, rows, grants', merged, q.at, q.webhooks)
        /\ UNCHANGED <<now, operations, merged, rows, request, newest, batches>>

\* finalizeReport and the exit code of the command.
EndImport(i) ==
    LET q == importer[i]
    IN  /\ q.pc = "applying" /\ q.todo = {}
        /\ importer' = [importer EXCEPT ![i] =
               IF q.failed THEN [pc |-> "ended", exit |-> 1]
               ELSE [pc |-> "ended", exit |-> 0, export |-> q.export, at |-> q.at,
                     skipped |-> q.skipped]]
        /\ UNCHANGED <<now, operations, merged, rows, grants, current, version, outbox, request,
                       silent, newest, aliases, batches>>

\* A transaction fails for another reason, or the process dies.
FailImport(i) ==
    /\ importer[i].pc \in {"planned", "applying"}
    /\ importer' = [importer EXCEPT ![i] = Idle]
    /\ UNCHANGED <<now, operations, merged, rows, grants, current, version, outbox, request,
                   silent, newest, aliases, batches>>

Next ==
    \/ Tick
    \/ \E r \in Requests, s \in Snapshots : Query(r, s)
    \/ \E r \in Requests : Normalize(r) \/ Persist(r) \/ PostCommit(r) \/ Fail(r)
    \/ \E c, s \in Customers : MergeCustomers(c, s)
    \/ \E i \in Importers :
           \/ \E command \in Commands : StartImport(i, command)
           \/ EnsureImportBatch(i) \/ ApplySubscriber(i) \/ EndImport(i) \/ FailImport(i)

Spec == Init /\ [][Next]_vars

--------------------------------------------------------------------------------
(* Properties.                                                               *)

Canonical(c) == merged[c] = NoCustomer
Shows(c, access) == current[c] # NoProjection /\ current[c].access = access

StoreAllows(c) == \E n \in newest : n.allowed /\ ResolveCustomer(Owner[n.lineage]) = c

ImportAllows(c) ==
    \E g \in grants :
        /\ g.access = "allowed" /\ ResolveCustomer(g.customer) = c
        /\ \A h \in grants \ {g} :
               SameSource(g, h) /\ ResolveCustomer(h.customer) = c => SeenLater(g, h)
        /\ \A n \in newest : ResolveCustomer(Owner[n.lineage]) = c => n.product # g.product

\* A customer has access exactly when some purchase lineage of theirs, or of a customer
\* merged into them, was allowed in the answer stamped last, or an import no store
\* answer has superseded, seen last of its purchase, allows it: whatever the order
\* requests, merges and imports commit in, access is neither lost nor kept by accident.
AccessFollowsAnswers ==
    \A c \in Customers : Canonical(c) => (Shows(c, "allowed") <=> StoreAllows(c) \/ ImportAllows(c))

\* Every version of a projection has exactly one outbox event, except those an import
\* wrote with webhooks disabled.
EventPerVersion ==
    \A c \in Customers : \A v \in 1..version[c] :
        Cardinality({e \in outbox : e.customer = c /\ e.version = v})
            = IF <<c, v>> \in silent THEN 0 ELSE 1

\* The last event of a customer never promises access the projection denies, and does
\* not deny access that an entitlement read still shows.
EventAgreesWithRead ==
    \A e \in outbox : e.version = version[e.customer] =>
        /\ e.access = "allowed" => Shows(e.customer, "allowed")
        /\ AccessAt(current[e.customer], now) = "allowed" => e.access = "allowed"

\* The step commits an answer that repeats the one stored last for its lineage.
CommitsDuplicate(r) ==
    /\ request[r].pc = "normalized" /\ request'[r].pc = "committed"
    /\ \E o \in rows : /\ o.id = request[r].snapshot.id
                       /\ \A p \in rows : p.lineage = o.lineage => p.at < o.at \/ p = o

\* A request that repeats the last known answer of a lineage changes no projection
\* and emits no event.
DuplicateChangesNothing ==
    [][\A r \in Requests : CommitsDuplicate(r) => UNCHANGED <<current, version, outbox>>]_vars

\* The rows of a subscriber that, read at t, are about the purchase of a grant.
RowsOf(d, g, t) ==
    {row \in Range(d.rows) : \E e \in row.entitlements : \E h \in mapGrant(row, e, t) : SameSource(g, h)}

\* A row shows at t that the grant is paid for: the purchase has begun, is not over and
\* was not refunded, and no other row of the subscriber about it was updated later.
PaidFor(d, g, t) ==
    \E row \in RowsOf(d, g, t) :
        /\ row.start \in 1..t /\ row.refunded = 0 /\ (row.effectiveEnd # 0 => t < row.effectiveEnd)
        /\ \A other \in RowsOf(d, g, t) : other.updated <= row.updated

\* An imported grant allows access only if its export, as read at some moment up to now,
\* shows the purchase as begun, not over and not refunded, in what it says last of it for a
\* subscriber that is (or has been merged into) the customer who has the grant.
AllowedImportIsPaid ==
    \A g \in grants : g.access = "allowed" =>
        \E t \in 1..now : \E d \in Range(parseExport(Exports[g.export], t)) :
            /\ d.id \in Customers /\ ResolveCustomer(d.id) = ResolveCustomer(g.customer)
            /\ PaidFor(d, g, t)

\* "Exit 0 when ... every subscriber is imported or intentionally skipped": a command
\* that reports success leaves a grant for every purchase and entitlement its file has of
\* somebody who is not skipped, under the customer the subscriber has become.
ExitZeroMeansImported ==
    \A i \in Importers : importer[i].pc = "ended" /\ importer[i].exit = 0 =>
        \A d \in Range(parseExport(Exports[importer[i].export], importer[i].at)) :
            \/ d.id \in importer[i].skipped \cap AnonymousIds
            \/ \A row \in Range(d.rows) : \A e \in row.entitlements :
                   \E h \in mapGrant(row, e, importer[i].at), g \in grants :
                       SameSource(g, h) /\ ResolveCustomer(g.customer) = ResolveCustomer(d.id)

SameDecision(g, h) ==
    <<g.access, g.reason, g.starts, g.ends>> = <<h.access, h.reason, h.starts, h.ends>>

\* The step applies a subscriber whose purchases are stored under one customer and with the
\* decision the import makes.  (After a merge a purchase may be stored under both customers,
\* and the import moves the later sighting.)
AppliesRepeated(i) ==
    /\ importer[i].pc = "applying" /\ importer[i].todo # {}
    /\ importer'[i].pc = "applying" /\ importer'[i].todo # importer[i].todo
    /\ LET s == NextSubscriber(importer[i].todo)[2]
           c == ResolveCustomer(s.id)
       IN  \A g \in s.grants :
               LET stored == {h \in grants : SameSource(g, h) /\ ResolveCustomer(h.customer) = c}
               IN  stored # {} /\ \A h \in stored : h.customer = c /\ SameDecision(g, h)

\* "A second run of the same export does not create ... another projection version, or
\* another webhook": importing a subscriber whose purchases are stored with the same
\* decision, whenever they were observed, changes neither projection nor outbox.
RepeatedImportChangesNothing ==
    [][\A i \in Importers : AppliesRepeated(i) => UNCHANGED <<current, version, outbox>>]_vars

====
