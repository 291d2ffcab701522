---- MODULE CustomerIdentity ----
(***************************************************************************)
(* External ids, aliases and merges of customers: the transactions that    *)
(* create a customer, attach an alias, merge two customers and record a    *)
(* purchase, lock by lock.                                                 *)
(*                                                                         *)
(* Transact runs at serializable isolation: every statement reads the      *)
(* snapshot of the first one, which is taken before that statement waits   *)
(* for its lock.  PostgreSQL then aborts a transaction that conflicts with *)
(* another serializable one; the model does so for every writing commit    *)
(* ("stale"), which only adds retries.  Operate runs at read committed:    *)
(* each statement reads what is committed, and no serializable transaction *)
(* is told about its writes.                                               *)
(***************************************************************************)
EXTENDS Naturals

CONSTANTS
    Customers,   \* customer ids, in their lexicographic order
    Externals,   \* external ids of one project
    Keys,        \* idempotency keys of merges
    Requests,    \* requests in flight, each used once
    Commands,    \* what the requests may ask for
    Registered,  \* the customers that exist at the start, with their external ids
    None,        \* null
    MaxAttempts  \* maximumTransactionAttempts

AllCommands ==
    [op : {"customer", "alias"}, customer : Customers, external : Externals]
    \cup {m \in [op : {"merge"}, customer : Customers, source : Customers, key : Keys] :
            m.customer # m.source}
    \cup [op : {"persist"}, external : Externals]

ASSUME IdentityAssumption ==
    /\ Customers \subseteq Nat
    /\ Commands \subseteq AllCommands
    /\ Registered \in [Customers -> Externals \cup {None}]
    /\ \A c, d \in Customers : Registered[c] = Registered[d] /\ Registered[c] # None => c = d
    /\ None \notin Externals \cup Customers \cup Requests
    /\ MaxAttempts \in Nat \ {0}

VARIABLES
    db,           \* committed rows of customers, customer_aliases and customer_merges
    request,      \* request: where its transaction is, its snapshot and its answer
    externalLock, \* advisory lock of an external id: the request that holds it
    rowLock       \* customers row: the request that has updated it and not ended

vars == <<db, request, externalLock, rowLock>>

Database ==
    [external : [Customers -> Externals \cup {None}],     \* None for no row
     mergedInto : [Customers -> Customers \cup {None}],
     alias : [Externals -> Customers \cup {None}],
     merges : SUBSET [key : Keys, customer : Customers, source : Customers]]

Idle == [pc |-> "idle"]

Init ==
    /\ db = [external |-> Registered,
             mergedInto |-> [c \in Customers |-> None],
             alias |-> [x \in Externals |-> None],
             merges |-> {}]
    /\ request = [r \in Requests |-> Idle]
    /\ externalLock = [x \in Externals |-> None]
    /\ rowLock = [c \in Customers |-> None]

--------------------------------------------------------------------------------
(* Queries, on the committed rows or on a snapshot.                          *)

CustomerExists(d, c) == d.external[c] # None

\* resolutionFromCustomer: one hop from a customers row.
Target(d, c) == IF d.mergedInto[c] = None THEN c ELSE d.mergedInto[c]

\* ResolveCustomer: a customers row goes before an alias.  At most one customer.
ResolveCustomer(d, x) ==
    LET direct == {c \in Customers : d.external[c] = x}
    IN  IF direct # {} THEN {Target(d, c) : c \in direct} ELSE {d.alias[x]} \ {None}

\* The resolution ends at a customer that was merged itself: ErrConflict.
Unresolvable(d, x) == \E c \in ResolveCustomer(d, x) : d.mergedInto[c] # None

CustomerClosure(d, c) == {m \in Customers : CustomerExists(d, m) /\ (m = c \/ d.mergedInto[m] = c)}

OwnsAlias(d, c) == \E x \in Externals : d.alias[x] = c
OwnsMerge(d, c) == \E m \in Customers : d.mergedInto[m] = c

--------------------------------------------------------------------------------
(* Transactions.                                                             *)

Serializable(r) == request[r].command.op # "customer"

InTransaction(r) == request[r].pc \notin {"idle", "scope", "ended"}

\* A commit or a rollback gives every lock back.
ReleaseLocks(r) ==
    /\ externalLock' = [x \in Externals |-> IF externalLock[x] = r THEN None ELSE externalLock[x]]
    /\ rowLock' = [c \in Customers |-> IF rowLock[c] = r THEN None ELSE rowLock[c]]

Ended(r, result) == [pc |-> "ended", command |-> request[r].command, result |-> result]

\* The transaction ends without having changed a row: refused, rolled back or a replay.
Finish(r, result) ==
    /\ request' = [request EXCEPT ![r] = Ended(r, result)]
    /\ ReleaseLocks(r)
    /\ UNCHANGED db

\* A writing serializable commit is possible while no other one came in between, and
\* makes the other snapshots stale.
Commit(r, rows, result) ==
    /\ ~request[r].stale
    /\ db' = rows
    /\ request' = [q \in Requests |->
           IF q = r THEN Ended(r, result)
           ELSE IF InTransaction(q) /\ Serializable(q) THEN [request[q] EXCEPT !.stale = TRUE]
           ELSE request[q]]
    /\ ReleaseLocks(r)

\* The first statement: the snapshot, and the lock that the transaction waits for.
Transaction(command, attempt, scope) ==
    [pc |-> CASE command.op \in {"customer", "alias"} -> "external"
              [] command.op = "merge" -> "rows"
              [] command.op = "persist" -> "resolve",
     command |-> command, attempt |-> attempt, scope |-> scope, view |-> db, stale |-> FALSE,
     todo |-> IF command.op = "merge" THEN {command.customer, command.source} ELSE {}]

Goto(r, place, todo) ==
    request' = [request EXCEPT ![r].pc = place, ![r].todo = todo]

\* A request arrives.  A verification first reads its scope and asks the provider.
Begin(r, command) ==
    /\ request[r] = Idle
    /\ request' = [request EXCEPT ![r] =
           IF command.op = "persist"
           THEN [pc |-> "scope", command |-> command,
                 scope |-> IF Unresolvable(db, command.external) THEN {}
                           ELSE ResolveCustomer(db, command.external)]
           ELSE Transaction(command, 1, {})]
    /\ UNCHANGED <<db, externalLock, rowLock>>

\* The provider has answered: the persisting transaction begins.
BeginPersist(r) ==
    /\ request[r].pc = "scope"
    /\ request' = [request EXCEPT ![r] =
           IF request[r].scope = {} THEN Ended(r, "not_found")
           ELSE Transaction(request[r].command, 1, request[r].scope)]
    /\ UNCHANGED <<db, externalLock, rowLock>>

LockExternalCustomerID(r) ==
    LET command == request[r].command
    IN  /\ request[r].pc = "external"
        /\ externalLock[command.external] = None
        /\ externalLock' = [externalLock EXCEPT ![command.external] = r]
        /\ IF command.op = "customer" THEN Goto(r, "check", {})
           ELSE Goto(r, "rows", {command.customer})
        /\ UNCHANGED <<db, rowLock>>

\* The next row of the statement's list, in id order.
NextRow(r) == CHOOSE c \in request[r].todo : \A d \in request[r].todo : c <= d

\* LockCustomer: a row that the snapshot does not have is not found, a row that was
\* updated since is a serialization failure.
LockCustomer(r) ==
    LET c == NextRow(r)
    IN  /\ request[r].pc \in {"rows", "closure"}
        /\ request[r].todo # {}
        /\ IF ~CustomerExists(request[r].view, c) THEN Finish(r, "not_found")
           ELSE /\ ~request[r].stale
                /\ rowLock[c] \in {None, r}
                /\ rowLock' = [rowLock EXCEPT ![c] = r]
                /\ Goto(r, request[r].pc, request[r].todo \ {c})
                /\ UNCHANGED <<db, externalLock>>

Waiting(r) ==
    \/ request[r].pc = "external" /\ externalLock[request[r].command.external] # None
    \/ /\ request[r].pc \in {"rows", "closure"} /\ request[r].todo # {}
       /\ rowLock[NextRow(r)] \notin {None, r}

\* A serialization failure, a deadlock or a lock timeout: the transaction is rolled back
\* and run again from its first statement, a bounded number of times.
Retry(r) ==
    /\ InTransaction(r)
    /\ request[r].stale \/ Waiting(r)
    /\ IF request[r].attempt = MaxAttempts THEN Finish(r, "unavailable")
       ELSE /\ request' = [request EXCEPT ![r] =
                   Transaction(request[r].command, request[r].attempt + 1, request[r].scope)]
            /\ ReleaseLocks(r)
            /\ UNCHANGED db

\* Any other database error or a cancelled request.
Fail(r) ==
    /\ InTransaction(r)
    /\ Finish(r, "error")

--------------------------------------------------------------------------------
(* PutCustomer, at read committed.                                           *)

CheckAlias(r) ==
    /\ request[r].pc = "check"
    /\ IF db.alias[request[r].command.external] # None THEN Finish(r, "conflict")
       ELSE Goto(r, "insert", {}) /\ UNCHANGED <<db, externalLock, rowLock>>

\* The insert leaves an existing external id alone and is refused for a taken id.
InsertCustomer(r) ==
    LET w == request[r].command
    IN  /\ request[r].pc = "insert"
        /\ IF \E c \in Customers : db.external[c] = w.external THEN Finish(r, "ok")
           ELSE IF CustomerExists(db, w.customer) THEN Finish(r, "conflict")
           ELSE /\ db' = [db EXCEPT !.external[w.customer] = w.external]
                /\ request' = [request EXCEPT ![r] = Ended(r, "ok")]
                /\ ReleaseLocks(r)

--------------------------------------------------------------------------------
(* PutCustomerAlias, after its two locks.                                    *)

PutCustomerAlias(r) ==
    LET w == request[r].command
        view == request[r].view
        resolved == ResolveCustomer(view, w.external)
    IN  /\ request[r].pc = "rows" /\ request[r].todo = {} /\ w.op = "alias"
        /\ IF view.mergedInto[w.customer] # None THEN Finish(r, "conflict")
           ELSE IF view.external[w.customer] = w.external \/ resolved = {w.customer}
                THEN Finish(r, "ok")
           ELSE IF resolved # {} THEN Finish(r, "conflict")
           ELSE Commit(r, [db EXCEPT !.alias[w.external] = w.customer], "ok")

--------------------------------------------------------------------------------
(* MergeCustomers, after it locked both customers.                           *)

\* A repeated command is answered with the stored row; so is its pair under another key.
Stored(view, w) ==
    \E m \in view.merges : m.source = w.source /\ m.customer = w.customer
                           /\ (m.key = w.key \/ \A n \in view.merges : n.key # w.key)

\* Faulty variant: the owners of merges may be merged themselves.
RefusedForAliasOnly(view, w) ==
    \/ \E m \in view.merges : m.key = w.key \/ m.source = w.source
    \/ view.mergedInto[w.customer] # None \/ view.mergedInto[w.source] # None
    \/ OwnsAlias(view, w.source)

\* A key or a source that belongs to another merge, a customer that is merged already,
\* a source that others point at.
Refused(view, w) ==
    \/ \E m \in view.merges : m.key = w.key \/ m.source = w.source
    \/ view.mergedInto[w.customer] # None \/ view.mergedInto[w.source] # None
    \/ OwnsAlias(view, w.source) \/ OwnsMerge(view, w.source)

Merged(d, w) ==
    [d EXCEPT !.mergedInto[w.source] = w.customer,
              !.merges = d.merges \cup {[key |-> w.key, customer |-> w.customer, source |-> w.source]}]

\* Faulty variant: the state is looked at before the stored merges.
MergeCustomersStateFirst(r) ==
    LET w == request[r].command
        view == request[r].view
    IN  /\ request[r].pc = "rows" /\ request[r].todo = {} /\ w.op = "merge"
        /\ IF Refused(view, w) THEN Finish(r, "conflict")
           ELSE \/ Finish(r, "entitlement_conflict")
                \/ /\ Goto(r, "closure", CustomerClosure(Merged(view, w), w.customer))
                   /\ UNCHANGED <<db, externalLock, rowLock>>

\* Two customers with access to the same entitlement are not merged; otherwise the rows
\* are written and the closure of the canonical customer is locked.
MergeCustomers(r) ==
    LET w == request[r].command
        view == request[r].view
    IN  /\ request[r].pc = "rows" /\ request[r].todo = {} /\ w.op = "merge"
        /\ IF Stored(view, w) THEN Finish(r, "ok")
           ELSE IF Refused(view, w) THEN Finish(r, "conflict")
           ELSE \/ Finish(r, "entitlement_conflict")
                \/ /\ Goto(r, "closure", CustomerClosure(Merged(view, w), w.customer))
                   /\ UNCHANGED <<db, externalLock, rowLock>>

CommitMerge(r) ==
    /\ request[r].pc = "closure" /\ request[r].todo = {} /\ request[r].command.op = "merge"
    /\ Commit(r, Merged(db, request[r].command), "ok")

--------------------------------------------------------------------------------
(* persist: the purchase belongs to the canonical customer of this moment.   *)

\* Faulty variant: the customer read before the provider call is used.
PersistedForScope(r) == request[r].scope

\* The external id is resolved again inside the transaction.
PersistedFor(r) == ResolveCustomer(request[r].view, request[r].command.external)

PersistClosure(r) == UNION {CustomerClosure(request[r].view, c) : c \in PersistedFor(r)}

ResolveScope(r) ==
    /\ request[r].pc = "resolve"
    /\ IF PersistedFor(r) = {} \/ Unresolvable(request[r].view, request[r].command.external)
       THEN Finish(r, "conflict")
       ELSE Goto(r, "closure", PersistClosure(r)) /\ UNCHANGED <<db, externalLock, rowLock>>

\* The customer read before the provider call must be the canonical one or merged into
\* it; otherwise the scope has changed.
CommitPersist(r) ==
    /\ request[r].pc = "closure" /\ request[r].todo = {} /\ request[r].command.op = "persist"
    /\ IF request[r].scope \subseteq PersistClosure(r) THEN Commit(r, db, "ok")
       ELSE Finish(r, "conflict")

--------------------------------------------------------------------------------

Next ==
    \E r \in Requests :
        \/ \E command \in Commands : Begin(r, command)
        \/ BeginPersist(r) \/ LockExternalCustomerID(r) \/ LockCustomer(r)
        \/ Retry(r) \/ Fail(r)
        \/ CheckAlias(r) \/ InsertCustomer(r) \/ PutCustomerAlias(r)
        \/ MergeCustomers(r) \/ CommitMerge(r)
        \/ ResolveScope(r) \/ CommitPersist(r)

Spec == Init /\ [][Next]_vars

--------------------------------------------------------------------------------
(* Properties.                                                               *)

Results == {"ok", "not_found", "conflict", "entitlement_conflict", "unavailable", "error"}

Scopes == [pc : {"scope"}, command : Commands, scope : SUBSET Customers]

Transactions ==
    [pc : {"external", "rows", "closure", "check", "insert", "resolve"}, command : Commands,
     attempt : 1..MaxAttempts, scope : SUBSET Customers, view : Database, stale : BOOLEAN,
     todo : SUBSET Customers]

Answers == [pc : {"ended"}, command : Commands, result : Results]

TypeOK ==
    /\ db \in Database
    /\ request \in [Requests -> {Idle} \cup Scopes \cup Transactions \cup Answers]
    /\ externalLock \in [Externals -> Requests \cup {None}]
    /\ rowLock \in [Customers -> Requests \cup {None}]

\* Aliases and merges never form a chain, whatever runs concurrently: every external id
\* that is known resolves, so that no purchase or read of it ends in ErrConflict.
NeverUnresolvable == \A x \in Externals : ~Unresolvable(db, x)

\* "Same idempotency_key, same canonical id, same source id: return the stored audit row":
\* a merge that has been committed is not refused to the client that repeats it, also
\* when the repetition ran concurrently with the merge.
RepeatedMergeNotRefused ==
    \A r \in Requests :
        request[r].pc = "ended" /\ request[r].command.op = "merge" /\ request[r].result = "conflict" =>
            \A m \in db.merges : ~ /\ m.key = request[r].command.key
                                   /\ m.customer = request[r].command.customer
                                   /\ m.source = request[r].command.source

\* A purchase verified while its customer is merged is recorded for the customer that is
\* canonical when the transaction commits, not for the one read before the provider call.
RecordedForCanonical ==
    [][\A r \in Requests : CommitPersist(r) /\ request'[r].result = "ok" =>
          PersistedFor(r) = ResolveCustomer(db, request[r].command.external)]_vars

\* TestPutCustomerRejectsAliasExternalID: "an alias cannot become a second customer".  The
\* advisory lock "serializes customer creation and alias creation for one external id".
OneOwner ==
    \A x \in Externals : db.alias[x] # None => \A c \in Customers : db.external[c] # x

====
