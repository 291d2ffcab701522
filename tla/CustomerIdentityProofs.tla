---- MODULE CustomerIdentityProofs ----
(***************************************************************************)
(* Resolution of external ids, for any number of customers and requests.   *)
(*                                                                         *)
(* A transaction decides on its snapshot and writes to the database of     *)
(* later.  The invariant therefore says what a snapshot still tells: an    *)
(* old one is a part of the past, one that is not stale has the identity   *)
(* rows of the present (all but customers created meanwhile).              *)
(***************************************************************************)
EXTENDS CustomerIdentity, TLAPS

Deciding == {r \in Requests : request[r] \in Transactions /\ request[r].command.op # "customer"}

\* The identity rows of d are kept in e: nothing is ever taken back.
KeptIn(d, e) ==
    /\ d.merges \subseteq e.merges
    /\ \A c \in Customers : d.mergedInto[c] # None => e.mergedInto[c] = d.mergedInto[c]
    /\ \A x \in Externals : d.alias[x] # None => e.alias[x] = d.alias[x]

SnapshotsArePast == \A r \in Deciding : KeptIn(request[r].view, db)

FreshSnapshots ==
    \A r \in Deciding : ~request[r].stale =>
        /\ request[r].view.mergedInto = db.mergedInto
        /\ request[r].view.alias = db.alias
        /\ request[r].view.merges = db.merges

\* Between the decision to merge and its commit.
MergesDecided ==
    \A r \in Deciding : request[r].pc = "closure" /\ request[r].command.op = "merge" =>
        ~Refused(request[r].view, request[r].command)

\* No chains: what an alias or a merge points at is not merged itself.
NoChains ==
    /\ \A c \in Customers : db.mergedInto[c] # None => db.mergedInto[db.mergedInto[c]] = None
    /\ \A x \in Externals : db.alias[x] # None => db.mergedInto[db.alias[x]] = None

Committed(w) == [key |-> w.key, customer |-> w.customer, source |-> w.source]

\* What a snapshot refuses and has not stored was not committed since, ...
RefusalsHold ==
    \A r \in Deciding :
        request[r].command.op = "merge" /\ Refused(request[r].view, request[r].command)
        /\ Committed(request[r].command) \notin request[r].view.merges =>
            Committed(request[r].command) \notin db.merges

\* ... and what was refused to a client never is.
RefusedForGood ==
    \A r \in Requests :
        request[r] \in Answers /\ request[r].command.op = "merge" /\ request[r].result = "conflict" =>
            /\ Refused(db, request[r].command)
            /\ Committed(request[r].command) \notin db.merges

\* The places that only one kind of command reaches.
Fits(t) ==
    /\ t.pc = "external" => t.command.op \in {"customer", "alias"}
    /\ t.pc \in {"check", "insert"} => t.command.op = "customer"
    /\ t.pc = "resolve" => t.command.op = "persist"

PlacesFit == \A r \in Requests : request[r] \in Transactions => Fits(request[r])

IInv == /\ TypeOK /\ SnapshotsArePast /\ FreshSnapshots /\ MergesDecided
        /\ NoChains /\ RefusalsHold /\ RefusedForGood /\ PlacesFit

--------------------------------------------------------------------------------
(* The states of a request.                                                  *)

\* A request's place tells which kind of record it is.
LEMMA Places ==
  ASSUME NEW s \in {Idle} \cup Scopes \cup Transactions \cup Answers
  PROVE  /\ s \in Transactions <=> s.pc \notin {"idle", "scope", "ended"}
         /\ s \in Scopes <=> s.pc = "scope"
         /\ s \in Answers <=> s.pc = "ended"
         /\ s = Idle <=> s.pc = "idle"
BY DEF Idle, Scopes, Transactions, Answers

\* A transaction begins with the identity rows of the present.
LEMMA TransactionType ==
  ASSUME TypeOK, NEW w \in Commands, NEW n \in 1..MaxAttempts, NEW S \in SUBSET Customers
  PROVE  LET t == Transaction(w, n, S)
         IN  /\ t \in Transactions
             /\ t.command = w /\ t.view = db /\ t.stale = FALSE /\ t.pc # "closure"
             /\ Fits(t)
<1> USE IdentityAssumption
<1>1. w.op \in {"customer", "alias", "merge", "persist"}
  BY DEF AllCommands
<1>2. w.op = "merge" => w.customer \in Customers /\ w.source \in Customers
  BY DEF AllCommands
<1> QED  BY <1>1, <1>2 DEF Transaction, Transactions, TypeOK, Fits

\* Releasing locks keeps the locks well formed.
LEMMA ReleaseType ==
  ASSUME TypeOK, NEW r \in Requests, ReleaseLocks(r)
  PROVE  /\ externalLock' \in [Externals -> Requests \cup {None}]
         /\ rowLock' \in [Customers -> Requests \cup {None}]
BY DEF TypeOK, ReleaseLocks

\* Refusals are permanent, because nothing is taken back.
LEMMA RefusedKept ==
  ASSUME NEW d \in Database, NEW e \in Database, KeptIn(d, e),
         NEW w \in Commands, w.op = "merge", Refused(d, w)
  PROVE  Refused(e, w)
<1> USE IdentityAssumption
<1>1. w.customer \in Customers /\ w.source \in Customers
  BY DEF AllCommands
<1>2. CASE \E m \in d.merges : m.key = w.key \/ m.source = w.source
  BY <1>2 DEF Refused, KeptIn
<1>3. CASE d.mergedInto[w.customer] # None \/ d.mergedInto[w.source] # None
  BY <1>1, <1>3 DEF Refused, KeptIn
<1>4. CASE OwnsAlias(d, w.source)
  BY <1>1, <1>4 DEF Refused, KeptIn, OwnsAlias
<1>5. CASE OwnsMerge(d, w.source)
  BY <1>1, <1>5 DEF Refused, KeptIn, OwnsMerge
<1> QED  BY <1>2, <1>3, <1>4, <1>5 DEF Refused

--------------------------------------------------------------------------------
(* Kinds of step.                                                            *)

\* A request that moves without adding an alias or a merge: other requests stay.
LEMMA MoveKeeps ==
  ASSUME IInv, NEW r \in Requests, NEW t \in Scopes \cup Transactions \cup Answers,
         db' \in Database, db'.mergedInto = db.mergedInto, db'.alias = db.alias,
         db'.merges = db.merges, request' = [request EXCEPT ![r] = t],
         externalLock' \in [Externals -> Requests \cup {None}],
         rowLock' \in [Customers -> Requests \cup {None}],
         t \in Transactions /\ t.command.op # "customer" =>
             \/ t.view = db
             \/ /\ request[r] \in Transactions /\ t.view = request[r].view
                /\ t.stale = request[r].stale /\ t.command = request[r].command,
         t \in Transactions /\ t.pc = "closure" /\ t.command.op = "merge" =>
             ~Refused(t.view, t.command),
         t \in Answers /\ t.command.op = "merge" /\ t.result = "conflict" =>
             /\ Refused(db, t.command)
             /\ Committed(t.command) \notin db.merges,
         t \in Transactions => Fits(t)
  PROVE  IInv'
<1> USE DEF IInv
<1>1. request' \in [Requests -> {Idle} \cup Scopes \cup Transactions \cup Answers]
  BY DEF TypeOK
<1>2. \A q \in Requests : q # r => request'[q] = request[q]
  BY DEF TypeOK
<1>3. request'[r] = t
  BY DEF TypeOK
<1>4. TypeOK'
  BY <1>1 DEF TypeOK
<1>5. SnapshotsArePast'
  <2> SUFFICES ASSUME NEW q \in Deciding' PROVE KeptIn(request'[q].view, db)
    BY DEF SnapshotsArePast, KeptIn
  <2>1. CASE q # r
    BY <2>1, <1>2 DEF SnapshotsArePast, Deciding
  <2>2. CASE q = r /\ t.view = db
    BY <2>2, <1>3 DEF KeptIn
  <2>3. CASE q = r /\ request[r] \in Transactions /\ t.view = request[r].view
             /\ t.command = request[r].command
    BY <2>3, <1>3 DEF SnapshotsArePast, Deciding
  <2> QED  BY <2>1, <2>2, <2>3, <1>3 DEF Deciding
<1>6. FreshSnapshots'
  <2> SUFFICES ASSUME NEW q \in Deciding', ~request'[q].stale
               PROVE  /\ request'[q].view.mergedInto = db.mergedInto
                      /\ request'[q].view.alias = db.alias
                      /\ request'[q].view.merges = db.merges
    BY DEF FreshSnapshots
  <2>1. CASE q # r
    BY <2>1, <1>2 DEF FreshSnapshots, Deciding
  <2>2. CASE q = r
    BY <2>2, <1>3 DEF FreshSnapshots, Deciding
  <2> QED  BY <2>1, <2>2
<1>7. MergesDecided'
  <2> SUFFICES ASSUME NEW q \in Deciding', request'[q].pc = "closure", request'[q].command.op = "merge"
               PROVE  ~Refused(request'[q].view, request'[q].command)
    BY DEF MergesDecided, Refused, OwnsAlias, OwnsMerge
  <2>1. CASE q # r
    BY <2>1, <1>2 DEF MergesDecided, Deciding
  <2>2. CASE q = r
    BY <2>2, <1>3 DEF Deciding
  <2> QED  BY <2>1, <2>2
<1>8. NoChains'
  BY DEF NoChains
<1>9. RefusalsHold'
  <2> SUFFICES ASSUME NEW q \in Deciding', request'[q].command.op = "merge",
                      Refused(request'[q].view, request'[q].command),
                      Committed(request'[q].command) \notin request'[q].view.merges
               PROVE  Committed(request'[q].command) \notin db.merges
    BY DEF RefusalsHold, Refused, OwnsAlias, OwnsMerge, Committed
  <2>1. CASE q # r
    BY <2>1, <1>2 DEF RefusalsHold, Deciding
  <2>2. CASE q = r
    BY <2>2, <1>3 DEF RefusalsHold, Deciding
  <2> QED  BY <2>1, <2>2
<1>10. RefusedForGood'
  <2> SUFFICES ASSUME NEW q \in Requests, request'[q] \in Answers,
                      request'[q].command.op = "merge", request'[q].result = "conflict"
               PROVE  /\ Refused(db, request'[q].command)
                      /\ Committed(request'[q].command) \notin db.merges
    BY DEF RefusedForGood, Refused, OwnsAlias, OwnsMerge, Committed
  <2>1. CASE q # r
    BY <2>1, <1>2 DEF RefusedForGood
  <2>2. CASE q = r
    BY <2>2, <1>3
  <2> QED  BY <2>1, <2>2
<1>11. PlacesFit'
  <2> SUFFICES ASSUME NEW q \in Requests, request'[q] \in Transactions PROVE Fits(request'[q])
    BY DEF PlacesFit, Fits
  <2>1. CASE q # r
    BY <2>1, <1>2 DEF PlacesFit
  <2>2. CASE q = r
    BY <2>2, <1>3
  <2> QED  BY <2>1, <2>2
<1> QED  BY <1>4, <1>5, <1>6, <1>7, <1>8, <1>9, <1>10, <1>11

\* A transaction that ends without a write; a refused merge stays refused.
LEMMA FinishKeeps ==
  ASSUME IInv, NEW r \in Requests, request[r] \in Transactions, NEW result \in Results,
         Finish(r, result),
         result = "conflict" /\ request[r].command.op = "merge" =>
             /\ Refused(request[r].view, request[r].command)
             /\ Committed(request[r].command) \notin request[r].view.merges
  PROVE  IInv'
<1> DEFINE t == Ended(r, result)
           w == request[r].command
<1>1. w \in Commands /\ request[r].view \in Database
  BY DEF Transactions
<1>2. t \in Answers /\ t.command = w /\ t.result = result /\ t \notin Transactions
  BY <1>1 DEF Ended, Answers, Transactions
<1>3. /\ externalLock' \in [Externals -> Requests \cup {None}]
      /\ rowLock' \in [Customers -> Requests \cup {None}]
  BY ReleaseType DEF Finish, IInv
<1>4. w.op = "merge" /\ result = "conflict" => Refused(db, w) /\ Committed(w) \notin db.merges
  <2> HAVE w.op = "merge" /\ result = "conflict"
  <2>1. r \in Deciding
    BY DEF Deciding
  <2>2. KeptIn(request[r].view, db) /\ db \in Database
    BY <2>1 DEF IInv, SnapshotsArePast, TypeOK
  <2>3. Refused(db, w)
    BY <2>2, <1>1, RefusedKept
  <2>4. Committed(w) \notin db.merges
    BY <2>1 DEF IInv, RefusalsHold
  <2> QED  BY <2>3, <2>4
<1>5. /\ db' \in Database /\ db'.mergedInto = db.mergedInto /\ db'.alias = db.alias
      /\ db'.merges = db.merges /\ request' = [request EXCEPT ![r] = t]
  BY DEF Finish, IInv, TypeOK
<1> HIDE DEF t, w
<1> QED  BY <1>2, <1>3, <1>4, <1>5, MoveKeeps

\* A merge is refused by its key, its source and its customer alone.
LEMMA SameRefusal ==
  ASSUME NEW d, NEW v, NEW w, Committed(v) = Committed(w), Refused(d, v)
  PROVE  Refused(d, w)
<1>1. v.key = w.key /\ v.customer = w.customer /\ v.source = w.source
  BY DEF Committed
<1> QED  BY <1>1 DEF Refused

\* A writing commit: rows are added, other snapshots become stale, and a merge is only
\* added that the present does not refuse.
LEMMA CommitKeeps ==
  ASSUME IInv, NEW r \in Requests, request[r] \in Transactions, NEW rows \in Database,
         Commit(r, rows, "ok"), KeptIn(db, rows), NoChains',
         \/ rows.merges = db.merges
         \/ /\ rows.merges = db.merges \cup {Committed(request[r].command)}
            /\ ~Refused(db, request[r].command)
  PROVE  IInv'
<1> DEFINE w == request[r].command
<1>1. db' = rows /\ db \in Database
  BY DEF Commit, IInv, TypeOK
<1>2. request[r].command \in Commands
  BY DEF Transactions
<1>3. request'[r] \in Answers /\ request'[r].result = "ok"
  BY <1>2 DEF Commit, Ended, Answers, Results
<1>4. ASSUME NEW q \in Requests, q # r
      PROVE  \/ /\ q \in Deciding
                /\ request'[q] = [request[q] EXCEPT !.stale = TRUE]
             \/ /\ q \notin Deciding
                /\ request'[q] = request[q]
  <2>1. request[q] \in {Idle} \cup Scopes \cup Transactions \cup Answers
    BY DEF IInv, TypeOK
  <2>2. InTransaction(q) <=> request[q] \in Transactions
    BY <2>1, Places DEF InTransaction
  <2> QED  BY <1>4, <2>2 DEF Commit, Deciding, Serializable
<1>5. ASSUME NEW q \in Deciding'
      PROVE  /\ q # r /\ q \in Deciding /\ request'[q].stale
             /\ request'[q].view = request[q].view
             /\ request'[q].command = request[q].command
             /\ request'[q].pc = request[q].pc
             /\ request[q].view \in Database /\ request[q].command \in Commands
  <2>1. q \in Requests /\ q # r
    BY <1>3, Places DEF Deciding, Answers, Transactions
  <2>2. q \in Deciding /\ request'[q] = [request[q] EXCEPT !.stale = TRUE]
    BY <2>1, <1>4 DEF Deciding
  <2> QED  BY <2>1, <2>2 DEF Deciding, Transactions
<1>6. TypeOK'
  <2>1. request' \in [Requests -> {Idle} \cup Scopes \cup Transactions \cup Answers]
    <3>1. \A q \in Requests : request'[q] \in {Idle} \cup Scopes \cup Transactions \cup Answers
      <4> TAKE q \in Requests
      <4>1. CASE q = r
        BY <4>1, <1>3
      <4>2. CASE q # r
        BY <4>2, <1>4 DEF IInv, TypeOK, Deciding, Transactions
      <4> QED  BY <4>1, <4>2
    <3> QED  BY <3>1 DEF Commit
  <2> QED  BY <2>1, <1>1, ReleaseType DEF Commit, IInv, TypeOK
<1>7. SnapshotsArePast'
  <2> SUFFICES ASSUME NEW q \in Deciding' PROVE KeptIn(request'[q].view, db')
    BY DEF SnapshotsArePast, KeptIn
  <2>1. KeptIn(request[q].view, db)
    BY <1>5 DEF IInv, SnapshotsArePast
  <2>2. request[q].view \in Database
    BY <1>5
  <2>3. KeptIn(request[q].view, rows)
    BY <2>1, <2>2, <1>1 DEF KeptIn, Database
  <2> QED  BY <2>3, <1>1, <1>5
<1>8. FreshSnapshots'
  BY <1>5 DEF FreshSnapshots
<1>9. MergesDecided'
  <2> SUFFICES ASSUME NEW q \in Deciding', request'[q].pc = "closure", request'[q].command.op = "merge"
               PROVE  ~Refused(request'[q].view, request'[q].command)
    BY DEF MergesDecided, Refused, OwnsAlias, OwnsMerge
  <2> QED  BY <1>5 DEF IInv, MergesDecided
<1>10. ASSUME NEW v \in Commands, v.op = "merge", Refused(db, v), Committed(v) \notin db.merges
       PROVE  Committed(v) \notin rows.merges
  BY <1>10, SameRefusal
<1>11. RefusalsHold'
  <2> SUFFICES ASSUME NEW q \in Deciding', request'[q].command.op = "merge",
                      Refused(request'[q].view, request'[q].command),
                      Committed(request'[q].command) \notin request'[q].view.merges
               PROVE  Committed(request'[q].command) \notin db'.merges
    BY DEF RefusalsHold, Refused, OwnsAlias, OwnsMerge, Committed
  <2> DEFINE v == request[q].command
  <2>1. v \in Commands /\ v.op = "merge" /\ Refused(request[q].view, v)
    BY <1>5
  <2>2. KeptIn(request[q].view, db)
    BY <1>5 DEF IInv, SnapshotsArePast
  <2>3. Refused(db, v)
    BY <2>1, <2>2, <1>1, <1>5, RefusedKept
  <2>4. Committed(v) \notin db.merges
    BY <1>5 DEF IInv, RefusalsHold
  <2> QED  BY <2>1, <2>3, <2>4, <1>1, <1>5, <1>10
<1>12. RefusedForGood'
  <2> SUFFICES ASSUME NEW q \in Requests, request'[q] \in Answers,
                      request'[q].command.op = "merge", request'[q].result = "conflict"
               PROVE  /\ Refused(db', request'[q].command)
                      /\ Committed(request'[q].command) \notin db'.merges
    BY DEF RefusedForGood, Refused, OwnsAlias, OwnsMerge, Committed
  <2> DEFINE v == request[q].command
  <2>1. q # r
    BY <1>3
  <2>2. request'[q] = request[q]
    BY <2>1, <1>4 DEF Deciding, Transactions, Answers
  <2>3. v \in Commands /\ v.op = "merge" /\ Refused(db, v) /\ Committed(v) \notin db.merges
    BY <2>2 DEF IInv, RefusedForGood, Answers
  <2>4. Refused(rows, v)
    BY <2>3, <1>1, RefusedKept
  <2> QED  BY <2>2, <2>3, <2>4, <1>1, <1>10
<1>13. PlacesFit'
  <2> SUFFICES ASSUME NEW q \in Requests, request'[q] \in Transactions PROVE Fits(request'[q])
    BY DEF PlacesFit, Fits
  <2>1. q # r
    BY <1>3 DEF Transactions, Answers
  <2>2. CASE q \in Deciding /\ request'[q] = [request[q] EXCEPT !.stale = TRUE]
    <3>1. request[q] \in Transactions /\ Fits(request[q])
      BY <2>2 DEF Deciding, IInv, PlacesFit
    <3>2. request'[q].pc = request[q].pc /\ request'[q].command = request[q].command
      BY <2>2, <3>1 DEF Transactions
    <3> QED  BY <3>1, <3>2 DEF Fits
  <2>3. CASE request'[q] = request[q]
    BY <2>3 DEF IInv, PlacesFit
  <2> QED  BY <2>1, <2>2, <2>3, <1>4
<1> QED  BY <1>6, <1>7, <1>8, <1>9, <1>11, <1>12, <1>13 DEF IInv

\* A transaction goes on to its next statement.
LEMMA GotoKeeps ==
  ASSUME IInv, NEW r \in Requests, request[r] \in Transactions,
         NEW place \in {"rows", "closure", "check", "insert"}, NEW todo \in SUBSET Customers,
         Goto(r, place, todo), UNCHANGED db,
         externalLock' \in [Externals -> Requests \cup {None}],
         rowLock' \in [Customers -> Requests \cup {None}],
         place = "closure" /\ request[r].command.op = "merge" =>
             ~Refused(request[r].view, request[r].command),
         place \in {"check", "insert"} => request[r].command.op = "customer"
  PROVE  IInv'
<1> DEFINE t == [request[r] EXCEPT !.pc = place, !.todo = todo]
<1>1. request' = [request EXCEPT ![r] = t]
  BY DEF Goto, IInv, TypeOK
<1>2. /\ t \in Transactions /\ t.pc = place /\ t.view = request[r].view
      /\ t.stale = request[r].stale /\ t.command = request[r].command
  BY DEF Transactions
<1>3. t \notin Answers /\ Fits(t)
  BY <1>2 DEF Answers, Transactions, Fits
<1>4. /\ db' \in Database /\ db'.mergedInto = db.mergedInto /\ db'.alias = db.alias
      /\ db'.merges = db.merges
  BY DEF IInv, TypeOK
<1> HIDE DEF t
<1> QED  BY <1>1, <1>2, <1>3, <1>4, MoveKeeps

\* Outside a transaction, a request has none of the places of one.
LEMMA InTransactionType ==
  ASSUME TypeOK, NEW r \in Requests, InTransaction(r)
  PROVE  request[r] \in Transactions
<1>1. request[r] \in {Idle} \cup Scopes \cup Transactions \cup Answers
  BY DEF TypeOK
<1> QED  BY <1>1, Places DEF InTransaction

--------------------------------------------------------------------------------
(* The steps, one by one.                                                    *)

\* The invariant holds when the service starts: nothing is merged.
LEMMA IInvInit ==
  Init => IInv
<1> SUFFICES ASSUME Init PROVE IInv
  OBVIOUS
<1> USE IdentityAssumption
<1>1. db \in Database /\ \A c \in Customers : db.mergedInto[c] = None
  BY DEF Init, Database
<1>2. \A x \in Externals : db.alias[x] = None
  BY DEF Init
<1>3. \A r \in Requests : /\ request[r] = Idle
                            /\ request[r] \notin Transactions /\ request[r] \notin Answers
  BY DEF Init, Idle, Transactions, Answers
<1>4. TypeOK
  BY <1>1 DEF Init, TypeOK
<1>5. Deciding = {}
  BY <1>3 DEF Deciding
<1> QED  BY <1>1, <1>2, <1>3, <1>4, <1>5
         DEF IInv, SnapshotsArePast, FreshSnapshots, MergesDecided, NoChains, RefusalsHold,
             RefusedForGood, PlacesFit

\* A new request takes its snapshot, or reads its scope.
LEMMA BeginKeeps ==
  ASSUME IInv, NEW r \in Requests, NEW command \in Commands, Begin(r, command)
  PROVE  IInv'
<1>1. /\ db' \in Database /\ db'.mergedInto = db.mergedInto /\ db'.alias = db.alias
      /\ db'.merges = db.merges
      /\ externalLock' \in [Externals -> Requests \cup {None}]
      /\ rowLock' \in [Customers -> Requests \cup {None}]
  BY DEF Begin, IInv, TypeOK
<1>2. CASE command.op = "persist"
  <2> DEFINE scope == IF Unresolvable(db, command.external) THEN {}
                      ELSE ResolveCustomer(db, command.external)
             t == [pc |-> "scope", command |-> command, scope |-> scope]
  <2>1. command.external \in Externals
    BY <1>2, IdentityAssumption DEF AllCommands
  <2>2. scope \in SUBSET Customers
    BY <2>1, IdentityAssumption DEF IInv, TypeOK, Database, ResolveCustomer, Target
  <2>3. t \in Scopes /\ t \notin Transactions /\ t \notin Answers
    BY <2>2 DEF Scopes, Transactions, Answers
  <2>4. request' = [request EXCEPT ![r] = t]
    BY <1>2 DEF Begin
  <2> HIDE DEF t, scope
  <2> QED  BY <1>1, <2>3, <2>4, MoveKeeps
<1>3. CASE command.op # "persist"
  <2> DEFINE t == Transaction(command, 1, {})
  <2>1. t \in Transactions /\ t.view = db /\ t.pc # "closure" /\ Fits(t)
    <3>1. 1 \in 1..MaxAttempts /\ {} \in SUBSET Customers /\ TypeOK
      BY IdentityAssumption DEF IInv
    <3> QED  BY <3>1, TransactionType
  <2>2. t \notin Answers
    BY <2>1 DEF Transactions, Answers
  <2>3. request' = [request EXCEPT ![r] = t]
    BY <1>3 DEF Begin
  <2> HIDE DEF t
  <2> QED  BY <1>1, <2>1, <2>2, <2>3, MoveKeeps
<1> QED  BY <1>2, <1>3

\* The persisting transaction begins with a snapshot of its own, later than its scope.
LEMMA BeginPersistKeeps ==
  ASSUME IInv, NEW r \in Requests, BeginPersist(r)
  PROVE  IInv'
<1>1. /\ db' \in Database /\ db'.mergedInto = db.mergedInto /\ db'.alias = db.alias
      /\ db'.merges = db.merges
      /\ externalLock' \in [Externals -> Requests \cup {None}]
      /\ rowLock' \in [Customers -> Requests \cup {None}]
  BY DEF BeginPersist, IInv, TypeOK
<1>2. request[r] \in {Idle} \cup Scopes \cup Transactions \cup Answers
  BY DEF IInv, TypeOK
<1>3. request[r] \in Scopes
  BY <1>2, Places DEF BeginPersist
<1>4. request[r].command \in Commands /\ request[r].scope \in SUBSET Customers
  BY <1>3 DEF Scopes
<1>5. CASE request[r].scope = {}
  <2> DEFINE t == Ended(r, "not_found")
  <2>1. t \in Answers /\ t.result = "not_found" /\ t \notin Transactions
    BY <1>4 DEF Ended, Answers, Results, Transactions
  <2>2. request' = [request EXCEPT ![r] = t]
    BY <1>5 DEF BeginPersist
  <2> HIDE DEF t
  <2> QED  BY <1>1, <2>1, <2>2, MoveKeeps
<1>6. CASE request[r].scope # {}
  <2> DEFINE t == Transaction(request[r].command, 1, request[r].scope)
  <2>1. t \in Transactions /\ t.view = db /\ t.pc # "closure" /\ Fits(t)
    <3>1. 1 \in 1..MaxAttempts /\ TypeOK
      BY IdentityAssumption DEF IInv
    <3> QED  BY <1>4, <3>1, TransactionType
  <2>2. t \notin Answers
    BY <2>1 DEF Transactions, Answers
  <2>3. request' = [request EXCEPT ![r] = t]
    BY <1>6 DEF BeginPersist
  <2> HIDE DEF t
  <2> QED  BY <1>1, <2>1, <2>2, <2>3, MoveKeeps
<1> QED  BY <1>5, <1>6

\* The advisory lock is taken; the snapshot stays as old as it was.
LEMMA LockExternalKeeps ==
  ASSUME IInv, NEW r \in Requests, LockExternalCustomerID(r)
  PROVE  IInv'
<1>1. request[r] \in Transactions
  BY InTransactionType DEF LockExternalCustomerID, InTransaction, IInv
<1>2. /\ externalLock' \in [Externals -> Requests \cup {None}]
      /\ rowLock' \in [Customers -> Requests \cup {None}]
      /\ UNCHANGED db
  BY DEF LockExternalCustomerID, IInv, TypeOK
<1> request[r].command.op \in {"customer", "alias"}
  BY <1>1 DEF LockExternalCustomerID, IInv, PlacesFit, Fits
<1>3. CASE request[r].command.op = "customer"
  BY <1>1, <1>2, <1>3, GotoKeeps DEF LockExternalCustomerID
<1>4. CASE request[r].command.op # "customer"
  <2>1. request[r].command.customer \in Customers
    BY <1>1, <1>4, IdentityAssumption DEF Transactions, AllCommands
  <2> QED  BY <1>1, <1>2, <1>4, <2>1, GotoKeeps DEF LockExternalCustomerID
<1> QED  BY <1>3, <1>4

\* A row of the customers table is locked, or the snapshot does not have it.
LEMMA LockCustomerKeeps ==
  ASSUME IInv, NEW r \in Requests, LockCustomer(r)
  PROVE  IInv'
<1>1. request[r] \in Transactions
  BY InTransactionType DEF LockCustomer, InTransaction, IInv
<1>2. CASE Finish(r, "not_found")
  BY <1>1, <1>2, FinishKeeps DEF Results
<1>3. CASE /\ rowLock' = [rowLock EXCEPT ![NextRow(r)] = r]
           /\ Goto(r, request[r].pc, request[r].todo \ {NextRow(r)})
           /\ UNCHANGED <<db, externalLock>>
  <2>1. /\ request[r].todo \ {NextRow(r)} \in SUBSET Customers
        /\ request[r].pc \in {"rows", "closure"}
    BY <1>1 DEF Transactions, LockCustomer
  <2>2. request[r].pc = "closure" /\ request[r].command.op = "merge" =>
            ~Refused(request[r].view, request[r].command)
    BY <1>1 DEF IInv, MergesDecided, Deciding
  <2>3. /\ externalLock' \in [Externals -> Requests \cup {None}]
        /\ rowLock' \in [Customers -> Requests \cup {None}]
    BY <1>3 DEF IInv, TypeOK
  <2> QED  BY <1>1, <1>3, <2>1, <2>2, <2>3, GotoKeeps
<1> QED  BY <1>2, <1>3 DEF LockCustomer

\* The next attempt begins with a snapshot of its own; the last one is answered.
LEMMA RetryKeeps ==
  ASSUME IInv, NEW r \in Requests, Retry(r)
  PROVE  IInv'
<1>1. request[r] \in Transactions
  BY InTransactionType DEF Retry, IInv
<1>2. CASE Finish(r, "unavailable")
  BY <1>1, <1>2, FinishKeeps DEF Results
<1>3. CASE /\ request[r].attempt # MaxAttempts
           /\ request' = [request EXCEPT ![r] =
                  Transaction(request[r].command, request[r].attempt + 1, request[r].scope)]
           /\ ReleaseLocks(r)
           /\ UNCHANGED db
  <2> DEFINE t == Transaction(request[r].command, request[r].attempt + 1, request[r].scope)
  <2>1. /\ request[r].command \in Commands /\ request[r].scope \in SUBSET Customers
        /\ request[r].attempt \in 1..MaxAttempts
    BY <1>1 DEF Transactions
  <2>2. request[r].attempt + 1 \in 1..MaxAttempts /\ TypeOK
    BY <1>3, <2>1, IdentityAssumption DEF IInv
  <2>3. t \in Transactions /\ t.view = db /\ t.pc # "closure" /\ Fits(t)
    BY <2>1, <2>2, TransactionType
  <2>4. t \notin Answers
    BY <2>3 DEF Transactions, Answers
  <2>5. /\ externalLock' \in [Externals -> Requests \cup {None}]
        /\ rowLock' \in [Customers -> Requests \cup {None}]
    BY <1>3, <2>2, ReleaseType
  <2>6. /\ db' \in Database /\ db'.mergedInto = db.mergedInto /\ db'.alias = db.alias
        /\ db'.merges = db.merges /\ request' = [request EXCEPT ![r] = t]
    BY <1>3, <2>2 DEF TypeOK
  <2> HIDE DEF t
  <2> QED  BY <2>3, <2>4, <2>5, <2>6, MoveKeeps
<1> QED  BY <1>2, <1>3 DEF Retry

\* A rollback writes nothing.
LEMMA FailKeeps ==
  ASSUME IInv, NEW r \in Requests, Fail(r)
  PROVE  IInv'
<1>1. request[r] \in Transactions
  BY InTransactionType DEF Fail, IInv
<1> QED  BY <1>1, FinishKeeps DEF Fail, Results

\* PutCustomer looks for an alias of the external id.
LEMMA CheckAliasKeeps ==
  ASSUME IInv, NEW r \in Requests, CheckAlias(r)
  PROVE  IInv'
<1>1. request[r] \in Transactions
  BY InTransactionType DEF CheckAlias, InTransaction, IInv
<1>2. request[r].command.op = "customer"
  BY <1>1 DEF CheckAlias, IInv, PlacesFit, Fits
<1>3. CASE Finish(r, "conflict")
  BY <1>1, <1>2, <1>3, FinishKeeps DEF Results
<1>4. CASE Goto(r, "insert", {}) /\ UNCHANGED <<db, externalLock, rowLock>>
  <2>1. /\ externalLock' \in [Externals -> Requests \cup {None}]
        /\ rowLock' \in [Customers -> Requests \cup {None}]
    BY <1>4 DEF IInv, TypeOK
  <2> QED  BY <1>1, <1>2, <1>4, <2>1, GotoKeeps
<1> QED  BY <1>3, <1>4 DEF CheckAlias

\* A created customer is neither merged nor pointed at by a new alias.
LEMMA InsertCustomerKeeps ==
  ASSUME IInv, NEW r \in Requests, InsertCustomer(r)
  PROVE  IInv'
<1> USE IdentityAssumption
<1>1. request[r] \in Transactions
  BY InTransactionType DEF InsertCustomer, InTransaction, IInv
<1>2. request[r].command.op = "customer" /\ request[r].command \in Commands
  BY <1>1 DEF InsertCustomer, IInv, PlacesFit, Fits, Transactions
<1>3. CASE Finish(r, "ok") \/ Finish(r, "conflict")
  BY <1>1, <1>2, <1>3, FinishKeeps DEF Results
<1>4. CASE /\ db' = [db EXCEPT !.external[request[r].command.customer] = request[r].command.external]
           /\ request' = [request EXCEPT ![r] = Ended(r, "ok")]
           /\ ReleaseLocks(r)
  <2> DEFINE t == Ended(r, "ok")
  <2>1. request[r].command.customer \in Customers /\ request[r].command.external \in Externals
    BY <1>2 DEF AllCommands
  <2>2. /\ db' \in Database /\ db'.mergedInto = db.mergedInto /\ db'.alias = db.alias
        /\ db'.merges = db.merges
    BY <1>4, <2>1 DEF IInv, TypeOK, Database
  <2>3. t \in Answers /\ t.result = "ok" /\ t \notin Transactions
    BY <1>2 DEF Ended, Answers, Results, Transactions
  <2>4. /\ externalLock' \in [Externals -> Requests \cup {None}]
        /\ rowLock' \in [Customers -> Requests \cup {None}]
    BY <1>4, ReleaseType DEF IInv
  <2>5. request' = [request EXCEPT ![r] = t]
    BY <1>4
  <2> HIDE DEF t
  <2> QED  BY <2>2, <2>3, <2>4, <2>5, MoveKeeps
<1> QED  BY <1>3, <1>4 DEF InsertCustomer

\* An alias points at a customer that is not merged, now as in the snapshot.
LEMMA PutCustomerAliasKeeps ==
  ASSUME IInv, NEW r \in Requests, PutCustomerAlias(r)
  PROVE  IInv'
<1> DEFINE w == request[r].command
           view == request[r].view
           rows == [db EXCEPT !.alias[w.external] = w.customer]
<1>1. request[r] \in Transactions
  BY InTransactionType DEF PutCustomerAlias, InTransaction, IInv
<1>2. /\ w.op = "alias" /\ w.customer \in Customers /\ w.external \in Externals
      /\ view \in Database /\ db \in Database
  BY <1>1, IdentityAssumption DEF PutCustomerAlias, Transactions, AllCommands, IInv, TypeOK
<1>3. CASE Finish(r, "ok") \/ Finish(r, "conflict")
  BY <1>1, <1>2, <1>3, FinishKeeps DEF Results
<1>4. CASE /\ view.mergedInto[w.customer] = None
           /\ ResolveCustomer(view, w.external) = {}
           /\ Commit(r, rows, "ok")
  <2>1. db.mergedInto = view.mergedInto /\ db.alias = view.alias
    BY <1>1, <1>2, <1>4 DEF Commit, IInv, FreshSnapshots, Deciding
  <2>2. view.alias[w.external] = None
    BY <1>4 DEF ResolveCustomer
  <2>3. /\ rows \in Database /\ rows.merges = db.merges /\ rows.mergedInto = db.mergedInto
        /\ rows.alias = [db.alias EXCEPT ![w.external] = w.customer]
    BY <1>2 DEF Database
  <2>4. KeptIn(db, rows)
    BY <1>2, <2>1, <2>2, <2>3 DEF KeptIn, Database
  <2>5. db' = rows
    BY <1>4 DEF Commit
  <2> HIDE DEF rows
  <2>6. NoChains'
    BY <1>2, <1>4, <2>1, <2>3, <2>5 DEF NoChains, IInv, Database
  <2> QED  BY <1>1, <1>4, <2>3, <2>4, <2>6, CommitKeeps
<1> QED  BY <1>3, <1>4 DEF PutCustomerAlias

\* A stored merge is repeated, a merge is refused or decided on.
LEMMA MergeCustomersKeeps ==
  ASSUME IInv, NEW r \in Requests, MergeCustomers(r)
  PROVE  IInv'
<1> DEFINE w == request[r].command
           view == request[r].view
           closure == CustomerClosure(Merged(view, w), w.customer)
<1>1. request[r] \in Transactions
  BY InTransactionType DEF MergeCustomers, InTransaction, IInv
<1>2. CASE Finish(r, "ok") \/ Finish(r, "entitlement_conflict")
  BY <1>1, <1>2, FinishKeeps DEF Results
<1>3. CASE ~Stored(view, w) /\ Refused(view, w) /\ Finish(r, "conflict")
  <2>1. Committed(w) \notin view.merges
    BY <1>3 DEF Stored, Committed
  <2> QED  BY <1>1, <1>3, <2>1, FinishKeeps DEF Results
<1>4. CASE /\ ~Refused(view, w)
           /\ Goto(r, "closure", closure)
           /\ UNCHANGED <<db, externalLock, rowLock>>
  <2>1. closure \in SUBSET Customers
    BY DEF CustomerClosure
  <2>2. /\ externalLock' \in [Externals -> Requests \cup {None}]
        /\ rowLock' \in [Customers -> Requests \cup {None}]
    BY <1>4 DEF IInv, TypeOK
  <2> HIDE DEF closure
  <2> QED  BY <1>1, <1>4, <2>1, <2>2, GotoKeeps
<1> QED  BY <1>2, <1>3, <1>4 DEF MergeCustomers

\* The decision of the snapshot holds for the present, so the merge builds no chain.
LEMMA CommitMergeKeeps ==
  ASSUME IInv, NEW r \in Requests, CommitMerge(r)
  PROVE  IInv'
<1> DEFINE w == request[r].command
           view == request[r].view
           rows == Merged(db, w)
<1>1. request[r] \in Transactions
  BY InTransactionType DEF CommitMerge, InTransaction, IInv
<1>2. /\ w.customer \in Customers /\ w.source \in Customers /\ w.customer # w.source
      /\ w.key \in Keys /\ db \in Database
  BY <1>1, IdentityAssumption DEF CommitMerge, Transactions, AllCommands, IInv, TypeOK
<1>3. r \in Deciding /\ ~Refused(view, w)
  BY <1>1 DEF CommitMerge, IInv, MergesDecided, Deciding
<1>4. view.mergedInto = db.mergedInto /\ view.alias = db.alias /\ view.merges = db.merges
  BY <1>3 DEF CommitMerge, Commit, IInv, FreshSnapshots
<1>5. ~Refused(db, w)
  BY <1>3, <1>4 DEF Refused, OwnsAlias, OwnsMerge
<1>6. /\ rows \in Database /\ rows.alias = db.alias
      /\ rows.mergedInto = [db.mergedInto EXCEPT ![w.source] = w.customer]
      /\ rows.merges = db.merges \cup {Committed(w)}
  <2> DEFINE into == [db.mergedInto EXCEPT ![w.source] = w.customer]
             added == db.merges \cup {Committed(w)}
  <2>1. into \in [Customers -> Customers \cup {None}]
    BY <1>2 DEF Database
  <2>2. added \in SUBSET [key : Keys, customer : Customers, source : Customers]
    BY <1>2 DEF Database, Committed
  <2>3. rows = [external |-> db.external, mergedInto |-> into, alias |-> db.alias, merges |-> added]
    <3>1. rows = [[db EXCEPT !.mergedInto[w.source] = w.customer] EXCEPT !.merges = added]
      BY DEF Merged, Committed
    <3> HIDE DEF rows, added, w
    <3> QED  BY <1>2, <3>1 DEF Database
  <2> HIDE DEF into, added, rows
  <2>4. rows \in Database /\ rows.alias = db.alias /\ rows.mergedInto = into /\ rows.merges = added
    BY <1>2, <2>1, <2>2, <2>3 DEF Database
  <2> QED  BY <2>4 DEF into, added
<1>7. KeptIn(db, rows)
  BY <1>2, <1>5, <1>6 DEF KeptIn, Refused, Database
<1>8. Commit(r, rows, "ok") /\ db' = rows
  BY DEF CommitMerge, Commit
<1> HIDE DEF rows
<1>9. NoChains'
  <2>1. /\ db.mergedInto[w.customer] = None
        /\ \A c \in Customers : db.mergedInto[c] # w.source
        /\ \A x \in Externals : db.alias[x] # w.source
    BY <1>2, <1>5 DEF Refused, OwnsAlias, OwnsMerge
  <2>2. /\ db.mergedInto \in [Customers -> Customers \cup {None}]
        /\ db.alias \in [Externals -> Customers \cup {None}]
    BY <1>2 DEF Database
  <2>3. db'.alias = db.alias /\ db'.mergedInto = [db.mergedInto EXCEPT ![w.source] = w.customer]
    BY <1>6, <1>8
  <2> DEFINE from == w.source
             to == w.customer
  <2>4. NoChains
    BY DEF IInv
  <2>5. from \in Customers /\ to \in Customers /\ from # to
    BY <1>2
  <2> HIDE DEF from, to, w
  <2>6. ASSUME NEW c \in Customers, db'.mergedInto[c] # None
        PROVE  db'.mergedInto[db'.mergedInto[c]] = None
    <3>1. CASE c = from
      BY <3>1, <2>1, <2>2, <2>3, <2>5 DEF from, to
    <3>2. CASE c # from
      BY <3>2, <2>6, <2>1, <2>2, <2>3, <2>4, <2>5 DEF NoChains, from, to
    <3> QED  BY <3>1, <3>2
  <2>7. ASSUME NEW x \in Externals, db'.alias[x] # None
        PROVE  db'.mergedInto[db'.alias[x]] = None
    BY <2>7, <2>1, <2>2, <2>3, <2>4, <2>5 DEF NoChains, from, to
  <2> QED  BY <2>6, <2>7 DEF NoChains
<1> QED  BY <1>1, <1>5, <1>6, <1>7, <1>8, <1>9, CommitKeeps

\* The external id is resolved again in the persisting transaction.
LEMMA ResolveScopeKeeps ==
  ASSUME IInv, NEW r \in Requests, ResolveScope(r)
  PROVE  IInv'
<1>1. request[r] \in Transactions
  BY InTransactionType DEF ResolveScope, InTransaction, IInv
<1>2. request[r].command.op = "persist"
  BY <1>1 DEF ResolveScope, IInv, PlacesFit, Fits
<1>3. CASE Finish(r, "conflict")
  BY <1>1, <1>2, <1>3, FinishKeeps DEF Results
<1>4. CASE Goto(r, "closure", PersistClosure(r)) /\ UNCHANGED <<db, externalLock, rowLock>>
  <2>1. PersistClosure(r) \in SUBSET Customers
    BY DEF PersistClosure, CustomerClosure
  <2>2. /\ externalLock' \in [Externals -> Requests \cup {None}]
        /\ rowLock' \in [Customers -> Requests \cup {None}]
    BY <1>4 DEF IInv, TypeOK
  <2> QED  BY <1>1, <1>2, <1>4, <2>1, <2>2, GotoKeeps
<1> QED  BY <1>3, <1>4 DEF ResolveScope

\* A recorded purchase changes no identity row.
LEMMA CommitPersistKeeps ==
  ASSUME IInv, NEW r \in Requests, CommitPersist(r)
  PROVE  IInv'
<1>1. request[r] \in Transactions
  BY InTransactionType DEF CommitPersist, InTransaction, IInv
<1>2. CASE Finish(r, "conflict")
  BY <1>1, <1>2, FinishKeeps DEF CommitPersist, Results
<1>3. CASE Commit(r, db, "ok")
  <2>1. db \in Database /\ KeptIn(db, db)
    BY DEF IInv, TypeOK, KeptIn
  <2>2. NoChains'
    BY <1>3 DEF IInv, NoChains, Commit
  <2> QED  BY <1>1, <1>3, <2>1, <2>2, CommitKeeps
<1> QED  BY <1>2, <1>3 DEF CommitPersist

\* The invariant is inductive.
LEMMA IInvNext ==
  IInv /\ [Next]_vars => IInv'
<1> SUFFICES ASSUME IInv, [Next]_vars PROVE IInv'
  OBVIOUS
<1>1. CASE UNCHANGED vars
  <2>1. db' = db /\ request' = request /\ externalLock' = externalLock /\ rowLock' = rowLock
    BY <1>1 DEF vars
  <2>2. TypeOK' /\ NoChains' /\ PlacesFit'
    BY <2>1 DEF IInv, TypeOK, NoChains, PlacesFit, Fits
  <2>3. SnapshotsArePast' /\ FreshSnapshots'
    BY <2>1 DEF IInv, SnapshotsArePast, FreshSnapshots, Deciding, KeptIn
  <2>4. MergesDecided' /\ RefusalsHold' /\ RefusedForGood'
    BY <2>1 DEF IInv, MergesDecided, RefusalsHold, RefusedForGood, Deciding, Refused, OwnsAlias,
                OwnsMerge, Committed
  <2> QED  BY <2>2, <2>3, <2>4 DEF IInv
<1>2. ASSUME NEW r \in Requests, NEW command \in Commands, Begin(r, command) PROVE IInv'
  BY <1>2, BeginKeeps
<1>3. ASSUME NEW r \in Requests,
             \/ BeginPersist(r) \/ LockExternalCustomerID(r) \/ LockCustomer(r)
             \/ Retry(r) \/ Fail(r)
      PROVE  IInv'
  BY <1>3, BeginPersistKeeps, LockExternalKeeps, LockCustomerKeeps, RetryKeeps, FailKeeps
<1>4. ASSUME NEW r \in Requests,
             \/ CheckAlias(r) \/ InsertCustomer(r) \/ PutCustomerAlias(r)
             \/ MergeCustomers(r) \/ CommitMerge(r)
             \/ ResolveScope(r) \/ CommitPersist(r)
      PROVE  IInv'
  BY <1>4, CheckAliasKeeps, InsertCustomerKeeps, PutCustomerAliasKeeps, MergeCustomersKeeps,
     CommitMergeKeeps, ResolveScopeKeeps, CommitPersistKeeps
<1> QED  BY <1>1, <1>2, <1>3, <1>4 DEF Next

--------------------------------------------------------------------------------
(* Theorems.                                                                 *)

\* The invariant holds throughout.
THEOREM IdentityInvariant == Spec => []IInv
BY IInvInit, IInvNext, PTL DEF Spec

\* No interleaving of creations, aliases and merges makes ResolveCustomer end at a
\* customer that was merged itself.
THEOREM EveryIdResolves == Spec => []NeverUnresolvable
<1>1. IInv => NeverUnresolvable
  <2> SUFFICES ASSUME IInv, NEW x \in Externals, NEW c \in ResolveCustomer(db, x)
               PROVE  db.mergedInto[c] = None
    BY DEF NeverUnresolvable, Unresolvable
  <2>1. db \in Database
    BY DEF IInv, TypeOK
  <2>2. CASE \E m \in Customers : c = Target(db, m)
    BY <2>1, <2>2 DEF Target, IInv, NoChains, Database
  <2>3. CASE c = db.alias[x] /\ c # None
    BY <2>3 DEF IInv, NoChains
  <2> QED  BY <2>2, <2>3 DEF ResolveCustomer
<1> QED  BY <1>1, IdentityInvariant, PTL

\* MergeCustomers answers ErrConflict only for a merge that no transaction has committed
\* or will commit: a client's repetition never contradicts its first request.
THEOREM RefusalIsFinal == Spec => []RepeatedMergeNotRefused
<1>1. IInv => RepeatedMergeNotRefused
  <2> SUFFICES ASSUME IInv, NEW r \in Requests, request[r].pc = "ended",
                      request[r].command.op = "merge", request[r].result = "conflict",
                      NEW m \in db.merges,
                      m.key = request[r].command.key,
                      m.customer = request[r].command.customer,
                      m.source = request[r].command.source
               PROVE  FALSE
    BY DEF RepeatedMergeNotRefused
  <2>1. request[r] \in Answers
    <3>1. request[r] \in {Idle} \cup Scopes \cup Transactions \cup Answers
      BY DEF IInv, TypeOK
    <3>2. request[r] \in Answers <=> request[r].pc = "ended"
      BY <3>1, Places
    <3> QED  BY <3>2
  <2>2. Committed(request[r].command) \notin db.merges
    BY <2>1 DEF IInv, RefusedForGood
  <2>3. m \in [key : Keys, customer : Customers, source : Customers]
    BY DEF IInv, TypeOK, Database
  <2>4. m = Committed(request[r].command)
    BY <2>3 DEF Committed
  <2> QED  BY <2>2, <2>4
<1> QED  BY <1>1, IdentityInvariant, PTL

--------------------------------------------------------------------------------
(* Purchases are recorded for the canonical customer.                        *)
(*                                                                           *)
(* A customer is created at read committed and makes no snapshot stale: only *)
(* the advisory locks keep its external id apart from the aliases, and only  *)
(* in one direction.  An id that a snapshot resolves by an alias is never    *)
(* given to a customer afterwards.                                           *)

\* The places of a transaction that has the lock of its external id.
HoldsId(t) == t.pc \in {"check", "insert"} \/ (t.pc = "rows" /\ t.command.op = "alias")

IdsLocked ==
    \A r \in Requests : request[r] \in Transactions /\ HoldsId(request[r]) =>
        externalLock[request[r].command.external] = r

\* What CheckAlias has seen holds until the insert.
InsertsAreFree ==
    \A r \in Requests : request[r] \in Transactions /\ request[r].pc = "insert" =>
        db.alias[request[r].command.external] = None

\* An external id is the primary id of one customer.
OneCustomerPerId ==
    \A c, d \in Customers : db.external[c] = db.external[d] /\ db.external[c] # None => c = d

\* A snapshot's customers are there still, and an id it knows as an alias only has not
\* become the id of a customer.
StillIn(d, e) ==
    /\ \A c \in Customers : d.external[c] # None => e.external[c] = d.external[c]
    /\ \A x \in Externals : d.alias[x] # None /\ (\A c \in Customers : d.external[c] # x) =>
           \A c \in Customers : e.external[c] # x

IdsKept == \A r \in Deciding : StillIn(request[r].view, db)

\* A purchase is persisted for an id that its snapshot resolves.
PurchasesResolved ==
    \A r \in Deciding : request[r].pc = "closure" /\ request[r].command.op = "persist" =>
        PersistedFor(r) # {}

LInv == IdsLocked /\ InsertsAreFree /\ OneCustomerPerId /\ IdsKept /\ PurchasesResolved

\* The kinds of change: what a step of r does to the other requests, ...
Alike(s, t) == t.pc = s.pc /\ t.command = s.command /\ t.view = s.view

OthersStay(r) ==
    /\ \A q \in Requests \ {r} : request'[q] \in Transactions =>
           request[q] \in Transactions /\ Alike(request[q], request'[q])
    /\ \A q \in Requests \ {r}, x \in Externals : externalLock[x] = q => externalLock'[x] = q

\* ... to itself ...
Moves(r) ==
    request'[r] \in Transactions =>
        /\ HoldsId(request'[r]) => externalLock'[request'[r].command.external] = r
        /\ request'[r].pc = "insert" => db'.alias[request'[r].command.external] = None
        /\ request'[r].command.op # "customer" =>
               \/ request'[r].view = db'
               \/ /\ request[r] \in Transactions
                  /\ request'[r].view = request[r].view /\ request'[r].command = request[r].command
        /\ request'[r].pc = "closure" /\ request'[r].command.op = "persist" =>
               ResolveCustomer(request'[r].view, request'[r].command.external) # {}

\* ... and to the rows: a customer with an id that is nobody's and no alias, an alias of an
\* id that r has locked.
NewCustomer(c, x) ==
    /\ db.external[c] = None /\ db.alias[x] = None /\ \A d \in Customers : db.external[d] # x
    /\ db'.external = [db.external EXCEPT ![c] = x]

Writes(r) ==
    /\ db'.external = db.external \/ \E c \in Customers, x \in Externals : NewCustomer(c, x)
    /\ \A x \in Externals : db'.alias[x] = db.alias[x] \/ externalLock[x] = r

LEMMA CommandExternal ==
  ASSUME NEW t \in Transactions, Fits(t), HoldsId(t)
  PROVE  t.command.external \in Externals
<1>1. t.command \in Commands /\ t.command.op \in {"customer", "alias"}
  BY DEF Transactions, Fits, HoldsId
<1> QED  BY <1>1, IdentityAssumption DEF AllCommands

LEMMA StepKeepsIds ==
  ASSUME IInv, IInv', LInv, NEW r \in Requests, OthersStay(r), Moves(r), Writes(r)
  PROVE  LInv'
<1> USE IdentityAssumption
<1>0. db \in Database /\ db' \in Database
  BY DEF IInv, TypeOK
<1>1. IdsLocked'
  <2> SUFFICES ASSUME NEW q \in Requests, request'[q] \in Transactions, HoldsId(request'[q])
               PROVE  externalLock'[request'[q].command.external] = q
    BY DEF IdsLocked, HoldsId
  <2>1. CASE q = r
    BY <2>1 DEF Moves
  <2>2. CASE q # r
    <3>1. request[q] \in Transactions /\ Alike(request[q], request'[q]) /\ HoldsId(request[q])
      BY <2>2 DEF OthersStay, Alike, HoldsId
    <3>2. externalLock[request[q].command.external] = q
      BY <3>1 DEF LInv, IdsLocked
    <3>3. request[q].command.external \in Externals
      BY <3>1, CommandExternal DEF IInv, PlacesFit
    <3> QED  BY <2>2, <3>1, <3>2, <3>3 DEF OthersStay, Alike
  <2> QED  BY <2>1, <2>2
<1>2. InsertsAreFree'
  <2> SUFFICES ASSUME NEW q \in Requests, request'[q] \in Transactions, request'[q].pc = "insert"
               PROVE  db'.alias[request'[q].command.external] = None
    BY DEF InsertsAreFree
  <2>1. CASE q = r
    BY <2>1 DEF Moves
  <2>2. CASE q # r
    <3>1. request[q] \in Transactions /\ Alike(request[q], request'[q]) /\ request[q].pc = "insert"
      BY <2>2 DEF OthersStay, Alike
    <3>2. HoldsId(request[q])
      BY <3>1 DEF HoldsId
    <3>3. PICK x : x = request[q].command.external
      OBVIOUS
    <3>4. externalLock[x] = q /\ db.alias[x] = None
      BY <3>1, <3>2, <3>3 DEF LInv, IdsLocked, InsertsAreFree
    <3>5. x \in Externals
      BY <3>1, <3>2, <3>3, CommandExternal DEF IInv, PlacesFit
    <3>6. db'.alias[x] = None
      BY <2>2, <3>4, <3>5 DEF Writes
    <3> QED  BY <3>1, <3>3, <3>6 DEF Alike
  <2> QED  BY <2>1, <2>2
<1>3. db.external \in [Customers -> Externals \cup {None}]
  BY <1>0 DEF Database
<1>4. OneCustomerPerId'
  <2>1. CASE db'.external = db.external
    BY <2>1 DEF LInv, OneCustomerPerId
  <2>2. CASE \E c \in Customers, x \in Externals : NewCustomer(c, x)
    <3>1. PICK c \in Customers, x \in Externals : NewCustomer(c, x)
      BY <2>2
    <3> QED  BY <1>3, <3>1 DEF NewCustomer, LInv, OneCustomerPerId
  <2> QED  BY <2>1, <2>2 DEF Writes
<1>5. ASSUME NEW v, StillIn(v, db), KeptIn(v, db)
      PROVE  StillIn(v, db')
  <2>1. CASE db'.external = db.external
    BY <1>5, <2>1 DEF StillIn
  <2>2. CASE \E c \in Customers, x \in Externals : NewCustomer(c, x)
    <3>1. PICK c \in Customers, x \in Externals : NewCustomer(c, x)
      BY <2>2
    <3>2. /\ db.external[c] = None /\ db.alias[x] = None
          /\ \A d \in Customers : db'.external[d] = IF d = c THEN x ELSE db.external[d]
      BY <1>3, <3>1 DEF NewCustomer
    <3>3. v.external[c] = None /\ v.alias[x] = None
      BY <1>5, <3>2 DEF StillIn, KeptIn
    <3> QED  BY <1>5, <3>2, <3>3 DEF StillIn
  <2> QED  BY <2>1, <2>2 DEF Writes
<1>6. ASSUME NEW q \in Deciding', request[q] \in Transactions, request'[q].view = request[q].view,
             request'[q].command = request[q].command
      PROVE  StillIn(request'[q].view, db')
  <2>1. q \in Deciding
    BY <1>6 DEF Deciding
  <2>2. StillIn(request[q].view, db) /\ KeptIn(request[q].view, db)
    BY <2>1 DEF LInv, IdsKept, IInv, SnapshotsArePast
  <2> QED  BY <1>5, <1>6, <2>2
<1>7. IdsKept'
  <2> SUFFICES ASSUME NEW q \in Deciding' PROVE StillIn(request'[q].view, db')
    BY DEF IdsKept, StillIn
  <2>1. q \in Requests /\ request'[q] \in Transactions /\ request'[q].command.op # "customer"
    BY DEF Deciding
  <2>2. CASE q # r
    BY <1>6, <2>1, <2>2 DEF OthersStay, Alike
  <2>3. CASE q = r /\ request'[q].view = db'
    BY <2>3 DEF StillIn
  <2>4. CASE q = r /\ request'[q].view # db'
    BY <1>6, <2>1, <2>4 DEF Moves
  <2> QED  BY <2>2, <2>3, <2>4
<1>8. PurchasesResolved'
  <2> SUFFICES ASSUME NEW q \in Deciding', request'[q].pc = "closure", request'[q].command.op = "persist"
               PROVE  ResolveCustomer(request'[q].view, request'[q].command.external) # {}
    BY DEF PurchasesResolved, PersistedFor, ResolveCustomer, Target
  <2>1. q \in Requests /\ request'[q] \in Transactions
    BY DEF Deciding
  <2>2. CASE q = r
    BY <2>1, <2>2 DEF Moves
  <2>3. CASE q # r
    <3>1. request[q] \in Transactions /\ Alike(request[q], request'[q])
      BY <2>1, <2>3 DEF OthersStay
    <3>2. q \in Deciding /\ request[q].pc = "closure" /\ request[q].command.op = "persist"
      BY <2>1, <3>1 DEF Deciding, Alike
    <3> QED  BY <3>1, <3>2 DEF LInv, PurchasesResolved, PersistedFor, Alike
  <2> QED  BY <2>2, <2>3
<1> QED  BY <1>1, <1>2, <1>4, <1>7, <1>8 DEF LInv

\* A request that only moves, with its locks given back or not.
LEMMA AnswerKeepsIds ==
  ASSUME IInv, IInv', LInv, NEW r \in Requests, NEW t \in Scopes \cup Answers, UNCHANGED db,
         request' = [request EXCEPT ![r] = t], UNCHANGED externalLock \/ ReleaseLocks(r)
  PROVE  LInv'
<1> USE IdentityAssumption
<1>1. t \notin Transactions
  BY DEF Scopes, Answers, Transactions
<1>2. request'[r] = t /\ \A q \in Requests \ {r} : request'[q] = request[q]
  BY DEF IInv, TypeOK
<1>3. OthersStay(r)
  BY <1>2 DEF OthersStay, Alike, ReleaseLocks
<1>4. Moves(r) /\ Writes(r)
  BY <1>1, <1>2 DEF Moves, Writes
<1> QED  BY <1>3, <1>4, StepKeepsIds

LEMMA FinishKeepsIds ==
  ASSUME IInv, IInv', LInv, NEW r \in Requests, request[r] \in Transactions, NEW result \in Results,
         Finish(r, result)
  PROVE  LInv'
<1>1. PICK t : t = Ended(r, result)
  OBVIOUS
<1>2. t \in Answers
  BY <1>1 DEF Ended, Answers, Transactions
<1>3. request' = [request EXCEPT ![r] = t] /\ ReleaseLocks(r) /\ UNCHANGED db
  BY <1>1 DEF Finish
<1> QED  BY <1>2, <1>3, AnswerKeepsIds

\* A transaction begins, or begins again.
LEMMA StartKeepsIds ==
  ASSUME IInv, IInv', LInv, NEW r \in Requests, NEW w \in Commands, NEW n, NEW S, UNCHANGED db,
         request' = [request EXCEPT ![r] = Transaction(w, n, S)], UNCHANGED externalLock \/ ReleaseLocks(r)
  PROVE  LInv'
<1> USE IdentityAssumption
<1>1. w.op \in {"customer", "alias", "merge", "persist"}
  BY DEF AllCommands
<1>2. PICK t : t = Transaction(w, n, S)
  OBVIOUS
<1>3. /\ t.command = w /\ t.view = db /\ t.pc \in {"external", "rows", "resolve"}
      /\ t.pc = "rows" => w.op = "merge"
  BY <1>1, <1>2 DEF Transaction
<1>4. request'[r] = t /\ \A q \in Requests \ {r} : request'[q] = request[q]
  BY <1>2 DEF IInv, TypeOK
<1>5. OthersStay(r)
  BY <1>4 DEF OthersStay, Alike, ReleaseLocks
<1>6. Moves(r) /\ Writes(r)
  BY <1>3, <1>4 DEF Moves, Writes, HoldsId
<1> QED  BY <1>5, <1>6, StepKeepsIds

\* A transaction goes on to its next statement.
LEMMA GotoKeepsIds ==
  ASSUME IInv, IInv', LInv, NEW r \in Requests, request[r] \in Transactions, NEW place, NEW todo,
         Goto(r, place, todo), UNCHANGED db,
         \A q \in Requests \ {r}, x \in Externals : externalLock[x] = q => externalLock'[x] = q,
         place \in {"check", "insert"} \/ (place = "rows" /\ request[r].command.op = "alias") =>
             externalLock'[request[r].command.external] = r,
         place = "insert" => db.alias[request[r].command.external] = None,
         place = "closure" /\ request[r].command.op = "persist" => PersistedFor(r) # {}
  PROVE  LInv'
<1>1. PICK t : t = [request[r] EXCEPT !.pc = place, !.todo = todo]
  OBVIOUS
<1>2. t.pc = place /\ t.view = request[r].view /\ t.command = request[r].command
  BY <1>1 DEF Transactions
<1>3. request'[r] = t /\ \A q \in Requests \ {r} : request'[q] = request[q]
  BY <1>1 DEF Goto, IInv, TypeOK
<1>4. OthersStay(r)
  BY <1>3 DEF OthersStay, Alike
<1>5. Moves(r)
  BY <1>2, <1>3 DEF Moves, HoldsId, PersistedFor
<1>6. Writes(r)
  BY DEF Writes
<1> QED  BY <1>4, <1>5, <1>6, StepKeepsIds

\* A writing commit that creates no customer.
LEMMA CommitKeepsIds ==
  ASSUME IInv, IInv', LInv, NEW r \in Requests, request[r] \in Transactions, NEW rows,
         Commit(r, rows, "ok"), rows.external = db.external,
         \A x \in Externals : rows.alias[x] = db.alias[x] \/ externalLock[x] = r
  PROVE  LInv'
<1> USE IdentityAssumption
<1>1. request'[r] \notin Transactions
  BY DEF Commit, Ended, Transactions
<1>2. ASSUME NEW q \in Requests \ {r}, request'[q] \in Transactions
      PROVE  request[q] \in Transactions /\ Alike(request[q], request'[q])
  <2>1. request[q] \in {Idle} \cup Scopes \cup Transactions \cup Answers
    BY DEF IInv, TypeOK
  <2>2. CASE request'[q] = request[q]
    BY <1>2, <2>2 DEF Alike
  <2>3. CASE InTransaction(q) /\ request'[q] = [request[q] EXCEPT !.stale = TRUE]
    <3>1. request[q] \in Transactions
      BY <2>1, <2>3, Places DEF InTransaction
    <3> QED  BY <2>3, <3>1 DEF Alike, Transactions
  <2> QED  BY <2>2, <2>3 DEF Commit
<1>3. OthersStay(r)
  BY <1>2 DEF OthersStay, Commit, ReleaseLocks
<1>4. Moves(r)
  BY <1>1 DEF Moves
<1>5. Writes(r)
  BY DEF Writes, Commit
<1> QED  BY <1>3, <1>4, <1>5, StepKeepsIds

LEMMA RequestStepKeepsIds ==
  ASSUME IInv, IInv', LInv, NEW r \in Requests,
         \/ \E command \in Commands : Begin(r, command)
         \/ BeginPersist(r) \/ Retry(r) \/ Fail(r)
  PROVE  LInv'
<1>1. ASSUME NEW command \in Commands, Begin(r, command) PROVE LInv'
  <2>1. CASE command.op = "persist"
    <3>1. PICK t : t = [pc |-> "scope", command |-> command,
                        scope |-> IF Unresolvable(db, command.external) THEN {}
                                  ELSE ResolveCustomer(db, command.external)]
      OBVIOUS
    <3>2. request' = [request EXCEPT ![r] = t] /\ UNCHANGED db /\ UNCHANGED externalLock
      BY <1>1, <2>1, <3>1 DEF Begin
    <3>3. request'[r] = t /\ t.pc = "scope"
      BY <3>1, <3>2 DEF IInv, TypeOK
    <3>4. t \in {Idle} \cup Scopes \cup Transactions \cup Answers
      BY <3>3 DEF IInv, TypeOK
    <3>5. t \in Scopes
      BY <3>3, <3>4, Places
    <3> QED  BY <3>2, <3>5, AnswerKeepsIds
  <2>2. CASE command.op # "persist"
    BY <1>1, <2>2, StartKeepsIds DEF Begin
  <2> QED  BY <2>1, <2>2
<1>2. CASE BeginPersist(r)
  <2>1. request[r] \in {Idle} \cup Scopes \cup Transactions \cup Answers
    BY DEF IInv, TypeOK
  <2>2. request[r] \in Scopes
    BY <1>2, <2>1, Places DEF BeginPersist
  <2>3. request[r].command \in Commands
    BY <2>2 DEF Scopes
  <2>4. CASE request' = [request EXCEPT ![r] = Ended(r, "not_found")]
    <3>1. Ended(r, "not_found") \in Answers
      BY <2>3 DEF Ended, Answers, Results
    <3> QED  BY <1>2, <2>4, <3>1, AnswerKeepsIds DEF BeginPersist
  <2>5. CASE request' = [request EXCEPT ![r] = Transaction(request[r].command, 1, request[r].scope)]
    BY <1>2, <2>3, <2>5, StartKeepsIds DEF BeginPersist
  <2> QED  BY <1>2, <2>4, <2>5 DEF BeginPersist
<1>3. CASE Retry(r) \/ Fail(r)
  <2>1. request[r] \in Transactions
    BY <1>3, InTransactionType DEF Retry, Fail, IInv
  <2>2. CASE Finish(r, "unavailable") \/ Finish(r, "error")
    BY <2>1, <2>2, FinishKeepsIds DEF Results
  <2>3. CASE /\ request' = [request EXCEPT ![r] =
                    Transaction(request[r].command, request[r].attempt + 1, request[r].scope)]
             /\ ReleaseLocks(r) /\ UNCHANGED db
    <3>1. request[r].command \in Commands
      BY <2>1 DEF Transactions
    <3> QED  BY <2>3, <3>1, StartKeepsIds
  <2> QED  BY <1>3, <2>2, <2>3 DEF Retry, Fail
<1> QED  BY <1>1, <1>2, <1>3

LEMMA LockStepKeepsIds ==
  ASSUME IInv, IInv', LInv, NEW r \in Requests, LockExternalCustomerID(r) \/ LockCustomer(r)
  PROVE  LInv'
<1> USE IdentityAssumption
<1>0. request[r] \in Transactions /\ Fits(request[r])
  BY InTransactionType DEF LockExternalCustomerID, LockCustomer, InTransaction, IInv, PlacesFit
<1>1. CASE LockExternalCustomerID(r)
  <2>1. request[r].command.op \in {"customer", "alias"} /\ request[r].command \in Commands
    BY <1>0, <1>1 DEF LockExternalCustomerID, Fits, Transactions
  <2>2. PICK x : x = request[r].command.external
    OBVIOUS
  <2>3. x \in Externals
    BY <2>1, <2>2 DEF AllCommands
  <2>4. externalLock[x] = None /\ externalLock' = [externalLock EXCEPT ![x] = r]
    BY <1>1, <2>2 DEF LockExternalCustomerID
  <2>5. /\ externalLock'[x] = r
        /\ \A q \in Requests \ {r}, y \in Externals : externalLock[y] = q => externalLock'[y] = q
    BY <2>3, <2>4 DEF IInv, TypeOK
  <2>6. PICK place, todo : Goto(r, place, todo) /\ place \in {"check", "rows"} /\ UNCHANGED db
    BY <1>1 DEF LockExternalCustomerID
  <2> QED  BY <1>0, <2>2, <2>5, <2>6, GotoKeepsIds
<1>2. CASE LockCustomer(r) /\ Finish(r, "not_found")
  BY <1>0, <1>2, FinishKeepsIds DEF Results
<1>3. CASE LockCustomer(r) /\ ~Finish(r, "not_found")
  <2>1. PICK todo : Goto(r, request[r].pc, todo) /\ UNCHANGED <<db, externalLock>>
    BY <1>3 DEF LockCustomer
  <2>2. request[r].pc \in {"rows", "closure"}
    BY <1>3 DEF LockCustomer
  <2>3. request[r].pc = "rows" /\ request[r].command.op = "alias" =>
            externalLock'[request[r].command.external] = r
    BY <1>0, <2>1 DEF LInv, IdsLocked, HoldsId
  <2>4. request[r].pc = "closure" /\ request[r].command.op = "persist" => PersistedFor(r) # {}
    BY <1>0 DEF LInv, PurchasesResolved, Deciding
  <2> QED  BY <1>0, <2>1, <2>2, <2>3, <2>4, GotoKeepsIds
<1> QED  BY <1>1, <1>2, <1>3

LEMMA CustomerStepKeepsIds ==
  ASSUME IInv, IInv', LInv, NEW r \in Requests, CheckAlias(r) \/ InsertCustomer(r)
  PROVE  LInv'
<1> USE IdentityAssumption
<1>0. /\ request[r] \in Transactions /\ Fits(request[r]) /\ HoldsId(request[r])
      /\ request[r].command.op = "customer" /\ request[r].command \in Commands
  BY InTransactionType DEF CheckAlias, InsertCustomer, InTransaction, IInv, PlacesFit, Fits, HoldsId, Transactions
<1>1. externalLock[request[r].command.external] = r
  BY <1>0 DEF LInv, IdsLocked
<1>2. CASE Finish(r, "conflict") \/ Finish(r, "ok")
  BY <1>0, <1>2, FinishKeepsIds DEF Results
<1>3. CASE CheckAlias(r) /\ ~Finish(r, "conflict")
  <2>1. /\ db.alias[request[r].command.external] = None
        /\ Goto(r, "insert", {}) /\ UNCHANGED <<db, externalLock>>
    BY <1>3 DEF CheckAlias
  <2> QED  BY <1>0, <1>1, <2>1, GotoKeepsIds
<1>4. CASE InsertCustomer(r) /\ ~Finish(r, "conflict") /\ ~Finish(r, "ok")
  <2>1. PICK c, x : c = request[r].command.customer /\ x = request[r].command.external
    OBVIOUS
  <2>2. c \in Customers /\ x \in Externals
    BY <1>0, <2>1 DEF AllCommands
  <2>3. /\ \A d \in Customers : db.external[d] # x
        /\ db.external[c] = None
        /\ db' = [db EXCEPT !.external[c] = x]
        /\ request' = [request EXCEPT ![r] = Ended(r, "ok")]
        /\ ReleaseLocks(r)
    BY <1>4, <2>1 DEF InsertCustomer, CustomerExists
  <2>4. db.alias[x] = None
    BY <1>0, <1>4, <2>1 DEF LInv, InsertsAreFree, InsertCustomer
  <2>5. db'.external = [db.external EXCEPT ![c] = x] /\ db'.alias = db.alias
    BY <2>2, <2>3 DEF IInv, TypeOK, Database
  <2>6. request'[r] = Ended(r, "ok") /\ \A q \in Requests \ {r} : request'[q] = request[q]
    BY <2>3 DEF IInv, TypeOK
  <2>7. request'[r] \notin Transactions
    BY <2>6 DEF Ended, Transactions
  <2>8. OthersStay(r) /\ Moves(r)
    BY <2>3, <2>6, <2>7 DEF OthersStay, Moves, Alike, ReleaseLocks
  <2>9. NewCustomer(c, x)
    BY <2>3, <2>4, <2>5 DEF NewCustomer
  <2>10. Writes(r)
    BY <2>2, <2>5, <2>9 DEF Writes
  <2> QED  BY <2>8, <2>10, StepKeepsIds
<1> QED  BY <1>2, <1>3, <1>4

LEMMA AliasStepKeepsIds ==
  ASSUME IInv, IInv', LInv, NEW r \in Requests, PutCustomerAlias(r)
  PROVE  LInv'
<1> USE IdentityAssumption
<1>0. request[r] \in Transactions /\ request[r].command.op = "alias" /\ HoldsId(request[r])
  BY InTransactionType DEF PutCustomerAlias, InTransaction, IInv, HoldsId
<1>1. CASE Finish(r, "conflict") \/ Finish(r, "ok")
  BY <1>0, <1>1, FinishKeepsIds DEF Results
<1>2. CASE ~(Finish(r, "conflict") \/ Finish(r, "ok"))
  <2>1. PICK c, x : c = request[r].command.customer /\ x = request[r].command.external
    OBVIOUS
  <2>2. PICK rows : rows = [db EXCEPT !.alias[x] = c]
    OBVIOUS
  <2>3. Commit(r, rows, "ok")
    BY <1>2, <2>1, <2>2 DEF PutCustomerAlias
  <2>4. externalLock[x] = r
    BY <1>0, <2>1 DEF LInv, IdsLocked
  <2>5. rows.external = db.external /\ \A y \in Externals : y # x => rows.alias[y] = db.alias[y]
    BY <2>2 DEF IInv, TypeOK, Database
  <2> QED  BY <1>0, <2>3, <2>4, <2>5, CommitKeepsIds
<1> QED  BY <1>1, <1>2

LEMMA MergeStepKeepsIds ==
  ASSUME IInv, IInv', LInv, NEW r \in Requests, MergeCustomers(r) \/ CommitMerge(r)
  PROVE  LInv'
<1>0. request[r] \in Transactions /\ request[r].command.op = "merge"
  BY InTransactionType DEF MergeCustomers, CommitMerge, InTransaction, IInv
<1>1. CASE Finish(r, "ok") \/ Finish(r, "conflict") \/ Finish(r, "entitlement_conflict")
  BY <1>0, <1>1, FinishKeepsIds DEF Results
<1>2. CASE \E todo : Goto(r, "closure", todo) /\ UNCHANGED <<db, externalLock>>
  BY <1>0, <1>2, GotoKeepsIds
<1>3. CASE CommitMerge(r)
  <2>1. PICK w : w = request[r].command
    OBVIOUS
  <2>2. PICK rows : rows = Merged(db, w)
    OBVIOUS
  <2>3. Commit(r, rows, "ok")
    BY <1>3, <2>1, <2>2 DEF CommitMerge
  <2>4. rows.external = db.external /\ rows.alias = db.alias
    BY <2>2 DEF Merged, IInv, TypeOK, Database
  <2> QED  BY <1>0, <2>3, <2>4, CommitKeepsIds
<1> QED  BY <1>1, <1>2, <1>3 DEF MergeCustomers

LEMMA PersistStepKeepsIds ==
  ASSUME IInv, IInv', LInv, NEW r \in Requests, ResolveScope(r) \/ CommitPersist(r)
  PROVE  LInv'
<1>0. request[r] \in Transactions
  BY InTransactionType DEF ResolveScope, CommitPersist, InTransaction, IInv
<1>1. CASE Finish(r, "conflict")
  BY <1>0, <1>1, FinishKeepsIds DEF Results
<1>2. CASE ResolveScope(r) /\ ~Finish(r, "conflict")
  <2>1. PersistedFor(r) # {} /\ Goto(r, "closure", PersistClosure(r)) /\ UNCHANGED <<db, externalLock>>
    BY <1>2 DEF ResolveScope
  <2> QED  BY <1>0, <2>1, GotoKeepsIds
<1>3. CASE CommitPersist(r) /\ ~Finish(r, "conflict")
  <2>1. Commit(r, db, "ok")
    BY <1>3 DEF CommitPersist
  <2> QED  BY <1>0, <2>1, CommitKeepsIds
<1> QED  BY <1>1, <1>2, <1>3

LEMMA LInvInit == Init => LInv
<1> SUFFICES ASSUME Init PROVE LInv
  OBVIOUS
<1>1. \A r \in Requests : request[r] \notin Transactions
  BY DEF Init, Idle, Transactions
<1>2. db.external = Registered
  BY DEF Init
<1> QED  BY <1>1, <1>2, IdentityAssumption
         DEF LInv, IdsLocked, InsertsAreFree, OneCustomerPerId, IdsKept, PurchasesResolved, Deciding

LEMMA LInvNext == IInv /\ IInv' /\ LInv /\ [Next]_vars => LInv'
<1> SUFFICES ASSUME IInv, IInv', LInv, [Next]_vars PROVE LInv'
  OBVIOUS
<1>1. CASE UNCHANGED vars
  <2>1. db' = db /\ request' = request /\ externalLock' = externalLock
    BY <1>1 DEF vars
  <2>2. IdsLocked' /\ InsertsAreFree' /\ OneCustomerPerId'
    BY <2>1 DEF LInv, IdsLocked, InsertsAreFree, OneCustomerPerId, HoldsId
  <2>3. IdsKept'
    BY <2>1 DEF LInv, IdsKept, StillIn, Deciding
  <2>4. PurchasesResolved'
    BY <2>1 DEF LInv, PurchasesResolved, PersistedFor, ResolveCustomer, Target, Deciding
  <2> QED  BY <2>2, <2>3, <2>4 DEF LInv
<1>2. CASE Next
  BY <1>2, RequestStepKeepsIds, LockStepKeepsIds, CustomerStepKeepsIds, AliasStepKeepsIds,
     MergeStepKeepsIds, PersistStepKeepsIds DEF Next
<1> QED  BY <1>1, <1>2

\* The invariant of the locks and ids: the advisory lock of an external id is held from the
\* look at its aliases to the end of the transaction, and an id that some snapshot knows
\* as an alias only is never given to a customer.
THEOREM LockInvariant == Spec => []LInv
BY LInvInit, LInvNext, IdentityInvariant, PTL DEF Spec

\* A snapshot that is not stale resolves an id it knows as the present does.
LEMMA FreshResolution ==
  ASSUME NEW d \in Database, NEW e \in Database, d.mergedInto = e.mergedInto, d.alias = e.alias,
         StillIn(d, e), NEW x \in Externals, ResolveCustomer(d, x) # {},
         \A c, b \in Customers : e.external[c] = e.external[b] /\ e.external[c] # None => c = b
  PROVE  ResolveCustomer(d, x) = ResolveCustomer(e, x)
<1> USE IdentityAssumption
<1>1. CASE \E c \in Customers : d.external[c] = x
  <2>1. PICK c \in Customers : d.external[c] = x
    BY <1>1
  <2>2. e.external[c] = x
    BY <2>1 DEF StillIn
  <2>3. {m \in Customers : e.external[m] = x} = {c}
    BY <2>2
  <2>4. {m \in Customers : d.external[m] = x} = {c}
    <3>1. \A m \in Customers : d.external[m] = x => e.external[m] = x
      BY DEF StillIn
    <3> QED  BY <2>1, <2>2, <3>1
  <2> QED  BY <2>3, <2>4 DEF ResolveCustomer, Target
<1>2. CASE ~\E c \in Customers : d.external[c] = x
  <2>1. d.alias[x] # None
    BY <1>2 DEF ResolveCustomer
  <2>2. \A c \in Customers : e.external[c] # x
    BY <1>2, <2>1 DEF StillIn
  <2> QED  BY <1>2, <2>2 DEF ResolveCustomer
<1> QED  BY <1>1, <1>2

\* A purchase verified while customers are created, given aliases and merged is recorded
\* for the customer its external id belongs to when persist commits.
THEOREM PurchaseFollowsMerge == Spec => RecordedForCanonical
<1>1. ASSUME IInv, LInv, NEW r \in Requests, CommitPersist(r), request'[r].result = "ok"
      PROVE  PersistedFor(r) = ResolveCustomer(db, request[r].command.external)
  <2>1. request[r] \in Transactions /\ request[r].command.op = "persist" /\ request[r].pc = "closure"
    BY <1>1, InTransactionType DEF CommitPersist, InTransaction, IInv
  <2>2. request[r].view \in Database /\ db \in Database /\ request[r].command.external \in Externals
    BY <1>1, <2>1, IdentityAssumption DEF Transactions, IInv, TypeOK, AllCommands
  <2>3. ~request[r].stale
    <3>1. CASE Finish(r, "conflict")
      BY <1>1, <3>1 DEF Finish, Ended, IInv, TypeOK
    <3> QED  BY <1>1, <3>1 DEF CommitPersist, Commit
  <2>4. r \in Deciding
    BY <2>1 DEF Deciding
  <2>5. request[r].view.mergedInto = db.mergedInto /\ request[r].view.alias = db.alias
    BY <1>1, <2>3, <2>4 DEF IInv, FreshSnapshots
  <2>6. StillIn(request[r].view, db) /\ PersistedFor(r) # {}
    BY <2>1, <2>4, <1>1 DEF LInv, IdsKept, PurchasesResolved
  <2>7. \A c, b \in Customers : db.external[c] = db.external[b] /\ db.external[c] # None => c = b
    BY <1>1 DEF LInv, OneCustomerPerId
  <2> QED  BY <2>2, <2>5, <2>6, <2>7, FreshResolution DEF PersistedFor
<1>2. IInv /\ LInv =>
        [\A r \in Requests : CommitPersist(r) /\ request'[r].result = "ok" =>
            PersistedFor(r) = ResolveCustomer(db, request[r].command.external)]_vars
  BY <1>1
<1> QED  BY <1>2, IdentityInvariant, LockInvariant, PTL DEF RecordedForCanonical

====
