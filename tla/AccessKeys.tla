---- MODULE AccessKeys ----
(***************************************************************************)
(* API keys, customer sessions and dashboard sessions: authentication of   *)
(* concurrent requests, key creation and revocation, and the sessions that *)
(* keys hand out.  The secret of a credential is never wrong here: what    *)
(* matters is when a credential that once was good stops working.          *)
(*                                                                         *)
(* A request authenticates first and acts later, in other transactions.    *)
(* Operations transactions are read committed, so a revocation is cut at   *)
(* its statements; what orders revocations is the advisory lock they take. *)
(* One process with one clock: the skew allowed between API instances is   *)
(* left out.                                                               *)
(***************************************************************************)
EXTENDS Naturals, FiniteSets

CONSTANTS
    Administrators,   \* identities of administrator keys
    Applications,     \* identities of application keys
    Requests,         \* requests that may be in flight together
    NoKey,            \* the key of the bootstrap administrator, and of no one
    NoRequest,        \* the holder of a free lock
    Capacity,         \* derivationSlots
    TTL,              \* lifetime of a session
    MaxNow,           \* bound of the model: the clock stops here
    MaxSessions       \* bound of the model: sessions ever minted

Keys == Administrators \cup Applications

ASSUME AccessAssumption ==
    /\ IsFiniteSet(Keys)
    /\ Administrators \cap Applications = {}
    /\ NoKey \notin Keys
    /\ NoRequest \notin Requests
    /\ Capacity \in Nat \ {0}
    /\ TTL \in Nat \ {0}
    /\ {MaxNow, MaxSessions} \subseteq Nat

VARIABLES
    key,        \* api_keys: "absent", "active" or "revoked" (revoked_at set)
    bootstrap,  \* a bootstrap administrator key is configured
    sessions,   \* sessions clients hold: issuer, role and expiry
    lock,       \* who holds apiKeyLifecycleLockID
    slots,      \* derivation slots in use
    request,    \* place, credential, operation and principal of a request, and as
                \* history what had lost its access when the request began (barred)
    now,        \* the clock
    removed     \* history: when the bootstrap key was taken out, MaxNow + 1 before

vars == <<key, bootstrap, sessions, lock, slots, request, now, removed>>

Roles == {"admin", "application", "customer"}
Operations == {"create", "revoke", "session", "use"}
Sessions == [issuer : Keys \cup {NoKey}, role : {"admin", "customer"}, expires : 0..(MaxNow + TTL)]
Credentials == [kind : {"bootstrap"}] \cup [kind : {"key"}, key : Keys]
               \cup [kind : {"session"}, session : Sessions]

Idle == [pc |-> "idle"]

\* Places of a request whose credential has been accepted.
Acting == {"authorized", "createDerive", "createDeriving", "insert", "lock", "check", "update"}
Places == Acting \cup {"authenticate", "derive", "deriving", "issuer"}

Active == [pc : Places, credential : Credentials, op : Operations,
           target : Keys \cup {NoKey}, key : Keys \cup {NoKey},
           role : Roles \cup {"none"}, barred : SUBSET (Keys \cup {NoKey})]

RoleOf(k) == IF k \in Applications THEN "application" ELSE "admin"

Init ==
    /\ key = [k \in Keys |-> "absent"]
    /\ bootstrap = TRUE
    /\ sessions = {}
    /\ lock = NoRequest
    /\ slots = 0
    /\ request = [r \in Requests |-> Idle]
    /\ now = 0
    /\ removed = MaxNow + 1

--------------------------------------------------------------------------------

\* What no request beginning now may act as: revoked keys, and the bootstrap
\* administrator when the sessions it minted have run out.
LostAccess == {k \in Keys : key[k] = "revoked"}
              \cup {k \in {NoKey} : now >= removed + TTL}

\* A credential some client holds: the bearer of a key is known from its creation
\* on, and is presented again after the key's revocation.
Held(c) ==
    CASE c.kind = "bootstrap" -> TRUE
      [] c.kind = "key"       -> key[c.key] # "absent"
      [] c.kind = "session"   -> c.session \in sessions

\* A new key has a fresh identity; a revocation names any.
Targets(op) == CASE op = "create" -> {k \in Keys : key[k] = "absent"}
                 [] op = "revoke" -> Keys
                 [] OTHER         -> {NoKey}

Begin(r, c, op, target) ==
    /\ request[r] = Idle
    /\ target \in Targets(op)
    /\ Held(c)
    /\ request' = [request EXCEPT ![r] = [pc |-> "authenticate", credential |-> c, op |-> op,
                                          target |-> target, key |-> NoKey, role |-> "none",
                                          barred |-> LostAccess]]
    /\ UNCHANGED <<key, bootstrap, sessions, lock, slots, now, removed>>

\* The response is written, whatever it is.
End(r) == request' = [request EXCEPT ![r] = Idle]

Goto(r, place) == request' = [request EXCEPT ![r].pc = place]

\* The request goes on as this principal.
Authorize(r, k, role) ==
    request' = [request EXCEPT ![r].pc = "authorized", ![r].key = k, ![r].role = role]

--------------------------------------------------------------------------------
(* Authentication.                                                           *)

\* Authenticate compares with the configured bootstrap key before anything else.
AuthenticateBootstrap(r) ==
    /\ request[r].pc = "authenticate"
    /\ request[r].credential.kind = "bootstrap"
    /\ IF bootstrap THEN Authorize(r, NoKey, "admin") ELSE End(r)
    /\ UNCHANGED <<key, bootstrap, sessions, lock, slots, now, removed>>

\* APIKey finds only a key that is not revoked.
LoadKey(r) ==
    /\ request[r].pc = "authenticate"
    /\ request[r].credential.kind = "key"
    /\ IF key[request[r].credential.key] = "active" THEN Goto(r, "derive") ELSE End(r)
    /\ UNCHANGED <<key, bootstrap, sessions, lock, slots, now, removed>>

\* deriveVerifier takes a slot, or the request ends with ErrCapacity.
DeriveVerifier(r) ==
    /\ request[r].pc \in {"derive", "createDerive"}
    /\ IF slots < Capacity
       THEN /\ Goto(r, IF request[r].pc = "derive" THEN "deriving" ELSE "createDeriving")
            /\ slots' = slots + 1
       ELSE End(r) /\ UNCHANGED slots
    /\ UNCHANGED <<key, bootstrap, sessions, lock, now, removed>>

\* The derivation ends and the deferred receive gives the slot back.
Derived(r) ==
    /\ request[r].pc \in {"deriving", "createDeriving"}
    /\ IF request[r].pc = "deriving"
       THEN LET k == request[r].credential.key IN Authorize(r, k, RoleOf(k))
       ELSE Goto(r, "insert")
    /\ slots' = slots - 1
    /\ UNCHANGED <<key, bootstrap, sessions, lock, now, removed>>

\* Faulty variant: a session is good until it expires, whatever became of its issuer.
OpenSessionTrusted(r) ==
    /\ request[r].pc = "authenticate"
    /\ request[r].credential.kind = "session"
    /\ LET s == request[r].credential.session
       IN  IF now < s.expires THEN Authorize(r, s.issuer, s.role) ELSE End(r)
    /\ UNCHANGED <<key, bootstrap, sessions, lock, slots, now, removed>>

\* Faulty variant: the expiry of a session nobody can revoke is not looked at.
OpenSessionUnexpired(r) ==
    /\ request[r].pc = "authenticate"
    /\ request[r].credential.kind = "session"
    /\ LET s == request[r].credential.session
       IN  IF s.issuer = NoKey THEN Authorize(r, NoKey, "admin")
           ELSE IF now < s.expires THEN Goto(r, "issuer") ELSE End(r)
    /\ UNCHANGED <<key, bootstrap, sessions, lock, slots, now, removed>>

\* A session's expiry is checked against the clock, then its issuer; the sessions
\* of the bootstrap administrator have no stored issuer.
OpenSession(r) ==
    /\ request[r].pc = "authenticate"
    /\ request[r].credential.kind = "session"
    /\ LET s == request[r].credential.session
       IN  IF now >= s.expires THEN End(r)
           ELSE IF s.issuer = NoKey THEN Authorize(r, NoKey, "admin")
           ELSE Goto(r, "issuer")
    /\ UNCHANGED <<key, bootstrap, sessions, lock, slots, now, removed>>

LoadIssuer(r) ==
    /\ request[r].pc = "issuer"
    /\ LET s == request[r].credential.session
       IN  IF key[s.issuer] = "active" THEN Authorize(r, s.issuer, s.role) ELSE End(r)
    /\ UNCHANGED <<key, bootstrap, sessions, lock, slots, now, removed>>

--------------------------------------------------------------------------------
(* What an authorized request does.                                          *)

\* requireAdmin, requireApplication and requireCustomerSession: sessions are minted
\* for bearers only, and administration is for administrators.  The key of the
\* current request cannot be revoked by it.
Permitted(q) ==
    CASE q.op = "create"  -> q.role = "admin"
      [] q.op = "revoke"  -> q.role = "admin" /\ q.key # q.target
      [] q.op = "session" -> q.credential.kind # "session"
      [] q.op = "use"     -> TRUE

\* Mint: a dashboard session for an administrator, a customer session for an
\* application key.  Protecting the claims may fail.
Mint(q) == [issuer |-> q.key, role |-> IF q.role = "admin" THEN "admin" ELSE "customer",
            expires |-> now + TTL]

Act(r) ==
    LET q == request[r]
    IN  /\ q.pc = "authorized"
        /\ \/ /\ Permitted(q) /\ q.op = "create"
              /\ Goto(r, "createDerive") /\ UNCHANGED sessions
           \/ /\ Permitted(q) /\ q.op = "revoke"
              /\ Goto(r, "lock") /\ UNCHANGED sessions
           \/ /\ Permitted(q) /\ q.op = "session"
              /\ Cardinality(sessions) < MaxSessions
              /\ sessions' = sessions \cup {Mint(q)}
              /\ End(r)
           \/ /\ ~Permitted(q) \/ q.op \in {"session", "use"}
              /\ End(r) /\ UNCHANGED sessions
        /\ UNCHANGED <<key, bootstrap, lock, slots, now, removed>>

\* Create stores the verifier of a key; an identity that is taken is an error.
PutAPIKey(r) ==
    /\ request[r].pc = "insert"
    /\ key' = [key EXCEPT ![request[r].target] = IF @ = "absent" THEN "active" ELSE @]
    /\ End(r)
    /\ UNCHANGED <<bootstrap, sessions, lock, slots, now, removed>>

--------------------------------------------------------------------------------
(* RevokeAPIKey, one action per statement.                                   *)

\* Faulty variant: revocations are not serialized.
RevokeLockSkipped(r) ==
    /\ request[r].pc = "lock"
    /\ Goto(r, "check")
    /\ UNCHANGED <<key, bootstrap, sessions, lock, slots, now, removed>>

\* pg_advisory_xact_lock: wait for the lifecycle lock.
RevokeLock(r) ==
    /\ request[r].pc = "lock"
    /\ lock = NoRequest
    /\ lock' = r
    /\ Goto(r, "check")
    /\ UNCHANGED <<key, bootstrap, sessions, slots, now, removed>>

ActiveAdministrators == {k \in Administrators : key[k] = "active"}

\* Commit and rollback both give the transaction's lock back.
ReleaseLock(r) == lock' = IF lock = r THEN NoRequest ELSE lock

\* Faulty variant: refusing a revocation leaves the lock behind.
RevokeCheckKeepsLock(r) ==
    LET k == request[r].target
    IN  /\ request[r].pc = "check"
        /\ IF key[k] = "active" /\ ~(k \in Administrators /\ Cardinality(ActiveAdministrators) <= 1)
           THEN Goto(r, "update")
           ELSE End(r)
        /\ UNCHANGED <<key, bootstrap, sessions, lock, slots, now, removed>>

\* Load the key, and count the administrators if it is one.  An unknown key is not
\* found, a revoked one needs nothing, the last administrator is a conflict.
RevokeCheck(r) ==
    LET k == request[r].target
    IN  /\ request[r].pc = "check"
        /\ IF key[k] = "active" /\ ~(k \in Administrators /\ Cardinality(ActiveAdministrators) <= 1)
           THEN Goto(r, "update") /\ UNCHANGED lock
           ELSE End(r) /\ ReleaseLock(r)
        /\ UNCHANGED <<key, bootstrap, sessions, slots, now, removed>>

\* UPDATE ... WHERE revoked_at IS NULL, and commit.
RevokeUpdate(r) ==
    LET k == request[r].target
    IN  /\ request[r].pc = "update"
        /\ key' = [key EXCEPT ![k] = IF @ = "active" THEN "revoked" ELSE @]
        /\ End(r) /\ ReleaseLock(r)
        /\ UNCHANGED <<bootstrap, sessions, slots, now, removed>>

--------------------------------------------------------------------------------

\* The client goes away or the database fails: a transaction is rolled back.  A
\* derivation runs to its end.
Abort(r) ==
    /\ request[r].pc \in Places \ {"deriving", "createDeriving"}
    /\ End(r) /\ ReleaseLock(r)
    /\ UNCHANGED <<key, bootstrap, sessions, slots, now, removed>>

\* The process restarts without the bootstrap administrator key.
RemoveBootstrap ==
    /\ bootstrap
    /\ bootstrap' = FALSE
    /\ removed' = now
    /\ request' = [r \in Requests |-> Idle]
    /\ lock' = NoRequest
    /\ slots' = 0
    /\ UNCHANGED <<key, sessions, now>>

Tick ==
    /\ now < MaxNow
    /\ now' = now + 1
    /\ UNCHANGED <<key, bootstrap, sessions, lock, slots, request, removed>>

\* The steps of a request that wait for nobody.
Step(r) ==
    \/ AuthenticateBootstrap(r) \/ LoadKey(r) \/ DeriveVerifier(r) \/ Derived(r)
    \/ OpenSession(r) \/ LoadIssuer(r)
    \/ Act(r) \/ PutAPIKey(r) \/ RevokeCheck(r) \/ RevokeUpdate(r)

Next ==
    \/ \E r \in Requests, c \in [kind : {"bootstrap"}] \cup [kind : {"key"}, key : Keys]
                                \cup [kind : {"session"}, session : sessions],
          op \in Operations, k \in Keys \cup {NoKey} : Begin(r, c, op, k)
    \/ \E r \in Requests : Step(r) \/ RevokeLock(r) \/ Abort(r)
    \/ RemoveBootstrap
    \/ Tick

Spec == Init /\ [][Next]_vars

--------------------------------------------------------------------------------
(* Properties.                                                               *)

TypeOK ==
    /\ key \in [Keys -> {"absent", "active", "revoked"}]
    /\ bootstrap \in BOOLEAN
    /\ sessions \subseteq Sessions
    /\ lock \in Requests \cup {NoRequest}
    /\ slots \in 0..Capacity
    /\ request \in [Requests -> {Idle} \cup Active]
    /\ now \in 0..MaxNow
    /\ removed \in 0..(MaxNow + 1)

\* RevokeAPIKey's comment: it "atomically preserves an active administrator".  Once an
\* administrator key has been stored, one is active, however many administrators
\* revoke each other at the same time.
AdministratorRemains ==
    (\E k \in Administrators : key[k] # "absent") => ActiveAdministrators # {}

\* operations.md: "authentication reads revoked_at on every request".  A request that
\* begins after a key was revoked never acts as that key: not with the key itself, nor
\* with a session, not even one that a request authorized earlier mints later.
RevokedNeverActs ==
    \A r \in Requests : request[r].pc \in Acting =>
        (request[r].key # NoKey => request[r].key \notin request[r].barred)

\* Access the bootstrap administrator handed out ends one session lifetime after the
\* bootstrap key is taken out of the configuration.
BootstrapAccessEnds ==
    \A r \in Requests : request[r].pc \in Acting =>
        (request[r].key = NoKey => NoKey \notin request[r].barred)

DerivingPlaces == {"deriving", "createDeriving"}
Deriving == {r \in Requests : request[r].pc \in DerivingPlaces}

\* A refusal, an abort and a restart give back what the request held: the lifecycle
\* lock and every derivation slot in use belong to a request that is just using them.
\* Whoever waits for the lock or finds no slot is never kept out for good.
ResourcesReturned ==
    /\ lock # NoRequest => request[lock].pc \in {"check", "update"}
    /\ slots = Cardinality(Deriving)

====
