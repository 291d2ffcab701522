---- MODULE AccessKeysProofs ----
(***************************************************************************)
(* Theorems about AccessKeys, for any number of keys, requests, sessions   *)
(* and derivation slots.                                                   *)
(***************************************************************************)
EXTENDS AccessKeys, FiniteSetTheorems, TLAPS

\* The slots in use are those of the requests that are deriving.
SlotsCounted == IsFiniteSet(Deriving) /\ slots = Cardinality(Deriving)

\* The holder of the lifecycle lock, and nobody else, is past it.
LockHeld == \A r \in Requests : request[r].pc \in {"check", "update"} <=> lock = r

\* What the count established still holds when the update runs.
OtherAdministrator ==
    \A r \in Requests : request[r].pc = "update" /\ request[r].target \in Administrators
        => \E k \in ActiveAdministrators : k # request[r].target

\* Lost access is lost for good, a request's place agrees with the credential it
\* carries, and it acts as nobody it was barred from.
Consistent(q) ==
    /\ q \in Active
    /\ \A k \in Keys : k \in q.barred => key[k] = "revoked"
    /\ NoKey \in q.barred => ~bootstrap /\ now >= removed + TTL
    /\ q.pc \in {"derive", "deriving"} =>
          q.credential.kind = "key" /\ q.credential.key \in Keys /\ q.credential.key \notin q.barred
    /\ q.pc = "issuer" => q.credential.kind = "session" /\ q.credential.session.issuer \in Keys
    /\ q.credential.kind = "session" => q.credential.session \in sessions
    /\ q.pc \in Acting => /\ q.key \notin q.barred
                          /\ q.key = NoKey /\ q.credential.kind # "session" => bootstrap

RequestsConsistent == \A r \in Requests : request[r] = Idle \/ Consistent(request[r])

\* Sessions of the bootstrap administrator stem from the time it was configured.
SessionsEnd ==
    /\ bootstrap => removed = MaxNow + 1
    /\ ~bootstrap => removed <= now
    /\ \A s \in sessions : s.issuer = NoKey =>
          /\ bootstrap => s.expires <= now + TTL
          /\ ~bootstrap => s.expires <= removed + TTL

IInv ==
    /\ TypeOK
    /\ SlotsCounted
    /\ LockHeld
    /\ OtherAdministrator
    /\ RequestsConsistent
    /\ SessionsEnd
    /\ AdministratorRemains

--------------------------------------------------------------------------------
(* Facts shared by several actions.                                          *)

\* A request that is somewhere is not idle.
LEMMA PlaceIsActive ==
    ASSUME IInv, NEW r \in Requests, request[r].pc # "idle"
    PROVE  /\ request[r] \in Active
           /\ request[r] # Idle
           /\ Consistent(request[r])
<1>1. request[r] # Idle
    BY DEF Idle
<1> QED BY <1>1 DEF IInv, RequestsConsistent, Consistent

\* A step of one request leaves the others consistent, as nothing they rely on is
\* ever taken back.
LEMMA OneRequestMoves ==
    ASSUME IInv, NEW r \in Requests, NEW q,
           request' = [request EXCEPT ![r] = q],
           q = Idle \/ Consistent(q)',
           UNCHANGED <<bootstrap, removed, now>>,
           sessions \subseteq sessions',
           \A k \in Keys : key[k] = "revoked" => key'[k] = "revoked"
    PROVE  RequestsConsistent' /\ request' \in [Requests -> {Idle} \cup Active]
<1>1. RequestsConsistent'
  <2> SUFFICES ASSUME NEW p \in Requests, request'[p] # Idle
               PROVE  Consistent(request[p])'
    BY DEF RequestsConsistent
  <2>1. CASE p = r
    BY <2>1 DEF IInv, TypeOK
  <2>2. CASE p # r
    <3>1. request'[p] = request[p] /\ Consistent(request[p])
      BY <2>2 DEF IInv, TypeOK, RequestsConsistent
    <3> QED BY <3>1 DEF Consistent
  <2> QED BY <2>1, <2>2
<1>2. request' \in [Requests -> {Idle} \cup Active]
  <2>1. q \in {Idle} \cup Active
    BY DEF Consistent
  <2> QED BY <2>1 DEF IInv, TypeOK
<1> QED BY <1>1, <1>2

\* A step that neither begins nor ends a derivation keeps the count.
LEMMA SlotsKept ==
    ASSUME IInv, NEW r \in Requests, NEW q,
           request' = [request EXCEPT ![r] = q],
           request[r].pc \notin DerivingPlaces, q.pc \notin DerivingPlaces,
           UNCHANGED slots
    PROVE  SlotsCounted'
<1>1. Deriving' = Deriving
    BY DEF IInv, TypeOK, Deriving
<1> QED BY <1>1 DEF IInv, SlotsCounted

\* A request that is not revoking moves, and nobody loses a key.
LEMMA LockKept ==
    ASSUME IInv, NEW r \in Requests, NEW q,
           request' = [request EXCEPT ![r] = q],
           q.pc \notin {"check", "update"},
           ReleaseLock(r) \/ (request[r].pc \notin {"check", "update"} /\ UNCHANGED lock),
           \A k \in Keys : key[k] = "active" => key'[k] = "active"
    PROVE  LockHeld' /\ OtherAdministrator'
<1>1. LockHeld'
    BY AccessAssumption DEF IInv, TypeOK, LockHeld, ReleaseLock
<1>2. ActiveAdministrators \subseteq ActiveAdministrators'
    BY DEF ActiveAdministrators, Keys
<1>3. OtherAdministrator'
  <2> SUFFICES ASSUME NEW p \in Requests, request'[p].pc = "update",
                      request'[p].target \in Administrators
               PROVE  \E k \in ActiveAdministrators' : k # request'[p].target
    BY DEF OtherAdministrator
  <2>1. p # r /\ request'[p] = request[p]
    BY DEF IInv, TypeOK
  <2> QED BY <2>1, <1>2 DEF IInv, OtherAdministrator
<1> QED BY <1>1, <1>3

\* The response of a request that was not deriving.
LEMMA EndKeeps ==
    ASSUME IInv, NEW r \in Requests, End(r), request[r].pc \notin DerivingPlaces,
           ReleaseLock(r) \/ (request[r].pc \notin {"check", "update"} /\ UNCHANGED lock),
           UNCHANGED <<key, bootstrap, sessions, slots, now, removed>>
    PROVE  IInv'
<1>1. request' = [request EXCEPT ![r] = Idle] /\ Idle.pc = "idle"
    BY DEF End, Idle
<1>2. RequestsConsistent' /\ request' \in [Requests -> {Idle} \cup Active]
    BY <1>1, OneRequestMoves
<1>3. SlotsCounted'
    BY <1>1, SlotsKept DEF DerivingPlaces
<1>4. LockHeld' /\ OtherAdministrator'
    BY <1>1, LockKept
<1>5. TypeOK' /\ SessionsEnd' /\ AdministratorRemains'
    BY <1>2 DEF IInv, TypeOK, ReleaseLock, SessionsEnd, AdministratorRemains, ActiveAdministrators
<1> QED BY <1>2, <1>3, <1>4, <1>5 DEF IInv

\* A request goes from one place to another, and only it changes.
LEMMA MoveKeeps ==
    ASSUME IInv, NEW r \in Requests, NEW q,
           request' = [request EXCEPT ![r] = q],
           request[r].pc \notin DerivingPlaces \cup {"check", "update"}, Consistent(q),
           q.pc \notin DerivingPlaces \cup {"check", "update"},
           UNCHANGED <<key, bootstrap, sessions, lock, slots, now, removed>>
    PROVE  IInv'
<1>1. Consistent(q)'
    BY DEF Consistent
<1>2. RequestsConsistent' /\ request' \in [Requests -> {Idle} \cup Active]
    BY <1>1, OneRequestMoves
<1>3. SlotsCounted'
    BY SlotsKept
<1>4. LockHeld' /\ OtherAdministrator'
    BY LockKept
<1>5. TypeOK' /\ SessionsEnd' /\ AdministratorRemains'
    BY <1>2 DEF IInv, TypeOK, SessionsEnd, AdministratorRemains, ActiveAdministrators
<1> QED BY <1>2, <1>3, <1>4, <1>5 DEF IInv

--------------------------------------------------------------------------------
(* Initial states and actions.                                               *)

\* The initial state satisfies the invariant.
LEMMA InitKeeps == Init => IInv
<1> SUFFICES ASSUME Init PROVE IInv
    OBVIOUS
<1>1. \A r \in Requests : request[r] = Idle /\ request[r].pc = "idle"
    BY DEF Init, Idle
<1>2. TypeOK
    BY AccessAssumption DEF Init, TypeOK
<1>3. Deriving = {}
    BY <1>1 DEF Deriving, DerivingPlaces
<1>4. SlotsCounted
    BY <1>3, FS_EmptySet DEF SlotsCounted, Init
<1>5. LockHeld /\ OtherAdministrator /\ RequestsConsistent
    BY <1>1, AccessAssumption DEF Init, LockHeld, OtherAdministrator, RequestsConsistent
<1>6. SessionsEnd /\ AdministratorRemains
    BY DEF Init, SessionsEnd, AdministratorRemains, Keys
<1> QED BY <1>2, <1>4, <1>5, <1>6 DEF IInv

\* A request that begins is barred from exactly what has lost its access.
LEMMA BeginKeeps ==
    ASSUME IInv, NEW r \in Requests, NEW op \in Operations, NEW k \in Keys \cup {NoKey},
           NEW c \in [kind : {"bootstrap"}] \cup [kind : {"key"}, key : Keys]
                     \cup [kind : {"session"}, session : sessions],
           Begin(r, c, op, k)
    PROVE  IInv'
<1> DEFINE q == [pc |-> "authenticate", credential |-> c, op |-> op, target |-> k,
                 key |-> NoKey, role |-> "none", barred |-> LostAccess]
<1>1. request' = [request EXCEPT ![r] = q] /\ request[r].pc = "idle"
    BY DEF Begin, Idle
<1>2. c \in Credentials
    BY DEF IInv, TypeOK, Credentials
<1>3. q \in Active
    BY <1>2 DEF Active, Places, LostAccess
<1>4. NoKey \in LostAccess => ~bootstrap /\ now >= removed + TTL
  <2>1. NoKey \in LostAccess => now >= removed + TTL
    BY AccessAssumption DEF LostAccess
  <2>2. bootstrap => now < removed
    BY AccessAssumption DEF IInv, TypeOK, SessionsEnd
  <2> QED BY <2>1, <2>2, AccessAssumption DEF IInv, TypeOK
<1>5. \A j \in Keys : j \in LostAccess => key[j] = "revoked"
    BY AccessAssumption DEF LostAccess
<1>6. c.kind = "session" => c.session \in sessions
    OBVIOUS
<1>7. Consistent(q)
    BY <1>3, <1>4, <1>5, <1>6 DEF Consistent, Acting
<1> HIDE DEF q
<1>8. q.pc = "authenticate"
    BY DEF q
<1> QED BY <1>1, <1>7, <1>8, MoveKeeps DEF Begin, DerivingPlaces

\* Moving to a place that asks nothing of the credential.
LEMMA GotoConsistent ==
    ASSUME IInv, NEW r \in Requests, NEW place \in Places, Goto(r, place),
           request[r].pc \in Places,
           place \in Acting => request[r].pc \in Acting,
           place \in {"derive", "deriving"} =>
              /\ request[r].credential.kind = "key" /\ request[r].credential.key \in Keys
              /\ request[r].credential.key \notin request[r].barred,
           place = "issuer" => /\ request[r].credential.kind = "session"
                               /\ request[r].credential.session.issuer \in Keys
    PROVE  \E q : /\ request' = [request EXCEPT ![r] = q]
                  /\ Consistent(q) /\ q.pc = place /\ q.target = request[r].target
<1>1. request[r] \in Active /\ Consistent(request[r])
    BY PlaceIsActive DEF Places, Acting
<1> DEFINE q == [request[r] EXCEPT !.pc = place]
<1>2. request' = [request EXCEPT ![r] = q]
    BY DEF Goto
<1>3. /\ q \in Active /\ q.pc = place
      /\ q.credential = request[r].credential /\ q.barred = request[r].barred
      /\ q.key = request[r].key /\ q.target = request[r].target
    BY <1>1 DEF Active
<1>4. Consistent(q)
    BY <1>1, <1>3 DEF Consistent
<1> QED BY <1>2, <1>3, <1>4

\* Accepting a credential.
LEMMA AuthorizeConsistent ==
    ASSUME IInv, NEW r \in Requests, NEW k \in Keys \cup {NoKey}, NEW role \in Roles,
           Authorize(r, k, role), request[r].pc \in Places,
           k \notin request[r].barred,
           k = NoKey /\ request[r].credential.kind # "session" => bootstrap
    PROVE  \E q : /\ request' = [request EXCEPT ![r] = q]
                  /\ Consistent(q) /\ q.pc = "authorized"
<1>1. request[r] \in Active /\ Consistent(request[r])
    BY PlaceIsActive DEF Places, Acting
<1> DEFINE q == [request[r] EXCEPT !.pc = "authorized", !.key = k, !.role = role]
<1>2. request' = [request EXCEPT ![r] = q]
    BY DEF Authorize
<1>3. /\ q \in Active /\ q.pc = "authorized"
      /\ q.credential = request[r].credential /\ q.barred = request[r].barred
      /\ q.key = k
    BY <1>1 DEF Active, Places, Acting
<1>4. Consistent(q)
    BY <1>1, <1>3 DEF Consistent
<1> QED BY <1>2, <1>3, <1>4

\* The bootstrap credential is accepted only while it is configured.
LEMMA AuthenticateBootstrapKeeps ==
    ASSUME IInv, NEW r \in Requests, AuthenticateBootstrap(r)
    PROVE  IInv'
<1>1. /\ request[r].pc = "authenticate" /\ request[r].credential.kind = "bootstrap"
      /\ UNCHANGED <<key, bootstrap, sessions, lock, slots, now, removed>>
    BY DEF AuthenticateBootstrap
<1>2. CASE bootstrap
  <2>1. Authorize(r, NoKey, "admin")
    BY <1>2 DEF AuthenticateBootstrap
  <2>2. NoKey \notin request[r].barred
    BY <1>1, <1>2, PlaceIsActive DEF Consistent
  <2>3. PICK q : request' = [request EXCEPT ![r] = q] /\ Consistent(q) /\ q.pc = "authorized"
    BY <1>1, <1>2, <2>1, <2>2, AuthorizeConsistent DEF Places, Roles
  <2> QED BY <1>1, <2>3, MoveKeeps DEF DerivingPlaces
<1>3. CASE ~bootstrap
    BY <1>1, <1>3, EndKeeps DEF AuthenticateBootstrap, DerivingPlaces
<1> QED BY <1>2, <1>3

\* A key that is found is active, so the request is not barred from it.
LEMMA LoadKeyKeeps ==
    ASSUME IInv, NEW r \in Requests, LoadKey(r)
    PROVE  IInv'
<1> DEFINE c == request[r].credential
<1>1. /\ request[r].pc = "authenticate" /\ c.kind = "key"
      /\ UNCHANGED <<key, bootstrap, sessions, lock, slots, now, removed>>
    BY DEF LoadKey
<1>2. request[r] \in Active /\ Consistent(request[r])
    BY <1>1, PlaceIsActive
<1>3. c.key \in Keys
    BY <1>1, <1>2 DEF Active, Credentials
<1>4. CASE key[c.key] = "active"
  <2>1. c.key \notin request[r].barred
    BY <1>2, <1>3, <1>4 DEF Consistent
  <2>2. Goto(r, "derive")
    BY <1>4 DEF LoadKey
  <2>3. PICK q : request' = [request EXCEPT ![r] = q] /\ Consistent(q) /\ q.pc = "derive"
    BY <1>1, <1>3, <2>1, <2>2, GotoConsistent DEF Places, Acting
  <2> QED BY <1>1, <2>3, MoveKeeps DEF DerivingPlaces
<1>5. CASE key[c.key] # "active"
    BY <1>1, <1>5, EndKeeps DEF LoadKey, DerivingPlaces
<1> QED BY <1>4, <1>5

\* A bootstrap session that has not expired stems from less than a lifetime ago.
LEMMA OpenSessionKeeps ==
    ASSUME IInv, NEW r \in Requests, OpenSession(r)
    PROVE  IInv'
<1> DEFINE s == request[r].credential.session
<1>1. /\ request[r].pc = "authenticate" /\ request[r].credential.kind = "session"
      /\ UNCHANGED <<key, bootstrap, sessions, lock, slots, now, removed>>
    BY DEF OpenSession
<1>2. request[r] \in Active /\ Consistent(request[r])
    BY <1>1, PlaceIsActive
<1>3. s \in sessions /\ s \in Sessions
    BY <1>1, <1>2 DEF Consistent, IInv, TypeOK
<1>4. CASE now >= s.expires
    BY <1>1, <1>4, EndKeeps DEF OpenSession, DerivingPlaces
<1>5. CASE ~(now >= s.expires) /\ s.issuer = NoKey
  <2>1. Authorize(r, NoKey, "admin")
    BY <1>5 DEF OpenSession
  <2>2. NoKey \notin request[r].barred
    <3>1. ~bootstrap => now < removed + TTL
      BY <1>3, <1>5, AccessAssumption DEF IInv, TypeOK, SessionsEnd, Sessions
    <3> QED BY <1>2, <3>1, AccessAssumption DEF Consistent, IInv, TypeOK
  <2>3. PICK q : request' = [request EXCEPT ![r] = q] /\ Consistent(q) /\ q.pc = "authorized"
    BY <1>1, <2>1, <2>2, AuthorizeConsistent DEF Places, Roles
  <2> QED BY <1>1, <2>3, MoveKeeps DEF DerivingPlaces
<1>6. CASE ~(now >= s.expires) /\ s.issuer # NoKey
  <2>1. Goto(r, "issuer")
    BY <1>6 DEF OpenSession
  <2>2. s.issuer \in Keys
    BY <1>3, <1>6 DEF Sessions
  <2>3. PICK q : request' = [request EXCEPT ![r] = q] /\ Consistent(q) /\ q.pc = "issuer"
    BY <1>1, <2>1, <2>2, GotoConsistent DEF Places, Acting
  <2> QED BY <1>1, <2>3, MoveKeeps DEF DerivingPlaces
<1> QED BY <1>4, <1>5, <1>6

\* The issuer of an accepted session is active.
LEMMA LoadIssuerKeeps ==
    ASSUME IInv, NEW r \in Requests, LoadIssuer(r)
    PROVE  IInv'
<1> DEFINE s == request[r].credential.session
<1>1. /\ request[r].pc = "issuer"
      /\ UNCHANGED <<key, bootstrap, sessions, lock, slots, now, removed>>
    BY DEF LoadIssuer
<1>2. request[r] \in Active /\ Consistent(request[r])
    BY <1>1, PlaceIsActive
<1>3. request[r].credential.kind = "session" /\ s.issuer \in Keys /\ s \in Sessions
    BY <1>1, <1>2 DEF Consistent, IInv, TypeOK
<1>4. CASE key[s.issuer] = "active"
  <2>1. Authorize(r, s.issuer, s.role)
    BY <1>4 DEF LoadIssuer
  <2>2. s.issuer \notin request[r].barred /\ s.role \in Roles
    BY <1>2, <1>3, <1>4 DEF Consistent, Sessions, Roles
  <2>3. PICK q : request' = [request EXCEPT ![r] = q] /\ Consistent(q) /\ q.pc = "authorized"
    BY <1>1, <1>3, <2>1, <2>2, AuthorizeConsistent DEF Places
  <2> QED BY <1>1, <2>3, MoveKeeps DEF DerivingPlaces
<1>5. CASE key[s.issuer] # "active"
    BY <1>1, <1>5, EndKeeps DEF LoadIssuer, DerivingPlaces
<1> QED BY <1>4, <1>5

\* A derivation begins by taking a free slot.
LEMMA DeriveVerifierKeeps ==
    ASSUME IInv, NEW r \in Requests, DeriveVerifier(r)
    PROVE  IInv'
<1> DEFINE place == IF request[r].pc = "derive" THEN "deriving" ELSE "createDeriving"
<1>1. /\ request[r].pc \in {"derive", "createDerive"}
      /\ UNCHANGED <<key, bootstrap, sessions, lock, now, removed>>
    BY DEF DeriveVerifier
<1>2. CASE slots < Capacity
  <2>1. Goto(r, place) /\ slots' = slots + 1
    BY <1>2 DEF DeriveVerifier
  <2>2. Consistent(request[r])
    BY <1>1, PlaceIsActive
  <2>3. PICK q : request' = [request EXCEPT ![r] = q] /\ Consistent(q) /\ q.pc = place
    BY <1>1, <2>1, <2>2, GotoConsistent DEF Places, Acting, Consistent
  <2>4. Consistent(q)'
    BY <1>1, <2>3 DEF Consistent
  <2>5. RequestsConsistent' /\ request' \in [Requests -> {Idle} \cup Active]
    BY <1>1, <2>3, <2>4, OneRequestMoves
  <2>6. SlotsCounted' /\ slots' \in 0..Capacity
    <3>1. Deriving' = Deriving \cup {r} /\ r \notin Deriving
      BY <1>1, <2>3 DEF Deriving, DerivingPlaces, IInv, TypeOK
    <3>2. IsFiniteSet(Deriving') /\ Cardinality(Deriving') = Cardinality(Deriving) + 1
      BY <3>1, FS_AddElement DEF IInv, SlotsCounted
    <3> QED BY <2>1, <3>2, <1>2, AccessAssumption DEF IInv, SlotsCounted, TypeOK
  <2>7. LockHeld' /\ OtherAdministrator'
    BY <1>1, <2>3, LockKept
  <2>8. TypeOK' /\ SessionsEnd' /\ AdministratorRemains'
    BY <1>1, <2>5, <2>6 DEF IInv, TypeOK, SessionsEnd, AdministratorRemains, ActiveAdministrators
  <2> QED BY <2>5, <2>6, <2>7, <2>8 DEF IInv
<1>3. CASE ~(slots < Capacity)
    BY <1>1, <1>3, EndKeeps DEF DeriveVerifier, DerivingPlaces
<1> QED BY <1>2, <1>3

\* A derivation that ends gives its own slot back.
LEMMA DerivedKeeps ==
    ASSUME IInv, NEW r \in Requests, Derived(r)
    PROVE  IInv'
<1>1. /\ request[r].pc \in {"deriving", "createDeriving"} /\ slots' = slots - 1
      /\ UNCHANGED <<key, bootstrap, sessions, lock, now, removed>>
    BY DEF Derived
<1>2. request[r] \in Active /\ Consistent(request[r])
    BY <1>1, PlaceIsActive
<1>3. PICK q : /\ request' = [request EXCEPT ![r] = q] /\ Consistent(q)
               /\ q.pc \in {"authorized", "insert"}
  <2>1. CASE request[r].pc = "deriving"
    <3> DEFINE k == request[r].credential.key
    <3>1. k \in Keys /\ k \notin request[r].barred /\ k # NoKey
      BY <2>1, <1>2, AccessAssumption DEF Consistent
    <3>2. Authorize(r, k, RoleOf(k)) /\ RoleOf(k) \in Roles
      BY <2>1 DEF Derived, RoleOf, Roles
    <3> QED BY <1>1, <3>1, <3>2, AuthorizeConsistent DEF Places, Acting
  <2>2. CASE request[r].pc = "createDeriving"
    <3>1. Goto(r, "insert")
      BY <2>2 DEF Derived
    <3> QED BY <2>2, <3>1, GotoConsistent DEF Places, Acting
  <2> QED BY <1>1, <2>1, <2>2
<1>4. Consistent(q)'
    BY <1>1, <1>3 DEF Consistent
<1>5. RequestsConsistent' /\ request' \in [Requests -> {Idle} \cup Active]
    BY <1>1, <1>3, <1>4, OneRequestMoves
<1>6. SlotsCounted' /\ slots' \in 0..Capacity
  <2>1. Deriving' = Deriving \ {r} /\ r \in Deriving
    BY <1>1, <1>3 DEF Deriving, DerivingPlaces, IInv, TypeOK
  <2>2. IsFiniteSet(Deriving') /\ Cardinality(Deriving') = Cardinality(Deriving) - 1
    BY <2>1, FS_RemoveElement DEF IInv, SlotsCounted
  <2>3. Cardinality(Deriving') \in Nat
    BY <2>2, FS_CardinalityType
  <2> QED BY <1>1, <2>2, <2>3, AccessAssumption DEF IInv, SlotsCounted, TypeOK
<1>7. LockHeld' /\ OtherAdministrator'
    BY <1>1, <1>3, LockKept
<1>8. TypeOK' /\ SessionsEnd' /\ AdministratorRemains'
    BY <1>1, <1>5, <1>6 DEF IInv, TypeOK, SessionsEnd, AdministratorRemains, ActiveAdministrators
<1> QED BY <1>5, <1>6, <1>7, <1>8 DEF IInv

\* A session minted by a request that acts as the bootstrap administrator is minted
\* while it is configured: a session cannot mint another.
LEMMA MintKeeps ==
    ASSUME IInv, NEW r \in Requests, request[r].pc = "authorized", End(r),
           request[r].credential.kind # "session",
           sessions' = sessions \cup {Mint(request[r])},
           UNCHANGED <<key, bootstrap, lock, slots, now, removed>>
    PROVE  IInv'
<1>1. request' = [request EXCEPT ![r] = Idle] /\ Idle.pc = "idle"
    BY DEF End, Idle
<1>2. request[r] \in Active /\ Consistent(request[r])
    BY PlaceIsActive
<1>3. RequestsConsistent' /\ request' \in [Requests -> {Idle} \cup Active]
    BY <1>1, OneRequestMoves
<1>4. SlotsCounted'
    BY <1>1, SlotsKept DEF DerivingPlaces
<1>5. LockHeld' /\ OtherAdministrator'
    BY <1>1, LockKept
<1>6. /\ Mint(request[r]) \in Sessions
      /\ Mint(request[r]).expires = now + TTL
      /\ Mint(request[r]).issuer = NoKey => bootstrap
  <2>1. request[r].key \in Keys \cup {NoKey} /\ now + TTL \in 0..(MaxNow + TTL)
    BY <1>2, AccessAssumption DEF Active, IInv, TypeOK
  <2>2. request[r].key = NoKey => bootstrap
    BY <1>2 DEF Consistent, Acting
  <2> QED BY <2>1, <2>2 DEF Mint, Sessions
<1>7. SessionsEnd'
  <2> SUFFICES ASSUME NEW s \in sessions', s.issuer = NoKey
               PROVE  /\ bootstrap => s.expires <= now + TTL
                      /\ ~bootstrap => s.expires <= removed + TTL
    BY DEF IInv, SessionsEnd
  <2>1. CASE s \in sessions
    BY <2>1 DEF IInv, SessionsEnd
  <2>2. CASE s = Mint(request[r])
    <3>1. bootstrap
      BY <2>2, <1>6
    <3>2. s.expires = now + TTL /\ now + TTL <= now + TTL
      BY <2>2, <1>6, AccessAssumption DEF IInv, TypeOK
    <3> QED BY <3>1, <3>2
  <2> QED BY <2>1, <2>2
<1>8. TypeOK' /\ AdministratorRemains'
    BY <1>3, <1>6 DEF IInv, TypeOK, AdministratorRemains, ActiveAdministrators
<1> QED BY <1>3, <1>4, <1>5, <1>7, <1>8 DEF IInv

\* What an authorized request does first.
LEMMA ActKeeps ==
    ASSUME IInv, NEW r \in Requests, Act(r)
    PROVE  IInv'
<1>1. request[r].pc = "authorized" /\ UNCHANGED <<key, bootstrap, lock, slots, now, removed>>
    BY DEF Act
<1>2. ASSUME NEW place \in {"createDerive", "lock"}, Goto(r, place), UNCHANGED sessions
      PROVE  IInv'
  <2>1. PICK q : request' = [request EXCEPT ![r] = q] /\ Consistent(q) /\ q.pc = place
    BY <1>1, <1>2, GotoConsistent DEF Places, Acting
  <2> QED BY <1>1, <1>2, <2>1, MoveKeeps DEF DerivingPlaces
<1>3. CASE /\ Permitted(request[r]) /\ request[r].op = "session" /\ End(r)
           /\ sessions' = sessions \cup {Mint(request[r])}
  <2>1. request[r].credential.kind # "session"
    BY <1>3 DEF Permitted
  <2> QED BY <1>1, <1>3, <2>1, MintKeeps
<1>4. CASE End(r) /\ UNCHANGED sessions
    BY <1>1, <1>4, EndKeeps DEF DerivingPlaces
<1> QED BY <1>2, <1>3, <1>4 DEF Act

\* A new key takes nothing away from anyone.
LEMMA PutAPIKeyKeeps ==
    ASSUME IInv, NEW r \in Requests, PutAPIKey(r)
    PROVE  IInv'
<1>1. /\ request[r].pc = "insert"
      /\ request' = [request EXCEPT ![r] = Idle] /\ Idle.pc = "idle"
      /\ UNCHANGED <<bootstrap, sessions, lock, slots, now, removed>>
    BY DEF PutAPIKey, End, Idle
<1>2. /\ key' \in [Keys -> {"absent", "active", "revoked"}]
      /\ \A k \in Keys : /\ key[k] # "absent" => key'[k] = key[k]
                         /\ key[k] = "absent" => key'[k] \in {"absent", "active"}
    BY DEF PutAPIKey, IInv, TypeOK
<1>3. RequestsConsistent' /\ request' \in [Requests -> {Idle} \cup Active]
    BY <1>1, <1>2, OneRequestMoves
<1>4. SlotsCounted'
    BY <1>1, SlotsKept DEF DerivingPlaces
<1>5. LockHeld' /\ OtherAdministrator'
    BY <1>1, <1>2, LockKept
<1>6. AdministratorRemains'
    BY <1>2 DEF IInv, TypeOK, AdministratorRemains, ActiveAdministrators, Keys
<1>7. TypeOK' /\ SessionsEnd'
    BY <1>1, <1>2, <1>3 DEF IInv, TypeOK, SessionsEnd
<1> QED BY <1>3, <1>4, <1>5, <1>6, <1>7 DEF IInv

\* Nobody else is past the lock when it is granted.
LEMMA RevokeLockKeeps ==
    ASSUME IInv, NEW r \in Requests, RevokeLock(r)
    PROVE  IInv'
<1>1. /\ request[r].pc = "lock" /\ lock = NoRequest /\ lock' = r /\ Goto(r, "check")
      /\ UNCHANGED <<key, bootstrap, sessions, slots, now, removed>>
    BY DEF RevokeLock
<1>2. PICK q : request' = [request EXCEPT ![r] = q] /\ Consistent(q) /\ q.pc = "check"
    BY <1>1, GotoConsistent DEF Places, Acting
<1>3. Consistent(q)'
    BY <1>1, <1>2 DEF Consistent
<1>4. RequestsConsistent' /\ request' \in [Requests -> {Idle} \cup Active]
    BY <1>1, <1>2, <1>3, OneRequestMoves
<1>5. SlotsCounted'
    BY <1>1, <1>2, SlotsKept DEF DerivingPlaces
<1>6. \A p \in Requests : request[p].pc \notin {"check", "update"}
    BY <1>1, AccessAssumption DEF IInv, LockHeld
<1>7. LockHeld' /\ OtherAdministrator'
    BY <1>1, <1>2, <1>6 DEF IInv, TypeOK, LockHeld, OtherAdministrator
<1>8. TypeOK' /\ SessionsEnd' /\ AdministratorRemains'
    BY <1>1, <1>4 DEF IInv, TypeOK, SessionsEnd, AdministratorRemains, ActiveAdministrators
<1> QED BY <1>4, <1>5, <1>7, <1>8 DEF IInv

\* A count of two or more administrators, one of them k, shows another one.
LEMMA CountShowsAnother ==
    ASSUME IInv, NEW k \in ActiveAdministrators, ~(Cardinality(ActiveAdministrators) <= 1)
    PROVE  \E j \in ActiveAdministrators : j # k
<1>1. IsFiniteSet(ActiveAdministrators)
    BY AccessAssumption, FS_Subset DEF ActiveAdministrators, Keys
<1>2. CASE ActiveAdministrators = {k}
    BY <1>2, FS_Singleton
<1>3. CASE ActiveAdministrators # {k}
    BY <1>3
<1> QED BY <1>2, <1>3

\* A revocation goes on only when another administrator is active.
LEMMA RevokeCheckKeeps ==
    ASSUME IInv, NEW r \in Requests, RevokeCheck(r)
    PROVE  IInv'
<1> DEFINE k == request[r].target
<1> DEFINE allowed == key[k] = "active" /\ ~(k \in Administrators /\ Cardinality(ActiveAdministrators) <= 1)
<1>1. /\ request[r].pc = "check" /\ lock = r
      /\ UNCHANGED <<key, bootstrap, sessions, slots, now, removed>>
    BY DEF RevokeCheck, IInv, LockHeld
<1>2. CASE allowed
  <2>1. Goto(r, "update") /\ UNCHANGED lock
    BY <1>2 DEF RevokeCheck
  <2>2. PICK q : /\ request' = [request EXCEPT ![r] = q] /\ Consistent(q) /\ q.pc = "update"
                 /\ q.target = k
    BY <1>1, <2>1, GotoConsistent DEF Places, Acting
  <2>3. Consistent(q)'
    BY <1>1, <2>2 DEF Consistent
  <2>4. RequestsConsistent' /\ request' \in [Requests -> {Idle} \cup Active]
    BY <1>1, <2>2, <2>3, OneRequestMoves
  <2>5. SlotsCounted'
    BY <1>1, <2>2, SlotsKept DEF DerivingPlaces
  <2>6. LockHeld'
    BY <1>1, <2>1, <2>2 DEF IInv, TypeOK, LockHeld
  <2>7. OtherAdministrator'
    <3>1. k \in Administrators => \E j \in ActiveAdministrators : j # k
      BY <1>2, CountShowsAnother DEF ActiveAdministrators
    <3>2. ActiveAdministrators' = ActiveAdministrators
      BY <1>1 DEF ActiveAdministrators
    <3> QED BY <2>2, <3>1, <3>2 DEF IInv, TypeOK, OtherAdministrator
  <2>8. TypeOK' /\ SessionsEnd' /\ AdministratorRemains'
    BY <1>1, <2>1, <2>4 DEF IInv, TypeOK, SessionsEnd, AdministratorRemains, ActiveAdministrators
  <2> QED BY <2>4, <2>5, <2>6, <2>7, <2>8 DEF IInv
<1>3. CASE ~allowed
    BY <1>1, <1>3, EndKeeps DEF RevokeCheck, ReleaseLock, DerivingPlaces
<1> QED BY <1>2, <1>3

\* The other administrator the count saw is still there after the update.
LEMMA RevokeUpdateKeeps ==
    ASSUME IInv, NEW r \in Requests, RevokeUpdate(r)
    PROVE  IInv'
<1> DEFINE k == request[r].target
<1>1. /\ request[r].pc = "update" /\ lock = r /\ lock' = NoRequest
      /\ request' = [request EXCEPT ![r] = Idle] /\ Idle.pc = "idle"
      /\ UNCHANGED <<bootstrap, sessions, slots, now, removed>>
    BY DEF RevokeUpdate, End, ReleaseLock, Idle, IInv, LockHeld
<1>2. /\ key' \in [Keys -> {"absent", "active", "revoked"}]
      /\ \A j \in Keys : j # k => key'[j] = key[j]
      /\ \A j \in Keys : /\ key[j] = "revoked" => key'[j] = "revoked"
                         /\ key[j] = "absent" <=> key'[j] = "absent"
    BY DEF RevokeUpdate, IInv, TypeOK
<1>3. RequestsConsistent' /\ request' \in [Requests -> {Idle} \cup Active]
    BY <1>1, <1>2, OneRequestMoves
<1>4. SlotsCounted'
    BY <1>1, SlotsKept DEF DerivingPlaces
<1>5. \A p \in Requests : request'[p].pc \notin {"check", "update"}
    BY <1>1 DEF IInv, TypeOK, LockHeld
<1>6. LockHeld' /\ OtherAdministrator'
    BY <1>1, <1>5, AccessAssumption DEF LockHeld, OtherAdministrator
<1>7. AdministratorRemains'
  <2>1. CASE k \in Administrators
    <3>1. PICK j \in ActiveAdministrators : j # k
      BY <1>1, <2>1 DEF IInv, OtherAdministrator
    <3>2. j \in ActiveAdministrators'
      BY <3>1, <1>2 DEF ActiveAdministrators, Keys
    <3> QED BY <3>2 DEF AdministratorRemains
  <2>2. CASE k \notin Administrators
    <3>1. \A j \in Administrators : key'[j] = key[j]
      BY <2>2, <1>2 DEF Keys
    <3> QED BY <3>1 DEF IInv, AdministratorRemains, ActiveAdministrators
  <2> QED BY <2>1, <2>2
<1>8. TypeOK' /\ SessionsEnd'
    BY <1>1, <1>2, <1>3 DEF IInv, TypeOK, SessionsEnd
<1> QED BY <1>3, <1>4, <1>6, <1>7, <1>8 DEF IInv

\* A request that is given up.
LEMMA AbortKeeps ==
    ASSUME IInv, NEW r \in Requests, Abort(r)
    PROVE  IInv'
    BY EndKeeps DEF Abort, ReleaseLock, DerivingPlaces

\* The restart ends every request of the bootstrap administrator.
LEMMA RemoveBootstrapKeeps ==
    ASSUME IInv, RemoveBootstrap
    PROVE  IInv'
<1>1. /\ bootstrap /\ ~bootstrap' /\ removed' = now /\ lock' = NoRequest /\ slots' = 0
      /\ request' = [r \in Requests |-> Idle]
      /\ UNCHANGED <<key, sessions, now>>
    BY DEF RemoveBootstrap
<1>2. \A r \in Requests : request'[r] = Idle /\ request'[r].pc = "idle"
    BY <1>1 DEF Idle
<1>3. Deriving' = {}
    BY <1>2 DEF Deriving, DerivingPlaces
<1>4. SlotsCounted'
    BY <1>1, <1>3, FS_EmptySet DEF SlotsCounted
<1>5. LockHeld' /\ OtherAdministrator' /\ RequestsConsistent'
    BY <1>2, AccessAssumption DEF RemoveBootstrap, LockHeld, OtherAdministrator, RequestsConsistent
<1>6. SessionsEnd'
    BY <1>1, AccessAssumption DEF IInv, TypeOK, SessionsEnd
<1>7. TypeOK'
  <2>1. bootstrap' \in BOOLEAN
    BY DEF RemoveBootstrap
  <2>2. slots' \in 0..Capacity /\ removed' \in 0..(MaxNow + 1) /\ now' \in 0..MaxNow
    BY <1>1, AccessAssumption DEF IInv, TypeOK
  <2>3. /\ lock' \in Requests \cup {NoRequest}
        /\ request' \in [Requests -> {Idle} \cup Active]
    BY <1>1
  <2>4. key' \in [Keys -> {"absent", "active", "revoked"}] /\ sessions' \subseteq Sessions
    BY <1>1 DEF IInv, TypeOK
  <2> QED BY <2>1, <2>2, <2>3, <2>4 DEF TypeOK
<1>8. AdministratorRemains'
    BY <1>1 DEF IInv, AdministratorRemains, ActiveAdministrators
<1> QED BY <1>4, <1>5, <1>6, <1>7, <1>8 DEF IInv

\* Time only brings sessions closer to their end.
LEMMA TickKeeps ==
    ASSUME IInv, Tick
    PROVE  IInv'
<1>1. /\ now < MaxNow /\ now' = now + 1
      /\ UNCHANGED <<key, bootstrap, sessions, lock, slots, request, removed>>
    BY DEF Tick
<1>2. now' \in 0..MaxNow /\ now < now'
    BY <1>1, AccessAssumption DEF IInv, TypeOK
<1>3. RequestsConsistent'
  <2> SUFFICES ASSUME NEW r \in Requests, request[r] # Idle
               PROVE  Consistent(request[r])'
    BY <1>1 DEF RequestsConsistent
  <2>1. now >= removed + TTL => now' >= removed + TTL
    BY <1>2, AccessAssumption DEF IInv, TypeOK
  <2> QED BY <1>1, <2>1 DEF IInv, RequestsConsistent, Consistent
<1>4. SessionsEnd'
  <2>1. ASSUME NEW s \in sessions, s.expires <= now + TTL
        PROVE  s.expires <= now' + TTL
    <3>1. s.expires \in Nat
      BY AccessAssumption DEF IInv, TypeOK, Sessions
    <3> QED BY <2>1, <3>1, <1>2, AccessAssumption DEF IInv, TypeOK
  <2>2. removed <= now => removed <= now'
    BY <1>2, AccessAssumption DEF IInv, TypeOK
  <2> QED BY <1>1, <2>1, <2>2 DEF IInv, SessionsEnd
<1>5. /\ TypeOK' /\ SlotsCounted' /\ LockHeld' /\ OtherAdministrator' /\ AdministratorRemains'
    BY <1>1, <1>2 DEF IInv, TypeOK, SlotsCounted, Deriving, LockHeld, OtherAdministrator,
                      AdministratorRemains, ActiveAdministrators
<1> QED BY <1>3, <1>4, <1>5 DEF IInv

--------------------------------------------------------------------------------
(* The theorems.                                                             *)

\* Every step preserves the invariant.
LEMMA NextKeeps == IInv /\ [Next]_vars => IInv'
<1> SUFFICES ASSUME IInv, [Next]_vars PROVE IInv'
    OBVIOUS
<1>1. CASE \E r \in Requests, c \in [kind : {"bootstrap"}] \cup [kind : {"key"}, key : Keys]
                                    \cup [kind : {"session"}, session : sessions],
              op \in Operations, k \in Keys \cup {NoKey} : Begin(r, c, op, k)
    BY <1>1, BeginKeeps
<1>2. CASE \E r \in Requests : Step(r) \/ RevokeLock(r) \/ Abort(r)
    BY <1>2, AuthenticateBootstrapKeeps, LoadKeyKeeps, DeriveVerifierKeeps, DerivedKeeps,
       OpenSessionKeeps, LoadIssuerKeeps, ActKeeps, PutAPIKeyKeeps, RevokeCheckKeeps,
       RevokeUpdateKeeps, RevokeLockKeeps, AbortKeeps DEF Step
<1>3. CASE RemoveBootstrap
    BY <1>3, RemoveBootstrapKeeps
<1>4. CASE Tick
    BY <1>4, TickKeeps
<1>5. CASE UNCHANGED vars
    BY <1>5 DEF vars, IInv, TypeOK, SlotsCounted, Deriving, LockHeld, OtherAdministrator,
                RequestsConsistent, Consistent, SessionsEnd, AdministratorRemains, ActiveAdministrators
<1> QED BY <1>1, <1>2, <1>3, <1>4, <1>5 DEF Next

\* The invariant holds in every reachable state.
LEMMA Invariance == Spec => []IInv
<1> QED BY InitKeeps, NextKeeps, PTL DEF Spec

\* The state stays well formed; in particular derivations never use more slots than
\* there are, and no slot is given back twice.
THEOREM AccessTypeCorrect == Spec => []TypeOK
<1>1. IInv => TypeOK
    BY DEF IInv
<1> QED BY <1>1, Invariance, PTL

\* RevokeAPIKey preserves an active administrator, for any number of administrators
\* revoking each other at the same time.
THEOREM LastAdministratorKept == Spec => []AdministratorRemains
<1>1. IInv => AdministratorRemains
    BY DEF IInv
<1> QED BY <1>1, Invariance, PTL

\* Requests that are refused, aborted or cut off by a restart leave neither the
\* lifecycle lock nor a derivation slot behind.
THEOREM NothingHeldForever == Spec => []ResourcesReturned
<1>1. IInv => ResourcesReturned
    BY DEF IInv, TypeOK, LockHeld, SlotsCounted, ResourcesReturned
<1> QED BY <1>1, Invariance, PTL

\* Neither a revoked key nor a session it issued authorizes a request that begins
\* after the revocation.
THEOREM RevocationIsFinal == Spec => []RevokedNeverActs
<1>1. IInv => RevokedNeverActs
  <2> SUFFICES ASSUME IInv, NEW r \in Requests, request[r].pc \in Acting
               PROVE  request[r].key \notin request[r].barred
    BY DEF RevokedNeverActs
  <2> QED BY PlaceIsActive DEF Consistent, Acting
<1> QED BY <1>1, Invariance, PTL

\* Access handed out by the bootstrap administrator ends one session lifetime after
\* the bootstrap key is removed.
THEOREM BootstrapAccessIsBounded == Spec => []BootstrapAccessEnds
<1>1. IInv => BootstrapAccessEnds
  <2> SUFFICES ASSUME IInv, NEW r \in Requests, request[r].pc \in Acting
               PROVE  request[r].key \notin request[r].barred
    BY DEF BootstrapAccessEnds
  <2> QED BY PlaceIsActive DEF Consistent, Acting
<1> QED BY <1>1, Invariance, PTL

====
