---- MODULE WebhookDelivery ----
(***************************************************************************)
(* Signed webhook delivery from the worker to a host that uses the Go      *)
(* SDK's handler, and the rotation of the signing secret.                  *)
(*                                                                         *)
(* Delivery is at least once: the sender gives up waiting while the host   *)
(* still works on a request, a worker dies before it records an answer,    *)
(* and the next attempt meets the earlier one at the receiver.  The        *)
(* receiver's event store is durable; its process may die at any point.    *)
(* The audit row behind an outcome is the subject of DurableQueue.         *)
(***************************************************************************)
EXTENDS Naturals

CONSTANTS
    Events,         \* outbox events of one application
    Secrets,        \* signing secrets
    NoSecret,       \* no endpoint is configured
    Commands,       \* configuration commands of administrators, one use each
    MaxAttempts     \* IAPSTACK_WORKER_MAX_ATTEMPTS

ASSUME WebhookAssumption ==
    /\ MaxAttempts \in Nat \ {0}
    /\ NoSecret \notin Secrets

VARIABLES
    endpoint,   \* webhook_endpoints: revision (0 for no row) and secret
    command,    \* a command: "unsent", then its secret and expected revision, then "ended"
    confirmed,  \* history: configurations confirmed to an administrator
    outcome,    \* event: "pending", "delivered" or "failed"
    attempt,    \* event: delivery attempts begun
    sender,     \* event: where its worker is, with the loaded secret or the answer
    inbound,    \* event and attempt: the request at the receiver
    hostSecret, \* the secret the receiver was constructed with
    store,      \* the receiver's event store
    applied,    \* history: events whose callback has returned success
    answered    \* history: events some request was answered 204 for

vars == <<endpoint, command, confirmed, outcome, attempt, sender, inbound, hostSecret,
          store, applied, answered>>

administration == <<endpoint, command, confirmed>>
host == <<inbound, hostSecret, store, applied, answered>>

Attempts == 1..MaxAttempts

Idle == [pc |-> "idle"]
NoRequest == [pc |-> "none"]
Statuses == {"204", "401", "503"}

Init ==
    /\ endpoint = [revision |-> 0, secret |-> NoSecret]
    /\ command = [c \in Commands |-> [pc |-> "unsent"]]
    /\ confirmed = {}
    /\ outcome = [e \in Events |-> "pending"]
    /\ attempt = [e \in Events |-> 0]
    /\ sender = [e \in Events |-> Idle]
    /\ inbound = [q \in Events \X Attempts |-> NoRequest]
    /\ hostSecret \in Secrets
    /\ store = {} /\ applied = {} /\ answered = {}

--------------------------------------------------------------------------------
(* Configuration.                                                            *)

\* An administrator reads webhook_revision and decides on a new secret, or creates
\* the endpoint without having looked.
Prepare(c, s, expected) ==
    /\ command[c].pc = "unsent"
    /\ expected \in {0, endpoint.revision}
    /\ command' = [command EXCEPT ![c] = [pc |-> "sent", secret |-> s, expected |-> expected]]
    /\ UNCHANGED <<endpoint, confirmed, outcome, attempt, sender, host>>

\* Faulty variant: the update does not compare the revision.
PutWebhookEndpointBlind(w) ==
    [revision |-> endpoint.revision + 1, secret |-> w.secret]

\* The row PutWebhookEndpoint leaves behind: expecting no row inserts one or leaves
\* another alone; otherwise the update needs the expected revision.
PutWebhookEndpoint(w) ==
    IF w.expected = 0
    THEN IF endpoint.revision = 0 THEN [revision |-> 1, secret |-> w.secret] ELSE endpoint
    ELSE IF endpoint.revision = w.expected
         THEN [revision |-> endpoint.revision + 1, secret |-> w.secret]
         ELSE endpoint

\* Configure: the record is returned unless the write conflicts; a creation that finds
\* the same configuration is confirmed, so a lost answer can be asked for again.
Configure(c) ==
    LET w == command[c]
        conflict == IF w.expected = 0 THEN endpoint'.secret # w.secret
                    ELSE endpoint' = endpoint
    IN  /\ w.pc = "sent"
        /\ endpoint' = PutWebhookEndpoint(w)
        /\ confirmed' = IF conflict THEN confirmed
                         ELSE confirmed \cup {[by |-> c, from |-> w.expected, now |-> endpoint']}
        /\ command' = [command EXCEPT ![c] = [pc |-> "ended"]]
        /\ UNCHANGED <<outcome, attempt, sender, host>>

--------------------------------------------------------------------------------
(* Deliver, run by the worker that holds the event's job.                    *)

Sender(e, state) == sender' = [sender EXCEPT ![e] = state]

\* The endpoint and its secret are loaded: no endpoint is permanent, a database or
\* key failure retryable, a secret that does not open permanent ...
LoadEndpoint(e) ==
    /\ outcome[e] = "pending" /\ sender[e] = Idle
    /\ attempt[e] < MaxAttempts
    /\ attempt' = [attempt EXCEPT ![e] = @ + 1]
    /\ \/ /\ endpoint.revision # 0
          /\ Sender(e, [pc |-> "send", secret |-> endpoint.secret])
       \/ Sender(e, [pc |-> "report", result |-> "permanent"])
       \/ Sender(e, [pc |-> "report", result |-> "retryable"])
    /\ UNCHANGED <<administration, outcome, host>>

\* ... and the request is signed and sent.  It may not arrive.
Send(e) ==
    /\ sender[e].pc = "send"
    /\ Sender(e, [pc |-> "wait"])
    /\ \/ inbound' = [inbound EXCEPT ![<<e, attempt[e]>>] =
                         [pc |-> "arrived", secret |-> sender[e].secret]]
       \/ UNCHANGED inbound
    /\ UNCHANGED <<administration, outcome, attempt, hostSecret, store, applied, answered>>

\* The answer is read and classified.
ReceiveStatus(e) ==
    LET q == inbound[<<e, attempt[e]>>]
    IN  /\ sender[e].pc = "wait"
        /\ q.pc = "answer"
        /\ Sender(e, [pc |-> "report",
                      result |-> CASE q.status = "204" -> "ok"
                                   [] q.status = "401" -> "permanent"
                                   [] q.status = "503" -> "retryable"])
        /\ inbound' = [inbound EXCEPT ![<<e, attempt[e]>>] = NoRequest]
        /\ UNCHANGED <<administration, outcome, attempt, hostSecret, store, applied, answered>>

\* The client's timeout passes or the connection breaks, whatever the host does next.
TransportError(e) ==
    /\ sender[e].pc = "wait"
    /\ Sender(e, [pc |-> "report", result |-> "retryable"])
    /\ UNCHANGED <<administration, outcome, attempt, host>>

\* The executor records the outcome.  A retryable error leaves the event pending until
\* the attempts are used up.
Report(e) ==
    LET result == sender[e].result
    IN  /\ sender[e].pc = "report"
        /\ Sender(e, Idle)
        /\ outcome' = [outcome EXCEPT ![e] =
               IF result = "ok" THEN "delivered"
               ELSE IF result = "permanent" \/ attempt[e] = MaxAttempts THEN "failed"
               ELSE "pending"]
        /\ UNCHANGED <<administration, attempt, host>>

\* The worker dies; with attempts left the event is delivered again.
WorkerDies(e) ==
    /\ sender[e] # Idle
    /\ attempt[e] < MaxAttempts
    /\ Sender(e, Idle)
    /\ UNCHANGED <<administration, outcome, attempt, host>>

--------------------------------------------------------------------------------
(* The receiver: webhookHandler.ServeHTTP, one request per event and attempt. *)

Answer(q, status) ==
    /\ inbound' = [inbound EXCEPT ![q] = [pc |-> "answer", status |-> status]]
    /\ answered' = IF status = "204" THEN answered \cup {q[1]} ELSE answered

ReceiverGoto(q, place) ==
    /\ inbound' = [inbound EXCEPT ![q].pc = place]
    /\ UNCHANGED answered

\* Faulty variant: an event is remembered when it is first seen.
VerifyRequestRemembers(q) ==
    /\ inbound[q].pc = "arrived"
    /\ \/ Answer(q, "401") /\ UNCHANGED store
       \/ /\ inbound[q].secret = hostSecret /\ q[1] \in store
          /\ Answer(q, "204") /\ UNCHANGED store
       \/ /\ inbound[q].secret = hostSecret /\ q[1] \notin store
          /\ ReceiverGoto(q, "callback") /\ store' = store \cup {q[1]}
    /\ UNCHANGED <<administration, outcome, attempt, sender, hostSecret, applied>>

\* VerifyRequest: the timestamp, the signature, then Seen.  A request that is late or
\* signed with another secret is refused, a handled event is acknowledged again.
VerifyRequest(q) ==
    /\ inbound[q].pc = "arrived"
    /\ \/ Answer(q, "401")
       \/ /\ inbound[q].secret = hostSecret /\ q[1] \in store
          /\ Answer(q, "204")
       \/ /\ inbound[q].secret = hostSecret /\ q[1] \notin store
          /\ ReceiverGoto(q, "callback")
       \/ /\ inbound[q].secret = hostSecret
          /\ Answer(q, "503")
    /\ UNCHANGED <<administration, outcome, attempt, sender, hostSecret, store, applied>>

\* onEvent succeeds or returns an error.
OnEvent(q) ==
    /\ inbound[q].pc = "callback"
    /\ \/ /\ applied' = applied \cup {q[1]}
          /\ ReceiverGoto(q, "record")
       \/ /\ Answer(q, "503")
          /\ UNCHANGED applied
    /\ UNCHANGED <<administration, outcome, attempt, sender, hostSecret, store>>

\* Faulty variant: the event is acknowledged although recording it failed.
MarkHandledLenient(q) ==
    /\ inbound[q].pc = "record"
    /\ \/ store' = store \cup {q[1]}
       \/ UNCHANGED store
    /\ Answer(q, "204")
    /\ UNCHANGED <<administration, outcome, attempt, sender, hostSecret, applied>>

\* MarkHandled: Remember, even if the sender has gone; a store failure is a 503.
MarkHandled(q) ==
    /\ inbound[q].pc = "record"
    /\ \/ /\ store' = store \cup {q[1]}
          /\ Answer(q, "204")
       \/ /\ UNCHANGED store
          /\ Answer(q, "503")
    /\ UNCHANGED <<administration, outcome, attempt, sender, hostSecret, applied>>

\* The host restarts with a secret of its configuration; requests are cut off.
HostRestarts(s) ==
    /\ hostSecret' = s
    /\ inbound' = [q \in Events \X Attempts |-> NoRequest]
    /\ UNCHANGED <<administration, outcome, attempt, sender, store, applied, answered>>

--------------------------------------------------------------------------------

Next ==
    \/ \E c \in Commands, s \in Secrets, n \in {0, endpoint.revision} : Prepare(c, s, n)
    \/ \E c \in Commands : Configure(c)
    \/ \E e \in Events : LoadEndpoint(e) \/ Send(e) \/ ReceiveStatus(e) \/ TransportError(e)
                         \/ Report(e) \/ WorkerDies(e)
    \/ \E q \in Events \X Attempts : VerifyRequest(q) \/ OnEvent(q) \/ MarkHandled(q)
    \/ \E s \in Secrets : HostRestarts(s)

Spec == Init /\ [][Next]_vars

--------------------------------------------------------------------------------
(* Properties.                                                               *)

CommandStates == [pc : {"unsent", "ended"}] \cup [pc : {"sent"}, secret : Secrets, expected : Nat]
SenderStates == {Idle, [pc |-> "wait"]} \cup [pc : {"send"}, secret : Secrets]
                \cup [pc : {"report"}, result : {"ok", "permanent", "retryable"}]
Requests == {NoRequest} \cup [pc : {"arrived", "callback", "record"}, secret : Secrets]
            \cup [pc : {"answer"}, status : Statuses]

\* The rows, the places of the sender and the receiver, and what they carry.
TypeOK ==
    /\ endpoint \in [revision : Nat, secret : Secrets \cup {NoSecret}]
    /\ command \in [Commands -> CommandStates]
    /\ confirmed \subseteq [by : Commands, from : Nat, now : [revision : Nat, secret : Secrets]]
    /\ outcome \in [Events -> {"pending", "delivered", "failed"}]
    /\ attempt \in [Events -> 0..MaxAttempts]
    /\ sender \in [Events -> SenderStates]
    /\ inbound \in [Events \X Attempts -> Requests]
    /\ hostSecret \in Secrets
    /\ store \subseteq Events /\ applied \subseteq Events /\ answered \subseteq Events

\* An event the queue records as delivered has been applied: a callback for it has
\* returned success, even when the answer that was counted belongs to another attempt.
DeliveredWasApplied == \A e \in Events : outcome[e] = "delivered" => e \in applied

\* The SDK's promise that "later deliveries of the same ID report Duplicate": once any
\* request was answered 204, no request starts the callback again, across retries,
\* overlapping requests, worker deaths and host restarts.
HandledOnce ==
    [][\A q \in Events \X Attempts :
          inbound[q].pc = "arrived" /\ inbound'[q].pc = "callback" => q[1] \notin answered]_vars

\* Optimistic revisions: two administrators who start from the same revision cannot both
\* be told that they rotated the secret, a confirmed revision names one secret for ever,
\* and the endpoint has that secret until a later revision replaces it.
RevisionNamesOneSecret ==
    \A a, b \in confirmed :
        /\ a.from = b.from /\ a.from # 0 => a.by = b.by
        /\ a.now.revision = b.now.revision => a.now = b.now
        /\ a.now.revision <= endpoint.revision
        /\ a.now.revision = endpoint.revision => a.now = endpoint

====
