---- MODULE AuditRecord ----
(***************************************************************************)
(* What a durable queue row promises to the rest of IAPStack, with nothing *)
(* said about River jobs, attempts, crashes or failed writes:              *)
(*   - a notification or a webhook event is recorded as processed only     *)
(*     after its handler succeeded at least once;                          *)
(*   - an outcome never turns into the other outcome;                      *)
(*   - only a provider redelivery reopens a failed row, and only the inbox *)
(*     has redeliveries; only a new request for the same generation        *)
(*     reopens a processed row, and only reconciliation has generations;   *)
(*   - only rows with an outcome are ever forgotten.                       *)
(* DurableQueue implements this specification.                             *)
(***************************************************************************)

CONSTANTS Inbox, Reconciliation, Outbox

VARIABLES status,   \* record -> "absent" | "open" | "done" | "failed"
          handled   \* records whose handler has returned success

promised == <<status, handled>>

Messages == Inbox \cup Reconciliation \cup Outbox

Init ==
    /\ status = [r \in Messages |-> "absent"]
    /\ handled = {}

Accept(r) ==
    /\ status[r] = "absent"
    /\ status' = [status EXCEPT ![r] = "open"]
    /\ UNCHANGED handled

Handle(r) ==
    /\ handled' = handled \cup {r}
    /\ UNCHANGED status

Succeed(r) ==
    /\ status[r] = "open"
    /\ r \in handled \/ r \in Reconciliation
    /\ status' = [status EXCEPT ![r] = "done"]
    /\ UNCHANGED handled

GiveUp(r) ==
    /\ status[r] = "open"
    /\ status' = [status EXCEPT ![r] = "failed"]
    /\ UNCHANGED handled

Redeliver(r) ==
    /\ r \in Inbox
    /\ status[r] = "failed"
    /\ status' = [status EXCEPT ![r] = "open"]
    /\ UNCHANGED handled

Reopen(r) ==
    /\ r \in Reconciliation
    /\ status[r] = "done"
    /\ status' = [status EXCEPT ![r] = "open"]
    /\ UNCHANGED handled

Forget(S) ==
    /\ \A r \in S : status[r] \in {"done", "failed"}
    /\ status' = [r \in Messages |-> IF r \in S THEN "absent" ELSE status[r]]
    /\ UNCHANGED handled

Next ==
    \/ \E r \in Messages :
          Accept(r) \/ Handle(r) \/ Succeed(r) \/ GiveUp(r) \/ Redeliver(r) \/ Reopen(r)
    \/ \E S \in SUBSET Messages : Forget(S)

Spec == Init /\ [][Next]_promised

====
