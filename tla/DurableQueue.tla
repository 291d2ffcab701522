---- MODULE DurableQueue ----
(***************************************************************************)
(* The durable queues of IAPStack: the audit rows of inbox_messages,       *)
(* reconciliation_jobs and outbox_events, the River job each row is linked *)
(* to, and the executor of internal/worker that runs a job.                *)
(*                                                                         *)
(* Producers write a row and its River job in one transaction.  River      *)
(* claims a job and calls execute, which loads the row, runs the handler   *)
(* and writes the outcome to the row in a second transaction; only then    *)
(* does River record what became of the job, in a third.  A worker may die *)
(* and a database call may fail between any two of them, and a commit may  *)
(* be applied although its caller sees an error.                           *)
(*                                                                         *)
(* River itself is external: Fetch, Finish, Rescue and Clean state what    *)
(* the worker configures and relies on (attempts, snoozes, stale-job       *)
(* recovery and retention).  Schedule times are abstracted: an available   *)
(* job may be fetched at any time.                                         *)
(***************************************************************************)
EXTENDS Naturals, FiniteSets

CONSTANTS
    Inbox,           \* provider notifications, by (application, fingerprint)
    Reconciliation,  \* refresh generations, by (application, customer, fingerprint)
    Outbox,          \* entitlement events
    NoMessage,       \* the record of a River job that does not exist yet
    MaxAttempts,     \* IAPSTACK_WORKER_MAX_ATTEMPTS
    MaxSnoozes,      \* maximumTerminalAuditSnoozes
    BatchSize,       \* queueCleanupBatchSize
    MaxJobs          \* bound of the model: River jobs ever inserted

Messages == Inbox \cup Reconciliation \cup Outbox

ASSUME QueueAssumption ==
    /\ MaxAttempts \in Nat \ {0}
    /\ MaxSnoozes \in Nat \ {0}
    /\ BatchSize \in Nat \ {0}
    /\ MaxJobs \in Nat
    /\ Inbox \cap Outbox = {}
    /\ Inbox \cap Reconciliation = {}
    /\ Outbox \cap Reconciliation = {}
    /\ NoMessage \notin Messages

VARIABLES
    status,      \* row: "absent", "open" (no timestamp), "done" (processed_at or
                 \* delivered_at set) or "failed" (failed_at set); a CHECK
                 \* constraint of every queue table excludes both timestamps
    link,        \* row: river_job_id, 0 for NULL
    jobState,    \* River job: "none", "available" (scheduled and retryable too),
                 \* "running", "completed", "cancelled", "discarded", "deleted"
    jobMessage,  \* River job: the identifier in its arguments
    attempt,     \* River job: claims so far
    snoozes,     \* River job: the snoozes counter of its metadata
    nextJob,     \* River's job sequence
    pc,          \* where the worker running a job is
    runs,        \* history: handler calls made for a job, counted up to
                 \* MaxAttempts + MaxSnoozes
    handled,     \* history: messages whose handler has returned success
    superseded   \* history: jobs a redelivery unlinked from their row

rows    == <<status, link>>
river   == <<jobState, jobMessage, attempt, snoozes, nextJob>>
history == <<runs, handled, superseded>>
vars    == <<rows, river, pc, history>>

JobIds == 1..MaxJobs

TerminalJob == {"completed", "cancelled", "discarded", "deleted"}

\* execute has returned and River has not yet stored the result of the job.
Reports == {"reportComplete", "reportCancel", "reportError", "reportSnooze"}

\* A worker process holds the job.
Working == Reports \cup {"load", "handle", "complete", "failRetryable",
                         "failPermanent", "failExpired"}

MinNat(a, b) == IF a < b THEN a ELSE b

Live(j) == jobState[j] \in {"available", "running"}

Init ==
    /\ status = [r \in Messages |-> "absent"]
    /\ link = [r \in Messages |-> 0]
    /\ jobState = [j \in JobIds |-> "none"]
    /\ jobMessage = [j \in JobIds |-> NoMessage]
    /\ attempt = [j \in JobIds |-> 0]
    /\ snoozes = [j \in JobIds |-> 0]
    /\ nextJob = 1
    /\ pc = [j \in JobIds |-> "idle"]
    /\ runs = [j \in JobIds |-> 0]
    /\ handled = {}
    /\ superseded = {}

--------------------------------------------------------------------------------
(* Producers: each is one transaction that saves a row and its River job.   *)

\* ensureRiverJob: `linked` is river_job_id as the transaction reads it.
EnsureRiverJob(r, linked) ==
    IF linked # 0
    THEN /\ link' = [link EXCEPT ![r] = linked]
         /\ UNCHANGED river
    ELSE /\ nextJob \in JobIds
         /\ link' = [link EXCEPT ![r] = nextJob]
         /\ jobState' = [jobState EXCEPT ![nextJob] = "available"]
         /\ jobMessage' = [jobMessage EXCEPT ![nextJob] = r]
         /\ nextJob' = nextJob + 1
         /\ UNCHANGED <<attempt, snoozes>>

\* Faulty variant: a redelivery clears the failure and keeps the finished job.
RequeueFailedInboxKeepsLink(r) ==
    IF status[r] = "failed"
    THEN /\ status' = [status EXCEPT ![r] = "open"]
         /\ superseded' = superseded
         /\ EnsureRiverJob(r, link[r])
    ELSE /\ UNCHANGED <<status, superseded>>
         /\ EnsureRiverJob(r, link[r])

\* A delivery of a notification that is already stored: requeueFailedInbox clears
\* a terminal failure and its job link, then a job is ensured.
RequeueFailedInbox(r) ==
    IF status[r] = "failed"
    THEN /\ status' = [status EXCEPT ![r] = "open"]
         /\ superseded' = superseded \cup {link[r]}
         /\ EnsureRiverJob(r, 0)
    ELSE /\ UNCHANGED <<status, superseded>>
         /\ EnsureRiverJob(r, link[r])

SaveInboxMessage(r) ==
    /\ r \in Inbox
    /\ \/ /\ status[r] = "absent"
          /\ status' = [status EXCEPT ![r] = "open"]
          /\ EnsureRiverJob(r, 0)
          /\ UNCHANGED superseded
       \/ /\ status[r] # "absent"
          /\ RequeueFailedInbox(r)
    /\ UNCHANGED <<pc, runs, handled>>

\* Faulty variant: the upsert reopens a failed generation too.
SaveReconciliationJobReopensFailed(r) ==
    /\ r \in Reconciliation
    /\ status' = [status EXCEPT ![r] = "open"]
    /\ EnsureRiverJob(r, link[r])
    /\ UNCHANGED <<pc, history>>

\* The upsert reopens a processed generation and leaves any other row alone.
SaveReconciliationJob(r) ==
    /\ r \in Reconciliation
    /\ status' = [status EXCEPT ![r] = IF @ \in {"absent", "done"} THEN "open" ELSE @]
    /\ EnsureRiverJob(r, link[r])
    /\ UNCHANGED <<pc, history>>

SaveOutboxEvent(r) ==
    /\ r \in Outbox
    /\ status' = [status EXCEPT ![r] = IF @ = "absent" THEN "open" ELSE @]
    /\ EnsureRiverJob(r, link[r])
    /\ UNCHANGED <<pc, history>>

--------------------------------------------------------------------------------
(* The executor.                                                             *)

\* River claims a job and calls Work.
Fetch(j) ==
    /\ jobState[j] = "available"
    /\ jobState' = [jobState EXCEPT ![j] = "running"]
    /\ attempt' = [attempt EXCEPT ![j] = @ + 1]
    /\ pc' = [pc EXCEPT ![j] = "load"]
    /\ UNCHANGED <<rows, jobMessage, snoozes, nextJob, history>>

Goto(j, next) ==
    /\ pc' = [pc EXCEPT ![j] = next]
    /\ UNCHANGED <<river, superseded>>

\* Faulty variant: the snooze limit is not tested before the handler runs.
ExecuteLoadNoLimit(j) ==
    /\ pc[j] = "load"
    /\ \/ /\ status[jobMessage[j]] = "absent"
          /\ Goto(j, "reportCancel")
       \/ Goto(j, "reportError")
       \/ /\ status[jobMessage[j]] \in {"done", "failed"}
          /\ Goto(j, "reportComplete")
       \/ /\ status[jobMessage[j]] = "open"
          /\ Goto(j, "handle")
    /\ UNCHANGED <<rows, runs, handled>>

\* Faulty variant: an attempt that used up its snoozes is snoozed again.
ExecuteLoadSnoozesAgain(j) ==
    LET exhausted == attempt[j] >= MaxAttempts /\ snoozes[j] >= MaxSnoozes
    IN  /\ pc[j] = "load"
        /\ Goto(j, CASE status[jobMessage[j]] = "absent" -> "reportCancel"
                     [] status[jobMessage[j]] \in {"done", "failed"} -> "reportComplete"
                     [] status[jobMessage[j]] = "open" -> IF exhausted THEN "reportSnooze" ELSE "handle")
        /\ UNCHANGED <<rows, runs, handled>>

\* execute, up to the handler call: QueueMessage may find no row (JobCancel), fail
\* (an error for River), or find a row with an outcome (nothing to do).  A final
\* attempt that used up its snoozes stops before the handler.
ExecuteLoad(j) ==
    LET r == jobMessage[j]
        exhausted == attempt[j] >= MaxAttempts /\ snoozes[j] >= MaxSnoozes
    IN  /\ pc[j] = "load"
        /\ \/ /\ status[r] = "absent"
              /\ Goto(j, "reportCancel")
           \/ Goto(j, "reportError")
           \/ /\ status[r] \in {"done", "failed"}
              /\ Goto(j, "reportComplete")
           \/ /\ status[r] = "open" /\ exhausted
              /\ Goto(j, "reportError")
           \/ /\ status[r] = "open" /\ ~exhausted
              /\ Goto(j, "handle")
        /\ UNCHANGED <<rows, runs, handled>>

\* The handler returns.  "expired": the job timeout has passed, so the handler's
\* error is retryable and no later database call of this attempt can commit.
\* "stopped": a hard shutdown cancelled the job's context.
HandlerReturns(j, result) ==
    LET last == attempt[j] >= MaxAttempts
    IN  /\ pc[j] = "handle"
        /\ Goto(j, CASE result = "ok"                    -> "complete"
                     [] result = "stopped"               -> "reportError"
                     [] result = "permanent"             -> "failPermanent"
                     [] result = "retryable" /\ last     -> "failRetryable"
                     [] result = "expired" /\ last       -> "failExpired"
                     [] OTHER                            -> "reportError")
        /\ runs' = [runs EXCEPT ![j] = MinNat(@ + 1, MaxAttempts + MaxSnoozes)]
        /\ handled' = IF result = "ok" THEN handled \cup {jobMessage[j]} ELSE handled
        /\ UNCHANGED rows

\* auditTransitionError: an earlier attempt retries, a final one snoozes.
AuditTransitionError(j) == IF attempt[j] < MaxAttempts THEN "reportError" ELSE "reportSnooze"

\* complete: CompleteQueue updates a row that has not failed, and is idempotent.
\* A commit whose answer is lost reaches auditTransitionError although it applied.
CompleteQueue(j) ==
    /\ pc[j] = "complete"
    /\ status[jobMessage[j]] \in {"open", "done"}
    /\ status' = [status EXCEPT ![jobMessage[j]] = "done"]
    /\ \/ Goto(j, "reportComplete")
       \/ Goto(j, AuditTransitionError(j))
    /\ UNCHANGED <<link, runs, handled>>

\* fail: FailQueue updates a row that is not processed, and is idempotent.
FailQueue(j) ==
    /\ pc[j] \in {"failRetryable", "failPermanent"}
    /\ status[jobMessage[j]] \in {"open", "failed"}
    /\ status' = [status EXCEPT ![jobMessage[j]] = "failed"]
    /\ \/ Goto(j, IF pc[j] = "failPermanent" THEN "reportCancel" ELSE "reportError")
       \/ Goto(j, AuditTransitionError(j))
    /\ UNCHANGED <<link, runs, handled>>

\* The audit write does not commit: the database is unavailable, the context has
\* expired, or changeQueueOutcome finds no row to update (ErrConflict).
AuditWriteLost(j) ==
    /\ pc[j] \in {"complete", "failRetryable", "failPermanent", "failExpired"}
    /\ Goto(j, AuditTransitionError(j))
    /\ UNCHANGED <<rows, runs, handled>>

\* retire: HandleReconciliation of one generation closes the next one.
Retire(r) ==
    /\ r \in Reconciliation
    /\ \E j \in JobIds : /\ pc[j] = "handle"
                         /\ jobMessage[j] \in Reconciliation \ {r}
    /\ status[r] \in {"open", "done"}
    /\ status' = [status EXCEPT ![r] = "done"]
    /\ UNCHANGED <<link, river, pc, history>>

--------------------------------------------------------------------------------
(* River (external) and the retention cleaner.                               *)

\* Faulty variant: a job that failed its last attempt is retried once more.
FinishOffByOne(j) ==
    /\ jobState[j] = "running"
    /\ pc[j] \in Reports
    /\ jobState' = [jobState EXCEPT ![j] = IF attempt[j] <= MaxAttempts THEN "available" ELSE "discarded"]
    /\ pc' = [pc EXCEPT ![j] = "idle"]
    /\ UNCHANGED <<rows, jobMessage, attempt, snoozes, nextJob, history>>

\* River stores the result of a job.  A snooze gives the attempt back and counts
\* itself; the counter saturates because execute only compares it with the limit.
Finish(j) ==
    LET next == CASE pc[j] = "reportComplete" -> "completed"
                  [] pc[j] = "reportCancel"   -> "cancelled"
                  [] pc[j] = "reportSnooze"   -> "available"
                  [] OTHER -> IF attempt[j] < MaxAttempts THEN "available" ELSE "discarded"
    IN  /\ jobState[j] = "running"
        /\ pc[j] \in Reports
        /\ jobState' = [jobState EXCEPT ![j] = next]
        /\ pc' = [pc EXCEPT ![j] = "idle"]
        /\ IF pc[j] = "reportSnooze"
           THEN /\ attempt' = [attempt EXCEPT ![j] = @ - 1]
                /\ snoozes' = [snoozes EXCEPT ![j] = MinNat(@ + 1, MaxSnoozes)]
           ELSE UNCHANGED <<attempt, snoozes>>
        /\ UNCHANGED <<rows, jobMessage, nextJob, history>>

\* The worker process dies holding the job.
Crash(j) ==
    /\ pc[j] \in Working
    /\ pc' = [pc EXCEPT ![j] = "dead"]
    /\ UNCHANGED <<rows, river, history>>

\* Stale-job recovery of a job whose worker is gone.
Rescue(j) ==
    /\ pc[j] = "dead"
    /\ jobState' = [jobState EXCEPT ![j] = IF attempt[j] < MaxAttempts THEN "available" ELSE "discarded"]
    /\ pc' = [pc EXCEPT ![j] = "idle"]
    /\ UNCHANGED <<rows, jobMessage, attempt, snoozes, nextJob, history>>

\* River removes terminal jobs after the retention period.
Clean(j) ==
    /\ jobState[j] \in TerminalJob \ {"deleted"}
    /\ jobState' = [jobState EXCEPT ![j] = "deleted"]
    /\ UNCHANGED <<rows, jobMessage, attempt, snoozes, nextJob, pc, history>>

\* Faulty variant: the cleaner does not look at the River job.
ExpiredIgnoringRiver(r) == status[r] \in {"done", "failed"}

\* A row the retention cleaner may remove: it has an outcome, and its River job
\* is terminal or no longer stored.
Expired(r) ==
    /\ status[r] \in {"done", "failed"}
    /\ link[r] = 0 \/ jobState[link[r]] \in TerminalJob

\* One pass removes a bounded batch of each table in one statement.
PurgeTerminalQueueRecords(S) ==
    /\ \A r \in S : Expired(r)
    /\ \A queue \in {Inbox, Reconciliation, Outbox} : Cardinality(S \cap queue) <= BatchSize
    /\ status' = [r \in Messages |-> IF r \in S THEN "absent" ELSE status[r]]
    /\ link' = [r \in Messages |-> IF r \in S THEN 0 ELSE link[r]]
    /\ UNCHANGED <<river, pc, history>>

--------------------------------------------------------------------------------

HandlerResults == {"ok", "retryable", "permanent", "expired", "stopped"}

\* The steps of the worker process that holds job j.
Execute(j) ==
    \/ ExecuteLoad(j)
    \/ \E result \in HandlerResults : HandlerReturns(j, result)
    \/ CompleteQueue(j)
    \/ FailQueue(j)
    \/ AuditWriteLost(j)

Next ==
    \/ \E r \in Messages : SaveInboxMessage(r) \/ SaveReconciliationJob(r)
                           \/ SaveOutboxEvent(r) \/ Retire(r)
    \/ \E j \in JobIds : Fetch(j) \/ Execute(j) \/ Finish(j) \/ Crash(j) \/ Rescue(j) \/ Clean(j)
    \/ \E S \in SUBSET Messages : S # {} /\ PurgeTerminalQueueRecords(S)

Spec == Init /\ [][Next]_vars

\* A running worker fetches every available job, the job timeout ends every
\* handler, and River rescues jobs of dead workers.
Fairness == \A j \in JobIds : /\ WF_vars(Fetch(j))
                              /\ WF_vars(Execute(j))
                              /\ WF_vars(Finish(j))
                              /\ WF_vars(Rescue(j))

FairSpec == Spec /\ Fairness

--------------------------------------------------------------------------------
(* Properties.                                                               *)

TypeOK ==
    /\ status \in [Messages -> {"absent", "open", "done", "failed"}]
    /\ link \in [Messages -> 0..MaxJobs]
    /\ jobState \in [JobIds -> {"none", "available", "running"} \cup TerminalJob]
    /\ jobMessage \in [JobIds -> Messages \cup {NoMessage}]
    /\ attempt \in [JobIds -> 0..MaxAttempts]
    /\ snoozes \in [JobIds -> 0..MaxSnoozes]
    /\ nextJob \in 1..(MaxJobs + 1)
    /\ pc \in [JobIds -> Working \cup {"idle", "dead"}]
    /\ runs \in [JobIds -> 0..(MaxAttempts + MaxSnoozes)]
    /\ handled \subseteq Messages
    /\ superseded \subseteq JobIds

\* Transactional enqueue, retention and redelivery together: a job River can still
\* run is the one its row is linked to, unless a redelivery replaced it.  So two
\* runnable jobs of one row, or a runnable job whose row is gone, exist only after
\* a redelivery overtook the job of a failed notification.
LiveJobAccounted ==
    \A j \in JobIds : Live(j) => link[jobMessage[j]] = j \/ j \in superseded

\* No accepted notification or event is lost without a trace: while its row has no
\* outcome, River never records its job as completed or cancelled.
NoSilentLoss ==
    \A r \in Inbox \cup Outbox :
        status[r] = "open" => /\ link[r] # 0
                              /\ jobState[link[r]] \notin {"completed", "cancelled"}

\* Attempts, crashes, rescues and audit snoozes together never run the handler of
\* one job more often than this (maximumTerminalAuditSnoozes bounds the last part).
HandlerRunsBounded ==
    \A j \in JobIds : runs[j] <= MaxAttempts + MaxSnoozes - 1

\* The rows behave as the audit records other components rely on.
Promise == INSTANCE AuditRecord
           WITH Inbox <- Inbox, Reconciliation <- Reconciliation, Outbox <- Outbox,
                status <- status, handled <- handled
KeepsPromise == Promise!Spec

\* Every job River accepts ends, whatever the database and the workers do.
EveryJobEnds == \A j \in JobIds : Live(j) ~> jobState[j] \in TerminalJob

====
