---- MODULE DurableQueueProofs ----
(***************************************************************************)
(* Theorems about DurableQueue, for every set of rows, every attempt and   *)
(* snooze limit and every number of River jobs.                            *)
(***************************************************************************)
EXTENDS DurableQueue, TLAPS

\* River's view of a job and the worker's agree, and jobs exist from their insertion on.
JobsConsistent ==
    \A j \in JobIds :
        /\ j >= nextJob => /\ jobState[j] = "none" /\ attempt[j] = 0
                           /\ snoozes[j] = 0 /\ runs[j] = 0
        /\ j < nextJob => jobMessage[j] \in Messages
        /\ pc[j] # "idle" <=> jobState[j] = "running"
        /\ jobState[j] = "available" => attempt[j] < MaxAttempts
        /\ jobState[j] = "running" => attempt[j] >= 1

\* A row and its job point at each other.
LinksConsistent ==
    \A r \in Messages :
        /\ status[r] = "absent" <=> link[r] = 0
        /\ link[r] # 0 => link[r] < nextJob /\ jobMessage[link[r]] = r

\* A worker about to report success or cancellation has left an outcome behind.
ReportsConsistent ==
    /\ \A r \in Inbox \cup Outbox :
          status[r] = "open" => pc[link[r]] \notin {"reportComplete", "reportCancel"}
    /\ \A j \in JobIds : pc[j] = "complete" => jobMessage[j] \in handled

\* Claims pay for handler calls: every call used an attempt or a snooze.
CallsPaidFor ==
    \A j \in JobIds :
        /\ runs[j] + (IF pc[j] \in {"load", "handle"} THEN 1 ELSE 0) <= attempt[j] + snoozes[j]
        /\ pc[j] = "reportSnooze" => attempt[j] >= MaxAttempts
        /\ pc[j] \in {"handle", "complete", "failRetryable", "failPermanent", "failExpired", "reportSnooze"}
              => attempt[j] < MaxAttempts \/ snoozes[j] < MaxSnoozes

IInv ==
    /\ TypeOK
    /\ JobsConsistent
    /\ LinksConsistent
    /\ ReportsConsistent
    /\ CallsPaidFor
    /\ LiveJobAccounted
    /\ NoSilentLoss
    /\ HandlerRunsBounded

--------------------------------------------------------------------------------
(* Facts shared by several actions.                                          *)

\* A new row, or a failed notification delivered again, is opened with a new job.
LEMMA InsertKeeps ==
    ASSUME IInv, NEW r \in Messages, EnsureRiverJob(r, 0),
           status[r] \in {"absent", "failed"},
           status' = [status EXCEPT ![r] = "open"],
           superseded' = IF status[r] = "failed" THEN superseded \cup {link[r]} ELSE superseded,
           UNCHANGED <<pc, runs, handled>>
    PROVE  IInv'
<1>1. /\ nextJob \in JobIds
      /\ link' = [link EXCEPT ![r] = nextJob]
      /\ jobState' = [jobState EXCEPT ![nextJob] = "available"]
      /\ jobMessage' = [jobMessage EXCEPT ![nextJob] = r]
      /\ nextJob' = nextJob + 1
      /\ UNCHANGED <<attempt, snoozes>>
    BY DEF EnsureRiverJob
<1>2. /\ jobState[nextJob] = "none" /\ pc[nextJob] = "idle"
      /\ attempt[nextJob] = 0 /\ snoozes[nextJob] = 0 /\ runs[nextJob] = 0
    BY <1>1, QueueAssumption DEF IInv, TypeOK, JobsConsistent, JobIds
<1>3. \A q \in Messages : link[q] # 0 => link[q] \in JobIds /\ link[q] < nextJob
    BY QueueAssumption DEF IInv, TypeOK, LinksConsistent, JobIds
<1>4. TypeOK'
  <2>1. superseded' \subseteq JobIds
    BY <1>3 DEF IInv, TypeOK, LinksConsistent
  <2>2. nextJob' \in 1..(MaxJobs + 1) /\ nextJob \in 0..MaxJobs
    BY <1>1, QueueAssumption DEF JobIds
  <2> QED BY <1>1, <2>1, <2>2 DEF IInv, TypeOK
<1>5. JobsConsistent'
    BY <1>1, <1>2, QueueAssumption DEF IInv, TypeOK, JobsConsistent, JobIds
<1>6. LinksConsistent'
  <2> SUFFICES ASSUME NEW q \in Messages
               PROVE  /\ status'[q] = "absent" <=> link'[q] = 0
                      /\ link'[q] # 0 => link'[q] < nextJob' /\ jobMessage'[link'[q]] = q
    BY DEF LinksConsistent
  <2>1. /\ nextJob \in Nat \ {0} /\ link'[r] = nextJob /\ status'[r] = "open"
        /\ jobMessage'[nextJob] = r
    BY <1>1, QueueAssumption DEF IInv, TypeOK, JobIds
  <2>2. CASE q = r
    BY <2>1, <2>2, <1>1
  <2>3. CASE q # r
    <3>1. link'[q] = link[q] /\ status'[q] = status[q]
      BY <2>3, <1>1 DEF IInv, TypeOK
    <3>2. /\ status[q] = "absent" <=> link[q] = 0
          /\ link[q] # 0 => jobMessage[link[q]] = q
      BY DEF IInv, LinksConsistent
    <3>3. link[q] # 0 => link[q] \in Nat /\ link[q] < nextJob' /\ link[q] # nextJob
      BY <1>1, <1>3, <2>1 DEF JobIds
    <3>4. link[q] # 0 => jobMessage'[link[q]] = jobMessage[link[q]]
      BY <1>1, <1>3, <3>3 DEF IInv, TypeOK
    <3> QED BY <3>1, <3>2, <3>3, <3>4
  <2> QED BY <2>2, <2>3
<1>7. ReportsConsistent'
  <2>1. ASSUME NEW q \in Inbox \cup Outbox, status'[q] = "open"
        PROVE  pc[link'[q]] \notin {"reportComplete", "reportCancel"}
    BY <2>1, <1>1, <1>2 DEF IInv, TypeOK, ReportsConsistent, Messages
  <2>2. ASSUME NEW j \in JobIds, pc[j] = "complete"
        PROVE  jobMessage'[j] \in handled
    BY <2>2, <1>1, <1>2 DEF IInv, TypeOK, ReportsConsistent
  <2> QED BY <2>1, <2>2 DEF ReportsConsistent
<1>8. CallsPaidFor' /\ HandlerRunsBounded'
    BY <1>1 DEF IInv, CallsPaidFor, HandlerRunsBounded
<1>9. LiveJobAccounted'
  <2> SUFFICES ASSUME NEW j \in JobIds, Live(j)'
               PROVE  link'[jobMessage'[j]] = j \/ j \in superseded'
    BY DEF LiveJobAccounted
  <2>1. CASE j = nextJob
    BY <2>1, <1>1 DEF IInv, TypeOK
  <2>2. CASE j # nextJob
    <3>1. /\ Live(j) /\ jobMessage'[j] = jobMessage[j] /\ superseded \subseteq superseded'
          /\ link[jobMessage[j]] = j \/ j \in superseded
      BY <2>2, <1>1 DEF IInv, TypeOK, Live, LiveJobAccounted
    <3>2. CASE jobMessage[j] = r /\ link[r] = j
      BY <3>2, QueueAssumption DEF IInv, LinksConsistent, JobIds
    <3>3. CASE jobMessage[j] # r
      BY <3>1, <3>3, <1>1 DEF IInv, TypeOK
    <3> QED BY <3>1, <3>2, <3>3
  <2> QED BY <2>1, <2>2
<1>10. NoSilentLoss'
    BY <1>1, <1>2, <1>3, QueueAssumption DEF IInv, TypeOK, NoSilentLoss, Messages, JobIds
<1> QED BY <1>4, <1>5, <1>6, <1>7, <1>8, <1>9, <1>10 DEF IInv

\* For a row that is stored, ensureRiverJob changes nothing.
LEMMA StoredRowKeepsJob ==
    ASSUME IInv, NEW r \in Messages, status[r] # "absent", EnsureRiverJob(r, link[r])
    PROVE  UNCHANGED <<link, jobState, jobMessage, attempt, snoozes, nextJob>>
<1>1. link[r] # 0
    BY DEF IInv, LinksConsistent
<1> QED BY <1>1 DEF EnsureRiverJob, river, IInv, TypeOK

\* A worker moving from one of its places to another keeps the job invariants, if
\* it goes to a snooze only on a final attempt and calls the handler or writes an
\* outcome only before the limits are used up.
LEMMA GotoKeepsJobs ==
    ASSUME IInv, NEW j \in JobIds, NEW next \in Working, Goto(j, next), UNCHANGED runs,
           pc[j] \in Working \ Reports, next # "load",
           next = "handle" => pc[j] = "load",
           next = "reportSnooze" => attempt[j] >= MaxAttempts,
           next \notin {"reportComplete", "reportCancel", "reportError"}
              => attempt[j] < MaxAttempts \/ snoozes[j] < MaxSnoozes
    PROVE  /\ pc' = [pc EXCEPT ![j] = next]
           /\ pc' \in [JobIds -> Working \cup {"idle", "dead"}]
           /\ UNCHANGED <<jobState, jobMessage, attempt, snoozes, nextJob, superseded>>
           /\ JobsConsistent'
           /\ CallsPaidFor'
           /\ HandlerRunsBounded'
<1>1. /\ pc' = [pc EXCEPT ![j] = next]
      /\ UNCHANGED <<jobState, jobMessage, attempt, snoozes, nextJob, superseded>>
    BY DEF Goto, river
<1>2. pc' \in [JobIds -> Working \cup {"idle", "dead"}]
    BY <1>1 DEF IInv, TypeOK
<1>3. JobsConsistent'
    BY <1>1 DEF IInv, TypeOK, JobsConsistent, Working, Reports
<1>4. CallsPaidFor'
  <2> SUFFICES ASSUME NEW k \in JobIds
               PROVE  /\ runs[k] + (IF pc'[k] \in {"load", "handle"} THEN 1 ELSE 0) <= attempt[k] + snoozes[k]
                      /\ pc'[k] = "reportSnooze" => attempt[k] >= MaxAttempts
                      /\ pc'[k] \in {"handle", "complete", "failRetryable", "failPermanent", "failExpired", "reportSnooze"}
                            => attempt[k] < MaxAttempts \/ snoozes[k] < MaxSnoozes
    BY <1>1 DEF CallsPaidFor
  <2>1. CASE k # j
    BY <2>1, <1>1 DEF IInv, TypeOK, CallsPaidFor
  <2>2. CASE k = j
    <3>1. pc'[k] = next /\ runs[k] \in Nat /\ attempt[k] \in Nat /\ snoozes[k] \in Nat
      BY <2>2, <1>1 DEF IInv, TypeOK
    <3>2. runs[k] + (IF next \in {"load", "handle"} THEN 1 ELSE 0) <= attempt[k] + snoozes[k]
      BY <3>1, <2>2 DEF IInv, CallsPaidFor
    <3> QED BY <3>1, <3>2, <2>2
  <2> QED BY <2>1, <2>2
<1>5. HandlerRunsBounded'
    BY <1>1 DEF IInv, HandlerRunsBounded
<1> QED BY <1>1, <1>2, <1>3, <1>4, <1>5

--------------------------------------------------------------------------------
(* Every action keeps the inductive invariant.                               *)

LEMMA SaveInboxMessageKeeps ==
    ASSUME IInv, NEW r \in Messages, SaveInboxMessage(r)
    PROVE  IInv'
<1>1. CASE status[r] = "absent" \/ status[r] = "failed"
  <2>1. /\ EnsureRiverJob(r, 0)
        /\ status' = [status EXCEPT ![r] = "open"]
        /\ superseded' = IF status[r] = "failed" THEN superseded \cup {link[r]} ELSE superseded
        /\ UNCHANGED <<pc, runs, handled>>
    BY <1>1 DEF SaveInboxMessage, RequeueFailedInbox
  <2> QED BY <1>1, <2>1, InsertKeeps
<1>2. CASE status[r] # "absent" /\ status[r] # "failed"
  <2>1. EnsureRiverJob(r, link[r]) /\ UNCHANGED <<status, superseded, pc, runs, handled>>
    BY <1>2 DEF SaveInboxMessage, RequeueFailedInbox
  <2>2. UNCHANGED <<link, jobState, jobMessage, attempt, snoozes, nextJob>>
    BY <1>2, <2>1, StoredRowKeepsJob
  <2> QED BY <2>1, <2>2 DEF IInv, TypeOK, JobsConsistent, LinksConsistent, ReportsConsistent,
             CallsPaidFor, LiveJobAccounted, Live, NoSilentLoss, HandlerRunsBounded
<1> QED BY <1>1, <1>2

LEMMA SaveReconciliationJobKeeps ==
    ASSUME IInv, NEW r \in Messages, SaveReconciliationJob(r)
    PROVE  IInv'
<1>1. /\ r \in Reconciliation
      /\ EnsureRiverJob(r, link[r])
      /\ status' = [status EXCEPT ![r] = IF @ \in {"absent", "done"} THEN "open" ELSE @]
      /\ UNCHANGED <<pc, runs, handled, superseded>>
    BY DEF SaveReconciliationJob, history
<1>2. CASE status[r] = "absent"
  <2>1. link[r] = 0 /\ status' = [status EXCEPT ![r] = "open"]
    BY <1>1, <1>2 DEF IInv, TypeOK, LinksConsistent
  <2> QED BY <1>1, <1>2, <2>1, InsertKeeps
<1>3. CASE status[r] # "absent"
  <2>1. UNCHANGED <<link, jobState, jobMessage, attempt, snoozes, nextJob>>
    BY <1>1, <1>3, StoredRowKeepsJob
  <2>2. \A q \in Messages : q # r => status'[q] = status[q]
    BY <1>1 DEF IInv, TypeOK
  <2>3. status'[r] # "absent" /\ status' \in [Messages -> {"absent", "open", "done", "failed"}]
    BY <1>1, <1>3 DEF IInv, TypeOK
  <2>4. r \notin Inbox \cup Outbox
    BY <1>1, QueueAssumption
  <2>5. TypeOK'
    BY <1>1, <2>1, <2>3 DEF IInv, TypeOK
  <2>6. LinksConsistent'
    BY <1>3, <2>1, <2>2, <2>3 DEF IInv, LinksConsistent
  <2>7. ReportsConsistent' /\ NoSilentLoss'
    BY <1>1, <2>1, <2>2, <2>4 DEF IInv, ReportsConsistent, NoSilentLoss, Messages
  <2>8. JobsConsistent' /\ CallsPaidFor' /\ LiveJobAccounted' /\ HandlerRunsBounded'
    BY <1>1, <2>1 DEF IInv, JobsConsistent, CallsPaidFor, LiveJobAccounted, Live, HandlerRunsBounded
  <2> QED BY <2>5, <2>6, <2>7, <2>8 DEF IInv
<1> QED BY <1>2, <1>3

LEMMA SaveOutboxEventKeeps ==
    ASSUME IInv, NEW r \in Messages, SaveOutboxEvent(r)
    PROVE  IInv'
<1>1. /\ EnsureRiverJob(r, link[r])
      /\ status' = [status EXCEPT ![r] = IF @ = "absent" THEN "open" ELSE @]
      /\ UNCHANGED <<pc, runs, handled, superseded>>
    BY DEF SaveOutboxEvent, history
<1>2. CASE status[r] = "absent"
  <2>1. link[r] = 0 /\ status' = [status EXCEPT ![r] = "open"]
    BY <1>1, <1>2 DEF IInv, TypeOK, LinksConsistent
  <2> QED BY <1>1, <1>2, <2>1, InsertKeeps
<1>3. CASE status[r] # "absent"
  <2>1. UNCHANGED <<link, jobState, jobMessage, attempt, snoozes, nextJob>>
    BY <1>1, <1>3, StoredRowKeepsJob
  <2>2. UNCHANGED status
    BY <1>1, <1>3 DEF IInv, TypeOK
  <2> QED BY <1>1, <2>1, <2>2 DEF IInv, TypeOK, JobsConsistent, LinksConsistent, ReportsConsistent,
             CallsPaidFor, LiveJobAccounted, Live, NoSilentLoss, HandlerRunsBounded
<1> QED BY <1>2, <1>3

LEMMA RetireKeeps ==
    ASSUME IInv, NEW r \in Messages, Retire(r)
    PROVE  IInv'
<1>1. /\ status[r] # "absent"
      /\ status' = [status EXCEPT ![r] = "done"]
      /\ UNCHANGED <<link, jobState, jobMessage, attempt, snoozes, nextJob, pc, runs, handled, superseded>>
    BY DEF Retire, river, history
<1>2. TypeOK' /\ LinksConsistent'
    BY <1>1 DEF IInv, TypeOK, LinksConsistent
<1>3. ReportsConsistent' /\ NoSilentLoss'
    BY <1>1 DEF IInv, TypeOK, ReportsConsistent, NoSilentLoss, Messages
<1>4. JobsConsistent' /\ CallsPaidFor' /\ LiveJobAccounted' /\ HandlerRunsBounded'
    BY <1>1 DEF IInv, JobsConsistent, CallsPaidFor, LiveJobAccounted, Live, HandlerRunsBounded
<1> QED BY <1>2, <1>3, <1>4 DEF IInv

LEMMA FetchKeeps ==
    ASSUME IInv, NEW j \in JobIds, Fetch(j)
    PROVE  IInv'
<1>1. /\ jobState[j] = "available" /\ attempt[j] < MaxAttempts
      /\ jobState' = [jobState EXCEPT ![j] = "running"]
      /\ attempt' = [attempt EXCEPT ![j] = @ + 1]
      /\ pc' = [pc EXCEPT ![j] = "load"]
      /\ UNCHANGED <<status, link, jobMessage, snoozes, nextJob, runs, handled, superseded>>
    BY DEF Fetch, IInv, JobsConsistent, rows, history
<1>2. attempt[j] + 1 \in 0..MaxAttempts
    BY <1>1, QueueAssumption DEF IInv, TypeOK
<1>3. TypeOK'
    BY <1>1, <1>2 DEF IInv, TypeOK, Working
<1>4. JobsConsistent'
    BY <1>1, QueueAssumption DEF IInv, TypeOK, JobsConsistent
<1>5. CallsPaidFor'
  <2> SUFFICES ASSUME NEW k \in JobIds PROVE CallsPaidFor!(k)'
    BY DEF CallsPaidFor
  <2>1. CASE k # j
    BY <1>1, <2>1 DEF IInv, TypeOK, CallsPaidFor
  <2>2. CASE k = j
    BY <1>1, <2>2, QueueAssumption DEF IInv, TypeOK, JobsConsistent, CallsPaidFor
  <2> QED BY <2>1, <2>2
<1>6. LinksConsistent' /\ HandlerRunsBounded'
    BY <1>1 DEF IInv, LinksConsistent, HandlerRunsBounded
<1>7. ReportsConsistent' /\ NoSilentLoss'
    BY <1>1 DEF IInv, TypeOK, ReportsConsistent, NoSilentLoss
<1>8. LiveJobAccounted'
    BY <1>1 DEF IInv, TypeOK, LiveJobAccounted, Live
<1> QED BY <1>3, <1>4, <1>5, <1>6, <1>7, <1>8 DEF IInv

\* The steps below concern one worker.  A row that another worker's job is linked
\* to is left alone, because links and job arguments agree.
LEMMA ExecuteLoadKeeps ==
    ASSUME IInv, NEW j \in JobIds, ExecuteLoad(j)
    PROVE  IInv'
<1>1. PICK next \in {"reportCancel", "reportError", "reportComplete", "handle"} :
         /\ Goto(j, next)
         /\ next = "handle" => attempt[j] < MaxAttempts \/ snoozes[j] < MaxSnoozes
         /\ next \in {"reportCancel", "reportComplete"} => status[jobMessage[j]] # "open"
    BY QueueAssumption DEF ExecuteLoad, IInv, TypeOK
<1>2. pc[j] = "load" /\ UNCHANGED <<status, link, runs, handled>>
    BY DEF ExecuteLoad, rows
<1>3. /\ pc' = [pc EXCEPT ![j] = next]
      /\ pc' \in [JobIds -> Working \cup {"idle", "dead"}]
      /\ UNCHANGED <<jobState, jobMessage, attempt, snoozes, nextJob, superseded>>
      /\ JobsConsistent' /\ CallsPaidFor' /\ HandlerRunsBounded'
  <2>1. next \in Working /\ pc[j] \in Working \ Reports /\ next # "load" /\ next # "reportSnooze"
    BY <1>2 DEF Working, Reports
  <2> QED BY <1>1, <1>2, <2>1, GotoKeepsJobs
<1>4. TypeOK' /\ LinksConsistent' /\ LiveJobAccounted' /\ NoSilentLoss'
    BY <1>2, <1>3 DEF IInv, TypeOK, LinksConsistent, LiveJobAccounted, Live, NoSilentLoss
<1>5. ReportsConsistent'
  <2>1. ASSUME NEW q \in Inbox \cup Outbox, status[q] = "open"
        PROVE  pc'[link[q]] \notin {"reportComplete", "reportCancel"}
    BY <2>1, <1>1, <1>3 DEF IInv, TypeOK, LinksConsistent, ReportsConsistent, Messages
  <2> QED BY <2>1, <1>2, <1>3 DEF IInv, TypeOK, ReportsConsistent
<1> QED BY <1>3, <1>4, <1>5 DEF IInv

LEMMA HandlerReturnsKeeps ==
    ASSUME IInv, NEW j \in JobIds, NEW result \in HandlerResults, HandlerReturns(j, result)
    PROVE  IInv'
<1>1. PICK next \in {"complete", "reportError", "failPermanent", "failRetryable", "failExpired"} :
         /\ pc' = [pc EXCEPT ![j] = next]
         /\ next = "complete" => handled' = handled \cup {jobMessage[j]}
    BY DEF HandlerReturns, HandlerResults, Goto
<1>2. /\ pc[j] = "handle"
      /\ handled' = handled \/ handled' = handled \cup {jobMessage[j]}
      /\ UNCHANGED <<status, link, jobState, jobMessage, attempt, snoozes, nextJob, superseded>>
    BY DEF HandlerReturns, Goto, rows, river
<1>3. /\ runs[j] \in Nat /\ attempt[j] \in 0..MaxAttempts /\ snoozes[j] \in 0..MaxSnoozes
      /\ runs[j] + 1 <= attempt[j] + snoozes[j]
      /\ attempt[j] < MaxAttempts \/ snoozes[j] < MaxSnoozes
      /\ jobState[j] = "running" /\ j < nextJob /\ jobMessage[j] \in Messages
  <2>1. /\ runs[j] \in Nat /\ attempt[j] \in 0..MaxAttempts /\ snoozes[j] \in 0..MaxSnoozes
    BY DEF IInv, TypeOK
  <2>2. /\ runs[j] + 1 <= attempt[j] + snoozes[j]
        /\ attempt[j] < MaxAttempts \/ snoozes[j] < MaxSnoozes
    BY <1>2 DEF IInv, CallsPaidFor
  <2>3. jobState[j] = "running"
    BY <1>2 DEF IInv, JobsConsistent
  <2>4. j < nextJob
    BY <2>3, QueueAssumption DEF IInv, TypeOK, JobsConsistent, JobIds
  <2>5. jobMessage[j] \in Messages
    BY <2>4 DEF IInv, JobsConsistent
  <2> QED BY <2>1, <2>2, <2>3, <2>4, <2>5
<1>4. /\ runs[j] + 1 <= MaxAttempts + MaxSnoozes - 1
      /\ runs[j] + 1 \in 0..(MaxAttempts + MaxSnoozes)
      /\ runs' = [runs EXCEPT ![j] = runs[j] + 1]
  <2>1. runs[j] + 1 <= MaxAttempts + MaxSnoozes - 1 /\ runs[j] + 1 \in 0..(MaxAttempts + MaxSnoozes)
    BY <1>3, QueueAssumption
  <2>2. MinNat(runs[j] + 1, MaxAttempts + MaxSnoozes) = runs[j] + 1
    BY <2>1, QueueAssumption DEF MinNat
  <2> QED BY <2>1, <2>2 DEF HandlerReturns
<1>5. TypeOK'
  <2>1. next \in Working
    BY <1>1 DEF Working, Reports
  <2> QED BY <2>1, <1>1, <1>2, <1>3, <1>4 DEF IInv, TypeOK
<1>6. JobsConsistent'
    BY <1>1, <1>2, <1>3, <1>4, QueueAssumption DEF IInv, TypeOK, JobsConsistent, JobIds
<1>7. CallsPaidFor'
  <2> SUFFICES ASSUME NEW k \in JobIds PROVE CallsPaidFor!(k)'
    BY DEF CallsPaidFor
  <2>1. CASE k # j
    BY <1>1, <1>2, <1>4, <2>1 DEF IInv, TypeOK, CallsPaidFor
  <2>2. CASE k = j
    BY <1>1, <1>2, <1>3, <1>4, <2>2 DEF IInv, TypeOK, CallsPaidFor
  <2> QED BY <2>1, <2>2
<1>8. HandlerRunsBounded'
    BY <1>4 DEF IInv, TypeOK, HandlerRunsBounded
<1>9. LinksConsistent' /\ LiveJobAccounted' /\ NoSilentLoss'
    BY <1>2 DEF IInv, LinksConsistent, LiveJobAccounted, Live, NoSilentLoss
<1>10. ReportsConsistent'
  <2>1. ASSUME NEW q \in Inbox \cup Outbox, status[q] = "open"
        PROVE  pc'[link[q]] \notin {"reportComplete", "reportCancel"}
    BY <2>1, <1>1 DEF IInv, TypeOK, ReportsConsistent
  <2>2. ASSUME NEW k \in JobIds, pc'[k] = "complete"
        PROVE  jobMessage[k] \in handled'
    BY <2>2, <1>1, <1>2 DEF IInv, TypeOK, ReportsConsistent
  <2> QED BY <2>1, <2>2, <1>2 DEF ReportsConsistent
<1> QED BY <1>5, <1>6, <1>7, <1>8, <1>9, <1>10 DEF IInv

\* The three ways an audit write ends, seen from the row: it gets an outcome, or
\* it stays as it is and the job is neither completed nor cancelled.
LEMMA AuditWriteKeeps ==
    ASSUME IInv, NEW j \in JobIds, NEW next \in Reports, Goto(j, next),
           pc[j] \in {"complete", "failRetryable", "failPermanent", "failExpired"},
           next = "reportSnooze" => attempt[j] >= MaxAttempts,
           NEW outcome \in {"open", "done", "failed"},
           \/ UNCHANGED status /\ next \notin {"reportComplete", "reportCancel"}
           \/ /\ status[jobMessage[j]] # "absent"
              /\ outcome # "open"
              /\ status' = [status EXCEPT ![jobMessage[j]] = outcome],
           UNCHANGED <<link, runs, handled>>
    PROVE  IInv'
<1> DEFINE r == jobMessage[j]
<1>1. r \in Messages
  <2>1. jobState[j] = "running"
    BY DEF IInv, JobsConsistent
  <2> QED BY <2>1, QueueAssumption DEF IInv, TypeOK, JobsConsistent, JobIds
<1>2. /\ pc' = [pc EXCEPT ![j] = next]
      /\ pc' \in [JobIds -> Working \cup {"idle", "dead"}]
      /\ UNCHANGED <<jobState, jobMessage, attempt, snoozes, nextJob, superseded>>
      /\ JobsConsistent' /\ CallsPaidFor' /\ HandlerRunsBounded'
  <2>1. /\ next \in Working /\ next # "load" /\ next # "handle"
        /\ pc[j] \in Working \ Reports
    BY DEF Working, Reports
  <2>2. attempt[j] < MaxAttempts \/ snoozes[j] < MaxSnoozes
    BY DEF IInv, CallsPaidFor
  <2> QED BY <2>1, <2>2, GotoKeepsJobs
<1>3. TypeOK' /\ LinksConsistent'
    BY <1>1, <1>2 DEF IInv, TypeOK, LinksConsistent
<1>4. LiveJobAccounted'
    BY <1>2 DEF IInv, LiveJobAccounted, Live
<1>5. NoSilentLoss'
    BY <1>1, <1>2 DEF IInv, TypeOK, NoSilentLoss, Messages
<1>6. ReportsConsistent'
  <2>1. ASSUME NEW q \in Inbox \cup Outbox, status'[q] = "open"
        PROVE  pc'[link[q]] \notin {"reportComplete", "reportCancel"}
    <3>1. q \in Messages /\ status[q] = "open"
      BY <2>1, <1>1 DEF IInv, TypeOK, Messages
    <3>2. link[q] = j => jobMessage[j] = q
      BY <3>1, QueueAssumption DEF IInv, TypeOK, LinksConsistent, JobIds
    <3>3. CASE link[q] = j
      BY <2>1, <3>1, <3>2, <3>3, <1>2 DEF IInv, TypeOK
    <3>4. CASE link[q] # j
      BY <3>1, <3>4, <1>2 DEF IInv, TypeOK, ReportsConsistent
    <3> QED BY <3>3, <3>4
  <2>2. ASSUME NEW k \in JobIds, pc'[k] = "complete"
        PROVE  jobMessage[k] \in handled
    BY <2>2, <1>2 DEF IInv, TypeOK, ReportsConsistent, Reports
  <2> QED BY <2>1, <2>2, <1>2 DEF ReportsConsistent
<1> QED BY <1>2, <1>3, <1>4, <1>5, <1>6 DEF IInv

LEMMA CompleteQueueKeeps ==
    ASSUME IInv, NEW j \in JobIds, CompleteQueue(j)
    PROVE  IInv'
<1>1. /\ pc[j] = "complete" /\ status[jobMessage[j]] # "absent"
      /\ status' = [status EXCEPT ![jobMessage[j]] = "done"]
      /\ UNCHANGED <<link, runs, handled>>
    BY DEF CompleteQueue
<1>2. PICK next \in Reports : Goto(j, next) /\ (next = "reportSnooze" => attempt[j] >= MaxAttempts)
    BY QueueAssumption DEF CompleteQueue, AuditTransitionError, Reports, IInv, TypeOK
<1> QED BY <1>1, <1>2, AuditWriteKeeps

LEMMA FailQueueKeeps ==
    ASSUME IInv, NEW j \in JobIds, FailQueue(j)
    PROVE  IInv'
<1>1. /\ pc[j] \in {"failRetryable", "failPermanent"} /\ status[jobMessage[j]] # "absent"
      /\ status' = [status EXCEPT ![jobMessage[j]] = "failed"]
      /\ UNCHANGED <<link, runs, handled>>
    BY DEF FailQueue
<1>2. PICK next \in Reports : Goto(j, next) /\ (next = "reportSnooze" => attempt[j] >= MaxAttempts)
    BY QueueAssumption DEF FailQueue, AuditTransitionError, Reports, IInv, TypeOK
<1> QED BY <1>1, <1>2, AuditWriteKeeps

LEMMA AuditWriteLostKeeps ==
    ASSUME IInv, NEW j \in JobIds, AuditWriteLost(j)
    PROVE  IInv'
<1>1. /\ pc[j] \in {"complete", "failRetryable", "failPermanent", "failExpired"}
      /\ UNCHANGED <<status, link, runs, handled>>
    BY DEF AuditWriteLost, rows
<1>2. PICK next \in {"reportError", "reportSnooze"} :
         Goto(j, next) /\ (next = "reportSnooze" => attempt[j] >= MaxAttempts)
    BY QueueAssumption DEF AuditWriteLost, AuditTransitionError, IInv, TypeOK
<1>3. next \in Reports
    BY <1>2 DEF Reports
<1> QED BY <1>1, <1>2, <1>3, AuditWriteKeeps

LEMMA FinishKeeps ==
    ASSUME IInv, NEW j \in JobIds, Finish(j)
    PROVE  IInv'
<1>1. /\ jobState[j] = "running" /\ pc[j] \in Reports
      /\ pc' = [pc EXCEPT ![j] = "idle"]
      /\ UNCHANGED <<status, link, jobMessage, nextJob, runs, handled, superseded>>
    BY DEF Finish, rows, history
<1>2. PICK next \in {"completed", "cancelled", "available", "discarded"} :
         /\ jobState' = [jobState EXCEPT ![j] = next]
         /\ next \in {"completed", "cancelled"} => pc[j] \in {"reportComplete", "reportCancel"}
         /\ next = "available" => pc[j] = "reportSnooze" \/ attempt[j] < MaxAttempts
    BY <1>1 DEF Finish, Reports
<1>3. PICK n \in 0..MaxAttempts, s \in 0..MaxSnoozes :
         /\ attempt' = [attempt EXCEPT ![j] = n]
         /\ snoozes' = [snoozes EXCEPT ![j] = s]
         /\ n + s = attempt[j] + snoozes[j]
         /\ next = "available" => n < MaxAttempts
  <2>1. /\ attempt[j] \in 0..MaxAttempts /\ attempt[j] >= 1
        /\ snoozes[j] \in 0..MaxSnoozes
    BY <1>1 DEF IInv, TypeOK, JobsConsistent
  <2>2. CASE pc[j] = "reportSnooze"
    <3>1. snoozes[j] < MaxSnoozes
      BY <2>1, <2>2, QueueAssumption DEF IInv, CallsPaidFor
    <3>2. /\ attempt' = [attempt EXCEPT ![j] = attempt[j] - 1]
          /\ snoozes' = [snoozes EXCEPT ![j] = snoozes[j] + 1]
      BY <2>1, <2>2, <3>1, QueueAssumption DEF Finish, MinNat
    <3>3. /\ attempt[j] - 1 \in 0..MaxAttempts /\ snoozes[j] + 1 \in 0..MaxSnoozes
          /\ (attempt[j] - 1) + (snoozes[j] + 1) = attempt[j] + snoozes[j]
          /\ attempt[j] - 1 < MaxAttempts
      BY <2>1, <3>1, QueueAssumption
    <3> QED BY <3>2, <3>3
  <2>3. CASE pc[j] # "reportSnooze"
    <3>1. /\ attempt' = [attempt EXCEPT ![j] = attempt[j]]
          /\ snoozes' = [snoozes EXCEPT ![j] = snoozes[j]]
      BY <2>3 DEF Finish, IInv, TypeOK
    <3> QED BY <2>1, <2>3, <3>1, <1>2
  <2> QED BY <2>2, <2>3
<1>4. TypeOK'
    BY <1>1, <1>2, <1>3 DEF IInv, TypeOK, TerminalJob
<1>5. j < nextJob /\ jobMessage[j] \in Messages
    BY <1>1, QueueAssumption DEF IInv, TypeOK, JobsConsistent, JobIds
<1>6. JobsConsistent'
    BY <1>1, <1>2, <1>3, <1>5, QueueAssumption DEF IInv, TypeOK, JobsConsistent, JobIds
<1>7. CallsPaidFor'
  <2> SUFFICES ASSUME NEW k \in JobIds PROVE CallsPaidFor!(k)'
    BY DEF CallsPaidFor
  <2>1. CASE k # j
    BY <1>1, <1>3, <2>1 DEF IInv, TypeOK, CallsPaidFor
  <2>2. CASE k = j
    <3>1. pc[j] \notin {"load", "handle"}
      BY <1>1 DEF Reports
    <3>2. runs[j] <= attempt[j] + snoozes[j]
      BY <3>1 DEF IInv, TypeOK, CallsPaidFor
    <3> QED BY <1>1, <1>3, <2>2, <3>2 DEF IInv, TypeOK
  <2> QED BY <2>1, <2>2
<1>8. LinksConsistent' /\ HandlerRunsBounded'
    BY <1>1 DEF IInv, LinksConsistent, HandlerRunsBounded
<1>9. ReportsConsistent' /\ LiveJobAccounted'
    BY <1>1, <1>2 DEF IInv, TypeOK, ReportsConsistent, LiveJobAccounted, Live
<1>10. NoSilentLoss'
    BY <1>1, <1>2 DEF IInv, TypeOK, ReportsConsistent, NoSilentLoss, Messages
<1> QED BY <1>4, <1>6, <1>7, <1>8, <1>9, <1>10 DEF IInv

LEMMA CrashKeeps ==
    ASSUME IInv, NEW j \in JobIds, Crash(j)
    PROVE  IInv'
<1>1. /\ pc[j] # "idle"
      /\ pc' = [pc EXCEPT ![j] = "dead"]
      /\ UNCHANGED <<status, link, jobState, jobMessage, attempt, snoozes, nextJob, runs, handled, superseded>>
    BY DEF Crash, Working, Reports, rows, river, history
<1>2. TypeOK' /\ LinksConsistent' /\ LiveJobAccounted' /\ NoSilentLoss' /\ HandlerRunsBounded'
    BY <1>1 DEF IInv, TypeOK, LinksConsistent, LiveJobAccounted, Live, NoSilentLoss, HandlerRunsBounded
<1>3. JobsConsistent' /\ ReportsConsistent'
    BY <1>1 DEF IInv, TypeOK, JobsConsistent, ReportsConsistent
<1>4. CallsPaidFor'
    BY <1>1 DEF IInv, TypeOK, CallsPaidFor
<1> QED BY <1>2, <1>3, <1>4 DEF IInv

LEMMA RescueKeeps ==
    ASSUME IInv, NEW j \in JobIds, Rescue(j)
    PROVE  IInv'
<1>1. PICK next \in {"available", "discarded"} :
         /\ jobState' = [jobState EXCEPT ![j] = next]
         /\ next = "available" => attempt[j] < MaxAttempts
    BY DEF Rescue
<1>2. /\ pc[j] = "dead"
      /\ pc' = [pc EXCEPT ![j] = "idle"]
      /\ UNCHANGED <<status, link, jobMessage, attempt, snoozes, nextJob, runs, handled, superseded>>
    BY DEF Rescue, rows, history
<1>3. jobState[j] = "running"
    BY <1>2 DEF IInv, JobsConsistent
<1>4. TypeOK' /\ LinksConsistent' /\ HandlerRunsBounded'
    BY <1>1, <1>2 DEF IInv, TypeOK, LinksConsistent, HandlerRunsBounded, TerminalJob
<1>5. JobsConsistent'
    BY <1>1, <1>2, <1>3 DEF IInv, TypeOK, JobsConsistent
<1>6. CallsPaidFor'
    BY <1>2 DEF IInv, TypeOK, CallsPaidFor
<1>7. ReportsConsistent' /\ LiveJobAccounted' /\ NoSilentLoss'
    BY <1>1, <1>2, <1>3 DEF IInv, TypeOK, ReportsConsistent, LiveJobAccounted, Live, NoSilentLoss
<1> QED BY <1>4, <1>5, <1>6, <1>7 DEF IInv

LEMMA CleanKeeps ==
    ASSUME IInv, NEW j \in JobIds, Clean(j)
    PROVE  IInv'
<1>1. /\ jobState[j] \notin {"none", "available", "running"}
      /\ jobState' = [jobState EXCEPT ![j] = "deleted"]
      /\ UNCHANGED <<status, link, jobMessage, attempt, snoozes, nextJob, pc, runs, handled, superseded>>
    BY DEF Clean, TerminalJob, rows, history
<1>2. TypeOK' /\ JobsConsistent'
    BY <1>1 DEF IInv, TypeOK, JobsConsistent, TerminalJob
<1>3. LinksConsistent' /\ ReportsConsistent' /\ CallsPaidFor' /\ HandlerRunsBounded'
    BY <1>1 DEF IInv, LinksConsistent, ReportsConsistent, CallsPaidFor, HandlerRunsBounded
<1>4. LiveJobAccounted' /\ NoSilentLoss'
    BY <1>1 DEF IInv, TypeOK, LiveJobAccounted, Live, NoSilentLoss
<1> QED BY <1>2, <1>3, <1>4 DEF IInv

LEMMA PurgeKeeps ==
    ASSUME IInv, NEW S \in SUBSET Messages, PurgeTerminalQueueRecords(S)
    PROVE  IInv'
<1>1. /\ status' = [r \in Messages |-> IF r \in S THEN "absent" ELSE status[r]]
      /\ link' = [r \in Messages |-> IF r \in S THEN 0 ELSE link[r]]
      /\ UNCHANGED <<jobState, jobMessage, attempt, snoozes, nextJob, pc, runs, handled, superseded>>
    BY DEF PurgeTerminalQueueRecords, river, history
<1>2. \A r \in S : link[r] = 0 \/ ~Live(link[r])
    BY DEF PurgeTerminalQueueRecords, Expired, TerminalJob, Live
<1>3. TypeOK' /\ LinksConsistent'
    BY <1>1, QueueAssumption DEF IInv, TypeOK, LinksConsistent
<1>4. JobsConsistent' /\ CallsPaidFor' /\ HandlerRunsBounded'
    BY <1>1 DEF IInv, JobsConsistent, CallsPaidFor, HandlerRunsBounded
<1>5. ReportsConsistent' /\ NoSilentLoss'
    BY <1>1 DEF IInv, TypeOK, ReportsConsistent, NoSilentLoss, Messages
<1>6. LiveJobAccounted'
  <2> SUFFICES ASSUME NEW j \in JobIds, Live(j), j \notin superseded
               PROVE  link'[jobMessage[j]] = j
    BY <1>1 DEF LiveJobAccounted, Live
  <2>1. link[jobMessage[j]] = j /\ jobMessage[j] \in Messages
    BY QueueAssumption DEF IInv, TypeOK, LiveJobAccounted, JobsConsistent, Live, JobIds
  <2>2. jobMessage[j] \notin S
    BY <2>1, <1>2, QueueAssumption DEF JobIds
  <2> QED BY <2>1, <2>2, <1>1
<1> QED BY <1>3, <1>4, <1>5, <1>6 DEF IInv

LEMMA StutterKeeps ==
    ASSUME IInv, UNCHANGED vars
    PROVE  IInv'
    BY DEF IInv, TypeOK, JobsConsistent, LinksConsistent, ReportsConsistent, CallsPaidFor,
           LiveJobAccounted, Live, NoSilentLoss, HandlerRunsBounded, vars, rows, river, history

--------------------------------------------------------------------------------
(* The theorems.                                                             *)

LEMMA InitEstablishes == Init => IInv
<1> SUFFICES ASSUME Init PROVE IInv
    OBVIOUS
<1>1. TypeOK
    BY QueueAssumption DEF Init, TypeOK, JobIds
<1>2. JobsConsistent /\ LinksConsistent
    BY QueueAssumption DEF Init, JobsConsistent, LinksConsistent, JobIds
<1>3. ReportsConsistent /\ LiveJobAccounted /\ NoSilentLoss
    BY DEF Init, ReportsConsistent, LiveJobAccounted, Live, NoSilentLoss, Messages
<1>4. CallsPaidFor /\ HandlerRunsBounded
    BY QueueAssumption DEF Init, CallsPaidFor, HandlerRunsBounded, JobIds
<1> QED BY <1>1, <1>2, <1>3, <1>4 DEF IInv

LEMMA NextKeeps == IInv /\ [Next]_vars => IInv'
<1> SUFFICES ASSUME IInv, [Next]_vars PROVE IInv'
    OBVIOUS
<1>1. ASSUME NEW r \in Messages, SaveInboxMessage(r) \/ SaveReconciliationJob(r)
                                 \/ SaveOutboxEvent(r) \/ Retire(r)
      PROVE  IInv'
    BY <1>1, SaveInboxMessageKeeps, SaveReconciliationJobKeeps, SaveOutboxEventKeeps, RetireKeeps
<1>2. ASSUME NEW j \in JobIds, Execute(j)
      PROVE  IInv'
    BY <1>2, ExecuteLoadKeeps, HandlerReturnsKeeps, CompleteQueueKeeps, FailQueueKeeps,
       AuditWriteLostKeeps DEF Execute
<1>3. ASSUME NEW j \in JobIds, Fetch(j) \/ Finish(j) \/ Crash(j) \/ Rescue(j) \/ Clean(j)
      PROVE  IInv'
    BY <1>3, FetchKeeps, FinishKeeps, CrashKeeps, RescueKeeps, CleanKeeps
<1>4. ASSUME NEW S \in SUBSET Messages, PurgeTerminalQueueRecords(S)
      PROVE  IInv'
    BY <1>4, PurgeKeeps
<1> QED BY <1>1, <1>2, <1>3, <1>4, StutterKeeps DEF Next

LEMMA Invariance == Spec => []IInv
    BY InitEstablishes, NextKeeps, PTL DEF Spec

\* Every variable keeps its type in every reachable state; in particular River
\* never claims a job beyond MaxAttempts, snoozes included.
THEOREM TypeCorrect == Spec => []TypeOK
<1>1. IInv => TypeOK
    BY DEF IInv
<1> QED BY <1>1, Invariance, PTL

\* A job River can still run is the one its row is linked to, unless a redelivery
\* replaced it: retention never removes the row of a runnable job, and no producer
\* enqueues a second job for a row with a pending one.
THEOREM LiveJobsAccounted == Spec => []LiveJobAccounted
<1>1. IInv => LiveJobAccounted
    BY DEF IInv
<1> QED BY <1>1, Invariance, PTL

\* An accepted notification or event without an outcome never has its job recorded
\* as completed or cancelled, whatever crashes and lost writes happen.
THEOREM NothingLostSilently == Spec => []NoSilentLoss
<1>1. IInv => NoSilentLoss
    BY DEF IInv
<1> QED BY <1>1, Invariance, PTL

\* The attempt limit and the snooze limit together bound the handler calls of a job.
THEOREM HandlerCallsBounded == Spec => []HandlerRunsBounded
<1>1. IInv => HandlerRunsBounded
    BY DEF IInv
<1> QED BY <1>1, Invariance, PTL

\* One step of the queue is one step of the audit records, or none.
LEMMA StepKeepsPromise ==
    ASSUME IInv, [Next]_vars
    PROVE  [Promise!Next]_(Promise!promised)
<1> USE DEF Promise!promised
<1> DEFINE Keep == UNCHANGED <<status, handled>>
<1>1. Promise!Messages = Messages
    BY DEF Promise!Messages, Messages
<1>2. ASSUME NEW r \in Messages,
             Promise!Accept(r) \/ Promise!Handle(r) \/ Promise!Succeed(r) \/ Promise!GiveUp(r)
             \/ Promise!Redeliver(r) \/ Promise!Reopen(r)
      PROVE  Promise!Next
    BY <1>1, <1>2 DEF Promise!Next
<1>3. ASSUME NEW r \in Messages, SaveInboxMessage(r)
      PROVE  Keep \/ Promise!Accept(r) \/ Promise!Redeliver(r)
    BY <1>3 DEF SaveInboxMessage, RequeueFailedInbox, Promise!Accept, Promise!Redeliver
<1>4. ASSUME NEW r \in Messages, SaveReconciliationJob(r)
      PROVE  Keep \/ Promise!Accept(r) \/ Promise!Reopen(r)
  <2>1. CASE status[r] = "absent" \/ status[r] = "done"
    BY <1>4, <2>1 DEF SaveReconciliationJob, history, Promise!Accept, Promise!Reopen
  <2>2. CASE status[r] # "absent" /\ status[r] # "done"
    BY <1>4, <2>2 DEF SaveReconciliationJob, history, IInv, TypeOK
  <2> QED BY <2>1, <2>2
<1>5. ASSUME NEW r \in Messages, SaveOutboxEvent(r)
      PROVE  Keep \/ Promise!Accept(r)
  <2>1. CASE status[r] = "absent"
    BY <1>5, <2>1 DEF SaveOutboxEvent, history, Promise!Accept
  <2>2. CASE status[r] # "absent"
    BY <1>5, <2>2 DEF SaveOutboxEvent, history, IInv, TypeOK
  <2> QED BY <2>1, <2>2
<1>6. ASSUME NEW r \in Messages, Retire(r)
      PROVE  Keep \/ Promise!Succeed(r)
  <2>1. CASE status[r] = "open"
    BY <1>6, <2>1 DEF Retire, history, Promise!Succeed
  <2>2. CASE status[r] = "done"
    BY <1>6, <2>2 DEF Retire, history, IInv, TypeOK
  <2> QED BY <1>6, <2>1, <2>2 DEF Retire
<1>7. ASSUME NEW j \in JobIds, pc[j] # "idle"
      PROVE  jobMessage[j] \in Messages
  <2>1. jobState[j] = "running"
    BY <1>7 DEF IInv, JobsConsistent
  <2> QED BY <2>1, QueueAssumption DEF IInv, TypeOK, JobsConsistent, JobIds
<1>8. ASSUME NEW j \in JobIds, Execute(j)
      PROVE  Keep \/ Promise!Next
  <2>1. CASE ExecuteLoad(j) \/ AuditWriteLost(j)
    BY <2>1 DEF ExecuteLoad, AuditWriteLost, rows
  <2>2. ASSUME NEW result \in HandlerResults, HandlerReturns(j, result)
        PROVE  Keep \/ Promise!Next
    <3>1. jobMessage[j] \in Messages
      BY <2>2, <1>7 DEF HandlerReturns
    <3>2. Keep \/ Promise!Handle(jobMessage[j])
      BY <2>2 DEF HandlerReturns, rows, Promise!Handle
    <3> QED BY <3>1, <3>2, <1>2
  <2>3. CASE CompleteQueue(j)
    <3>1. /\ jobMessage[j] \in Messages /\ jobMessage[j] \in handled
          /\ status[jobMessage[j]] \in {"open", "done"}
          /\ status' = [status EXCEPT ![jobMessage[j]] = "done"]
          /\ UNCHANGED handled
      BY <2>3, <1>7 DEF CompleteQueue, IInv, ReportsConsistent
    <3>2. Keep \/ Promise!Succeed(jobMessage[j])
      BY <3>1 DEF Promise!Succeed, IInv, TypeOK
    <3> QED BY <3>1, <3>2, <1>2
  <2>4. CASE FailQueue(j)
    <3>1. /\ jobMessage[j] \in Messages
          /\ status[jobMessage[j]] \in {"open", "failed"}
          /\ status' = [status EXCEPT ![jobMessage[j]] = "failed"]
          /\ UNCHANGED handled
      BY <2>4, <1>7 DEF FailQueue
    <3>2. Keep \/ Promise!GiveUp(jobMessage[j])
      BY <3>1 DEF Promise!GiveUp, IInv, TypeOK
    <3> QED BY <3>1, <3>2, <1>2
  <2> QED BY <1>8, <2>1, <2>2, <2>3, <2>4 DEF Execute
<1>9. ASSUME NEW j \in JobIds, Fetch(j) \/ Finish(j) \/ Crash(j) \/ Rescue(j) \/ Clean(j)
      PROVE  Keep
    BY <1>9 DEF Fetch, Finish, Crash, Rescue, Clean, rows, history
<1>10. ASSUME NEW S \in SUBSET Messages, PurgeTerminalQueueRecords(S)
       PROVE  Promise!Next
  <2>1. Promise!Forget(S)
    BY <1>1, <1>10 DEF PurgeTerminalQueueRecords, Expired, history, Promise!Forget
  <2> QED BY <1>1, <2>1 DEF Promise!Next
<1>11. CASE UNCHANGED vars
    BY <1>11 DEF vars, rows, history
<1> QED BY <1>2, <1>3, <1>4, <1>5, <1>6, <1>8, <1>9, <1>10, <1>11 DEF Next

\* The queue implements the audit records: outcomes are final except for the two
\* documented ways to reopen a row, a processed notification or event has been
\* handled at least once, and only rows with an outcome are forgotten.
THEOREM QueueKeepsPromise == Spec => KeepsPromise
<1>1. Init => Promise!Init
    BY DEF Init, Promise!Init, Promise!Messages, Messages
<1>2. IInv /\ [Next]_vars => [Promise!Next]_(Promise!promised)
    BY StepKeepsPromise
<1> QED BY <1>1, <1>2, Invariance, PTL DEF Spec, KeepsPromise, Promise!Spec

====
