---- MODULE ReconciliationChain ----
(***************************************************************************)
(* The daily refresh of one subscription lineage (one application, one     *)
(* customer, one protected verification payload).                          *)
(*                                                                         *)
(* A generation is the reconciliation_jobs row scheduled for the start of  *)
(* one UTC day; its identity is derived from the payload and that day, so  *)
(* everyone who schedules the same day names the same row.  The API saves  *)
(* the next generation after it verified a purchase, in a transaction of   *)
(* its own.  The worker that runs a generation saves the next one before   *)
(* it asks the provider, and closes ("retires") that next one when the     *)
(* provider says the lineage is over.                                      *)
(*                                                                         *)
(* How often a lost audit write may snooze a job is the subject of         *)
(* DurableQueue; here the runs that end badly are bounded together.  A run *)
(* ends with an outcome in its row, or with none: then River runs the job  *)
(* again, and after its last attempt leaves an open row that nobody runs.  *)
(***************************************************************************)
EXTENDS Naturals

CONSTANTS
    Clients,            \* verification requests that may be in flight together
    MaxDay,             \* bound of the model: the clock stops here
    MaxRequests,        \* bound of the model: client requests
    MaxChanges,         \* bound of the model: times the provider state flips
    MaxFailures,        \* bound of the model: runs that end badly and retirements that fail
    ChainAttempts       \* IAPSTACK_WORKER_MAX_ATTEMPTS

ASSUME ChainAssumption ==
    /\ MaxDay \in Nat \ {0}
    /\ ChainAttempts \in Nat \ {0}
    /\ {MaxRequests, MaxChanges, MaxFailures} \subseteq Nat

VARIABLES
    day,        \* UTC days since the start
    lineage,    \* what the provider reports: "active" or "ended" (lineageEnded)
    status,     \* generation row: "absent", "open", "done", "failed"
    job,        \* its River job: "none", "scheduled", "running", "final"
    pc,         \* the worker running the generation
    next,       \* the worker's nextID
    attempts,   \* claims of the generation's job, snoozed ones given back
    client,     \* generation a client request is about to save, 0 when idle
    requests, changes, failures,   \* counters of the bounds
    saved,      \* history: generations whose worker has saved its successor
    lastRuns,   \* history: generations that have begun their last attempt or met
                \* an error that is not retryable
    everEnded   \* history: the provider has reported the end at some time

chainVars == <<day, lineage, status, job, pc, next, attempts, client, requests, changes,
               failures, saved, lastRuns, everEnded>>

Generations == 1..(MaxDay + 1)

ChainInit ==
    /\ day = 0
    /\ lineage = "active"
    /\ status = [g \in Generations |-> "absent"]
    /\ job = [g \in Generations |-> "none"]
    /\ pc = [g \in Generations |-> "idle"]
    /\ next = [g \in Generations |-> 0]
    /\ attempts = [g \in Generations |-> 0]
    /\ client = [c \in Clients |-> 0]
    /\ requests = 0 /\ changes = 0 /\ failures = 0
    /\ saved = {} /\ lastRuns = {} /\ everEnded = FALSE

--------------------------------------------------------------------------------

\* nextReconciliationTime: the start of the next UTC day.
NextReconciliationTime(today) == today + 1

\* SaveReconciliationJob: insert an open row with a scheduled job, or reopen a
\* processed one.  Its job, once inserted, is never inserted again.
SaveReconciliationJob(g) ==
    /\ status' = [status EXCEPT ![g] = IF @ \in {"absent", "done"} THEN "open" ELSE @]
    /\ job' = [job EXCEPT ![g] = IF @ = "none" THEN "scheduled" ELSE @]

\* The clock and the provider.
Midnight ==
    /\ day < MaxDay
    /\ day' = day + 1
    /\ UNCHANGED <<lineage, status, job, pc, next, attempts, client, requests, changes,
                   failures, saved, lastRuns, everEnded>>

ProviderChanges ==
    /\ changes < MaxChanges
    /\ changes' = changes + 1
    /\ lineage' = IF lineage = "active" THEN "ended" ELSE "active"
    /\ everEnded' = (everEnded \/ lineage' = "ended")
    /\ UNCHANGED <<day, status, job, pc, next, attempts, client, requests,
                   failures, saved, lastRuns>>

--------------------------------------------------------------------------------
(* purchases:verify and purchases:restore.                                   *)

\* The verification has committed; scheduleReconciliation reads the clock.
ClientVerifies(c) ==
    /\ client[c] = 0
    /\ requests < MaxRequests
    /\ requests' = requests + 1
    /\ client' = [client EXCEPT ![c] = NextReconciliationTime(day)]
    /\ UNCHANGED <<day, lineage, status, job, pc, next, attempts, changes,
                   failures, saved, lastRuns, everEnded>>

\* Its transaction commits, or fails and is only logged.
ClientSchedules(c) ==
    /\ client[c] # 0
    /\ client' = [client EXCEPT ![c] = 0]
    /\ \/ SaveReconciliationJob(client[c])
       \/ UNCHANGED <<status, job>>
    /\ UNCHANGED <<day, lineage, pc, next, attempts, requests, changes,
                   failures, saved, lastRuns, everEnded>>

--------------------------------------------------------------------------------
(* HandleReconciliation, run by the worker that holds the generation's job.  *)

WorkerUnchanged == UNCHANGED <<day, lineage, client, requests, changes, everEnded>>

\* A due job is claimed.  A row that is closed is skipped and its job ends.
Start(g) ==
    /\ job[g] = "scheduled"
    /\ day >= g
    /\ attempts' = [attempts EXCEPT ![g] = @ + 1]
    /\ \/ /\ status[g] = "open"
          /\ job' = [job EXCEPT ![g] = "running"]
          /\ pc' = [pc EXCEPT ![g] = "clock"]
       \/ /\ status[g] \in {"done", "failed"}
          /\ job' = [job EXCEPT ![g] = "final"]
          /\ UNCHANGED pc
    /\ lastRuns' = IF attempts[g] + 1 = ChainAttempts THEN lastRuns \cup {g} ELSE lastRuns
    /\ UNCHANGED <<status, next, failures, saved>>
    /\ WorkerUnchanged

\* scheduleNext reads the clock ...
ReadClock(g) ==
    /\ pc[g] = "clock"
    /\ next' = [next EXCEPT ![g] = NextReconciliationTime(day)]
    /\ pc' = [pc EXCEPT ![g] = "schedule"]
    /\ UNCHANGED <<status, job, attempts, failures, saved, lastRuns>>
    /\ WorkerUnchanged

\* Faulty variant: a successor that could not be saved does not stop the refresh.
ScheduleNextBestEffort(g) ==
    /\ pc[g] = "schedule"
    /\ pc' = [pc EXCEPT ![g] = "verify"]
    /\ \/ SaveReconciliationJob(next[g]) /\ saved' = saved \cup {g}
       \/ UNCHANGED <<status, job, saved>>
    /\ UNCHANGED <<next, attempts, failures, lastRuns>>
    /\ WorkerUnchanged

\* ... and saves that generation, before the provider is asked.
ScheduleNext(g) ==
    /\ pc[g] = "schedule"
    /\ pc' = [pc EXCEPT ![g] = "verify"]
    /\ SaveReconciliationJob(next[g])
    /\ saved' = saved \cup {g}
    /\ UNCHANGED <<next, attempts, failures, lastRuns>>
    /\ WorkerUnchanged

\* Faulty variant: the end of the lineage is not acted on.
VerifyNeverRetires(g) ==
    /\ pc[g] = "verify"
    /\ pc' = [pc EXCEPT ![g] = "complete"]
    /\ UNCHANGED <<status, job, next, attempts, failures, saved, lastRuns>>
    /\ WorkerUnchanged

\* verify refreshes the lineage; lineageEnded decides what becomes of the successor.
Verify(g) ==
    /\ pc[g] = "verify"
    /\ pc' = [pc EXCEPT ![g] = IF lineage = "ended" THEN "retire" ELSE "complete"]
    /\ UNCHANGED <<status, job, next, attempts, failures, saved, lastRuns>>
    /\ WorkerUnchanged

\* retire: CompleteQueue of the successor.  A failure is logged and ignored.
Retire(g) ==
    /\ pc[g] = "retire"
    /\ pc' = [pc EXCEPT ![g] = "complete"]
    /\ \/ /\ status[next[g]] # "failed"
          /\ status' = [status EXCEPT ![next[g]] = "done"]
          /\ UNCHANGED failures
       \/ /\ status[next[g]] = "failed"
          /\ UNCHANGED <<status, failures>>
       \/ /\ failures < MaxFailures
          /\ failures' = failures + 1
          /\ UNCHANGED status
    /\ UNCHANGED <<job, next, attempts, saved, lastRuns>>
    /\ WorkerUnchanged

\* The executor records the outcome of its own row ...
Complete(g) ==
    /\ pc[g] = "complete"
    /\ status' = [status EXCEPT ![g] = "done"]
    /\ pc' = [pc EXCEPT ![g] = "finish"]
    /\ UNCHANGED <<job, next, attempts, failures, saved, lastRuns>>
    /\ WorkerUnchanged

\* ... and River the end of the job, in a later transaction.
Finish(g) ==
    /\ pc[g] = "finish"
    /\ job' = [job EXCEPT ![g] = "final"]
    /\ pc' = [pc EXCEPT ![g] = "idle"]
    /\ UNCHANGED <<status, next, attempts, failures, saved, lastRuns>>
    /\ WorkerUnchanged

\* A run that ends badly.
EndsBadly ==
    /\ failures < MaxFailures
    /\ failures' = failures + 1
    /\ UNCHANGED <<next, saved>>
    /\ WorkerUnchanged

\* The handler returns an error before the provider's answer is stored.  A retryable one
\* with attempts left is for River to try again; any other ends the generation, on
\* whichever attempt it comes.
RefreshFails(g, retryable) ==
    /\ pc[g] \in {"clock", "schedule", "verify"}
    /\ \/ /\ retryable /\ attempts[g] < ChainAttempts
          /\ job' = [job EXCEPT ![g] = "scheduled"]
          /\ pc' = [pc EXCEPT ![g] = "idle"]
          /\ UNCHANGED lastRuns
       \/ /\ ~retryable \/ attempts[g] >= ChainAttempts
          /\ pc' = [pc EXCEPT ![g] = "fail"]
          /\ lastRuns' = lastRuns \cup {g}
          /\ UNCHANGED job
    /\ UNCHANGED <<status, attempts>>
    /\ EndsBadly

\* auditTransitionError: River runs an earlier attempt again and snoozes a last one,
\* which gives the attempt back.
TryOutcomeAgain(g) ==
    /\ job' = [job EXCEPT ![g] = "scheduled"]
    /\ pc' = [pc EXCEPT ![g] = "idle"]
    /\ attempts' = [attempts EXCEPT ![g] = IF @ < ChainAttempts THEN @ ELSE @ - 1]

\* fail records the error in an open row.  A row that an earlier generation retired
\* meanwhile is a conflict.
FailRow(g) ==
    /\ pc[g] = "fail"
    /\ \/ /\ status[g] = "open"
          /\ status' = [status EXCEPT ![g] = "failed"]
          /\ pc' = [pc EXCEPT ![g] = "finish"]
          /\ UNCHANGED <<job, attempts>>
       \/ /\ status[g] = "done"
          /\ TryOutcomeAgain(g)
          /\ UNCHANGED status
    /\ UNCHANGED <<next, failures, saved, lastRuns>>
    /\ WorkerUnchanged

\* The audit write does not commit, or commits and its answer is lost.
OutcomeLost(g) ==
    /\ pc[g] \in {"complete", "fail", "finish"}
    /\ TryOutcomeAgain(g)
    /\ UNCHANGED <<status, lastRuns>>
    /\ EndsBadly

\* The worker dies, a hard shutdown cancels it or the row cannot be loaded: nothing is
\* recorded, and the job of a last attempt is discarded with its row still open.
RunDies(g) ==
    /\ pc[g] # "idle"
    /\ job' = [job EXCEPT ![g] = IF attempts[g] < ChainAttempts THEN "scheduled" ELSE "final"]
    /\ pc' = [pc EXCEPT ![g] = "idle"]
    /\ UNCHANGED <<status, attempts, lastRuns>>
    /\ EndsBadly

--------------------------------------------------------------------------------

Work(g) == ReadClock(g) \/ ScheduleNext(g) \/ Verify(g) \/ Retire(g) \/ Complete(g) \/ Finish(g)
           \/ FailRow(g)

ChainNext ==
    \/ Midnight
    \/ ProviderChanges
    \/ \E c \in Clients : ClientVerifies(c) \/ ClientSchedules(c)
    \/ \E g \in Generations : Start(g) \/ Work(g) \/ OutcomeLost(g) \/ RunDies(g)
                              \/ \E retryable \in BOOLEAN : RefreshFails(g, retryable)

ChainSpec == ChainInit /\ [][ChainNext]_chainVars

\* Time passes, requests end, due jobs are claimed and running handlers go on.
Fairness ==
    /\ WF_chainVars(Midnight)
    /\ \A c \in Clients : WF_chainVars(ClientSchedules(c))
    /\ \A g \in Generations : WF_chainVars(Start(g)) /\ WF_chainVars(Work(g))

FairChainSpec == ChainSpec /\ Fairness

--------------------------------------------------------------------------------
(* Properties.                                                               *)

Runnable(g) == status[g] = "open" /\ job[g] \in {"scheduled", "running"}

\* No run of the generation is to come: its row failed, or its job ended.
Ended(g) == status[g] = "failed" \/ job[g] = "final"

\* The latest generation ended before its successor was saved, having begun its last
\* attempt or met an error that is not retryable.
ChainCut ==
    \E g \in Generations :
        /\ Ended(g) /\ g \in lastRuns /\ g \notin saved
        /\ \A h \in Generations : h > g => status[h] = "absent"

\* The refresh of a lineage the provider never ended does not stop by itself: once
\* scheduled there is a generation that will run, whatever fails or dies after the
\* successor was saved, on a last attempt too, and whatever fails or dies before it while
\* attempts are left.  HandleReconciliation saves the successor before it asks the
\* provider "so a failed refresh cannot end the chain".  What does end it is ChainCut: a
\* last attempt that fails or dies before scheduling, or a scheduling error that is not
\* retryable.
ChainAlive ==
    (~everEnded /\ ~ChainCut /\ \E g \in Generations : status[g] # "absent")
        => \E g \in Generations : Runnable(g)

\* Everything the model bounds has happened, and the clock has days left.
QuietAfterEnd ==
    /\ lineage = "ended" /\ changes = MaxChanges
    /\ requests = MaxRequests /\ \A c \in Clients : client[c] = 0
    /\ failures = MaxFailures
    /\ job[MaxDay + 1] = "none"

\* The refresh of a lineage that ended for good stops once requests for it,
\* failing retirements and failing refreshes stop: a successor left runnable by a failed
\* retirement runs once more and retires its own.
EndedLineageStops == QuietAfterEnd ~> (\A g \in Generations : ~Runnable(g))

====
