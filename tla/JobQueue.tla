------------------------------ MODULE JobQueue ------------------------------
(***************************************************************************)
(* The background jobs of the backend (backend/app/services/               *)
(* job_service.py): the ai_auto_grade jobs of one submitted attempt, the   *)
(* worker and scheduler threads that every uvicorn process runs, and what  *)
(* a restart does with the jobs it finds running.                          *)
(*                                                                         *)
(* Every action is one database transaction.  enqueue_ai_auto_grade reads  *)
(* the job rows and inserts one in a later transaction, with no index to   *)
(* hold the two together, so it is two actions for each of its callers.    *)
(***************************************************************************)
EXTENDS Naturals, FiniteSets

CONSTANTS
    Processes,      \* uvicorn --workers: each with a worker and a scheduler thread
    Requests,       \* HTTP handlers that queue AI marking: submit, and the student's retry
    MaxJobs,        \* bound on rows of the jobs table
    MaxCrashes,     \* bound on process deaths
    MaxBroken,      \* bound on jobs whose outcome cannot be committed
    NoJob,
    AI_MAX_AUTOMATIC_ATTEMPTS

ASSUME JobQueueAssumption ==
    /\ MaxJobs \in Nat \ {0}
    /\ MaxCrashes \in Nat
    /\ MaxBroken \in Nat
    /\ AI_MAX_AUTOMATIC_ATTEMPTS \in Nat \ {0}
    /\ NoJob \notin 1..MaxJobs
    /\ Processes \intersect Requests = {}
    /\ IsFiniteSet(Processes)

VARIABLES
    jobs,      \* rows by id, in the order they were created
    up,        \* the processes that are running
    working,   \* the job each process's worker thread is executing
    deciding,  \* the callers that found no job queued or running
    unmarked,  \* the attempt is GRADING and has AI-enabled parts still pending
    cooled,    \* the backoff since the last run or row has passed
    crashes,
    broken     \* how many jobs were left running by a worker that lives

jobsVars == <<jobs, up, working, deciding, unmarked, cooled, crashes, broken>>

JobIds  == 1..MaxJobs
Callers == Processes \union Requests
Statuses == {"none", "pending", "running", "done", "failed"}

\* by: who inserted the row.
JobRows == [status : Statuses, by : Callers \union {NoJob}]
NoRow   == [status |-> "none", by |-> NoJob]

Rows       == {j \in JobIds : jobs[j].status # "none"}
Automatic  == {j \in Rows : jobs[j].by \in Processes}
JobExists  == \E j \in Rows : jobs[j].status \in {"pending", "running"}
NextRow(j) == j \notin Rows /\ \A k \in JobIds : k < j => k \in Rows

-----------------------------------------------------------------------------
JobsInit ==
    /\ jobs = [j \in JobIds |-> NoRow]
    /\ up = Processes
    /\ working = [w \in Processes |-> NoJob]
    /\ deciding = {}
    /\ unmarked = TRUE
    /\ cooled = TRUE
    /\ crashes = 0
    /\ broken = 0

(* submit_attempt after its commit, and retry_attempt_evaluation.          *)
RequestMarking(c) ==
    /\ c \notin deciding
    /\ unmarked
    /\ ~JobExists
    /\ deciding' = deciding \union {c}
    /\ UNCHANGED <<jobs, up, working, unmarked, cooled, crashes, broken>>

\* Mutant: the runs already made are not counted.
SchedulerTickForever(w) ==
    /\ w \in up /\ w \notin deciding
    /\ unmarked
    /\ ~JobExists
    /\ cooled \/ Rows = {}
    /\ deciding' = deciding \union {w}
    /\ UNCHANGED <<jobs, up, working, unmarked, cooled, crashes, broken>>

\* Mutant: a job that is done is taken to have marked everything.
SchedulerTickAfterFailure(w) ==
    /\ w \in up /\ w \notin deciding
    /\ unmarked
    /\ \A j \in Rows : jobs[j].status = "failed"
    /\ Cardinality(Rows) < AI_MAX_AUTOMATIC_ATTEMPTS
    /\ cooled \/ Rows = {}
    /\ deciding' = deciding \union {w}
    /\ UNCHANGED <<jobs, up, working, unmarked, cooled, crashes, broken>>

(* recover_missing_ai_auto_grade_jobs, from _scheduler_tick or at startup. *)
SchedulerTick(w) ==
    /\ w \in up /\ w \notin deciding
    /\ unmarked
    /\ ~JobExists
    /\ Cardinality(Rows) < AI_MAX_AUTOMATIC_ATTEMPTS
    /\ cooled \/ Rows = {}
    /\ deciding' = deciding \union {w}
    /\ UNCHANGED <<jobs, up, working, unmarked, cooled, crashes, broken>>

(* enqueue: the row is inserted whatever has been queued since.            *)
Enqueue(c) ==
    /\ c \in deciding
    /\ deciding' = deciding \ {c}
    /\ \E j \in JobIds :
          /\ NextRow(j)
          /\ jobs' = [jobs EXCEPT ![j] = [status |-> "pending", by |-> c]]
    /\ cooled' = FALSE
    /\ UNCHANGED <<up, working, unmarked, crashes, broken>>

\* The oldest pending row, claimed under SELECT ... FOR UPDATE SKIP LOCKED.
NextPending(j) ==
    /\ jobs[j].status = "pending"
    /\ \A k \in JobIds : k < j => jobs[k].status # "pending"

(* _process_one, up to the commit of JOB_RUNNING.                          *)
TakeJob(w) ==
    /\ w \in up /\ working[w] = NoJob
    /\ \E j \in JobIds :
          /\ NextPending(j)
          /\ jobs' = [jobs EXCEPT ![j].status = "running"]
          /\ working' = [working EXCEPT ![w] = j]
    /\ UNCHANGED <<up, deciding, unmarked, cooled, crashes, broken>>

(* _process_one, the handler: the AI marks everything, or some parts stay  *)
(* unmarked whether the job is then done or failed.                        *)
FinishJob(w, status) ==
    /\ w \in up /\ working[w] # NoJob
    /\ jobs' = [jobs EXCEPT ![working[w]].status = status]
    /\ working' = [working EXCEPT ![w] = NoJob]
    /\ \E still \in {unmarked, unmarked /\ status = "failed"} : unmarked' = still
    /\ cooled' = FALSE
    /\ UNCHANGED <<up, deciding, crashes, broken>>

(* _process_one when a flush of the handler failed: nothing rolls the      *)
(* session back, so the commit of the job's outcome raises as well.  The   *)
(* worker thread goes on to the next job and the row stays RUNNING.        *)
LoseOutcome(w) ==
    /\ w \in up /\ working[w] # NoJob
    /\ broken < MaxBroken
    /\ broken' = broken + 1
    /\ working' = [working EXCEPT ![w] = NoJob]
    /\ UNCHANGED <<jobs, up, deciding, unmarked, cooled, crashes>>

(* An instructor marks what the AI has not.                                *)
MarkByHand ==
    /\ unmarked
    /\ unmarked' = FALSE
    /\ UNCHANGED <<jobs, up, working, deciding, cooled, crashes, broken>>

(* AI_FIRST_RETRY_AFTER_SECONDS or AI_RETRY_AFTER_SECONDS pass.            *)
CoolDown ==
    /\ ~cooled
    /\ cooled' = TRUE
    /\ UNCHANGED <<jobs, up, working, deciding, unmarked, crashes, broken>>

(* A process is killed, with the requests it serves: its job's row stays   *)
(* RUNNING, and a submission it had committed may go without its job.      *)
CrashProcess(w) ==
    /\ w \in up /\ crashes < MaxCrashes
    /\ crashes' = crashes + 1
    /\ up' = up \ {w}
    /\ working' = [working EXCEPT ![w] = NoJob]
    /\ \E served \in SUBSET Requests : deciding' = deciding \ ({w} \union served)
    /\ UNCHANGED <<jobs, unmarked, cooled, broken>>

\* Mutant: an interrupted job is queued again.
RestartRequeues(w) ==
    /\ w \notin up
    /\ up' = up \union {w}
    /\ jobs' = [j \in JobIds |-> IF jobs[j].status = "running"
                                 THEN [jobs[j] EXCEPT !.status = "pending"] ELSE jobs[j]]
    /\ cooled' = (cooled /\ jobs' = jobs)
    /\ UNCHANGED <<working, deciding, unmarked, crashes, broken>>

\* Mutant: no recovery at startup.
RestartOnly(w) ==
    /\ w \notin up
    /\ up' = up \union {w}
    /\ UNCHANGED <<jobs, cooled, working, deciding, unmarked, crashes, broken>>

\* Mutant: an interrupted job gets a status of its own.
RestartInterrupts(w) ==
    /\ w \notin up
    /\ up' = up \union {w}
    /\ jobs' = [j \in JobIds |-> IF jobs[j].status = "running"
                                 THEN [jobs[j] EXCEPT !.status = "interrupted"] ELSE jobs[j]]
    /\ cooled' = (cooled /\ jobs' = jobs)
    /\ UNCHANGED <<working, deciding, unmarked, crashes, broken>>

(* start_background_threads of a process that comes back:                  *)
(* _recover_stale_running_jobs fails every job it finds running.           *)
Restart(w) ==
    /\ w \notin up
    /\ up' = up \union {w}
    /\ jobs' = [j \in JobIds |-> IF jobs[j].status = "running"
                                 THEN [jobs[j] EXCEPT !.status = "failed"] ELSE jobs[j]]
    /\ cooled' = (cooled /\ jobs' = jobs)
    /\ UNCHANGED <<working, deciding, unmarked, crashes, broken>>

-----------------------------------------------------------------------------
Work(w) == TakeJob(w) \/ \E status \in {"done", "failed"} : FinishJob(w, status)

JobsNext ==
    \/ \E w \in Processes :
          SchedulerTick(w) \/ Work(w) \/ LoseOutcome(w) \/ CrashProcess(w) \/ Restart(w)
    \/ \E r \in Requests : RequestMarking(r)
    \/ \E c \in Callers : Enqueue(c)
    \/ MarkByHand \/ CoolDown

JobsSpec == JobsInit /\ [][JobsNext]_jobsVars

\* The threads of a running process loop, a call of the provider times out,
\* systemd and uvicorn bring a dead process back, and time passes.  Nothing
\* is assumed of students and instructors.
JobsFairSpec ==
    /\ JobsSpec
    /\ \A w \in Processes : WF_jobsVars(Work(w)) /\ WF_jobsVars(Restart(w)) /\ WF_jobsVars(SchedulerTick(w))
    /\ \A c \in Callers : WF_jobsVars(Enqueue(c))
    /\ WF_jobsVars(CoolDown)

-----------------------------------------------------------------------------
(* Properties                                                              *)

\* The rows are the ones the code writes, created in order.
JobsTypeOK ==
    /\ jobs \in [JobIds -> JobRows]
    /\ up \subseteq Processes
    /\ working \in [Processes -> JobIds \union {NoJob}]
    /\ deciding \subseteq Callers
    /\ unmarked \in BOOLEAN
    /\ cooled \in BOOLEAN
    /\ crashes \in 0..MaxCrashes
    /\ broken \in 0..MaxBroken
    /\ \A j, k \in JobIds : j < k /\ k \in Rows => j \in Rows

\* No job is executed by two processes, and none that is being executed is
\* waiting to be taken: a crash and the recovery of a sibling between the
\* claim of a job and its end included.
OneWorkerPerJob ==
    \A w \in Processes : working[w] # NoJob =>
        /\ w \in up
        /\ jobs[working[w]].status \notin {"none", "pending"}
        /\ \A v \in Processes \ {w} : working[v] # working[w]

\* A part that cannot be marked does not loop: however the schedulers of the
\* processes race, they run it at most once each beyond the budget.
RetryBudget ==
    Cardinality(Automatic) + Cardinality(deciding \intersect up)
        <= AI_MAX_AUTOMATIC_ATTEMPTS - 1 + Cardinality(Processes)

\* A job that was taken is done or failed in the end, even when its process
\* is killed: the attempt it was for is not blocked by it for ever.  Only an
\* outcome that could not be committed defeats this (StuckMeansInterrupted).
RunningIsSettled ==
    \A j \in JobIds :
        jobs[j].status = "running" ~> (jobs[j].status \in {"done", "failed"} \/ broken > 0)

\* An attempt waiting for the AI is marked, or the AI has had its tries and
\* every one of them has ended, so that an instructor owns it.
WaitingIsServed ==
    <>[](\/ ~unmarked
         \/ Cardinality(Rows) >= AI_MAX_AUTOMATIC_ATTEMPTS /\ ~JobExists
         \/ broken > 0)

\* A job is left running only by the death of the process that ran it.
StuckMeansInterrupted ==
    \A j \in JobIds : (jobs[j].status = "running" /\ \A w \in Processes : working[w] # j)
                          => crashes > 0

\* A job that a restart takes to be interrupted is one nobody will finish.
RecoveredJobsAreDead ==
    [][\A w, v \in Processes :
          (Restart(w) /\ v \in up /\ working[v] # NoJob)
              => jobs'[working[v]].status = "running"]_jobsVars
=============================================================================
