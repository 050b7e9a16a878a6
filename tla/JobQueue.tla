------------------------------ MODULE JobQueue ------------------------------
(***************************************************************************)
(* The PostgreSQL-backed job queue (crates/workers/src/queue.rs), the      *)
(* worker loop that drains it (crates/workers/src/worker.rs), and the two  *)
(* operator endpoints that reach into it (crates/api/src/routes/admin.rs). *)
(*                                                                         *)
(* A row of background_jobs keeps its control state.  The three timestamps *)
(* that statements compare with the clock (scheduled_at of a pending row,  *)
(* locked_until of a running one, completed_at of a finished one) become   *)
(* one flag, elapsed: the moment this row waits for has passed.  Time is   *)
(* otherwise not represented, so no property rests on the length of a lock *)
(* or on the clocks of two replicas agreeing.                              *)
(***************************************************************************)
EXTENDS Naturals, FiniteSets

CONSTANTS
    Job,            \* the identities enqueue may draw; an id is used once
    Worker,         \* worker instances; every process start is a new one
    None,           \* locked_by IS NULL
    Unhandled,      \* the jobs whose kind has no registered handler
    BatchSize,      \* WorkerConfig::batch_size
    MaxAttempts,    \* the max_attempts column
    LocksCanLapse   \* may a lock expire while its worker is still at work?

ASSUME QueueAssumption ==
    /\ None \notin Worker \cup Job
    /\ Unhandled \subseteq Job
    /\ BatchSize \in Nat \ {0}
    /\ MaxAttempts \in Nat \ {0}
    /\ LocksCanLapse \in BOOLEAN

VARIABLES
    rows,   \* the table background_jobs
    ahead,  \* for a due job, the due jobs with an earlier scheduled_at
    life,   \* the life cycle of each worker instance
    mem     \* the batch an instance has claimed and is working through

vars == <<rows, ahead, life, mem>>

-----------------------------------------------------------------------------
(* Rows, claimed copies and the memory of a worker.                        *)

Status == {"new", "pending", "running", "completed", "dead", "deleted"}
Finished == {"completed", "dead"}

\* attempts is only ever compared with max_attempts: one value above it stands
\* for every larger one, which keeps the counter finite without a guard.
Attempts == 0..(MaxAttempts + 1)
Bump(n) == IF n > MaxAttempts THEN n ELSE n + 1

Row == [status : Status, attempts : Attempts, lockedBy : Worker \cup {None},
        elapsed : BOOLEAN]

\* A job as claim_jobs returned it: the attempts of that moment go with it.
Copy == [job : Job, attempts : Attempts]
NoCopy == [job |-> None, attempts |-> 0]

\* The for loop of poll_and_process: the copy in the handler and those to come.
Memory == [current : Copy \cup {NoCopy}, rest : SUBSET Copy]
Idle == [current |-> NoCopy, rest |-> {}]

Due == {j \in Job : rows[j].status = "pending" /\ rows[j].elapsed}

Up(w) == life[w] \in {"live", "draining"}

\* The select loop of a running instance, waiting for its next tick.
Looping(w) == Up(w) /\ mem[w].current = NoCopy
Working(w) == Up(w) /\ mem[w].current # NoCopy

\* The copies a worker has claimed and not yet recorded an outcome for.
Held(w) == (mem[w].rest \cup {mem[w].current}) \ {NoCopy}
Holds(w, j) == \E c \in Held(w) : c.job = j

\* A handler of this worker is executing this job right now.
Delivering(w, j) == mem[w].current.job = j /\ j \notin Unhandled

-----------------------------------------------------------------------------
(* ORDER BY scheduled_at.  A row that becomes due does so after every row  *)
(* that already is, so the order of scheduled_at is that of becoming due;  *)
(* rows that one statement makes due together tie.                         *)

Reorder ==
    LET due == {j \in Job : rows'[j].status = "pending" /\ rows'[j].elapsed}
    IN  ahead' = [j \in Job |-> IF j \notin due THEN {}
                                ELSE IF j \in Due THEN ahead[j] \cap due
                                ELSE Due \cap due]

\* Mutation: the claim without its ORDER BY.
OldestUnordered(S) ==
    /\ S \subseteq Due
    /\ S # {}
    /\ Cardinality(S) <= BatchSize
    /\ Cardinality(S) < BatchSize => S = Due

\* The rows the inner SELECT of claim_jobs picks: LIMIT batch_size of the due
\* rows, oldest first.
Oldest(S) ==
    /\ S \subseteq Due
    /\ S # {}
    /\ \A j \in S : ahead[j] \subseteq S
    /\ Cardinality(S) <= BatchSize
    /\ Cardinality(S) < BatchSize => S = Due

-----------------------------------------------------------------------------
(* The UPDATE statements of queue.rs.                                      *)

\* Mutation: the claim forgets to count the attempt.
ClaimedUncounted(w, S) ==
    [j \in Job |-> IF j \in S
                   THEN [rows[j] EXCEPT !.status = "running", !.lockedBy = w, !.elapsed = FALSE]
                   ELSE rows[j]]

\* claim_jobs: status, attempts + 1 and the lock; neither attempts nor
\* max_attempts is looked at.
Claimed(w, S) ==
    [j \in Job |-> IF j \in S
                   THEN [status |-> "running", attempts |-> Bump(rows[j].attempts),
                         lockedBy |-> w, elapsed |-> FALSE]
                   ELSE rows[j]]

\* complete_job and fail_job name the row by id alone: whatever state it is in
\* now and whoever holds it, they overwrite it.  A deleted row matches nothing.
Unlocked(j, status) ==
    IF rows[j].status = "deleted" THEN rows
    ELSE [rows EXCEPT ![j] = [status |-> status, attempts |-> rows[j].attempts,
                              lockedBy |-> None, elapsed |-> FALSE]]

CompleteJob(c) == Unlocked(c.job, "completed")

\* Mutation: exhausted jobs get the status 'failed' that nothing else knows.
FailJobFailed(c) ==
    Unlocked(c.job, IF c.attempts >= MaxAttempts THEN "failed" ELSE "pending")

\* Mutation: the attempt that just failed is counted twice.
FailJobEarly(c) ==
    Unlocked(c.job, IF c.attempts + 1 >= MaxAttempts THEN "dead" ELSE "pending")

\* fail_job decides with the attempts of the worker's copy, not the row's; the
\* retry waits for its backoff (elapsed is FALSE).
FailJob(c) ==
    Unlocked(c.job, IF c.attempts >= MaxAttempts THEN "dead" ELSE "pending")

\* Mutation: recovery without the comparison with NOW().
StaleAnyLock(j) == rows[j].status = "running"

Stale(j) == rows[j].status = "running" /\ rows[j].elapsed

\* Mutations: recovery keeps the lock; recovery starts the attempts afresh.
RecoveredLocked ==
    [j \in Job |-> IF Stale(j) THEN [rows[j] EXCEPT !.status = "pending"] ELSE rows[j]]

\* recover_stale_jobs: pending and due at once; attempts stay as they are.
Recovered ==
    [j \in Job |-> IF Stale(j)
                   THEN [rows[j] EXCEPT !.status = "pending", !.lockedBy = None]
                   ELSE rows[j]]

Expired(j) == rows[j].status \in Finished /\ rows[j].elapsed

\* cleanup_finished_jobs
Cleaned ==
    [j \in Job |-> IF Expired(j) THEN [rows[j] EXCEPT !.status = "deleted"]
                   ELSE rows[j]]

-----------------------------------------------------------------------------
Init ==
    /\ rows = [j \in Job |-> [status |-> "new", attempts |-> 0,
                              lockedBy |-> None, elapsed |-> FALSE]]
    /\ ahead = [j \in Job |-> {}]
    /\ life = [w \in Worker |-> "new"]
    /\ mem = [w \in Worker |-> Idle]

(* The API and the clock.                                                  *)

\* enqueue schedules for now, enqueue_at for any later time.
Enqueue(j) ==
    /\ rows[j].status = "new"
    /\ \E now \in BOOLEAN :
          rows' = [rows EXCEPT ![j].status = "pending", ![j].elapsed = now]
    /\ Reorder
    /\ UNCHANGED <<life, mem>>

\* The row's scheduled_at, locked_until or retention cutoff passes.  A lock
\* covers a whole batch that is processed one job after the other, so it can
\* lapse under a worker that is alive, unless LocksCanLapse rules that out.
TimePasses(j) ==
    /\ rows[j].status \in {"pending", "running"} \cup Finished
    /\ ~rows[j].elapsed
    /\ \/ rows[j].status # "running"
       \/ LocksCanLapse
       \/ \A w \in Worker : Up(w) => ~Holds(w, j)
    /\ rows' = [rows EXCEPT ![j].elapsed = TRUE]
    /\ Reorder
    /\ UNCHANGED <<life, mem>>

\* Mutation: the retry takes every finished job.
AdminRetryFinished(j) ==
    /\ rows[j].status \in Finished
    /\ rows' = [rows EXCEPT ![j] = [status |-> "pending", attempts |-> 0,
                                    lockedBy |-> None, elapsed |-> TRUE]]
    /\ Reorder
    /\ UNCHANGED <<life, mem>>

\* POST /v1/admin/jobs/{id}/retry, one transaction with the row locked.  The
\* status 'failed' it also accepts is never written by any code.
AdminRetry(j) ==
    /\ rows[j].status = "dead"
    /\ rows' = [rows EXCEPT ![j] = [status |-> "pending", attempts |-> 0,
                                    lockedBy |-> None, elapsed |-> TRUE]]
    /\ Reorder
    /\ UNCHANGED <<life, mem>>

\* POST /v1/admin/jobs/recover-stale
AdminRecover ==
    /\ rows' = Recovered
    /\ Reorder
    /\ UNCHANGED <<life, mem>>

-----------------------------------------------------------------------------
(* One iteration of the worker's select loop.                              *)

\* The for loop takes the next copy: no await lies between two jobs.
Proceed(w, copies) ==
    IF copies = {} THEN mem' = [mem EXCEPT ![w] = Idle]
    ELSE \E c \in copies :
            mem' = [mem EXCEPT ![w] = [current |-> c, rest |-> copies \ {c}]]

\* poll_and_process: the claim, and the first job of the batch.
Poll(w) ==
    /\ Looping(w)
    /\ \E S \in SUBSET Due :
          /\ Oldest(S)
          /\ rows' = Claimed(w, S)
          /\ Proceed(w, {[job |-> j, attempts |-> Bump(rows[j].attempts)] : j \in S})
    /\ Reorder
    /\ UNCHANGED life

\* The claim commits and its answer is lost: "Failed to claim jobs".
PollLost(w) ==
    /\ Looping(w)
    /\ \E S \in SUBSET Due : Oldest(S) /\ rows' = Claimed(w, S)
    /\ Reorder
    /\ UNCHANGED <<life, mem>>

\* The handler returns Ok and complete_job runs, or it returns Err (or there is
\* none for this kind) and fail_job runs.  What other processes do between the
\* two, they could as well have done while the handler was running.
Record(w) ==
    /\ Working(w)
    /\ LET c == mem[w].current
       IN  \/ c.job \notin Unhandled /\ rows' = CompleteJob(c)
           \/ rows' = FailJob(c)
    /\ Proceed(w, mem[w].rest)
    /\ Reorder
    /\ UNCHANGED life

\* That statement fails: the error is logged and the loop goes on.
RecordLost(w) ==
    /\ Working(w)
    /\ Proceed(w, mem[w].rest)
    /\ UNCHANGED <<rows, ahead, life>>

\* The recovery tick runs two statements; the loop ignores the failure of
\* either, so each may take effect without the other.
RecoverStale(w) ==
    /\ Looping(w)
    /\ rows' = Recovered
    /\ Reorder
    /\ UNCHANGED <<life, mem>>

CleanupOld(w) ==
    /\ Looping(w)
    /\ rows' = Cleaned
    /\ Reorder
    /\ UNCHANGED <<life, mem>>

-----------------------------------------------------------------------------
(* Processes.                                                              *)

Start(w) ==
    /\ life[w] = "new"
    /\ life' = [life EXCEPT ![w] = "live"]
    /\ UNCHANGED <<rows, ahead, mem>>

\* The server has stopped; shutdown_tx.send(true).
Signal(w) ==
    /\ life[w] = "live"
    /\ life' = [life EXCEPT ![w] = "draining"]
    /\ UNCHANGED <<rows, ahead, mem>>

\* The select loop takes the shutdown branch and run returns; or main has waited
\* ten seconds for it and ends the process, whatever the worker is doing.
Exit(w) ==
    /\ life[w] = "draining"
    /\ life' = [life EXCEPT ![w] = "gone"]
    /\ mem' = [mem EXCEPT ![w] = Idle]
    /\ UNCHANGED <<rows, ahead>>

Crash(w) ==
    /\ life[w] = "live"
    /\ life' = [life EXCEPT ![w] = "gone"]
    /\ mem' = [mem EXCEPT ![w] = Idle]
    /\ UNCHANGED <<rows, ahead>>

\* The deployment replaces what stops.  The bound on stops: one instance is
\* always left that runs or can be started.
Replaceable(w) == \E v \in Worker \ {w} : life[v] \in {"new", "live"}

Step(w) ==
    \/ Poll(w) \/ PollLost(w) \/ Record(w) \/ RecordLost(w)
    \/ RecoverStale(w) \/ CleanupOld(w)

Process(w) ==
    \/ Start(w)
    \/ Replaceable(w) /\ (Signal(w) \/ Crash(w))
    \/ Exit(w)

Next ==
    \/ \E j \in Job : Enqueue(j) \/ TimePasses(j) \/ AdminRetry(j)
    \/ AdminRecover
    \/ \E w \in Worker : Step(w) \/ Process(w)

Spec == Init /\ [][Next]_vars

-----------------------------------------------------------------------------
(* Properties.                                                             *)

\* Every variable has its type; attempts never leave 0..MaxAttempts + 1.
TypeOK ==
    /\ rows \in [Job -> Row]
    /\ ahead \in [Job -> SUBSET Job]
    /\ life \in [Worker -> {"new", "live", "draining", "gone"}]
    /\ mem \in [Worker -> Memory]

\* A row has a lock exactly while it is running: no path (settling by a worker
\* that lost its lock included) leaves a lock behind that nothing will ever
\* expire, or a running row that recover_stale_jobs cannot see.
LockMatchesStatus ==
    \A j \in Job : rows[j].status = "running" <=> rows[j].lockedBy # None

\* Only the operator's retry lowers the attempts of a row: no recovery, late
\* result or clean-up gives a failing job a new set of attempts.
AttemptsOnlyGrow ==
    [][\A j \in Job : \/ rows'[j].attempts >= rows[j].attempts
                      \/ rows[j].status = "dead" /\ rows'[j].status = "pending"]_vars

\* Every job that was enqueued is completed or dead-lettered at some time, even
\* with locks that lapse, workers that crash, statements that fail now and then
\* and an operator that retries other jobs for ever.
EveryJobSettles ==
    \A j \in Job : (rows[j].status \in {"pending", "running"})
                      ~> (rows[j].status \in Finished)

(* What holds as long as no lock lapses under a worker that is alive.      *)

\* The lease: while a worker has a copy of a job that it has not settled, the row
\* is running under a lock of this worker that has not lapsed, and has not been
\* claimed since.
HolderHasLease ==
    \A w \in Worker : \A c \in Held(w) :
        /\ rows[c.job].status = "running"
        /\ rows[c.job].lockedBy = w
        /\ rows[c.job].attempts = c.attempts
        /\ ~rows[c.job].elapsed

\* Only a running process has a batch.
BatchNeedsProcess == \A w \in Worker : Held(w) # {} => Up(w)

\* The job in the handler is not handed out by the batch a second time, and the
\* loop is over only when the batch is.
CurrentIsTaken ==
    \A w \in Worker : /\ mem[w].current \notin mem[w].rest
                      /\ mem[w].current = NoCopy => mem[w].rest = {}

\* No two workers run the handler of one job at the same time.
OneDelivery ==
    \A w, v \in Worker, j \in Job : Delivering(w, j) /\ Delivering(v, j) => w = v

\* A dead job has used up its attempts since it was enqueued or retried.
DeadMeansExhausted ==
    \A j \in Job : rows[j].status = "dead" => rows[j].attempts >= MaxAttempts

\* The invariant of the lease discipline: what the steps of all workers, of the
\* clock and of the operators preserve together.
LeaseInv ==
    HolderHasLease /\ BatchNeedsProcess /\ CurrentIsTaken /\ DeadMeansExhausted

\* ADR 0018: "Dead-lettering after `max_attempts`": no job is delivered more
\* often than that.  Violated: a job whose worker has died is claimed once more
\* (JobQueueAttempts.cfg).
AttemptsWithinLimit ==
    \A j \in Job : rows[j].attempts <= MaxAttempts

(* The queue implements its contract.                                      *)

StageOf(j) ==
    CASE rows[j].status = "pending" -> "waiting"
      [] rows[j].status = "running" ->
            IF \E w \in Worker : rows[j].lockedBy = w /\ Holds(w, j)
            THEN "taken" ELSE "orphaned"
      [] OTHER -> rows[j].status

stage == [j \in Job |-> StageOf(j)]
owner == [j \in Job |-> IF stage[j] = "taken" THEN rows[j].lockedBy ELSE None]

Contract == INSTANCE QueueContract WITH stage <- stage, owner <- owner

ContractSpec == Contract!ContractSpec

(* Fairness.  A worker that runs goes on with its loop, and tokio's select  *)
(* takes each of its ready branches again and again; a moment in time      *)
(* comes; of the statements that settle one job not every one fails, and   *)
(* the answers of claims are not lost for ever.  Which of the due jobs a   *)
(* claim takes is left to the claim.                                       *)

Settles(j) == \E w \in Worker : mem[w].current.job = j /\ Record(w)

Fairness ==
    /\ \A j \in Job : WF_vars(TimePasses(j)) /\ SF_vars(Settles(j))
    /\ \A w \in Worker : WF_vars(Start(w)) /\ WF_vars(Record(w) \/ RecordLost(w))
    /\ SF_vars(\E w \in Worker : Poll(w))
    /\ SF_vars(\E w \in Worker : RecoverStale(w))
    /\ <>[][\A w \in Worker : ~PollLost(w)]_vars

FairSpec == Spec /\ Fairness

=============================================================================
