---------------------------- MODULE JobQueueProofs ----------------------------
(***************************************************************************)
(* What JobQueue promises for every set of jobs and workers, every batch   *)
(* size and every max_attempts.  The typing and the lock of a row hold     *)
(* always; that a worker's copies are its leases, and what follows from    *)
(* it, under the assumption that no lock lapses under a live worker.       *)
(***************************************************************************)
EXTENDS JobQueue, TLAPS

-----------------------------------------------------------------------------
(* Typing.                                                                 *)

\* Bump stays within the counter's range and never goes down.
LEMMA BumpRange ==
    ASSUME NEW n \in Attempts
    PROVE  Bump(n) \in Attempts /\ Bump(n) >= n
BY QueueAssumption DEF Attempts, Bump

\* The order of the due rows is rebuilt from due rows only.
LEMMA ReorderType ==
    ASSUME TypeOK, Reorder
    PROVE  ahead' \in [Job -> SUBSET Job]
<1>1. Due \subseteq Job
  BY DEF Due
<1>2. QED
  BY <1>1 DEF TypeOK, Reorder

\* Settling a row by its id keeps the table well formed.
LEMMA UnlockedType ==
    ASSUME TypeOK, NEW j \in Job, NEW status \in Status
    PROVE  Unlocked(j, status) \in [Job -> Row]
BY DEF TypeOK, Unlocked, Row

\* Whatever copy the loop takes next, the memory keeps its shape.
LEMMA ProceedType ==
    ASSUME TypeOK, NEW w \in Worker, NEW copies \in SUBSET Copy, Proceed(w, copies)
    PROVE  mem' \in [Worker -> Memory]
<1>1. Idle \in Memory
  BY DEF Idle, Memory
<1>2. CASE copies = {}
  BY <1>1, <1>2 DEF Proceed, TypeOK
<1>3. CASE copies # {}
  <2>1. PICK c \in copies :
           mem' = [mem EXCEPT ![w] = [current |-> c, rest |-> copies \ {c}]]
    BY <1>3 DEF Proceed
  <2>2. [current |-> c, rest |-> copies \ {c}] \in Memory
    BY DEF Memory
  <2>3. QED
    BY <2>1, <2>2 DEF TypeOK
<1>4. QED
  BY <1>2, <1>3

\* A claim makes well-formed rows.
LEMMA ClaimedType ==
    ASSUME TypeOK, NEW w \in Worker, NEW S
    PROVE  Claimed(w, S) \in [Job -> Row]
<1>1. ASSUME NEW j \in Job
      PROVE  [status |-> "running", attempts |-> Bump(rows[j].attempts),
              lockedBy |-> w, elapsed |-> FALSE] \in Row
  <2>1. rows[j].attempts \in Attempts
    BY DEF TypeOK, Row
  <2>2. QED
    BY <2>1, BumpRange DEF Row, Status
<1>2. QED
  BY <1>1 DEF Claimed, TypeOK

\* The current copy of a working instance is a copy of a job.
LEMMA WorkingCopy ==
    ASSUME TypeOK, NEW w \in Worker, Working(w)
    PROVE  mem[w].current \in Copy /\ mem[w].rest \in SUBSET Copy
BY DEF TypeOK, Working, Memory

LEMMA TypeInit == Init => TypeOK
<1>1. 0 \in Attempts
  BY QueueAssumption DEF Attempts
<1>2. Idle \in Memory
  BY DEF Idle, Memory
<1>3. QED
  BY <1>1, <1>2 DEF Init, TypeOK, Row, Status

LEMMA TypeStep == TypeOK /\ [Next]_vars => TypeOK'
<1> SUFFICES ASSUME TypeOK, [Next]_vars
             PROVE  TypeOK'
  OBVIOUS
<1>1. ASSUME NEW j \in Job, Enqueue(j)
      PROVE  TypeOK'
  <2>1. PICK now \in BOOLEAN :
           rows' = [rows EXCEPT ![j].status = "pending", ![j].elapsed = now]
    BY <1>1 DEF Enqueue
  <2>2. [rows[j] EXCEPT !.status = "pending", !.elapsed = now] \in Row
    BY DEF TypeOK, Row, Status
  <2>3. rows' = [rows EXCEPT ![j] = [rows[j] EXCEPT !.status = "pending", !.elapsed = now]]
    BY <2>1 DEF TypeOK, Row
  <2>4. rows' \in [Job -> Row]
    BY <2>2, <2>3 DEF TypeOK
  <2>5. QED
    BY <1>1, <2>4, ReorderType DEF Enqueue, TypeOK
<1>2. ASSUME NEW j \in Job, TimePasses(j)
      PROVE  TypeOK'
  <2>1. rows' \in [Job -> Row]
    BY <1>2 DEF TimePasses, TypeOK, Row
  <2>2. QED
    BY <1>2, <2>1, ReorderType DEF TimePasses, TypeOK
<1>3. ASSUME NEW j \in Job, AdminRetry(j)
      PROVE  TypeOK'
  <2>1. 0 \in Attempts
    BY QueueAssumption DEF Attempts
  <2>2. rows' \in [Job -> Row]
    BY <1>3, <2>1 DEF AdminRetry, TypeOK, Row, Status
  <2>3. QED
    BY <1>3, <2>2, ReorderType DEF AdminRetry, TypeOK
<1>4. Recovered \in [Job -> Row] /\ Cleaned \in [Job -> Row]
  BY DEF Recovered, Cleaned, TypeOK, Row, Status
<1>5. CASE AdminRecover
  BY <1>4, <1>5, ReorderType DEF AdminRecover, TypeOK
<1>6. ASSUME NEW w \in Worker, Poll(w)
      PROVE  TypeOK'
  <2>1. PICK S \in SUBSET Due :
           /\ rows' = Claimed(w, S)
           /\ Proceed(w, {[job |-> j, attempts |-> Bump(rows[j].attempts)] : j \in S})
    BY <1>6 DEF Poll
  <2>2. \A j \in S : [job |-> j, attempts |-> Bump(rows[j].attempts)] \in Copy
    <3>1. TAKE j \in S
    <3>2. j \in Job
      BY DEF Due
    <3>3. rows[j].attempts \in Attempts
      BY <3>2 DEF TypeOK, Row
    <3>4. QED
      BY <3>2, <3>3, BumpRange DEF Copy
  <2>3. mem' \in [Worker -> Memory]
    BY <2>1, <2>2, ProceedType
  <2>4. QED
    BY <1>6, <2>1, <2>3, ClaimedType, ReorderType DEF Poll, TypeOK
<1>7. ASSUME NEW w \in Worker, PollLost(w)
      PROVE  TypeOK'
  BY <1>7, ClaimedType, ReorderType DEF PollLost, TypeOK
<1>8. ASSUME NEW w \in Worker, Record(w)
      PROVE  TypeOK'
  <2>1. mem[w].current \in Copy /\ mem[w].rest \in SUBSET Copy
    BY <1>8, WorkingCopy DEF Record
  <2>2. rows' \in [Job -> Row]
    BY <1>8, <2>1, UnlockedType DEF Record, CompleteJob, FailJob, Copy, Status
  <2>3. mem' \in [Worker -> Memory]
    BY <1>8, <2>1, ProceedType DEF Record
  <2>4. QED
    BY <1>8, <2>2, <2>3, ReorderType DEF Record, TypeOK
<1>9. ASSUME NEW w \in Worker, RecordLost(w)
      PROVE  TypeOK'
  <2>1. mem' \in [Worker -> Memory]
    BY <1>9, WorkingCopy, ProceedType DEF RecordLost
  <2>2. QED
    BY <1>9, <2>1 DEF RecordLost, TypeOK
<1>10. ASSUME NEW w \in Worker, RecoverStale(w) \/ CleanupOld(w)
       PROVE  TypeOK'
  BY <1>4, <1>10, ReorderType DEF RecoverStale, CleanupOld, TypeOK
<1>11. ASSUME NEW w \in Worker, Process(w)
       PROVE  TypeOK'
  <2>1. Idle \in Memory
    BY DEF Idle, Memory
  <2>2. QED
    BY <1>11, <2>1 DEF Process, Start, Signal, Crash, Exit, TypeOK
<1>12. CASE UNCHANGED vars
  BY <1>12 DEF vars, TypeOK
<1>13. QED
  BY <1>1, <1>2, <1>3, <1>5, <1>6, <1>7, <1>8, <1>9, <1>10, <1>11, <1>12
     DEF Next, Step

\* Every variable keeps its type whatever the sizes of the instance.
THEOREM TypeCorrect == Spec => []TypeOK
BY TypeInit, TypeStep, PTL DEF Spec

-----------------------------------------------------------------------------
(* Locks.                                                                  *)

LEMMA LockStep == TypeOK /\ LockMatchesStatus /\ [Next]_vars => LockMatchesStatus'
<1> SUFFICES ASSUME TypeOK, LockMatchesStatus, [Next]_vars, NEW k \in Job
             PROVE  rows'[k].status = "running" <=> rows'[k].lockedBy # None
  BY DEF LockMatchesStatus
<1> USE DEF TypeOK, Row, LockMatchesStatus
<1>1. ASSUME NEW j \in Job, Enqueue(j)
      PROVE  rows'[k].status = "running" <=> rows'[k].lockedBy # None
  BY <1>1 DEF Enqueue
<1>2. ASSUME NEW j \in Job, TimePasses(j)
      PROVE  rows'[k].status = "running" <=> rows'[k].lockedBy # None
  BY <1>2 DEF TimePasses
<1>3. ASSUME NEW j \in Job, AdminRetry(j)
      PROVE  rows'[k].status = "running" <=> rows'[k].lockedBy # None
  BY <1>3 DEF AdminRetry
<1>4. ASSUME rows' = Recovered
      PROVE  rows'[k].status = "running" <=> rows'[k].lockedBy # None
  BY <1>4 DEF Recovered
<1>5. ASSUME rows' = Cleaned
      PROVE  rows'[k].status = "running" <=> rows'[k].lockedBy # None
  BY <1>5 DEF Cleaned, Expired, Finished
<1>6. ASSUME NEW w \in Worker, NEW S, rows' = Claimed(w, S)
      PROVE  rows'[k].status = "running" <=> rows'[k].lockedBy # None
  BY <1>6, QueueAssumption DEF Claimed
<1>7. ASSUME NEW w \in Worker, Record(w)
      PROVE  rows'[k].status = "running" <=> rows'[k].lockedBy # None
  <2>1. PICK status \in Status \ {"running"} : rows' = Unlocked(mem[w].current.job, status)
    BY <1>7 DEF Record, CompleteJob, FailJob, Status
  <2>2. mem[w].current.job \in Job
    BY <1>7, WorkingCopy DEF Record, Copy
  <2>3. QED
    BY <2>1, <2>2 DEF Unlocked
<1>8. CASE rows' = rows
  BY <1>8
<1>9. QED
  BY <1>1, <1>2, <1>3, <1>4, <1>5, <1>6, <1>7, <1>8
     DEF Next, Step, Process, AdminRecover, Poll, PollLost, RecordLost, RecoverStale,
         CleanupOld, Start, Signal, Crash, Exit, vars

\* A row has a lock exactly while it is running, for every instance of the queue,
\* with lapsing locks and with workers that settle jobs they no longer own.
THEOREM LocksMatch == Spec => []LockMatchesStatus
<1>1. Init => LockMatchesStatus
  BY DEF Init, LockMatchesStatus
<1>2. QED
  BY <1>1, LockStep, TypeCorrect, PTL DEF Spec

-----------------------------------------------------------------------------
(* Leases.                                                                 *)

\* The absent copy is not a copy of a job.
LEMMA NoCopyIsNone == NoCopy \notin Copy
BY QueueAssumption DEF NoCopy, Copy

\* What a worker holds is copies of jobs.
LEMMA HeldType ==
    ASSUME TypeOK, NEW w \in Worker
    PROVE  Held(w) \subseteq Copy
BY DEF TypeOK, Memory, Held

\* After the loop has moved on, the worker holds just the copies it was given,
\* the one in the handler is none of the rest, and other workers' memory is as
\* it was.
LEMMA ProceedHeld ==
    ASSUME TypeOK, NEW w \in Worker, NEW copies \in SUBSET Copy, Proceed(w, copies)
    PROVE  /\ Held(w)' = copies
           /\ mem'[w].current \notin mem'[w].rest
           /\ mem'[w].current = NoCopy => mem'[w].rest = {}
           /\ \A v \in Worker \ {w} : mem'[v] = mem[v]
<1>1. CASE copies = {}
  BY <1>1 DEF Proceed, TypeOK, Held, Idle
<1>2. CASE copies # {}
  <2>1. PICK c \in copies :
           mem' = [mem EXCEPT ![w] = [current |-> c, rest |-> copies \ {c}]]
    BY <1>2 DEF Proceed
  <2>2. mem'[w] = [current |-> c, rest |-> copies \ {c}]
    BY <2>1 DEF TypeOK
  <2>3. QED
    BY <2>1, <2>2, NoCopyIsNone DEF TypeOK, Held
<1>3. QED
  BY <1>1, <1>2

\* The lease of a copy in a worker's hands.
Leased(w, c) ==
    /\ rows[c.job].status = "running"
    /\ rows[c.job].lockedBy = w
    /\ rows[c.job].attempts = c.attempts
    /\ ~rows[c.job].elapsed

\* Two copies of one job in one worker's hands are the same copy.
LEMMA OneCopyPerJob ==
    ASSUME TypeOK, HolderHasLease, NEW w \in Worker, NEW c \in Held(w), NEW d \in Held(w),
           c.job = d.job
    PROVE  c = d
BY HeldType DEF HolderHasLease, Copy

\* No step of the clock, an operator or a worker touches the row of a job that
\* somebody holds, unless it is the worker that settles it.
LEMMA HeldRowsAreStable ==
    ASSUME TypeOK, LeaseInv, ~LocksCanLapse, Next,
           NEW v \in Worker, NEW c \in Held(v),
           ~(Record(v) /\ c = mem[v].current)
    PROVE  rows'[c.job] = rows[c.job]
<1>1. Leased(v, c) /\ c \in Copy /\ c.job \in Job /\ Up(v)
  BY HeldType DEF LeaseInv, HolderHasLease, Leased, Copy, BatchNeedsProcess
<1> USE <1>1 DEF Leased, TypeOK
<1>2. ASSUME NEW j \in Job, Enqueue(j) \/ AdminRetry(j)
      PROVE  rows'[c.job] = rows[c.job]
  BY <1>2 DEF Enqueue, AdminRetry
<1>3. ASSUME NEW j \in Job, TimePasses(j)
      PROVE  rows'[c.job] = rows[c.job]
  <2>1. CASE j = c.job
    BY <1>3, <2>1 DEF TimePasses, Holds
  <2>2. CASE j # c.job
    BY <1>3, <2>2 DEF TimePasses
  <2>3. QED
    BY <2>1, <2>2
<1>4. ASSUME rows' = Recovered \/ rows' = Cleaned
      PROVE  rows'[c.job] = rows[c.job]
  BY <1>4 DEF Recovered, Cleaned, Stale, Expired, Finished
<1>5. ASSUME NEW w \in Worker, NEW S \in SUBSET Due, rows' = Claimed(w, S)
      PROVE  rows'[c.job] = rows[c.job]
  BY <1>5 DEF Claimed, Due
<1>6. ASSUME NEW w \in Worker, Record(w)
      PROVE  rows'[c.job] = rows[c.job]
  <2>1. mem[w].current \in Held(w) /\ mem[w].current.job \in Job
    BY <1>6, WorkingCopy, NoCopyIsNone DEF Record, Held, Copy
  <2>2. rows[mem[w].current.job].lockedBy = w
    BY <2>1 DEF LeaseInv, HolderHasLease
  <2>3. mem[w].current.job # c.job
    BY <1>6, <2>1, <2>2, OneCopyPerJob DEF LeaseInv
  <2>4. QED
    BY <1>6, <2>1, <2>3 DEF Record, CompleteJob, FailJob, Unlocked
<1>7. CASE rows' = rows
  BY <1>7
<1>8. QED
  BY <1>2, <1>3, <1>4, <1>5, <1>6, <1>7
     DEF Next, Step, Process, AdminRecover, Poll, PollLost, RecordLost, RecoverStale,
         CleanupOld, Start, Signal, Crash, Exit
LEMMA LeaseInit == Init => LeaseInv
BY NoCopyIsNone
   DEF Init, LeaseInv, HolderHasLease, BatchNeedsProcess, CurrentIsTaken, DeadMeansExhausted,
       Held, Idle

\* The leases survive each step: the claim makes new ones, the settling of a job
\* ends one, and nothing else touches the row of a held job.
LEMMA HolderStep ==
    ASSUME TypeOK, LeaseInv, ~LocksCanLapse, Next
    PROVE  HolderHasLease'
<1> SUFFICES ASSUME NEW v \in Worker, NEW c \in Held(v)'
             PROVE  Leased(v, c)'
  BY DEF HolderHasLease, Leased
<1>1. ASSUME c \in Held(v), ~(Record(v) /\ c = mem[v].current)
      PROVE  Leased(v, c)'
  BY <1>1, HeldRowsAreStable DEF LeaseInv, HolderHasLease, Leased
<1>2. ASSUME NEW w \in Worker, Poll(w)
      PROVE  Leased(v, c)'
  <2>1. PICK S \in SUBSET Due :
           /\ rows' = Claimed(w, S)
           /\ Proceed(w, {[job |-> j, attempts |-> Bump(rows[j].attempts)] : j \in S})
    BY <1>2 DEF Poll
  <2>2. S \subseteq Job
    BY DEF Due
  <2>3. \A j \in S : [job |-> j, attempts |-> Bump(rows[j].attempts)] \in Copy
    BY <2>2, BumpRange DEF Copy, TypeOK, Row
  <2>4. v = w => c \in {[job |-> j, attempts |-> Bump(rows[j].attempts)] : j \in S}
    BY <2>1, <2>3, ProceedHeld
  <2>5. CASE v = w
    <3>1. PICK j \in S : c = [job |-> j, attempts |-> Bump(rows[j].attempts)]
      BY <2>4, <2>5
    <3>2. rows'[j] = [status |-> "running", attempts |-> Bump(rows[j].attempts),
                      lockedBy |-> w, elapsed |-> FALSE]
      BY <2>1, <2>2 DEF Claimed
    <3>3. QED
      BY <2>5, <3>1, <3>2 DEF Leased
  <2>6. CASE v # w
    <3>1. mem'[v] = mem[v]
      BY <2>1, <2>3, <2>6, ProceedHeld
    <3>2. c \in Held(v)
      BY <3>1 DEF Held
    <3>3. Leased(v, c) /\ c.job \in Job
      BY <3>2, HeldType DEF LeaseInv, HolderHasLease, Leased, Copy
    <3>4. rows'[c.job] = rows[c.job]
      BY <2>1, <3>3 DEF Claimed, Due, Leased
    <3>5. QED
      BY <3>3, <3>4 DEF Leased
  <2>7. QED
    BY <2>5, <2>6
<1>3. ASSUME NEW w \in Worker, Record(w)
      PROVE  Leased(v, c)'
  <2>1. Proceed(w, mem[w].rest) /\ mem[w].rest \in SUBSET Copy
    BY <1>3, WorkingCopy DEF Record
  <2>2. CASE v = w
    <3>1. c \in mem[w].rest /\ c \in Held(w) /\ c # mem[w].current
      BY <2>1, <2>2, ProceedHeld, NoCopyIsNone DEF Held, LeaseInv, CurrentIsTaken
    <3>2. QED
      BY <1>1, <2>2, <3>1
  <2>3. CASE v # w
    <3>1. mem'[v] = mem[v]
      BY <2>1, <2>3, ProceedHeld
    <3>2. c \in Held(v)
      BY <3>1 DEF Held
    <3>3. rows'[c.job] = rows[c.job]
      <4>1. Leased(v, c) /\ c.job \in Job
        BY <3>2, HeldType DEF LeaseInv, HolderHasLease, Leased, Copy
      <4>2. mem[w].current \in Held(w) /\ mem[w].current.job \in Job
        BY <1>3, WorkingCopy, NoCopyIsNone DEF Record, Held, Copy
      <4>3. mem[w].current.job # c.job
        BY <2>3, <4>1, <4>2 DEF LeaseInv, HolderHasLease, Leased
      <4>4. QED
        BY <1>3, <4>1, <4>2, <4>3 DEF Record, CompleteJob, FailJob, Unlocked, TypeOK
    <3>4. QED
      BY <3>2, <3>3 DEF LeaseInv, HolderHasLease, Leased
  <2>4. QED
    BY <2>2, <2>3
<1>4. ASSUME NEW w \in Worker, RecordLost(w)
      PROVE  Leased(v, c)'
  <2>1. Proceed(w, mem[w].rest) /\ mem[w].rest \in SUBSET Copy
    BY <1>4, WorkingCopy DEF RecordLost
  <2>2. v = w => c \in mem[w].rest
    BY <2>1, ProceedHeld
  <2>3. c \in Held(v)
    BY <2>1, <2>2, ProceedHeld, NoCopyIsNone DEF Held
  <2>4. QED
    BY <1>4, <2>3 DEF RecordLost, LeaseInv, HolderHasLease, Leased
<1>5. ASSUME NEW w \in Worker, Process(w)
      PROVE  Leased(v, c)'
  <2>1. c \in Held(v) /\ rows' = rows
    BY <1>5, NoCopyIsNone DEF Process, Start, Signal, Crash, Exit, Held, Idle, TypeOK
  <2>2. QED
    BY <2>1 DEF LeaseInv, HolderHasLease, Leased
<1>6. CASE /\ UNCHANGED mem
           /\ \A w \in Worker : ~Record(w)
  BY <1>1, <1>6 DEF Held
<1>7. ASSUME UNCHANGED mem, NEW w \in Worker, Record(w)
      PROVE  Leased(v, c)'
  BY <1>3, <1>7
<1>8. QED
  BY <1>2, <1>3, <1>4, <1>5, <1>6, <1>7
     DEF Next, Step, AdminRecover, PollLost, RecoverStale, CleanupOld,
         Enqueue, TimePasses, AdminRetry

LEMMA BatchStep ==
    ASSUME TypeOK, LeaseInv, Next
    PROVE  BatchNeedsProcess' /\ CurrentIsTaken'
<1> USE DEF LeaseInv, BatchNeedsProcess, CurrentIsTaken, TypeOK
<1>1. ASSUME NEW w \in Worker, NEW copies \in SUBSET Copy, Proceed(w, copies), Up(w), UNCHANGED life
      PROVE  BatchNeedsProcess' /\ CurrentIsTaken'
  BY <1>1, ProceedHeld DEF Up, Held
<1>2. ASSUME NEW w \in Worker, Poll(w)
      PROVE  BatchNeedsProcess' /\ CurrentIsTaken'
  <2>1. PICK S \in SUBSET Due :
           Proceed(w, {[job |-> j, attempts |-> Bump(rows[j].attempts)] : j \in S})
    BY <1>2 DEF Poll
  <2>2. \A j \in S : [job |-> j, attempts |-> Bump(rows[j].attempts)] \in Copy
    BY BumpRange DEF Due, Copy, Row
  <2>3. QED
    BY <1>1, <1>2, <2>1, <2>2 DEF Poll, Looping
<1>3. ASSUME NEW w \in Worker, Record(w) \/ RecordLost(w)
      PROVE  BatchNeedsProcess' /\ CurrentIsTaken'
  BY <1>1, <1>3, WorkingCopy DEF Record, RecordLost, Working
<1>4. ASSUME NEW w \in Worker, Process(w)
      PROVE  BatchNeedsProcess' /\ CurrentIsTaken'
  BY <1>4 DEF Process, Start, Signal, Crash, Exit, Held, Idle, Up
<1>5. CASE UNCHANGED <<life, mem>>
  BY <1>5 DEF Held, Up
<1>6. QED
  BY <1>2, <1>3, <1>4, <1>5
     DEF Next, Step, AdminRecover, PollLost, RecoverStale, CleanupOld,
         Enqueue, TimePasses, AdminRetry

\* A worker dead-letters only what its own, current, attempts have used up.
LEMMA DeadStep ==
    ASSUME TypeOK, LeaseInv, Next
    PROVE  DeadMeansExhausted'
<1> SUFFICES ASSUME NEW k \in Job, rows'[k].status = "dead"
             PROVE  rows'[k].attempts >= MaxAttempts
  BY DEF DeadMeansExhausted
<1> USE DEF TypeOK, LeaseInv, DeadMeansExhausted
<1>1. ASSUME NEW w \in Worker, Record(w)
      PROVE  rows'[k].attempts >= MaxAttempts
  <2>1. mem[w].current \in Held(w) /\ mem[w].current.job \in Job
    BY <1>1, WorkingCopy, NoCopyIsNone DEF Record, Held, Copy
  <2>2. rows[mem[w].current.job].attempts = mem[w].current.attempts
    BY <2>1 DEF HolderHasLease
  <2>3. QED
    BY <1>1, <2>1, <2>2 DEF Record, CompleteJob, FailJob, Unlocked
<1>2. ASSUME NEW j \in Job, Enqueue(j) \/ TimePasses(j) \/ AdminRetry(j)
      PROVE  rows'[k].attempts >= MaxAttempts
  BY <1>2 DEF Enqueue, TimePasses, AdminRetry, Row
<1>3. ASSUME rows' = Recovered \/ rows' = Cleaned
      PROVE  rows'[k].attempts >= MaxAttempts
  BY <1>3 DEF Recovered, Cleaned, Row
<1>4. ASSUME NEW w \in Worker, NEW S \in SUBSET Due, rows' = Claimed(w, S)
      PROVE  rows'[k].attempts >= MaxAttempts
  BY <1>4 DEF Claimed
<1>5. CASE rows' = rows
  BY <1>5
<1>6. QED
  BY <1>1, <1>2, <1>3, <1>4, <1>5
     DEF Next, Step, Process, AdminRecover, Poll, PollLost, RecordLost, RecoverStale,
         CleanupOld, Start, Signal, Crash, Exit

\* The lease discipline is an invariant of every queue whose locks outlast the
\* batches of the workers that are alive.
THEOREM LeasesHold ==
    ASSUME ~LocksCanLapse
    PROVE  Spec => []LeaseInv
<1>1. TypeOK /\ LeaseInv /\ [Next]_vars => LeaseInv'
  <2>1. ASSUME TypeOK, LeaseInv, Next
        PROVE  LeaseInv'
    BY <2>1, HolderStep, BatchStep, DeadStep DEF LeaseInv
  <2>2. ASSUME LeaseInv, UNCHANGED vars
        PROVE  LeaseInv'
    BY <2>2 DEF LeaseInv, HolderHasLease, BatchNeedsProcess, CurrentIsTaken,
                DeadMeansExhausted, Held, Up, vars
  <2>3. QED
    BY <2>1, <2>2
<1>2. QED
  BY <1>1, LeaseInit, TypeCorrect, PTL DEF Spec

\* Then no two workers ever run the handler of one job at the same time.
THEOREM OneDeliveryAtATime ==
    ASSUME ~LocksCanLapse
    PROVE  Spec => []OneDelivery
<1>1. TypeOK /\ LeaseInv => OneDelivery
  <2> SUFFICES ASSUME TypeOK, LeaseInv, NEW w \in Worker, NEW v \in Worker, NEW j \in Job,
                      Delivering(w, j), Delivering(v, j)
               PROVE  w = v
    BY DEF OneDelivery
  <2>1. mem[w].current \in Held(w) /\ mem[v].current \in Held(v)
    BY QueueAssumption DEF Delivering, Held, NoCopy
  <2>2. QED
    BY <2>1 DEF Delivering, LeaseInv, HolderHasLease
<1>2. QED
  BY <1>1, TypeCorrect, LeasesHold, PTL

\* And only a job that has used up its attempts is dead-lettered.
THEOREM DeadAreExhausted ==
    ASSUME ~LocksCanLapse
    PROVE  Spec => []DeadMeansExhausted
<1>1. LeaseInv => DeadMeansExhausted
  BY DEF LeaseInv
<1>2. QED
  BY <1>1, LeasesHold, PTL

-----------------------------------------------------------------------------
(* Attempts.                                                               *)

\* Only the operator's retry lowers the attempts of a row, in every queue.
THEOREM AttemptsGrow == Spec => AttemptsOnlyGrow
<1>1. ASSUME TypeOK, Next, NEW k \in Job
      PROVE  \/ rows'[k].attempts >= rows[k].attempts
             \/ rows[k].status = "dead" /\ rows'[k].status = "pending"
  <2>1. /\ rows \in [Job -> Row]
        /\ \A j \in Job : rows[j].attempts \in Nat
    BY <1>1, QueueAssumption DEF TypeOK, Row, Attempts
  <2>2. ASSUME NEW j \in Job, Enqueue(j) \/ TimePasses(j) \/ AdminRetry(j)
        PROVE  \/ rows'[k].attempts >= rows[k].attempts
               \/ rows[k].status = "dead" /\ rows'[k].status = "pending"
    BY <2>1, <2>2 DEF Enqueue, TimePasses, AdminRetry, Row
  <2>3. ASSUME rows' = Recovered \/ rows' = Cleaned
        PROVE  rows'[k].attempts >= rows[k].attempts
    <3>1. rows'[k].attempts = rows[k].attempts
      BY <2>1, <2>3 DEF Recovered, Cleaned, Row, Stale, Expired
    <3>2. QED
      BY <2>1, <3>1
  <2>4. ASSUME NEW w \in Worker, NEW S \in SUBSET Due, rows' = Claimed(w, S)
        PROVE  rows'[k].attempts >= rows[k].attempts
    BY <2>1, <2>4, QueueAssumption DEF Claimed, Bump
  <2>5. ASSUME NEW w \in Worker, Record(w)
        PROVE  rows'[k].attempts >= rows[k].attempts
    BY <1>1, <2>1, <2>5, WorkingCopy DEF Record, CompleteJob, FailJob, Unlocked, Copy
  <2>6. CASE rows' = rows
    BY <2>1, <2>6
  <2>7. QED
    BY <1>1, <2>2, <2>3, <2>4, <2>5, <2>6
       DEF Next, Step, Process, AdminRecover, Poll, PollLost, RecordLost, RecoverStale,
           CleanupOld, Start, Signal, Crash, Exit
<1>2. TypeOK /\ [Next]_vars =>
        [\A j \in Job : \/ rows'[j].attempts >= rows[j].attempts
                        \/ rows[j].status = "dead" /\ rows'[j].status = "pending"]_vars
  BY <1>1
<1>3. QED
  BY <1>2, TypeCorrect, PTL DEF Spec, AttemptsOnlyGrow
-----------------------------------------------------------------------------
(* The contract.                                                           *)

\* A row whose status and lock stay, and whose holders stay, keeps its stage.
LEMMA StageKept ==
    ASSUME NEW k \in Job,
           rows'[k].status = rows[k].status, rows'[k].lockedBy = rows[k].lockedBy,
           \A w \in Worker : Holds(w, k)' <=> Holds(w, k)
    PROVE  stage'[k] = stage[k] /\ owner'[k] = owner[k]
<1>1. StageOf(k)' = StageOf(k)
  BY DEF StageOf
<1>2. stage[k] = StageOf(k) /\ stage'[k] = StageOf(k)'
  BY DEF stage
<1>3. QED
  BY <1>1, <1>2 DEF owner

\* A step that keeps every row's status, lock and holders is no step of the contract.
LEMMA ContractStutters ==
    ASSUME \A k \in Job : /\ rows'[k].status = rows[k].status
                          /\ rows'[k].lockedBy = rows[k].lockedBy
                          /\ \A w \in Worker : Holds(w, k)' <=> Holds(w, k)
    PROVE  UNCHANGED <<stage, owner>>
<1>1. \A k \in Job : StageOf(k)' = StageOf(k)
  BY DEF StageOf
<1>2. UNCHANGED stage
  BY <1>1 DEF stage
<1>3. QED
  BY <1>2 DEF owner

\* A set of jobs that all go from one stage to another, the others keeping theirs,
\* is a move of the contract.
LEMMA ContractMoves ==
    ASSUME NEW S \in SUBSET Job, NEW from, NEW to, NEW w,
           \A k \in S : stage[k] \in from /\ stage'[k] = to /\ owner'[k] = w,
           \A k \in Job \ S : stage'[k] = stage[k] /\ owner'[k] = owner[k]
    PROVE  Contract!Move(S, from, to, w)
<1>1. stage' = [k \in Job |-> stage'[k]] /\ owner' = [k \in Job |-> owner'[k]]
  BY DEF stage, owner
<1>2. QED
  BY <1>1 DEF Contract!Move

\* A job in somebody's hands is taken, and by nobody else than its lock says.
LEMMA HeldIsTaken ==
    ASSUME TypeOK, LeaseInv, NEW w \in Worker, NEW k \in Job, Holds(w, k)
    PROVE  /\ stage[k] = "taken" /\ owner[k] = w
           /\ rows[k].status = "running" /\ rows[k].lockedBy = w /\ ~rows[k].elapsed
<1>1. rows[k].status = "running" /\ rows[k].lockedBy = w /\ ~rows[k].elapsed
  BY DEF Holds, LeaseInv, HolderHasLease
<1>2. stage[k] = "taken"
  BY <1>1 DEF stage, StageOf
<1>3. QED
  BY <1>1, <1>2 DEF owner

\* The stage of a row that is not running is its status.
LEMMA StageOfStatus ==
    ASSUME NEW k \in Job, rows[k].status # "running"
    PROVE  /\ stage[k] = IF rows[k].status = "pending" THEN "waiting" ELSE rows[k].status
           /\ rows[k].status \in Status => owner[k] = None
<1>1. stage[k] = IF rows[k].status = "pending" THEN "waiting" ELSE rows[k].status
  BY DEF stage, StageOf
<1>2. QED
  BY <1>1 DEF owner, Status

LEMMA ContractInitially == Init => Contract!ContractInit
<1> SUFFICES ASSUME Init
             PROVE  Contract!ContractInit
  OBVIOUS
<1>1. \A k \in Job : stage[k] = "new" /\ owner[k] = None
  BY StageOfStatus DEF Init, Status
<1>2. stage = [k \in Job |-> stage[k]] /\ owner = [k \in Job |-> owner[k]]
  BY DEF stage, owner
<1>3. QED
  BY <1>1, <1>2 DEF Contract!ContractInit
\* The steps of the API, the clock, the operators and the sweeps.
LEMMA ContractOutside ==
    ASSUME TypeOK, LeaseInv, UNCHANGED mem,
           \/ \E j \in Job : Enqueue(j) \/ TimePasses(j) \/ AdminRetry(j)
           \/ rows' = Recovered
           \/ rows' = Cleaned
    PROVE  [Contract!ContractNext]_<<stage, owner>>
<1>1. \A w \in Worker, k \in Job : Holds(w, k)' <=> Holds(w, k)
  BY DEF Holds, Held
<1>2. \A k \in Job : rows'[k] = rows[k] => stage'[k] = stage[k] /\ owner'[k] = owner[k]
  BY <1>1, StageKept
<1>3. rows \in [Job -> Row]
  BY DEF TypeOK
<1>4. ASSUME NEW j \in Job, Enqueue(j)
      PROVE  Contract!Submit(j)
  <2>1. \A k \in Job \ {j} : rows'[k] = rows[k]
    BY <1>3, <1>4 DEF Enqueue
  <2>2. rows[j].status = "new" /\ rows'[j].status = "pending"
    BY <1>3, <1>4 DEF Enqueue, Row
  <2>3. stage[j] = "new"
    BY <2>2, StageOfStatus
  <2>4. stage'[j] = "waiting" /\ owner'[j] = None
    BY <2>2 DEF stage, owner, StageOf
  <2>5. QED
    BY <1>2, <2>1, <2>3, <2>4, ContractMoves DEF Contract!Submit
<1>5. ASSUME NEW j \in Job, TimePasses(j)
      PROVE  UNCHANGED <<stage, owner>>
  <2>1. \A k \in Job : rows'[k].status = rows[k].status /\ rows'[k].lockedBy = rows[k].lockedBy
    BY <1>3, <1>5 DEF TimePasses, Row
  <2>2. QED
    BY <1>1, <2>1, ContractStutters
<1>6. ASSUME NEW j \in Job, AdminRetry(j)
      PROVE  Contract!Retry(j)
  <2>1. \A k \in Job \ {j} : rows'[k] = rows[k]
    BY <1>3, <1>6 DEF AdminRetry
  <2>2. rows[j].status = "dead" /\ rows'[j].status = "pending"
    BY <1>3, <1>6 DEF AdminRetry
  <2>3. stage[j] = "dead"
    BY <2>2, StageOfStatus
  <2>4. stage'[j] = "waiting" /\ owner'[j] = None
    BY <2>2 DEF stage, owner, StageOf
  <2>5. QED
    BY <1>2, <2>1, <2>3, <2>4, ContractMoves DEF Contract!Retry
<1>7. ASSUME rows' = Recovered
      PROVE  Contract!Reclaim({j \in Job : Stale(j)})
  <2> DEFINE S == {j \in Job : Stale(j)}
  <2>1. \A k \in Job \ S : rows'[k] = rows[k]
    BY <1>7 DEF Recovered
  <2>2. \A k \in S : stage[k] = "orphaned"
    <3>1. TAKE k \in S
    <3>2. rows[k].status = "running" /\ rows[k].elapsed
      BY DEF Stale
    <3>3. \A w \in Worker : ~Holds(w, k)
      BY <3>2, HeldIsTaken
    <3>4. QED
      BY <3>2, <3>3 DEF stage, StageOf
  <2>3. \A k \in S : rows'[k].status = "pending"
    BY <1>3, <1>7 DEF Recovered, Row
  <2>4. \A k \in S : stage'[k] = "waiting" /\ owner'[k] = None
    BY <2>3 DEF stage, owner, StageOf
  <2>5. QED
    BY <1>2, <2>1, <2>2, <2>4, ContractMoves DEF Contract!Reclaim
<1>8. ASSUME rows' = Cleaned
      PROVE  Contract!Discard({j \in Job : Expired(j)})
  <2> DEFINE S == {j \in Job : Expired(j)}
  <2>1. \A k \in Job \ S : rows'[k] = rows[k]
    BY <1>8 DEF Cleaned
  <2>2. \A k \in S : stage[k] \in {"completed", "dead"}
    BY StageOfStatus DEF Expired, Finished
  <2>3. \A k \in S : rows'[k].status = "deleted"
    BY <1>3, <1>8 DEF Cleaned, Row
  <2>4. \A k \in S : stage'[k] = "deleted" /\ owner'[k] = None
    BY <2>3 DEF stage, owner, StageOf
  <2>5. QED
    BY <1>2, <2>1, <2>2, <2>4, ContractMoves DEF Contract!Discard
<1>9. QED
  BY <1>4, <1>5, <1>6, <1>7, <1>8 DEF Contract!ContractNext

\* The claim of a batch takes it, and loses it when the answer does not arrive.
LEMMA ContractClaims ==
    ASSUME TypeOK, LeaseInv, NEW w \in Worker, Poll(w) \/ PollLost(w)
    PROVE  [Contract!ContractNext]_<<stage, owner>>
<1>1. mem[w].current = NoCopy /\ mem[w].rest = {} /\ Held(w) = {}
  BY DEF Poll, PollLost, Looping, LeaseInv, CurrentIsTaken, Held
<1>2. ASSUME NEW S \in SUBSET Due, rows' = Claimed(w, S)
      PROVE  /\ \A k \in Job \ S : rows'[k] = rows[k]
             /\ \A k \in S : /\ k \in Job
                             /\ rows'[k].status = "running" /\ rows'[k].lockedBy = w
                             /\ stage[k] = "waiting"
                             /\ \A v \in Worker : ~Holds(v, k)
  <2>1. \A k \in S : k \in Job /\ rows[k].status = "pending"
    BY DEF Due
  <2>2. \A k \in S : stage[k] = "waiting"
    BY <2>1, StageOfStatus
  <2>3. \A k \in S : \A v \in Worker : ~Holds(v, k)
    BY <2>1, HeldIsTaken
  <2>4. QED
    BY <1>2, <2>1, <2>2, <2>3 DEF Claimed
<1>3. ASSUME Poll(w)
      PROVE  \E S \in SUBSET Job : Contract!Take(w, S)
  <2>1. PICK S \in SUBSET Due :
           /\ rows' = Claimed(w, S)
           /\ Proceed(w, {[job |-> j, attempts |-> Bump(rows[j].attempts)] : j \in S})
    BY <1>3 DEF Poll
  <2> DEFINE copies == {[job |-> j, attempts |-> Bump(rows[j].attempts)] : j \in S}
  <2>2. S \subseteq Job
    BY DEF Due
  <2>3. copies \in SUBSET Copy
    BY <2>2, BumpRange DEF Copy, TypeOK, Row
  <2>4. Held(w)' = copies /\ \A v \in Worker \ {w} : mem'[v] = mem[v]
    BY <2>1, <2>3, ProceedHeld
  <2>5. \A k \in Job : Holds(w, k)' <=> k \in S
    <3>1. \A k \in Job : (\E c \in copies : c.job = k) <=> k \in S
      <4>1. \A c \in copies : c.job \in S
        OBVIOUS
      <4>2. ASSUME NEW k \in S
            PROVE  \E c \in copies : c.job = k
        <5>1. [job |-> k, attempts |-> Bump(rows[k].attempts)] \in copies
          OBVIOUS
        <5> HIDE DEF copies
        <5>2. QED
          BY <5>1
      <4>3. QED
        BY <4>1, <4>2
    <3> HIDE DEF copies
    <3>2. \A k \in Job : Holds(w, k)' <=> \E c \in copies : c.job = k
      BY <2>4 DEF Holds
    <3>3. QED
      BY <3>1, <3>2
  <2>6. \A k \in S : stage'[k] = "taken" /\ owner'[k] = w
    BY <1>2, <2>1, <2>5 DEF stage, owner, StageOf
  <2>7. \A k \in Job \ S : \A v \in Worker : Holds(v, k)' <=> Holds(v, k)
    BY <1>1, <2>4, <2>5 DEF Holds, Held
  <2>8. \A k \in Job \ S : stage'[k] = stage[k] /\ owner'[k] = owner[k]
    BY <1>2, <2>1, <2>7, StageKept
  <2>9. Contract!Take(w, S)
    BY <1>2, <2>1, <2>2, <2>6, <2>8, ContractMoves DEF Contract!Take
  <2>10. QED
    BY <2>2, <2>9
<1>4. ASSUME PollLost(w)
      PROVE  \E S \in SUBSET Job : Contract!Lose(S)
  <2>1. PICK S \in SUBSET Due : rows' = Claimed(w, S)
    BY <1>4 DEF PollLost
  <2>2. S \subseteq Job
    BY DEF Due
  <2>3. \A k \in Job : \A v \in Worker : Holds(v, k)' <=> Holds(v, k)
    BY <1>4 DEF PollLost, Holds, Held
  <2>4. \A k \in S : stage'[k] = "orphaned" /\ owner'[k] = None
    BY <1>2, <2>1, <2>3 DEF stage, owner, StageOf
  <2>5. \A k \in Job \ S : stage'[k] = stage[k] /\ owner'[k] = owner[k]
    BY <1>2, <2>1, <2>3, StageKept
  <2>6. Contract!Lose(S)
    BY <1>2, <2>1, <2>2, <2>4, <2>5, ContractMoves DEF Contract!Lose
  <2>7. QED
    BY <2>2, <2>6
<1>5. QED
  BY <1>3, <1>4 DEF Contract!ContractNext

\* What a worker does with the job in its handler: it settles it, or the database
\* does not hear of it and the job is lost.
LEMMA ContractSettles ==
    ASSUME TypeOK, LeaseInv, NEW w \in Worker, Record(w) \/ RecordLost(w)
    PROVE  [Contract!ContractNext]_<<stage, owner>>
<1>0. /\ mem[w].current \in Copy /\ mem[w].rest \in SUBSET Copy
      /\ Proceed(w, mem[w].rest)
  BY WorkingCopy DEF Record, RecordLost
<1>1. PICK c \in Copy, j \in Job, rest \in SUBSET Copy :
         c = mem[w].current /\ j = c.job /\ rest = mem[w].rest
  BY <1>0 DEF Copy
<1>2. c \in Held(w) /\ Holds(w, j) /\ Proceed(w, rest)
  BY <1>0, <1>1, NoCopyIsNone DEF Held, Holds
<1>3. /\ stage[j] = "taken" /\ owner[j] = w
      /\ rows[j].status = "running" /\ rows[j].lockedBy = w
  BY <1>2, HeldIsTaken
<1>4. Held(w) = rest \cup {c} /\ Held(w)' = rest /\ c \notin rest
  BY <1>1, <1>2, ProceedHeld, NoCopyIsNone DEF Held, LeaseInv, CurrentIsTaken
<1>5. \A v \in Worker \ {w}, k \in Job : Holds(v, k)' <=> Holds(v, k)
  BY <1>2, ProceedHeld DEF Holds, Held
<1>6. \A d \in rest : d.job # j
  BY <1>1, <1>2, <1>4, OneCopyPerJob DEF LeaseInv
<1>7. ~Holds(w, j)' /\ \A k \in Job \ {j} : Holds(w, k)' <=> Holds(w, k)
  BY <1>1, <1>4, <1>6 DEF Holds
<1>8. \A k \in Job \ {j} : \A v \in Worker : Holds(v, k)' <=> Holds(v, k)
  BY <1>5, <1>7
<1>9. ASSUME Record(w)
      PROVE  \E outcome \in {"completed", "dead", "waiting"} : Contract!Settle(w, j, outcome)
  <2>1. PICK status \in {"completed", "dead", "pending"} : rows' = Unlocked(j, status)
    BY <1>1, <1>9 DEF Record, CompleteJob, FailJob
  <2>2. rows'[j].status = status /\ \A k \in Job \ {j} : rows'[k] = rows[k]
    BY <1>2, <1>3, <2>1 DEF Unlocked, TypeOK
  <2>3. \A k \in Job \ {j} : stage'[k] = stage[k] /\ owner'[k] = owner[k]
    BY <1>8, <2>2, StageKept
  <2> DEFINE outcome == IF status = "pending" THEN "waiting" ELSE status
  <2>4. stage'[j] = outcome /\ owner'[j] = None
    BY <1>2, <2>2 DEF stage, owner, StageOf
  <2>5. Contract!Move({j}, {"taken"}, outcome, None)
    BY <1>2, <1>3, <2>3, <2>4, ContractMoves
  <2>6. QED
    BY <1>3, <2>5 DEF Contract!Settle
<1>10. ASSUME RecordLost(w)
       PROVE  Contract!Lose({j})
  <2>1. \A k \in Job : rows'[k] = rows[k]
    BY <1>10 DEF RecordLost
  <2>2. \A k \in Job \ {j} : stage'[k] = stage[k] /\ owner'[k] = owner[k]
    BY <1>8, <2>1, StageKept
  <2>3. stage'[j] = "orphaned" /\ owner'[j] = None
    BY <1>2, <1>3, <1>7, <2>1 DEF stage, owner, StageOf
  <2>4. QED
    BY <1>2, <1>3, <2>2, <2>3, ContractMoves DEF Contract!Lose
<1>11. QED
  BY <1>2, <1>9, <1>10 DEF Contract!ContractNext

\* A process that ends loses what it held; one that starts or is told to stop
\* loses nothing.
LEMMA ContractProcesses ==
    ASSUME TypeOK, LeaseInv, NEW w \in Worker, Process(w)
    PROVE  [Contract!ContractNext]_<<stage, owner>>
<1>1. \A k \in Job : rows'[k] = rows[k]
  BY DEF Process, Start, Signal, Crash, Exit
<1>2. CASE UNCHANGED mem
  <2>1. \A k \in Job : \A v \in Worker : Holds(v, k)' <=> Holds(v, k)
    BY <1>2 DEF Holds, Held
  <2>2. QED
    BY <1>1, <2>1, ContractStutters
<1>3. CASE mem' = [mem EXCEPT ![w] = Idle]
  <2> DEFINE S == {k \in Job : Holds(w, k)}
  <2>1. \A k \in Job : ~Holds(w, k)'
    BY <1>3 DEF Holds, Held, Idle, TypeOK
  <2>2. \A v \in Worker \ {w}, k \in Job : Holds(v, k)' <=> Holds(v, k)
    BY <1>3 DEF Holds, Held, TypeOK
  <2>3. \A k \in Job \ S : stage'[k] = stage[k] /\ owner'[k] = owner[k]
    BY <1>1, <2>1, <2>2, StageKept
  <2>4. \A k \in S : stage[k] = "taken" /\ rows[k].status = "running" /\ rows[k].lockedBy = w
    BY HeldIsTaken
  <2>5. \A k \in S : stage'[k] = "orphaned" /\ owner'[k] = None
    BY <1>1, <2>1, <2>4 DEF stage, owner, StageOf
  <2>6. Contract!Lose(S)
    BY <2>3, <2>4, <2>5, ContractMoves DEF Contract!Lose
  <2>7. QED
    BY <2>6 DEF Contract!ContractNext
<1>4. QED
  BY <1>2, <1>3 DEF Process, Start, Signal, Crash, Exit

\* The queue implements its contract: one owner at a time, only the owner settles,
\* and a completed job is only ever discarded.
THEOREM ImplementsContract ==
    ASSUME ~LocksCanLapse
    PROVE  Spec => ContractSpec
<1>1. TypeOK /\ LeaseInv /\ [Next]_vars => [Contract!ContractNext]_<<stage, owner>>
  <2>1. ASSUME TypeOK, LeaseInv, Next
        PROVE  [Contract!ContractNext]_<<stage, owner>>
    BY <2>1, ContractOutside, ContractClaims, ContractSettles, ContractProcesses
       DEF Next, Step, AdminRecover, RecoverStale, CleanupOld, Enqueue, TimePasses, AdminRetry
  <2>2. ASSUME UNCHANGED vars
        PROVE  UNCHANGED <<stage, owner>>
    BY <2>2 DEF vars, stage, owner, StageOf, Holds, Held
  <2>3. QED
    BY <2>1, <2>2
<1>2. QED
  BY <1>1, ContractInitially, TypeCorrect, LeasesHold, PTL
     DEF Spec, ContractSpec, Contract!ContractSpec, Contract!contractVars
=============================================================================
