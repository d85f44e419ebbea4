------------------------- MODULE MigrationJobs_proofs -------------------------
(***************************************************************************)
(* Proofs about MigrationJobs, for every set of nodes and schedulers, every*)
(* size of the tables and of a batch, and every bound.                     *)
(***************************************************************************)
EXTENDS MigrationJobs, TLAPS

-----------------------------------------------------------------------------
(* Rows and progress *)

\* A row is a table and a key, which is at least one.
LEMMA RowElements ==
  ASSUME NEW r \in Rows
  PROVE  r[1] \in Tables /\ r[2] \in 1..Size[r[1]] /\ Size[r[1]] \in Nat
BY SizeAssumption DEF Rows

\* Nothing is passed at the start.
LEMMA NothingPassed == NoProgress \in Progress /\ Passed(NoProgress) = {}
<1>1. NoProgress \in Progress
  BY DEF NoProgress, Progress, Tables
<1>2. ASSUME NEW r \in Passed(NoProgress) PROVE FALSE
  BY RowElements DEF Passed, NoProgress
<1> QED BY <1>1, <1>2

\* A batch moves the progress on to its end, over the rows of the batch alone.
LEMMA BatchPasses ==
  ASSUME NEW p \in Progress, p.last < Size[p.table],
         NEW q, q = [table |-> p.table, last |-> BatchEnd(p)]
  PROVE  /\ q \in Progress
         /\ Passed(p) \subseteq Passed(q)
         /\ Passed(q) \subseteq Passed(p) \cup Batch(p)
<1>1. /\ Size[p.table] \in Nat /\ p.table \in Tables /\ p.last \in Nat
      /\ BatchEnd(p) \in Nat /\ BatchEnd(p) >= p.last
  BY SizeAssumption DEF BatchEnd, Progress
<1>2. q \in Progress /\ q.table = p.table /\ q.last = BatchEnd(p)
  BY <1>1 DEF Progress
<1>3. ASSUME NEW r \in Rows PROVE r[2] \in Nat /\ r[2] >= 1
  BY RowElements
<1>4. Passed(p) \subseteq Passed(q)
  BY <1>1, <1>2, <1>3 DEF Passed
<1>5. ASSUME NEW r \in Passed(q) PROVE r \in Passed(p) \cup Batch(p)
  BY <1>1, <1>2, <1>3 DEF Passed, Batch
<1> QED BY <1>2, <1>4, <1>5

\* At the end of the first table the progress moves to the start of the second,
\* which passes the same rows.
LEMMA FirstTablePassed ==
  ASSUME NEW p \in Progress, p.last >= Size[p.table], p.table = "TeamMembers",
         NEW q, q = [table |-> "ChannelMembers", last |-> 0]
  PROVE  q \in Progress /\ Passed(q) = Passed(p)
<1>1. q \in Progress
  BY DEF Progress, Tables
<1>2. p.last \in Nat
  BY DEF Progress
<1>3. ASSUME NEW r \in Rows PROVE r \in Passed(q) <=> r \in Passed(p)
  <2>1. r[1] \in Tables /\ r[2] \in 1..Size[r[1]] /\ Size[r[1]] \in Nat
    BY RowElements
  <2>2. r \in Passed(q) <=> r[1] = "TeamMembers"
    BY <2>1 DEF Passed
  <2>3. r \in Passed(p) <=> r[1] = "TeamMembers"
    BY <1>2, <2>1 DEF Passed
  <2> QED BY <2>2, <2>3
<1>4. Passed(q) \subseteq Rows /\ Passed(p) \subseteq Rows
  BY DEF Passed
<1> QED BY <1>1, <1>3, <1>4

\* At the end of the second table every row is passed.
LEMMA AllPassed ==
  ASSUME NEW p \in Progress, p.last >= Size[p.table], p.table = "ChannelMembers"
  PROVE  Passed(p) = Rows
<1>1. p.last \in Nat
  BY DEF Progress
<1>2. ASSUME NEW r \in Rows PROVE r \in Passed(p)
  BY <1>1, RowElements DEF Passed, Tables
<1>3. Passed(p) \subseteq Rows
  BY DEF Passed
<1> QED BY <1>2, <1>3

\* A batch is made of rows.
LEMMA BatchRows == ASSUME NEW p PROVE Batch(p) \subseteq Rows
BY DEF Batch

-----------------------------------------------------------------------------
(* What a step does to one worker, one job, one scheduler *)

WorkerType == worker \in [Nodes -> Worker]
JobType == jobs \in [JobIds -> Job]
SchedulerType == scheduler \in [Schedulers -> Scheduler]
UsedType == used \in [{"errors", "crashes", "cancels", "slow", "stops", "changes"} -> Nat]

\* Worker n goes to pc, with this job and this progress; the others stay.
Moves(n, pc, job, lastDone) ==
  /\ worker' \in [Nodes -> Worker]
  /\ \A m \in Nodes : m # n => worker'[m] = worker[m]
  /\ worker'[n].pc = pc /\ worker'[n].job = job /\ worker'[n].lastDone = lastDone

\* Job j gets this status and this progress; the others are left alone.
Becomes(j, status, lastDone) ==
  /\ jobs' \in [JobIds -> Job]
  /\ \A k \in JobIds : k # j => jobs'[k] = jobs[k]
  /\ jobs'[j].status = status /\ jobs'[j].lastDone = lastDone

\* What else the worker record is made of.
Pcs == {"idle", "claim", "run", "save", "complete", "success", "error", "finished", "down"}

\* The fields of a worker record, from its type.
LEMMA WorkerFields ==
  ASSUME WorkerType, NEW n \in Nodes
  PROVE  /\ worker[n] \in Worker /\ worker[n].pc \in Pcs
         /\ worker[n].job \in JobIds \cup {0} /\ worker[n].lastDone \in Progress
BY DEF WorkerType, Worker, Pcs

\* The fields of a job row, from its type.
LEMMA JobFields ==
  ASSUME JobType, NEW j \in JobIds
  PROVE  jobs[j] \in Job /\ jobs[j].status \in Statuses /\ jobs[j].lastDone \in Progress
BY DEF JobType, Job

\* Going to another step of DoJob leaves the job and the copied progress alone.
LEMMA GotoMoves ==
  ASSUME WorkerType, NEW n \in Nodes, NEW pc \in Pcs, Goto(n, pc)
  PROVE  Moves(n, pc, worker[n].job, worker[n].lastDone)
<1>1. worker' = [worker EXCEPT ![n].pc = pc]
  BY DEF Goto
<1>2. [worker[n] EXCEPT !.pc = pc] \in Worker
  BY WorkerFields DEF Worker, Pcs
<1> QED BY <1>1, <1>2 DEF Moves, WorkerType

\* Returning from DoJob gives the job up, whatever becomes of a pending Stop.
LEMMA ReturnMoves ==
  ASSUME WorkerType, NEW n \in Nodes, NEW stop \in {"none", "sent", "taken"},
         ReturnTo(n, stop)
  PROVE  Moves(n, "idle", 0, NoProgress)
<1>1. worker' = [worker EXCEPT ![n].pc = "idle", ![n].job = 0, ![n].lastDone = NoProgress,
                               ![n].cancel = FALSE, ![n].stop = stop]
  BY DEF ReturnTo
<1>2. [worker[n] EXCEPT !.pc = "idle", !.job = 0, !.lastDone = NoProgress,
                        !.cancel = FALSE, !.stop = stop] \in Worker
  BY WorkerFields, NothingPassed DEF Worker
<1> QED BY <1>1, <1>2 DEF Moves, WorkerType

\* The same for a return that leaves a pending Stop as it is.
LEMMA PlainReturnMoves ==
  ASSUME WorkerType, NEW n \in Nodes, Return(n)
  PROVE  Moves(n, "idle", 0, NoProgress)
<1>1. worker[n].stop \in {"none", "sent", "taken"}
  BY DEF WorkerType, Worker
<1> QED BY <1>1, ReturnMoves DEF Return

\* A status update (job_store.go UpdateStatus and its optimistic form) keeps the saved progress.
LEMMA UpdateBecomes ==
  ASSUME JobType, NEW j \in JobIds, NEW status \in Statuses, Update(j, status)
  PROVE  Becomes(j, status, jobs[j].lastDone)
<1>1. jobs' = [jobs EXCEPT ![j].status = status, ![j].aged = FALSE]
  BY DEF Update
<1>2. [jobs[j] EXCEPT !.status = status, !.aged = FALSE] \in Job
  BY JobFields DEF Job
<1> QED BY <1>1, <1>2 DEF Becomes, JobType

\* A whole-row update (job_store.go UpdateOptimistically) writes status and progress together.
LEMMA UpdateDataBecomes ==
  ASSUME JobType, NEW j \in JobIds, NEW status \in Statuses, NEW lastDone \in Progress,
         UpdateData(j, status, lastDone)
  PROVE  Becomes(j, status, lastDone)
<1>1. jobs' = [jobs EXCEPT ![j] = [status |-> status, lastDone |-> lastDone, aged |-> FALSE]]
  BY DEF UpdateData
<1>2. [status |-> status, lastDone |-> lastDone, aged |-> FALSE] \in Job
  BY DEF Job
<1> QED BY <1>1, <1>2 DEF Becomes, JobType

\* Counting one bounded event keeps the counters typed.
LEMMA SpendUsed ==
  ASSUME UsedType, NEW what \in {"errors", "crashes", "cancels", "slow", "stops", "changes"}, Spend(what)
  PROVE  UsedType'
BY DEF UsedType, Spend

\* A store error, when there is one, is counted once.
LEMMA FailsUsed ==
  ASSUME UsedType, NEW n \in Nodes, Fails(n)
  PROVE  UsedType'
<1>1. CASE Spend("errors")
  BY <1>1, SpendUsed
<1>2. CASE UNCHANGED used
  BY <1>2 DEF UsedType
<1> QED BY <1>1, <1>2 DEF Fails
-----------------------------------------------------------------------------
(* Steps that leave the invariant alone, by what they change *)

\* What the invariant says of the schedulers.
SchedulersOK ==
  /\ SchedulerType
  /\ \A s \in Schedulers : Passed(scheduler[s].lastDone) \subseteq migrated
  /\ \A s \in Schedulers : scheduler[s].pc = "wedged" => scheduler[s].job \in 1..created

\* The parts of the invariant that the lemmas below start from.
LEMMA InvariantParts ==
  ASSUME MigrationInv
  PROVE  /\ WorkerType /\ JobType /\ UsedType /\ SchedulersOK
         /\ created \in Nat /\ created <= MaxJobs /\ MaxJobs \in Nat
         /\ completed \in BOOLEAN /\ migrated \subseteq Rows /\ wedged \subseteq JobIds
         /\ \A j \in JobIds : jobs[j].status = "none" <=> j > created
         /\ \A j \in JobIds : j \in 1..created <=> jobs[j].status # "none"
         /\ 1..created \subseteq JobIds
         /\ \A n \in Nodes : HasJob(n) => worker[n].job \in JobIds
BY BoundsAssumption
   DEF MigrationInv, TypeOK, Ownership, Coverage, WorkerType, JobType, UsedType, SchedulersOK,
       SchedulerType, JobIds

\* The schedulers are not concerned.
LEMMA SchedulersStay ==
  ASSUME SchedulersOK, UNCHANGED <<scheduler, created>>, migrated \subseteq migrated'
  PROVE  SchedulersOK'
BY DEF SchedulersOK, SchedulerType

\* Where a scheduler holds no job.
Resting == {"next", "idle", "off", "done", "jobs"}

\* A scheduler that has read no job has nothing to be covered.
LEMMA RestingScheduler ==
  ASSUME NEW pc \in Resting
  PROVE  /\ SchedulerAt(pc) \in Scheduler
         /\ SchedulerAt(pc).lastDone = NoProgress /\ SchedulerAt(pc).pc = pc
BY NothingPassed DEF SchedulerAt, Scheduler, Resting

\* A scheduler forgets what it has read, and the rows may only grow.
LEMMA SchedulerRests ==
  ASSUME SchedulersOK, NEW s \in Schedulers, NEW pc \in Resting, SchedulerGoto(s, pc),
         created' >= created, created \in Nat, created' \in Nat, UNCHANGED migrated
  PROVE  /\ SchedulersOK' /\ scheduler'[s].pc = pc
         /\ \A m \in Schedulers : m # s => scheduler'[m] = scheduler[m]
<1>1. scheduler' = [scheduler EXCEPT ![s] = SchedulerAt(pc)]
  BY DEF SchedulerGoto
<1>2. pc # "wedged"
  BY DEF Resting
<1> QED BY <1>1, <1>2, RestingScheduler, NothingPassed DEF SchedulersOK, SchedulerType

\* A worker keeps its job and its progress: it goes on inside DoJob, or it has
\* none to keep.
LEMMA KeepingJob ==
  ASSUME MigrationInv, NEW n \in Nodes, NEW pc \in Pcs,
         Moves(n, pc, worker[n].job, worker[n].lastDone),
         \/ pc = worker[n].pc
         \/ InDoJob(n) /\ pc \in {"run", "save", "success", "error"}
         \/ pc \in {"idle", "finished", "down"},
         UNCHANGED <<jobs, created, completed, migrated, wedged>>, SchedulersOK', UsedType'
  PROVE  MigrationInv'
<1> USE InvariantParts, WorkerFields
<1>1. TypeOK'
  BY DEF TypeOK, Moves, JobType, UsedType, SchedulersOK, SchedulerType, MigrationInv
<1>2. Ownership'
  BY DEF Ownership, MigrationInv, Moves, HasJob, InDoJob, At, OneWorkerPerJob, SchedulersOK
<1>3. Coverage'
  BY DEF Coverage, MigrationInv, Moves, ProgressIsCovered, At, CompletedMeansMigrated,
         SchedulersOK, InDoJob
<1>4. Resumption'
  BY DEF Resumption, MigrationInv, Moves, At, InDoJob, AtLeast
<1> QED BY <1>1, <1>2, <1>3, <1>4 DEF MigrationInv

\* A worker lets go of its job, and perhaps ends it.
LEMMA LettingGo ==
  ASSUME MigrationInv, NEW n \in Nodes, NEW pc \in {"idle", "down"},
         Moves(n, pc, 0, NoProgress),
         \/ UNCHANGED jobs
         \/ /\ InDoJob(n)
            /\ \E status \in FinalStatuses :
                 \E p \in {jobs[worker[n].job].lastDone, worker[n].lastDone} :
                   Becomes(worker[n].job, status, p),
         UNCHANGED <<created, completed, migrated, wedged>>, SchedulersOK', UsedType'
  PROVE  MigrationInv'
<1> USE InvariantParts, WorkerFields, NothingPassed
<1>1. CASE UNCHANGED jobs
  <2>1. TypeOK'
    BY <1>1 DEF TypeOK, Moves, JobType, UsedType, SchedulersOK, SchedulerType, MigrationInv
  <2>2. Ownership'
    BY <1>1 DEF Ownership, MigrationInv, Moves, HasJob, InDoJob, At, OneWorkerPerJob,
                SchedulersOK
  <2>3. Coverage'
    BY <1>1 DEF Coverage, MigrationInv, Moves, ProgressIsCovered, At, CompletedMeansMigrated,
                SchedulersOK
  <2>4. Resumption'
    BY <1>1 DEF Resumption, MigrationInv, Moves, At, InDoJob, AtLeast
  <2> QED BY <2>1, <2>2, <2>3, <2>4 DEF MigrationInv
<1>2. ASSUME InDoJob(n), NEW status \in FinalStatuses,
             NEW p \in {jobs[worker[n].job].lastDone, worker[n].lastDone},
             Becomes(worker[n].job, status, p)
      PROVE  MigrationInv'
  <2>1. /\ worker[n].job \in 1..created /\ worker[n].job \in JobIds
        /\ \A m \in Nodes : InDoJob(m) /\ worker[m].job = worker[n].job => m = n
    BY <1>2 DEF Ownership, MigrationInv, HasJob, OneWorkerPerJob
  <2>2. TypeOK'
    <3>1. \A j \in JobIds : jobs'[j].status = "none" <=> j > created
      BY <1>2, <2>1 DEF Becomes, FinalStatuses
    <3> QED
      BY <1>2, <3>1 DEF TypeOK, Moves, Becomes, UsedType, SchedulersOK, SchedulerType,
                        MigrationInv
  <2>3. Ownership'
    BY <1>2, <2>1 DEF Ownership, MigrationInv, Moves, Becomes, HasJob, InDoJob, At,
                      OneWorkerPerJob, SchedulersOK, FinalStatuses
  <2>4. Passed(p) \subseteq migrated
    BY <1>2, <2>1 DEF MigrationInv, Coverage, ProgressIsCovered
  <2>5. Coverage'
    BY <1>2, <2>1, <2>4 DEF Coverage, MigrationInv, Moves, Becomes, ProgressIsCovered, At,
                            CompletedMeansMigrated, SchedulersOK
  <2>6. Resumption'
    <3> SUFFICES ASSUME NEW m \in Nodes,
                        (InDoJob(m) \/ (At(m, "claim") /\ jobs[worker[m].job].status = "pending"))'
                 PROVE  AtLeast(worker[m].lastDone, jobs[worker[m].job].lastDone)'
      BY DEF Resumption
    <3>1. m # n /\ worker'[m] = worker[m]
      BY DEF Moves, InDoJob, At
    <3>2. HasJob(m) /\ worker[m].job \in JobIds
      BY <3>1 DEF HasJob, InDoJob, At
    <3>3. worker[m].job # worker[n].job
      BY <1>2, <2>1, <3>1 DEF Becomes, FinalStatuses, InDoJob, At
    <3>4. jobs'[worker[m].job] = jobs[worker[m].job]
      BY <1>2, <3>2, <3>3 DEF Becomes
    <3> QED
      BY <3>1, <3>4 DEF Resumption, MigrationInv, AtLeast, InDoJob, At
  <2> QED BY <2>2, <2>3, <2>5, <2>6 DEF MigrationInv
<1> QED BY <1>1, <1>2

\* Somebody else gives a job another status.
LEMMA ChangingStatus ==
  ASSUME MigrationInv, NEW j \in JobIds, NEW status \in Statuses \ {"none"},
         jobs[j].status # "none", Becomes(j, status, jobs[j].lastDone),
         status = "pending" => jobs[j].status = "pending",
         status \in FinalStatuses => jobs[j].status = "pending" \/ j \in wedged',
         wedged \subseteq wedged', wedged' \subseteq JobIds,
         UNCHANGED <<worker, created, completed, migrated>>, SchedulersOK', UsedType'
  PROVE  MigrationInv'
<1> USE InvariantParts, WorkerFields
<1>1. TypeOK'
  <2>1. \A k \in JobIds : jobs'[k].status = "none" <=> k > created
    BY DEF Becomes
  <2> QED
    BY <2>1 DEF TypeOK, Becomes, UsedType, SchedulersOK, SchedulerType, MigrationInv
<1>2. Ownership'
  BY DEF Ownership, MigrationInv, Becomes, HasJob, InDoJob, At, OneWorkerPerJob, SchedulersOK
<1>3. Coverage'
  BY DEF Coverage, MigrationInv, Becomes, ProgressIsCovered, At, CompletedMeansMigrated,
         SchedulersOK
<1>4. Resumption'
  BY DEF Resumption, MigrationInv, Becomes, At, InDoJob, HasJob, AtLeast
<1> QED BY <1>1, <1>2, <1>3, <1>4 DEF MigrationInv

\* Only the schedulers change.
LEMMA SchedulersOnly ==
  ASSUME MigrationInv, UNCHANGED <<table, worker, wedged>>, SchedulersOK', UsedType'
  PROVE  MigrationInv'
<1> USE InvariantParts, WorkerFields DEF table
<1>1. TypeOK'
  BY DEF TypeOK, JobType, WorkerType, UsedType, SchedulersOK, SchedulerType, MigrationInv
<1>2. Ownership'
  BY DEF Ownership, MigrationInv, HasJob, InDoJob, At, OneWorkerPerJob, SchedulersOK
<1>3. Coverage'
  BY DEF Coverage, MigrationInv, ProgressIsCovered, At, CompletedMeansMigrated, SchedulersOK
<1>4. Resumption'
  BY DEF Resumption, MigrationInv, At, InDoJob, AtLeast
<1> QED BY <1>1, <1>2, <1>3, <1>4 DEF MigrationInv
-----------------------------------------------------------------------------
(* The steps of a worker *)

LEMMA OfferStep ==
  ASSUME MigrationInv, NEW n \in Nodes, NEW j \in JobIds, Offer(n, j)
  PROVE  MigrationInv'
<1> USE InvariantParts, WorkerFields, JobFields
<1>1. UNCHANGED <<jobs, created, completed, migrated, scheduler, wedged, used>>
  BY DEF Offer, table
<1>2. At(n, "idle") /\ jobs[j].status = "pending" /\ j \in 1..created
  BY DEF Offer
<1>3. Moves(n, "claim", j, jobs[j].lastDone)
  <2>1. worker' = [worker EXCEPT ![n].pc = "claim", ![n].job = j,
                                 ![n].lastDone = jobs[j].lastDone]
    BY DEF Offer
  <2>2. [worker[n] EXCEPT !.pc = "claim", !.job = j, !.lastDone = jobs[j].lastDone] \in Worker
    BY DEF Worker
  <2> QED BY <2>1, <2>2 DEF Moves, WorkerType
<1>4. SchedulersOK' /\ UsedType'
  BY <1>1, SchedulersStay DEF UsedType
<1>5. TypeOK'
  BY <1>1, <1>3, <1>4 DEF TypeOK, Moves, JobType, UsedType, SchedulersOK, SchedulerType,
                          MigrationInv
<1>6. Ownership'
  BY <1>1, <1>2, <1>3, <1>4 DEF Ownership, MigrationInv, Moves, HasJob, InDoJob, At,
                                OneWorkerPerJob, SchedulersOK
<1>7. Coverage'
  BY <1>1, <1>3, <1>4 DEF Coverage, MigrationInv, Moves, ProgressIsCovered, At,
                          CompletedMeansMigrated, SchedulersOK
<1>8. Resumption'
  BY <1>1, <1>3 DEF Resumption, MigrationInv, Moves, At, InDoJob, AtLeast
<1> QED BY <1>5, <1>6, <1>7, <1>8 DEF MigrationInv

\* The claim that succeeds is of a job that nobody else is inside DoJob with,
\* for theirs is not pending.
LEMMA ClaimStep ==
  ASSUME MigrationInv, NEW n \in Nodes, Claim(n)
  PROVE  MigrationInv'
<1> DEFINE j == worker[n].job
<1> USE InvariantParts, WorkerFields, JobFields
<1>1. UNCHANGED <<created, completed, migrated, scheduler, wedged, used>> /\ At(n, "claim")
  BY DEF Claim
<1>2. SchedulersOK' /\ UsedType' /\ j \in 1..created /\ j \in JobIds
  BY <1>1, SchedulersStay DEF UsedType, HasJob, Ownership, MigrationInv
<1>3. CASE jobs[j].status = "pending" /\ Update(j, "in_progress") /\ Goto(n, "run")
  <2>1. Becomes(j, "in_progress", jobs[j].lastDone)
    BY <1>2, <1>3, UpdateBecomes DEF Statuses
  <2>2. Moves(n, "run", j, worker[n].lastDone)
    BY <1>3, GotoMoves DEF Pcs
  <2>3. \A m \in Nodes : InDoJob(m) => worker[m].job # j
    BY <1>3 DEF Ownership, MigrationInv
  <2>4. TypeOK'
    <3>1. \A k \in JobIds : jobs'[k].status = "none" <=> k > created
      BY <2>1, <1>2, <1>3 DEF Becomes
    <3> QED
      BY <1>1, <1>2, <2>1, <2>2, <3>1
      DEF TypeOK, Moves, Becomes, UsedType, SchedulersOK, SchedulerType, MigrationInv
  <2>5. Ownership'
    <3>1. \A m \in Nodes : HasJob(m)' => worker'[m].job \in 1..created'
      BY <1>1, <1>2, <2>2 DEF Ownership, MigrationInv, Moves, HasJob, InDoJob, At
    <3>2. ASSUME NEW m \in Nodes, InDoJob(m)'
          PROVE  /\ m = n \/ (InDoJob(m) /\ worker'[m] = worker[m])
                 /\ m # n => worker'[m].job # j /\ jobs'[worker[m].job] = jobs[worker[m].job]
      BY <2>1, <2>2, <2>3, <3>2 DEF Moves, Becomes, InDoJob, HasJob
    <3>3. OneWorkerPerJob'
      BY <3>2, <2>2 DEF Ownership, MigrationInv, OneWorkerPerJob, Moves
    <3>4. \A m \in Nodes : InDoJob(m)' => jobs'[worker'[m].job].status # "pending"
      BY <3>2, <2>1, <2>2 DEF Ownership, MigrationInv, Moves, Becomes
    <3>5. \A m \in Nodes : InDoJob(m)' /\ jobs'[worker'[m].job].status \in FinalStatuses
                            => worker'[m].job \in wedged'
      BY <3>2, <1>1, <2>1, <2>2 DEF Ownership, MigrationInv, Moves, Becomes, FinalStatuses
    <3> QED
      BY <3>1, <3>3, <3>4, <3>5, <1>2 DEF Ownership, SchedulersOK
  <2>6. Coverage'
    BY <1>1, <1>2, <2>1, <2>2 DEF Coverage, MigrationInv, Moves, Becomes, ProgressIsCovered,
                                  At, CompletedMeansMigrated, SchedulersOK
  <2>7. Resumption'
    <3> SUFFICES ASSUME NEW m \in Nodes,
                        (InDoJob(m) \/ (At(m, "claim") /\ jobs[worker[m].job].status = "pending"))'
                 PROVE  AtLeast(worker[m].lastDone, jobs[worker[m].job].lastDone)'
      BY DEF Resumption
    <3>1. CASE m = n
      BY <1>1, <1>3, <2>1, <2>2, <3>1 DEF Resumption, MigrationInv, Moves, Becomes, AtLeast
    <3>2. CASE m # n
      <4>1. worker'[m] = worker[m] /\ HasJob(m)
        BY <2>2, <3>2 DEF Moves, HasJob, InDoJob, At
      <4>2. worker[m].job # j
        BY <2>1, <2>3, <3>2, <4>1 DEF Becomes, InDoJob, At
      <4> QED
        BY <2>1, <4>1, <4>2 DEF Resumption, MigrationInv, Becomes, AtLeast, InDoJob, At
    <3> QED BY <3>1, <3>2
  <2> QED BY <2>4, <2>5, <2>6, <2>7 DEF MigrationInv
<1>4. CASE jobs[j].status # "pending" /\ Return(n) /\ UNCHANGED jobs
  BY <1>1, <1>2, <1>4, PlainReturnMoves, LettingGo
<1> QED BY <1>3, <1>4 DEF Claim

\* CancellationWatcher (jobs.go:132-149) only raises the flag of its own worker.
LEMMA WatchCancellationStep ==
  ASSUME MigrationInv, NEW n \in Nodes, WatchCancellation(n)
  PROVE  MigrationInv'
<1> USE InvariantParts, WorkerFields
<1>1. UNCHANGED <<jobs, created, completed, migrated, scheduler, wedged, used>>
  BY DEF WatchCancellation, table
<1>2. Moves(n, worker[n].pc, worker[n].job, worker[n].lastDone)
  <2>1. worker' = [worker EXCEPT ![n].cancel = TRUE]
    BY DEF WatchCancellation
  <2>2. [worker[n] EXCEPT !.cancel = TRUE] \in Worker
    BY DEF Worker
  <2> QED BY <2>1, <2>2 DEF Moves, WorkerType
<1>3. SchedulersOK' /\ UsedType'
  BY <1>1, SchedulersStay DEF UsedType
<1> QED BY <1>1, <1>2, <1>3, KeepingJob

\* setJobCanceled (worker.go:137-141) makes the status final and lets the job go.
LEMMA CancelStep ==
  ASSUME MigrationInv, NEW n \in Nodes, Cancel(n)
  PROVE  MigrationInv'
<1> USE InvariantParts, WorkerFields
<1>1. UNCHANGED <<created, completed, migrated, scheduler, wedged>> /\ InDoJob(n) /\ HasJob(n)
  BY DEF Cancel, InDoJob, HasJob, At
<1>2. Moves(n, "idle", 0, NoProgress)
  BY PlainReturnMoves, ReturnMoves DEF Cancel
<1>3. SchedulersOK'
  BY <1>1, SchedulersStay
<1>4. CASE Update(worker[n].job, "canceled") /\ UNCHANGED used
  <2>1. Becomes(worker[n].job, "canceled", jobs[worker[n].job].lastDone)
    BY <1>1, <1>4, UpdateBecomes DEF Statuses
  <2>2. UsedType'
    BY <1>4 DEF UsedType
  <2> QED BY <1>1, <1>2, <1>3, <2>1, <2>2, LettingGo DEF FinalStatuses
<1>5. CASE Fails(n) /\ UNCHANGED jobs
  BY <1>1, <1>2, <1>3, <1>5, FailsUsed, LettingGo
<1> QED BY <1>4, <1>5 DEF Cancel
\* The batch has migrated whatever the new progress passes.
LEMMA RunBatchStep ==
  ASSUME MigrationInv, NEW n \in Nodes, RunBatch(n)
  PROVE  MigrationInv'
<1> DEFINE p == worker[n].lastDone
           q == [table |-> p.table, last |-> BatchEnd(p)]
<1> USE InvariantParts, WorkerFields
<1>1. /\ UNCHANGED <<jobs, created, completed, scheduler, wedged, used>>
      /\ InDoJob(n) /\ At(n, "run") /\ migrated' = migrated \cup Batch(p)
      /\ p \in Progress /\ p.last < Size[p.table]
  BY DEF RunBatch, InDoJob, At
<1>2. /\ q \in Progress /\ Passed(p) \subseteq Passed(q)
      /\ Passed(q) \subseteq migrated' /\ migrated' \subseteq Rows
      /\ migrated \subseteq migrated'
  BY <1>1, BatchPasses, BatchRows DEF Coverage, MigrationInv
<1>3. Moves(n, "save", worker[n].job, q)
  <2>1. worker' = [worker EXCEPT ![n].pc = "save", ![n].lastDone.last = BatchEnd(p)]
    BY DEF RunBatch
  <2>2. BatchEnd(p) \in Nat
    BY <1>2 DEF Progress
  <2>3. [worker[n] EXCEPT !.pc = "save", !.lastDone.last = BatchEnd(p)] \in Worker
    BY <2>2 DEF Worker, Progress
  <2>4. [p EXCEPT !.last = BatchEnd(p)] = q
    BY <1>1 DEF Progress
  <2> QED BY <2>1, <2>3, <2>4 DEF Moves, WorkerType
<1> HIDE DEF p, q
<1>4. SchedulersOK' /\ UsedType'
  BY <1>1, <1>2, SchedulersStay DEF UsedType
<1>5. TypeOK'
  BY <1>1, <1>2, <1>3, <1>4 DEF TypeOK, Moves, JobType, UsedType, SchedulersOK, SchedulerType,
                                MigrationInv
<1>6. Ownership'
  BY <1>1, <1>3, <1>4 DEF Ownership, MigrationInv, Moves, HasJob, InDoJob, At,
                          OneWorkerPerJob, SchedulersOK
<1>7. Coverage'
  BY <1>1, <1>2, <1>3, <1>4 DEF Coverage, MigrationInv, Moves, ProgressIsCovered, At,
                                CompletedMeansMigrated, SchedulersOK
<1>8. Resumption'
  BY <1>1, <1>2, <1>3 DEF Resumption, MigrationInv, Moves, At, InDoJob, AtLeast, p
<1> QED BY <1>5, <1>6, <1>7, <1>8 DEF MigrationInv

\* Another table passes the same rows, and behind the last one are all of them.
LEMMA EndOfTableStep ==
  ASSUME MigrationInv, NEW n \in Nodes, EndOfTable(n)
  PROVE  MigrationInv'
<1> DEFINE p == worker[n].lastDone
<1> USE InvariantParts, WorkerFields
<1>1. /\ UNCHANGED <<jobs, created, completed, migrated, scheduler, wedged, used>>
      /\ InDoJob(n) /\ At(n, "run") /\ p \in Progress /\ p.last >= Size[p.table]
  BY DEF EndOfTable, InDoJob, At, table
<1>2. SchedulersOK' /\ UsedType' /\ Passed(p) \subseteq migrated
  BY <1>1, SchedulersStay DEF UsedType, Coverage, MigrationInv
<1>3. ASSUME NEW pc \in {"save", "complete"}, NEW q \in Progress, Passed(q) = Passed(p),
             Moves(n, pc, worker[n].job, q), pc = "complete" => migrated = Rows
      PROVE  MigrationInv'
  <2>1. TypeOK'
    BY <1>1, <1>2, <1>3 DEF TypeOK, Moves, JobType, UsedType, SchedulersOK, SchedulerType,
                            MigrationInv
  <2>2. Ownership'
    BY <1>1, <1>2, <1>3 DEF Ownership, MigrationInv, Moves, HasJob, InDoJob, At,
                            OneWorkerPerJob, SchedulersOK
  <2>3. Coverage'
    BY <1>1, <1>2, <1>3 DEF Coverage, MigrationInv, Moves, ProgressIsCovered, At,
                            CompletedMeansMigrated, SchedulersOK
  <2>4. Resumption'
    BY <1>1, <1>3 DEF Resumption, MigrationInv, Moves, At, InDoJob, AtLeast
  <2> QED BY <2>1, <2>2, <2>3, <2>4 DEF MigrationInv
<1>4. CASE /\ p.table = "TeamMembers"
           /\ worker' = [worker EXCEPT ![n].pc = "save",
                           ![n].lastDone = [table |-> "ChannelMembers", last |-> 0]]
  <2> DEFINE q == [table |-> "ChannelMembers", last |-> 0]
  <2>1. q \in Progress /\ Passed(q) = Passed(p)
    BY <1>1, <1>4, FirstTablePassed
  <2>2. [worker[n] EXCEPT !.pc = "save", !.lastDone = q] \in Worker
    BY <2>1 DEF Worker
  <2>3. Moves(n, "save", worker[n].job, q)
    BY <1>4, <2>2 DEF Moves, WorkerType
  <2> QED BY <1>3, <2>1, <2>3
<1>5. CASE p.table = "ChannelMembers" /\ Goto(n, "complete")
  <2>1. migrated = Rows
    BY <1>1, <1>2, <1>5, AllPassed
  <2>2. Moves(n, "complete", worker[n].job, p)
    BY <1>5, GotoMoves DEF Pcs
  <2> QED BY <1>1, <1>3, <2>1, <2>2
<1> QED BY <1>4, <1>5 DEF EndOfTable

\* The progress saved is the worker's, which is at least the one it replaces.
LEMMA SaveProgressStep ==
  ASSUME MigrationInv, NEW n \in Nodes, SaveProgress(n)
  PROVE  MigrationInv'
<1> DEFINE j == worker[n].job
           p == worker[n].lastDone
<1> USE InvariantParts, WorkerFields
<1>1. UNCHANGED <<created, completed, migrated, scheduler, wedged, used>> /\ InDoJob(n)
  BY DEF SaveProgress, InDoJob, At
<1>2. /\ SchedulersOK' /\ UsedType' /\ j \in 1..created /\ j \in JobIds
      /\ p \in Progress /\ Passed(p) \subseteq migrated
      /\ \A m \in Nodes : InDoJob(m) /\ worker[m].job = j => m = n
  BY <1>1, SchedulersStay
  DEF UsedType, HasJob, Ownership, Coverage, MigrationInv, OneWorkerPerJob
<1>3. Moves(n, "run", j, p)
  BY GotoMoves DEF SaveProgress, Pcs
<1>4. CASE jobs[j].status = "in_progress" /\ UpdateData(j, "in_progress", p)
  <2>1. Becomes(j, "in_progress", p)
    BY <1>2, <1>4, UpdateDataBecomes DEF Statuses
  <2> HIDE DEF p
  <2>2. TypeOK'
    <3>1. \A k \in JobIds : jobs'[k].status = "none" <=> k > created
      BY <2>1, <1>2, <1>4 DEF Becomes
    <3> QED
      BY <1>1, <1>2, <1>3, <2>1, <3>1
      DEF TypeOK, Moves, Becomes, UsedType, SchedulersOK, SchedulerType, MigrationInv
  <2>3. Ownership'
    BY <1>1, <1>2, <1>3, <1>4, <2>1
    DEF Ownership, MigrationInv, Moves, Becomes, HasJob, InDoJob, At, OneWorkerPerJob,
        SchedulersOK
  <2>4. Coverage'
    BY <1>1, <1>2, <1>3, <2>1
    DEF Coverage, MigrationInv, Moves, Becomes, ProgressIsCovered, At,
        CompletedMeansMigrated, SchedulersOK
  <2>5. Resumption'
    <3> SUFFICES ASSUME NEW m \in Nodes,
                        (InDoJob(m) \/ (At(m, "claim") /\ jobs[worker[m].job].status = "pending"))'
                 PROVE  AtLeast(worker[m].lastDone, jobs[worker[m].job].lastDone)'
      BY DEF Resumption
    <3>1. CASE m = n
      BY <1>3, <2>1, <3>1 DEF Moves, Becomes, AtLeast
    <3>2. CASE m # n
      <4>1. worker'[m] = worker[m] /\ HasJob(m)
        BY <1>3, <3>2 DEF Moves, HasJob, InDoJob, At
      <4>2. worker[m].job # j
        BY <1>2, <2>1, <3>2, <4>1 DEF Becomes, InDoJob, At
      <4> QED
        BY <2>1, <4>1, <4>2 DEF Resumption, MigrationInv, Becomes, AtLeast, InDoJob, At
    <3> QED BY <3>1, <3>2
  <2> QED BY <2>2, <2>3, <2>4, <2>5 DEF MigrationInv
<1>5. CASE UNCHANGED jobs
  BY <1>1, <1>2, <1>3, <1>5, KeepingJob DEF Pcs
<1> QED BY <1>4, <1>5 DEF SaveProgress

\* The key of the migration is stored when every row has been migrated.
LEMMA CompleteStep ==
  ASSUME MigrationInv, NEW n \in Nodes, Complete(n)
  PROVE  MigrationInv'
<1> USE InvariantParts, WorkerFields
<1>1. /\ UNCHANGED <<jobs, created, migrated, scheduler, wedged, used>>
      /\ InDoJob(n) /\ completed' = TRUE
  BY DEF Complete, InDoJob, At
<1>2. SchedulersOK' /\ UsedType' /\ migrated = Rows
  BY <1>1, SchedulersStay DEF UsedType, Coverage, MigrationInv, Complete
<1>3. \E pc \in {"error", "success"} : Moves(n, pc, worker[n].job, worker[n].lastDone)
  BY GotoMoves DEF Complete, Pcs
<1>4. TypeOK'
  BY <1>1, <1>2, <1>3 DEF TypeOK, Moves, JobType, UsedType, SchedulersOK, SchedulerType,
                          MigrationInv
<1>5. Ownership'
  BY <1>1, <1>2, <1>3 DEF Ownership, MigrationInv, Moves, HasJob, InDoJob, At,
                          OneWorkerPerJob, SchedulersOK
<1>6. Coverage'
  BY <1>1, <1>2, <1>3 DEF Coverage, MigrationInv, Moves, ProgressIsCovered, At,
                          CompletedMeansMigrated, SchedulersOK
<1>7. Resumption'
  BY <1>1, <1>3 DEF Resumption, MigrationInv, Moves, At, InDoJob, AtLeast
<1> QED BY <1>4, <1>5, <1>6, <1>7 DEF MigrationInv

\* setJobSuccess (worker.go:124-129) makes the status final as DoJob returns and lets the job go.
LEMMA SucceedStep ==
  ASSUME MigrationInv, NEW n \in Nodes, Succeed(n)
  PROVE  MigrationInv'
<1> USE InvariantParts, WorkerFields
<1>1. /\ UNCHANGED <<created, completed, migrated, scheduler, wedged, used>>
      /\ InDoJob(n) /\ HasJob(n)
  BY DEF Succeed, InDoJob, HasJob, At
<1>2. SchedulersOK' /\ UsedType'
  BY <1>1, SchedulersStay DEF UsedType
<1>3. Moves(n, "idle", 0, NoProgress)
  BY PlainReturnMoves DEF Succeed
<1>4. Becomes(worker[n].job, "success", jobs[worker[n].job].lastDone)
  BY <1>1, UpdateBecomes DEF Succeed, Statuses
<1> QED BY <1>1, <1>2, <1>3, <1>4, LettingGo DEF FinalStatuses

\* SetJobError (jobs.go:74-102) writes the progress the worker holds, which the row already covers.
LEMMA SetErrorStep ==
  ASSUME MigrationInv, NEW n \in Nodes, SetError(n)
  PROVE  MigrationInv'
<1> USE InvariantParts, WorkerFields
<1>1. UNCHANGED <<created, completed, migrated, scheduler, wedged>> /\ InDoJob(n) /\ HasJob(n)
  BY DEF SetError, InDoJob, HasJob, At
<1>2. SchedulersOK' /\ UsedType'
  BY <1>1, SchedulersStay, FailsUsed DEF UsedType, SetError
<1>3. Moves(n, "idle", 0, NoProgress)
  BY PlainReturnMoves DEF SetError
<1>4. CASE UpdateData(worker[n].job, "error", worker[n].lastDone)
  <2>1. Becomes(worker[n].job, "error", worker[n].lastDone)
    BY <1>1, <1>4, UpdateDataBecomes DEF Statuses
  <2> QED BY <1>1, <1>2, <1>3, <2>1, LettingGo DEF FinalStatuses
<1>5. CASE UNCHANGED jobs
  BY <1>1, <1>2, <1>3, <1>5, LettingGo
<1> QED BY <1>4, <1>5 DEF SetError

\* An error of a batch or of a save sends the worker to setJobError and changes no row.
LEMMA FailStep ==
  ASSUME MigrationInv, NEW n \in Nodes, Fail(n)
  PROVE  MigrationInv'
<1> USE InvariantParts, WorkerFields
<1>1. UNCHANGED <<jobs, created, completed, migrated, scheduler, wedged>>
  BY DEF Fail, table
<1>2. SchedulersOK' /\ UsedType'
  BY <1>1, SchedulersStay, FailsUsed DEF Fail
<1>3. CASE At(n, "claim") /\ Return(n)
  BY <1>1, <1>2, <1>3, PlainReturnMoves, LettingGo
<1>4. CASE ~At(n, "claim") /\ Goto(n, "error")
  <2>1. InDoJob(n)
    BY <1>4 DEF Fail, InDoJob, At
  <2>2. Moves(n, "error", worker[n].job, worker[n].lastDone)
    BY <1>4, GotoMoves DEF Pcs
  <2> QED BY <1>1, <1>2, <2>1, <2>2, KeepingJob DEF Pcs
<1> QED BY <1>3, <1>4 DEF Fail

\* Run returns: the worker, which has no job, changes no row.
LEMMA FinishStep ==
  ASSUME MigrationInv, NEW n \in Nodes, Finish(n)
  PROVE  MigrationInv'
<1> USE InvariantParts, WorkerFields
<1>1. UNCHANGED <<jobs, created, completed, migrated, scheduler, wedged, used>>
  BY DEF Finish, table
<1>2. SchedulersOK' /\ UsedType'
  BY <1>1, SchedulersStay DEF UsedType
<1>3. Moves(n, "finished", worker[n].job, worker[n].lastDone)
  <2>1. worker' = [worker EXCEPT ![n].pc = "finished", ![n].stop = "taken"]
    BY DEF Finish
  <2>2. [worker[n] EXCEPT !.pc = "finished", !.stop = "taken"] \in Worker
    BY DEF Worker
  <2> QED BY <2>1, <2>2 DEF Moves, WorkerType
<1> QED BY <1>1, <1>2, <1>3, KeepingJob DEF Pcs

-----------------------------------------------------------------------------
(* The life of the processes *)

LEMMA CloseStoreStep ==
  ASSUME MigrationInv, NEW n \in Nodes, CloseStore(n)
  PROVE  MigrationInv'
<1> USE InvariantParts, WorkerFields
<1>1. UNCHANGED <<jobs, created, completed, migrated, scheduler, wedged>>
  BY DEF CloseStore, table
<1>2. SchedulersOK' /\ UsedType'
  BY <1>1, SchedulersStay, SpendUsed DEF CloseStore
<1>3. Moves(n, worker[n].pc, worker[n].job, worker[n].lastDone)
  <2>1. worker' = [worker EXCEPT ![n].storeOpen = FALSE]
    BY DEF CloseStore
  <2>2. [worker[n] EXCEPT !.storeOpen = FALSE] \in Worker
    BY DEF Worker
  <2> QED BY <2>1, <2>2 DEF Moves, WorkerType
<1> QED BY <1>1, <1>2, <1>3, KeepingJob

\* Worker.Stop (worker.go:63-67) only leaves its request in the channel.
LEMMA StopWorkerStep ==
  ASSUME MigrationInv, NEW n \in Nodes, StopWorker(n)
  PROVE  MigrationInv'
<1> USE InvariantParts, WorkerFields
<1>1. UNCHANGED <<jobs, created, completed, migrated, scheduler, wedged>>
  BY DEF StopWorker, table
<1>2. SchedulersOK' /\ UsedType'
  BY <1>1, SchedulersStay, SpendUsed DEF StopWorker, UsedType
<1>3. Moves(n, worker[n].pc, worker[n].job, worker[n].lastDone)
  <2>1. worker' = [worker EXCEPT ![n].stop = "sent"]
    BY DEF StopWorker
  <2>2. [worker[n] EXCEPT !.stop = "sent"] \in Worker
    BY DEF Worker
  <2> QED BY <2>1, <2>2 DEF Moves, WorkerType
<1> QED BY <1>1, <1>2, <1>3, KeepingJob

\* A crash of the process loses what worker and scheduler held in memory and keeps every row.
LEMMA CrashStep ==
  ASSUME MigrationInv, NEW n \in Nodes, Crash(n)
  PROVE  MigrationInv'
<1> USE InvariantParts, WorkerFields
<1>1. UNCHANGED <<jobs, created, completed, migrated, wedged>>
  BY DEF Crash, table
<1>2. UsedType'
  BY SpendUsed DEF Crash
<1>3. SchedulersOK'
  <2>1. scheduler' = [m \in Schedulers |-> IF m = n THEN SchedulerAt("next") ELSE scheduler[m]]
    BY DEF Crash
  <2>2. /\ SchedulerAt("next") \in Scheduler /\ SchedulerAt("next").lastDone = NoProgress
        /\ SchedulerAt("next").pc = "next"
    BY RestingScheduler DEF Resting
  <2> QED BY <1>1, <2>1, <2>2, NothingPassed DEF SchedulersOK, SchedulerType
<1>4. Moves(n, "down", 0, NoProgress)
  <2> DEFINE w == [pc |-> "down", job |-> 0, lastDone |-> NoProgress,
                   cancel |-> FALSE, stop |-> "none", storeOpen |-> TRUE]
  <2>1. worker' = [worker EXCEPT ![n] = w]
    BY DEF Crash
  <2>2. w \in Worker
    BY NothingPassed DEF Worker
  <2> QED BY <2>1, <2>2 DEF Moves, WorkerType
<1> QED BY <1>1, <1>2, <1>3, <1>4, LettingGo

\* A restarted process starts with an idle worker.
LEMMA RestartStep ==
  ASSUME MigrationInv, NEW n \in Nodes, Restart(n)
  PROVE  MigrationInv'
<1> USE InvariantParts, WorkerFields
<1>1. UNCHANGED <<jobs, created, completed, migrated, scheduler, wedged, used>>
  BY DEF Restart, table
<1>2. SchedulersOK' /\ UsedType'
  BY <1>1, SchedulersStay DEF UsedType
<1>3. Moves(n, "idle", worker[n].job, worker[n].lastDone)
  BY GotoMoves DEF Restart, Pcs
<1> QED BY <1>1, <1>2, <1>3, KeepingJob DEF Pcs

-----------------------------------------------------------------------------
(* The steps of a scheduler, and of the others that change jobs *)

\* The steps after which the scheduler holds no job: setNextRunTime, a change, and
\* a scheduleJob that read nothing or failed (schedulers.go:91-130, 146-180).
LEMMA RestingStep ==
  ASSUME MigrationInv, NEW s \in Schedulers,
         SetNextRunTime(s) \/ ReadSystem(s) \/ SchedulingFails(s) \/ ChangeSchedule(s)
  PROVE  MigrationInv'
<1> USE InvariantParts, SchedulersAssumption
<1>1. UNCHANGED <<table, worker, wedged>> /\ UNCHANGED <<created, migrated>>
  BY DEF SetNextRunTime, ReadSystem, SchedulingFails, ChangeSchedule, table
<1>2. UsedType'
  BY FailsUsed, SpendUsed
  DEF SetNextRunTime, ReadSystem, SchedulingFails, ChangeSchedule, UsedType
<1>3. PICK pc \in Resting : SchedulerGoto(s, pc)
  BY DEF SetNextRunTime, ReadSystem, SchedulingFails, ChangeSchedule, Resting
<1>4. SchedulersOK'
  BY <1>1, <1>3, SchedulerRests
<1> QED BY <1>1, <1>2, <1>4, SchedulersOnly

\* Reading the last job of the migration (migrations.go:45-60) copies a progress that is covered.
LEMMA ReadJobsStep ==
  ASSUME MigrationInv, NEW s \in Schedulers, ReadJobs(s)
  PROVE  MigrationInv'
<1> USE InvariantParts, JobFields
<1>1. UNCHANGED <<table, worker, wedged, used>> /\ UNCHANGED <<created, migrated>>
  BY DEF ReadJobs, table
<1>2. UsedType'
  BY <1>1 DEF UsedType
<1>3. scheduler \in [Schedulers -> Scheduler] /\ scheduler[s] \in Scheduler
  BY DEF SchedulersOK, SchedulerType
<1>4. CASE created = 0 /\ scheduler' = [scheduler EXCEPT ![s].pc = "create"]
  <2>1. [scheduler[s] EXCEPT !.pc = "create"] \in Scheduler
    BY <1>3 DEF Scheduler
  <2>2. SchedulersOK'
    BY <1>1, <1>3, <1>4, <2>1 DEF SchedulersOK, SchedulerType
  <2> QED BY <1>1, <1>2, <2>2, SchedulersOnly
<1>5. CASE created # 0 /\ SchedulerGoto(s, "next")
  <2>2. SchedulersOK'
    BY <1>1, <1>5, SchedulerRests DEF Resting
  <2> QED BY <1>1, <1>2, <2>2, SchedulersOnly
<1>6. ASSUME created # 0, NEW pc \in {"wedged", "create"},
             scheduler' = [scheduler EXCEPT ![s] =
               [pc |-> pc, job |-> created, lastDone |-> jobs[created].lastDone]]
      PROVE  MigrationInv'
  <2> DEFINE new == [pc |-> pc, job |-> created, lastDone |-> jobs[created].lastDone]
  <2>1. created \in JobIds /\ created \in 1..created
    BY <1>6 DEF JobIds
  <2>2. new \in Scheduler /\ Passed(new.lastDone) \subseteq migrated
    BY <2>1 DEF Scheduler, Coverage, MigrationInv, ProgressIsCovered
  <2>3. SchedulersOK'
    BY <1>1, <1>3, <1>6, <2>1, <2>2 DEF SchedulersOK, SchedulerType
  <2> QED BY <1>1, <1>2, <2>3, SchedulersOnly
<1> QED BY <1>4, <1>5, <1>6 DEF ReadJobs, SchedulerGoto

\* Giving a wedged job up (scheduler.go:63-69) rewrites the row with the progress the scheduler read.
LEMMA SetWedgedStep ==
  ASSUME MigrationInv, NEW s \in Schedulers, SetWedged(s)
  PROVE  MigrationInv'
<1> DEFINE j == scheduler[s].job
<1> USE InvariantParts, JobFields, SchedulersAssumption
<1>1. /\ UNCHANGED <<worker, created, completed, migrated>>
      /\ scheduler' = [scheduler EXCEPT ![s].pc = "create"]
      /\ j \in JobIds /\ jobs[j].status # "none"
  BY DEF SetWedged, Scheduling, SchedulersOK
<1>2. SchedulersOK'
  <2>1. scheduler[s] \in Scheduler
    BY DEF SchedulersOK, SchedulerType
  <2>2. [scheduler[s] EXCEPT !.pc = "create"] \in Scheduler
    BY <2>1 DEF Scheduler
  <2> QED BY <1>1, <2>1, <2>2 DEF SchedulersOK, SchedulerType
<1>3. CASE Update(j, "error") /\ wedged' = wedged \cup {j} /\ UNCHANGED used
  <2>1. Becomes(j, "error", jobs[j].lastDone)
    BY <1>1, <1>3, UpdateBecomes DEF Statuses
  <2>2. UsedType'
    BY <1>3 DEF UsedType
  <2> QED BY <1>1, <1>2, <1>3, <2>1, <2>2, ChangingStatus DEF Statuses
<1>4. CASE Fails(s) /\ UNCHANGED <<jobs, wedged>>
  <2>1. UsedType'
    BY <1>4, FailsUsed
  <2> QED BY <1>1, <1>2, <1>4, <2>1, SchedulersOnly DEF table
<1> QED BY <1>3, <1>4 DEF SetWedged

\* The new job gets the progress that the scheduler has read.
LEMMA CreateJobStep ==
  ASSUME MigrationInv, NEW s \in Schedulers, CreateJob(s)
  PROVE  MigrationInv'
<1> DEFINE j == created + 1
           p == scheduler[s].lastDone
           new == [status |-> "pending", lastDone |-> p, aged |-> FALSE]
<1> USE InvariantParts, WorkerFields, JobFields
<1>1. /\ UNCHANGED <<completed, migrated, worker, wedged, used>>
      /\ created' = created + 1 /\ created < MaxJobs
      /\ SchedulerGoto(s, "next")
      /\ jobs' = [jobs EXCEPT ![j] = new]
  BY DEF CreateJob
<1>2. p \in Progress /\ Passed(p) \subseteq migrated /\ j \in JobIds /\ ~(j <= created)
  BY <1>1 DEF SchedulersOK, SchedulerType, Scheduler, JobIds
<1>3. Becomes(j, "pending", p)
  <2>1. new \in Job
    BY <1>2 DEF Job, Statuses
  <2> QED BY <1>1, <1>2, <2>1 DEF Becomes, JobType
<1>4. \A m \in Nodes : HasJob(m) => worker[m].job \in 1..created /\ worker[m].job # j
                                   /\ jobs'[worker[m].job] = jobs[worker[m].job]
  BY <1>2, <1>3 DEF Ownership, MigrationInv, Becomes
<1> HIDE DEF p, new
<1>5. SchedulersOK' /\ UsedType'
  <2>1. created' \in Nat /\ created' >= created
    BY <1>1
  <2> QED BY <1>1, <2>1, SchedulerRests DEF Resting, UsedType
<1>6. TypeOK'
  <2>1. \A k \in JobIds : jobs'[k].status = "none" <=> k > created'
    BY <1>1, <1>2, <1>3 DEF Becomes, JobIds
  <2> QED
    BY <1>1, <1>3, <1>5, <2>1 DEF TypeOK, WorkerType, Becomes, UsedType, SchedulersOK,
                                  SchedulerType, MigrationInv
<1>7. Ownership'
  BY <1>1, <1>4, <1>5 DEF Ownership, MigrationInv, HasJob, InDoJob, At, OneWorkerPerJob,
                          SchedulersOK
<1>8. Coverage'
  BY <1>1, <1>2, <1>3, <1>5 DEF Coverage, MigrationInv, Becomes, ProgressIsCovered, At,
                                CompletedMeansMigrated, SchedulersOK
<1>9. Resumption'
  BY <1>1, <1>4 DEF Resumption, MigrationInv, HasJob, At, InDoJob, AtLeast
<1> QED BY <1>6, <1>7, <1>8, <1>9 DEF MigrationInv

\* RequestCancellation (jobs.go:116-130) changes a status and no progress.
LEMMA RequestCancellationStep ==
  ASSUME MigrationInv, NEW j \in JobIds, RequestCancellation(j)
  PROVE  MigrationInv'
<1> USE InvariantParts
<1>1. UNCHANGED <<created, completed, migrated, worker, scheduler, wedged>>
  BY DEF RequestCancellation
<1>2. SchedulersOK' /\ UsedType'
  BY <1>1, SchedulersStay, SpendUsed DEF RequestCancellation
<1>3. CASE jobs[j].status = "pending" /\ Update(j, "canceled")
  <2>1. Becomes(j, "canceled", jobs[j].lastDone)
    BY <1>3, UpdateBecomes DEF Statuses
  <2> QED BY <1>1, <1>2, <1>3, <2>1, ChangingStatus DEF Statuses
<1>4. CASE jobs[j].status = "in_progress" /\ Update(j, "cancel_requested")
  <2>1. Becomes(j, "cancel_requested", jobs[j].lastDone)
    BY <1>4, UpdateBecomes DEF Statuses
  <2> QED BY <1>1, <1>2, <1>4, <2>1, ChangingStatus DEF Statuses, FinalStatuses
<1> QED BY <1>3, <1>4 DEF RequestCancellation

\* An hour passes without activity of a job.
LEMMA AgeingStep ==
  ASSUME MigrationInv, NEW j \in JobIds, AgeAbandoned(j) \/ AgeSlow(j)
  PROVE  MigrationInv'
<1> USE InvariantParts, JobFields
<1>1. UNCHANGED <<created, completed, migrated, worker, scheduler, wedged>>
  BY DEF AgeAbandoned, AgeSlow
<1>2. SchedulersOK' /\ UsedType'
  BY <1>1, SchedulersStay, SpendUsed DEF AgeAbandoned, AgeSlow, UsedType
<1>3. jobs[j].status \in {"pending", "in_progress"}
  BY DEF AgeAbandoned, AgeSlow
<1>4. Becomes(j, jobs[j].status, jobs[j].lastDone)
  <2>1. jobs' = [jobs EXCEPT ![j].aged = TRUE]
    BY DEF AgeAbandoned, AgeSlow
  <2>2. [jobs[j] EXCEPT !.aged = TRUE] \in Job
    BY DEF Job
  <2> QED BY <2>1, <2>2 DEF Becomes, JobType
<1> QED BY <1>1, <1>2, <1>3, <1>4, ChangingStatus DEF FinalStatuses

-----------------------------------------------------------------------------
(* The theorems *)

LEMMA InvariantInit ==
  ASSUME Init
  PROVE  MigrationInv
<1> USE NothingPassed, BoundsAssumption
<1>1. TypeOK
  <2>1. jobs \in [JobIds -> Job] /\ \A j \in JobIds : jobs[j].status = "none" /\ j > created
    BY DEF Init, Started, Unused, Job, Statuses, JobIds
  <2>2. worker \in [Nodes -> Worker]
    BY DEF Init, Started, Unused, Worker
  <2>3. scheduler \in [Schedulers -> Scheduler]
    BY RestingScheduler DEF Init, Started, Unused, Resting
  <2>4. used \in [{"errors", "crashes", "cancels", "slow", "stops", "changes"} -> Nat]
    BY DEF Init, Started, Unused
  <2>5. created \in 0..MaxJobs
    BY DEF Init, Started, Unused
  <2>6. completed \in BOOLEAN /\ migrated \subseteq Rows /\ wedged \subseteq JobIds
    BY DEF Init, Started, Unused
  <2> QED BY <2>1, <2>2, <2>3, <2>4, <2>5, <2>6 DEF TypeOK
<1>2. Ownership
  BY DEF Init, Started, Unused, Ownership, OneWorkerPerJob, HasJob, InDoJob, At, SchedulerAt
<1>3. Coverage
  BY DEF Init, Started, Unused, Coverage, ProgressIsCovered, CompletedMeansMigrated, At, SchedulerAt
<1>4. Resumption
  BY DEF Init, Started, Unused, Resumption, InDoJob, At
<1> QED BY <1>1, <1>2, <1>3, <1>4 DEF MigrationInv

\* Every step keeps the invariant: one case for each action of Next.
LEMMA InvariantStep ==
  ASSUME MigrationInv, [Next]_vars
  PROVE  MigrationInv'
<1>1. ASSUME NEW n \in Nodes, WorkerStep(n) \/ Fail(n)
      PROVE  MigrationInv'
  BY <1>1, OfferStep, ClaimStep, WatchCancellationStep, CancelStep, RunBatchStep,
     EndOfTableStep, SaveProgressStep, CompleteStep, SucceedStep, SetErrorStep, FinishStep,
     FailStep
  DEF WorkerStep
<1>2. ASSUME NEW n \in Nodes, CloseStore(n) \/ StopWorker(n) \/ Crash(n) \/ Restart(n)
      PROVE  MigrationInv'
  BY <1>2, CloseStoreStep, StopWorkerStep, CrashStep, RestartStep
<1>3. ASSUME NEW s \in Schedulers,
             SchedulerStep(s) \/ SchedulingFails(s) \/ ChangeSchedule(s)
      PROVE  MigrationInv'
  BY <1>3, RestingStep, ReadJobsStep, SetWedgedStep, CreateJobStep
  DEF SchedulerStep
<1>4. ASSUME NEW j \in JobIds, RequestCancellation(j) \/ AgeAbandoned(j) \/ AgeSlow(j)
      PROVE  MigrationInv'
  BY <1>4, RequestCancellationStep, AgeingStep
<1>5. CASE UNCHANGED vars
  <2>1. SchedulersOK' /\ UsedType'
    BY <1>5, InvariantParts, SchedulersStay DEF vars, table, UsedType
  <2> QED BY <1>5, <2>1, SchedulersOnly DEF vars, table
<1> QED BY <1>1, <1>2, <1>3, <1>4, <1>5 DEF Next
\* The invariant is inductive: types, who owns which job, what every copy of the
\* progress is worth, and that no worker is behind the table.
THEOREM MigrationInvariant == Spec => []MigrationInv
<1>1. Init => MigrationInv
  BY InvariantInit
<1>2. MigrationInv /\ [Next]_vars => MigrationInv'
  BY InvariantStep
<1> QED BY <1>1, <1>2, PTL DEF Spec

\* The types, and the numbering of the jobs in the table.
THEOREM MigrationTypes == Spec => []TypeOK
<1>1. MigrationInv => TypeOK
  BY DEF MigrationInv
<1> QED BY <1>1, MigrationInvariant, PTL

\* However many nodes claim it, a job is in the hands of one worker: what
\* UpdateStatusOptimistically of ClaimJob is for.
THEOREM OneWorker == Spec => []OneWorkerPerJob
<1>1. MigrationInv => OneWorkerPerJob
  BY DEF MigrationInv, Ownership
<1> QED BY <1>1, MigrationInvariant, PTL

\* The key of the migration is stored only when every row of both tables has been
\* migrated, whatever crashed, was canceled, failed or ran twice.
THEOREM Completion == Spec => []CompletedMeansMigrated
<1>1. MigrationInv => CompletedMeansMigrated
  BY DEF MigrationInv, Coverage
<1> QED BY <1>1, MigrationInvariant, PTL

\* The progress in the Jobs table is of rows that have been migrated, so that
\* the job that takes over from there skips nothing.
THEOREM Resumable == Spec => []ProgressIsCovered
<1>1. MigrationInv => ProgressIsCovered
  BY DEF MigrationInv, Coverage
<1> QED BY <1>1, MigrationInvariant, PTL

\* How the row of a job can change: by an update of its status, which keeps the
\* progress, by the worker that is inside DoJob with it, or by its creation.
LEMMA JobChanges ==
  ASSUME MigrationInv, [Next]_vars, NEW j \in JobIds, jobs'[j] # jobs[j]
  PROVE  \/ jobs[j].status = "none"
         \/ jobs'[j].lastDone = jobs[j].lastDone
         \/ \E n \in Nodes : /\ InDoJob(n) /\ worker[n].job = j
                             /\ jobs'[j].lastDone = worker[n].lastDone
<1> USE InvariantParts, JobFields, WorkerFields
<1>1. ASSUME NEW k \in JobIds, NEW status \in Statuses, Update(k, status)
      PROVE  jobs'[j].lastDone = jobs[j].lastDone
  BY <1>1, UpdateBecomes DEF Becomes
<1>2. ASSUME NEW n \in Nodes, WorkerStep(n) \/ Fail(n)
      PROVE  \/ jobs'[j].lastDone = jobs[j].lastDone
             \/ /\ InDoJob(n) /\ worker[n].job = j
                /\ jobs'[j].lastDone = worker[n].lastDone
  <2>1. CASE UNCHANGED jobs
    BY <2>1
  <2>2. ASSUME InDoJob(n), NEW status \in Statuses,
               UpdateData(worker[n].job, status, worker[n].lastDone)
        PROVE  \/ jobs'[j].lastDone = jobs[j].lastDone
               \/ worker[n].job = j /\ jobs'[j].lastDone = worker[n].lastDone
    <3>1. worker[n].job \in JobIds
      BY <2>2 DEF HasJob
    <3> QED BY <2>2, <3>1, UpdateDataBecomes DEF Becomes
  <2>3. CASE Claim(n) \/ Cancel(n) \/ Succeed(n)
    <3>1. HasJob(n)
      BY <2>3 DEF Claim, Cancel, Succeed, HasJob, InDoJob, At
    <3> QED BY <1>1, <2>1, <2>3, <3>1 DEF Claim, Cancel, Succeed, Statuses
  <2>4. CASE SaveProgress(n) \/ SetError(n)
    <3>1. InDoJob(n)
      BY <2>4 DEF SaveProgress, SetError, InDoJob, At
    <3> QED BY <2>1, <2>2, <2>4, <3>1 DEF SaveProgress, SetError, Statuses
  <2>5. CASE \/ WatchCancellation(n) \/ RunBatch(n) \/ EndOfTable(n) \/ Complete(n)
             \/ Finish(n) \/ Fail(n) \/ \E k \in JobIds : Offer(n, k)
    BY <2>1, <2>5 DEF WatchCancellation, RunBatch, EndOfTable, Complete, Finish, Fail, Offer,
                      table
  <2> QED BY <1>2, <2>3, <2>4, <2>5 DEF WorkerStep
<1>3. ASSUME NEW n \in Nodes, CloseStore(n) \/ StopWorker(n) \/ Crash(n) \/ Restart(n)
      PROVE  UNCHANGED jobs
  BY <1>3 DEF CloseStore, StopWorker, Crash, Restart, table
<1>4. ASSUME NEW s \in Schedulers,
             SchedulerStep(s) \/ SchedulingFails(s) \/ ChangeSchedule(s)
      PROVE  jobs[j].status = "none" \/ jobs'[j].lastDone = jobs[j].lastDone
  <2>1. CASE \/ SetNextRunTime(s) \/ ReadSystem(s) \/ ReadJobs(s) \/ SchedulingFails(s)
             \/ ChangeSchedule(s)
    BY <2>1 DEF SetNextRunTime, ReadSystem, ReadJobs, SchedulingFails, ChangeSchedule, table
  <2>2. CASE SetWedged(s)
    <3>1. scheduler[s].job \in JobIds
      BY <2>2 DEF SetWedged, Scheduling, SchedulersOK
    <3> QED BY <1>1, <2>2, <3>1 DEF SetWedged, Statuses
  <2>3. CASE CreateJob(s)
    BY <2>3 DEF CreateJob, JobType, JobIds
  <2> QED BY <1>4, <2>1, <2>2, <2>3 DEF SchedulerStep
<1>5. ASSUME NEW k \in JobIds, RequestCancellation(k) \/ AgeAbandoned(k) \/ AgeSlow(k)
      PROVE  jobs'[j].lastDone = jobs[j].lastDone
  <2>1. CASE RequestCancellation(k)
    BY <1>1, <2>1 DEF RequestCancellation, Statuses
  <2>2. CASE AgeAbandoned(k) \/ AgeSlow(k)
    BY <2>2 DEF AgeAbandoned, AgeSlow, JobType, Job
  <2> QED BY <1>5, <2>1, <2>2
<1>6. CASE UNCHANGED vars
  BY <1>6 DEF vars, table
<1> QED BY <1>2, <1>3, <1>4, <1>5, <1>6 DEF Next

\* No update of a job, of any process, sets its progress back.
THEOREM ProgressNeverSetBack == Spec => ProgressGrows
<1>1. ASSUME MigrationInv, [Next]_vars
      PROVE  \A j \in JobIds : jobs[j].status # "none" =>
               AtLeast(jobs'[j].lastDone, jobs[j].lastDone)
  <2> SUFFICES ASSUME NEW j \in JobIds, jobs[j].status # "none"
               PROVE  AtLeast(jobs'[j].lastDone, jobs[j].lastDone)
    OBVIOUS
  <2>1. CASE jobs'[j] = jobs[j]
    BY <2>1 DEF AtLeast
  <2>2. CASE jobs'[j] # jobs[j]
    BY <1>1, <2>2, JobChanges DEF AtLeast, Resumption, MigrationInv
  <2> QED BY <2>1, <2>2
<1>2. MigrationInv /\ [Next]_vars
        => [\A j \in JobIds : jobs[j].status # "none" =>
              AtLeast(jobs'[j].lastDone, jobs[j].lastDone)]_vars
  BY <1>1
<1> QED BY <1>2, MigrationInvariant, PTL DEF Spec, ProgressGrows
\* Who ends a job that has already ended, or takes it up again, is a scheduler,
\* or the worker whose job a scheduler took for wedged.
THEOREM FinalStays == Spec => FinalUnlessWedged
<1>1. ASSUME MigrationInv, [Next]_vars, NEW j \in JobIds,
             jobs[j].status \in FinalStatuses, jobs'[j].status # jobs[j].status
      PROVE  j \in wedged'
  <2> USE InvariantParts, JobFields, WorkerFields
  <2>1. ASSUME NEW k \in JobIds, NEW status \in Statuses, Update(k, status)
        PROVE  k = j
    BY <1>1, <2>1, UpdateBecomes DEF Becomes
  <2>2. ASSUME NEW n \in Nodes, InDoJob(n), worker[n].job = j
        PROVE  j \in wedged
    BY <1>1, <2>2 DEF Ownership, MigrationInv
  <2>3. ASSUME NEW n \in Nodes, WorkerStep(n) \/ Fail(n)
        PROVE  j \in wedged /\ UNCHANGED wedged
    <3>1. UNCHANGED wedged
      BY <2>3 DEF WorkerStep, Claim, WatchCancellation, Cancel, RunBatch, EndOfTable,
                  SaveProgress, Complete, Succeed, SetError, Finish, Offer, Fail
    <3>2. CASE Claim(n)
      <4>1. HasJob(n)
        BY <3>2 DEF Claim, HasJob
      <4> QED BY <1>1, <2>1, <3>2, <4>1 DEF Claim, Statuses, FinalStatuses
    <3>3. CASE Cancel(n) \/ Succeed(n)
      <4>1. InDoJob(n) /\ HasJob(n)
        BY <3>3 DEF Cancel, Succeed, HasJob, InDoJob, At
      <4> QED BY <1>1, <2>1, <2>2, <3>1, <3>3, <4>1 DEF Cancel, Succeed, Statuses
    <3>4. ASSUME SaveProgress(n) \/ SetError(n) PROVE FALSE
      <4>1. InDoJob(n) /\ HasJob(n) /\ ~UNCHANGED jobs
        BY <1>1, <3>4 DEF SaveProgress, SetError, HasJob, InDoJob, At
      <4>2. PICK status \in Statuses :
              /\ UpdateData(worker[n].job, status, worker[n].lastDone)
              /\ jobs[worker[n].job].status \notin FinalStatuses
        BY <3>4, <4>1 DEF SaveProgress, SetError, Statuses, FinalStatuses
      <4>3. worker[n].job = j
        BY <1>1, <4>1, <4>2, UpdateDataBecomes DEF Becomes
      <4> QED BY <1>1, <4>2, <4>3
    <3>5. CASE \/ WatchCancellation(n) \/ RunBatch(n) \/ EndOfTable(n) \/ Complete(n)
               \/ Finish(n) \/ Fail(n) \/ \E k \in JobIds : Offer(n, k)
      BY <1>1, <3>5 DEF WatchCancellation, RunBatch, EndOfTable, Complete, Finish, Fail,
                        Offer, table
    <3> QED BY <2>3, <3>1, <3>2, <3>3, <3>4, <3>5 DEF WorkerStep
  <2>4. ASSUME NEW n \in Nodes, CloseStore(n) \/ StopWorker(n) \/ Crash(n) \/ Restart(n)
        PROVE  FALSE
    BY <1>1, <2>4 DEF CloseStore, StopWorker, Crash, Restart, table
  <2>5. ASSUME NEW s \in Schedulers,
               SchedulerStep(s) \/ SchedulingFails(s) \/ ChangeSchedule(s)
        PROVE  j \in wedged'
    <3>1. CASE \/ SetNextRunTime(s) \/ ReadSystem(s) \/ ReadJobs(s) \/ SchedulingFails(s)
               \/ ChangeSchedule(s)
      BY <1>1, <3>1 DEF SetNextRunTime, ReadSystem, ReadJobs, SchedulingFails, ChangeSchedule, table
    <3>2. CASE SetWedged(s)
      <4>1. scheduler[s].job \in JobIds
        BY <1>1, <3>2 DEF SetWedged, Scheduling, SchedulersOK
      <4> QED BY <1>1, <2>1, <3>2, <4>1 DEF SetWedged, Statuses
    <3>3. CASE CreateJob(s)
      <4>1. j # created + 1
        BY <1>1 DEF FinalStatuses
      <4> QED BY <1>1, <3>3, <4>1 DEF CreateJob, JobType
    <3> QED BY <2>5, <3>1, <3>2, <3>3 DEF SchedulerStep
  <2>6. ASSUME NEW k \in JobIds, RequestCancellation(k) \/ AgeAbandoned(k) \/ AgeSlow(k)
        PROVE  FALSE
    <3>1. CASE RequestCancellation(k)
      BY <1>1, <2>1, <3>1 DEF RequestCancellation, Statuses, FinalStatuses
    <3>2. CASE AgeAbandoned(k) \/ AgeSlow(k)
      BY <1>1, <3>2 DEF AgeAbandoned, AgeSlow, JobType, Job
    <3> QED BY <2>6, <3>1, <3>2
  <2>7. CASE UNCHANGED vars
    BY <1>1, <2>7 DEF vars, table
  <2> QED BY <1>1, <2>3, <2>4, <2>5, <2>6, <2>7 DEF Next
<1>2. MigrationInv /\ [Next]_vars
        => [\A j \in JobIds :
              jobs[j].status \in FinalStatuses /\ jobs'[j].status # jobs[j].status
                => j \in wedged']_vars
  BY <1>1
<1> QED BY <1>2, MigrationInvariant, PTL DEF Spec, FinalUnlessWedged

-----------------------------------------------------------------------------
(* One runner at a time *)

\* Nobody has asked for a cancellation, and no hour has passed without activity
\* of a job that somebody runs or could run.
Calm == used.cancels = 0 /\ used.slow = 0

\* Job j has ended, or nobody runs it and it is an hour old.
Over(j) == jobs[j].status \in FinalStatuses \/ jobs[j].aged

\* Only the newest job is waiting or run, and a scheduler is about to create
\* another when it is over.
OneAtATime ==
  /\ \A n \in Nodes : InDoJob(n) => /\ worker[n].job = created
                                    /\ jobs[created].status = "in_progress"
                                    /\ ~jobs[created].aged
  /\ \A j \in JobIds : /\ jobs[j].status # "cancel_requested"
                       /\ jobs[j].status = "pending" => j = created /\ ~jobs[j].aged
  /\ \A s \in Schedulers : /\ scheduler[s].pc = "create" => created = 0 \/ Over(created)
                           /\ scheduler[s].pc = "wedged" => /\ scheduler[s].job = created
                                                            /\ jobs[created].aged

\* What a worker is inside DoJob with, as long as nobody cancels or is slow.
LEMMA Running ==
  ASSUME MigrationInv, OneAtATime, NEW n \in Nodes, InDoJob(n)
  PROVE  /\ worker[n].job = created /\ created \in JobIds
         /\ jobs[created].status = "in_progress" /\ ~jobs[created].aged
         /\ \A m \in Nodes : InDoJob(m) => m = n
         /\ \A s \in Schedulers : scheduler[s].pc \notin {"create", "wedged"}
         /\ \A j \in JobIds : jobs[j].status # "pending"
<1>1. worker[n].job = created /\ created \in JobIds
  BY InvariantParts DEF OneAtATime, HasJob
<1>2. jobs[created].status = "in_progress" /\ ~jobs[created].aged
  BY DEF OneAtATime
<1>3. \A m \in Nodes : InDoJob(m) => m = n
  BY <1>1 DEF OneAtATime, MigrationInv, Ownership, OneWorkerPerJob
<1>4. created # 0
  BY <1>1 DEF JobIds
<1>5. \A s \in Schedulers : scheduler[s].pc \notin {"create", "wedged"}
  BY <1>2, <1>4 DEF OneAtATime, Over, FinalStatuses
<1>6. \A j \in JobIds : jobs[j].status # "pending"
  BY <1>2 DEF OneAtATime
<1> QED BY <1>1, <1>2, <1>3, <1>5, <1>6

\* Nobody starts to run a job or to create one.
LEMMA NobodyStarts ==
  ASSUME OneAtATime, UNCHANGED <<jobs, created>>,
         \A n \in Nodes : InDoJob(n)' => InDoJob(n) /\ worker'[n].job = worker[n].job,
         \A s \in Schedulers : \/ scheduler'[s] = scheduler[s]
                               \/ scheduler'[s].pc \in Resting
  PROVE  OneAtATime'
BY DEF OneAtATime, Over, Resting

\* Who runs the newest job stores what became of it.
LEMMA RunnerUpdates ==
  ASSUME MigrationInv, OneAtATime, NEW n \in Nodes, InDoJob(n),
         NEW status \in FinalStatuses \cup {"in_progress"}, NEW p,
         Becomes(created, status, p), ~jobs'[created].aged,
         UNCHANGED <<created, scheduler>>,
         \A m \in Nodes : m # n => worker'[m] = worker[m],
         InDoJob(n)' => status = "in_progress" /\ worker'[n].job = worker[n].job
  PROVE  OneAtATime'
<1> USE Running
<1>1. \A m \in Nodes : InDoJob(m)' => m = n
  BY DEF InDoJob
<1>2. \A j \in JobIds : /\ jobs'[j].status # "cancel_requested"
                        /\ jobs'[j].status # "pending"
  BY DEF Becomes, OneAtATime, FinalStatuses
<1>3. \A m \in Nodes : InDoJob(m)' => /\ worker'[m].job = created
                                      /\ jobs'[created].status = "in_progress"
                                      /\ ~jobs'[created].aged
  BY <1>1 DEF Becomes
<1> QED BY <1>1, <1>2, <1>3 DEF OneAtATime, Over

\* The updates of a job leave it young.
LEMMA UpdatesRejuvenate ==
  ASSUME JobType, NEW j \in JobIds, NEW status \in Statuses, NEW p \in Progress,
         Update(j, status) \/ UpdateData(j, status, p)
  PROVE  ~jobs'[j].aged
BY JobFields DEF Update, UpdateData, Job, JobType

\* The steps of a worker.
LEMMA WorkerKeepsOne ==
  ASSUME MigrationInv, OneAtATime, NEW n \in Nodes, WorkerStep(n) \/ Fail(n)
  PROVE  OneAtATime'
<1> USE InvariantParts, WorkerFields, JobFields
<1> DEFINE Ends == \A m \in Nodes : InDoJob(m)' => InDoJob(m) /\ worker'[m].job = worker[m].job
<1>1. ASSUME NEW pc \in Pcs, Goto(n, pc), InDoJob(n)
      PROVE  Ends /\ (\A m \in Nodes : m # n => worker'[m] = worker[m])
  BY <1>1, GotoMoves DEF Moves, InDoJob
<1>2. ASSUME NEW stop \in {"none", "sent", "taken"}, ReturnTo(n, stop)
      PROVE  Ends /\ ~InDoJob(n)' /\ (\A m \in Nodes : m # n => worker'[m] = worker[m])
  BY <1>2, ReturnMoves DEF Moves, InDoJob
<1>3. ASSUME Return(n)
      PROVE  Ends /\ ~InDoJob(n)' /\ (\A m \in Nodes : m # n => worker'[m] = worker[m])
  BY <1>3, PlainReturnMoves DEF Moves, InDoJob
<1>4. ASSUME Ends, UNCHANGED <<jobs, created, scheduler>>
      PROVE  OneAtATime'
  BY <1>4, NobodyStarts
<1>5. ASSUME InDoJob(n), NEW status \in FinalStatuses \cup {"in_progress"},
             Update(worker[n].job, status)
      PROVE  /\ Becomes(created, status, jobs[created].lastDone)
             /\ ~jobs'[created].aged
  BY <1>5, Running, UpdateBecomes, UpdatesRejuvenate DEF FinalStatuses, Statuses
<1>6. ASSUME InDoJob(n), NEW status \in FinalStatuses \cup {"in_progress"},
             UpdateData(worker[n].job, status, worker[n].lastDone)
      PROVE  /\ Becomes(created, status, worker[n].lastDone)
             /\ ~jobs'[created].aged
  BY <1>6, Running, UpdateDataBecomes, UpdatesRejuvenate DEF FinalStatuses, Statuses
<1> HIDE DEF Ends
<1>7. CASE \E j \in JobIds : Offer(n, j)
  <2>1. Ends /\ UNCHANGED <<jobs, created, scheduler>>
    BY <1>7 DEF Offer, Ends, InDoJob, table, WorkerType
  <2> QED BY <1>4, <2>1
<1>8. CASE Claim(n)
  <2>0. UNCHANGED <<created, scheduler>> /\ worker[n].job \in JobIds
    BY <1>8 DEF Claim, HasJob
  <2>1. CASE Return(n) /\ UNCHANGED jobs
    BY <1>3, <1>4, <2>0, <2>1
  <2>2. CASE /\ jobs[worker[n].job].status = "pending"
             /\ Update(worker[n].job, "in_progress")
             /\ Goto(n, "run")
    <3>1. worker[n].job = created /\ created \in JobIds
      BY <2>0, <2>2 DEF OneAtATime
    <3>2. \A m \in Nodes : ~InDoJob(m)
      BY <2>0, <2>2, Running
    <3>3. Becomes(created, "in_progress", jobs[created].lastDone) /\ ~jobs'[created].aged
      BY <2>2, <3>1, UpdateBecomes, UpdatesRejuvenate DEF Statuses
    <3>4. \A m \in Nodes : InDoJob(m)' => worker'[m].job = created
      BY <2>2, <3>1, <3>2, GotoMoves DEF Moves, InDoJob, Pcs
    <3>5. \A j \in JobIds : jobs'[j].status \notin {"cancel_requested", "pending"}
      BY <2>2, <3>1, <3>3 DEF Becomes, OneAtATime
    <3>6. \A s \in Schedulers : scheduler[s].pc \notin {"create", "wedged"}
      BY <2>2, <3>1 DEF OneAtATime, Over, FinalStatuses, JobIds
    <3> QED BY <2>0, <3>1, <3>3, <3>4, <3>5, <3>6 DEF OneAtATime, Becomes
  <2> QED BY <1>8, <2>1, <2>2 DEF Claim
<1>9. CASE WatchCancellation(n)
  <2>1. Ends /\ UNCHANGED <<jobs, created, scheduler>>
    BY <1>9 DEF WatchCancellation, Ends, InDoJob, table, WorkerType
  <2> QED BY <1>4, <2>1
<1>10. CASE Cancel(n)
  <2>0. InDoJob(n) /\ UNCHANGED <<created, scheduler>>
    BY <1>10 DEF Cancel, At, InDoJob
  <2>1. Ends /\ ~InDoJob(n)' /\ (\A m \in Nodes : m # n => worker'[m] = worker[m])
    BY <1>2, <1>3, <1>10 DEF Cancel
  <2>2. CASE UNCHANGED jobs
    BY <1>4, <2>0, <2>1, <2>2
  <2>3. CASE Update(worker[n].job, "canceled")
    <3>1. "canceled" \in FinalStatuses
      BY DEF FinalStatuses
    <3> QED BY <1>5, <2>0, <2>1, <2>3, <3>1, RunnerUpdates
  <2> QED BY <1>10, <2>2, <2>3 DEF Cancel
<1>11. CASE RunBatch(n)
  <2>1. Ends /\ UNCHANGED <<jobs, created, scheduler>>
    BY <1>11 DEF RunBatch, Ends, InDoJob, At, WorkerType
  <2> QED BY <1>4, <2>1
<1>12. CASE EndOfTable(n)
  <2>1. UNCHANGED <<jobs, created, scheduler>> /\ InDoJob(n)
    BY <1>12 DEF EndOfTable, table, At, InDoJob
  <2>2. CASE Goto(n, "complete")
    BY <1>1, <1>4, <2>1, <2>2 DEF Pcs
  <2>3. CASE worker' = [worker EXCEPT ![n].pc = "save",
                          ![n].lastDone = [table |-> "ChannelMembers", last |-> 0]]
    <3>1. Ends
      BY <2>1, <2>3 DEF Ends, InDoJob, WorkerType
    <3> QED BY <1>4, <2>1, <3>1
  <2> QED BY <1>12, <2>2, <2>3 DEF EndOfTable
<1>13. CASE SaveProgress(n)
  <2>0. InDoJob(n) /\ Goto(n, "run") /\ UNCHANGED <<created, scheduler>>
    BY <1>13 DEF SaveProgress, At, InDoJob
  <2>1. Ends /\ (\A m \in Nodes : m # n => worker'[m] = worker[m])
    BY <1>1, <2>0 DEF Pcs
  <2>2. CASE UNCHANGED jobs
    BY <1>4, <2>0, <2>1, <2>2
  <2>3. CASE UpdateData(worker[n].job, "in_progress", worker[n].lastDone)
    <3>1. InDoJob(n)' => worker'[n].job = worker[n].job
      BY <2>1 DEF Ends
    <3> QED BY <1>6, <2>0, <2>1, <2>3, <3>1, RunnerUpdates
  <2> QED BY <1>13, <2>2, <2>3 DEF SaveProgress
<1>14. CASE Complete(n)
  <2>1. /\ InDoJob(n) /\ UNCHANGED <<jobs, created, scheduler>>
        /\ Goto(n, "error") \/ Goto(n, "success")
    BY <1>14 DEF Complete, At, InDoJob
  <2> QED BY <1>1, <1>4, <2>1 DEF Pcs
<1>15. CASE Succeed(n)
  <2>1. InDoJob(n) /\ UNCHANGED <<created, scheduler>> /\ "success" \in FinalStatuses
    BY <1>15 DEF Succeed, At, InDoJob, FinalStatuses
  <2> QED BY <1>3, <1>5, <1>15, <2>1, RunnerUpdates DEF Succeed
<1>16. CASE SetError(n)
  <2>1. /\ InDoJob(n) /\ Return(n) /\ UNCHANGED <<created, scheduler>>
        /\ "error" \in FinalStatuses
    BY <1>16 DEF SetError, At, InDoJob, FinalStatuses
  <2>2. CASE UNCHANGED jobs
    BY <1>3, <1>4, <2>1, <2>2
  <2>3. CASE UpdateData(worker[n].job, "error", worker[n].lastDone)
    BY <1>3, <1>6, <2>1, <2>3, RunnerUpdates
  <2> QED BY <1>16, <2>2, <2>3 DEF SetError
<1>17. CASE Finish(n)
  <2>1. Ends /\ UNCHANGED <<jobs, created, scheduler>>
    BY <1>17 DEF Finish, Ends, InDoJob, table, WorkerType
  <2> QED BY <1>4, <2>1
<1>18. CASE Fail(n)
  <2>1. UNCHANGED <<jobs, created, scheduler>>
    BY <1>18 DEF Fail, table
  <2>2. CASE Return(n)
    BY <1>3, <1>4, <2>1, <2>2
  <2>3. CASE Goto(n, "error") /\ ~At(n, "claim")
    <3>1. InDoJob(n)
      BY <1>18, <2>3 DEF Fail, InDoJob, At
    <3> QED BY <1>1, <1>4, <2>1, <2>3, <3>1 DEF Pcs
  <2> QED BY <1>18, <2>2, <2>3 DEF Fail
<1> QED BY <1>7, <1>8, <1>9, <1>10, <1>11, <1>12, <1>13, <1>14, <1>15, <1>16, <1>17, <1>18
        DEF WorkerStep

\* The scheduler, as long as there is one.
LEMMA SchedulerKeepsOne ==
  ASSUME MigrationInv, OneAtATime, NEW s \in Schedulers, \A m \in Schedulers : m = s,
         SchedulerStep(s) \/ SchedulingFails(s) \/ ChangeSchedule(s)
  PROVE  OneAtATime'
<1> USE InvariantParts, JobFields
<1>1. CASE SetNextRunTime(s) \/ ReadSystem(s) \/ SchedulingFails(s) \/ ChangeSchedule(s)
  <2>1. /\ UNCHANGED <<jobs, created, worker, migrated>>
        /\ \A m \in Schedulers : scheduler'[m].pc \in Resting
    <3>1. UNCHANGED <<jobs, created, worker, migrated>>
      BY <1>1 DEF SetNextRunTime, ReadSystem, SchedulingFails, ChangeSchedule, table
    <3>2. PICK pc \in Resting : SchedulerGoto(s, pc)
      BY <1>1 DEF SetNextRunTime, ReadSystem, SchedulingFails, ChangeSchedule, Resting
    <3> QED BY <3>1, <3>2, SchedulerRests
  <2>2. \A n \in Nodes : InDoJob(n)' => InDoJob(n) /\ worker'[n].job = worker[n].job
    BY <2>1 DEF InDoJob
  <2> QED BY <2>1, <2>2, NobodyStarts
<1>2. CASE ReadJobs(s)
  <2>1. UNCHANGED <<jobs, created, worker>>
    BY <1>2 DEF ReadJobs, table
  <2>2. /\ scheduler'[s].pc = "create" => created = 0 \/ Over(created)
        /\ scheduler'[s].pc = "wedged" => /\ scheduler'[s].job = created
                                          /\ jobs[created].aged
    <3>1. CASE created = 0
      BY <1>2, <3>1 DEF ReadJobs, SchedulersOK, SchedulerType, Scheduler
    <3>2. CASE created # 0
      <4>1. /\ created \in JobIds /\ jobs[created].status # "none"
            /\ jobs[created].status # "cancel_requested"
        BY <3>2 DEF JobIds, OneAtATime
      <4>2. Live(jobs[created]) \/ jobs[created].status \in FinalStatuses
        BY <4>1 DEF Live, FinalStatuses, Statuses
      <4>3. scheduler' = [scheduler EXCEPT ![s] =
              IF Live(jobs[created]) /\ ~Wedged(jobs[created]) THEN SchedulerAt("next")
              ELSE [pc |-> IF Live(jobs[created]) THEN "wedged" ELSE "create",
                    job |-> created, lastDone |-> jobs[created].lastDone]]
        BY <1>2, <3>2 DEF ReadJobs
      <4>4. scheduler'[s] =
              IF Live(jobs[created]) /\ ~Wedged(jobs[created]) THEN SchedulerAt("next")
              ELSE [pc |-> IF Live(jobs[created]) THEN "wedged" ELSE "create",
                    job |-> created, lastDone |-> jobs[created].lastDone]
        BY <4>3 DEF SchedulersOK, SchedulerType
      <4> QED BY <4>2, <4>4 DEF Wedged, Over, SchedulerAt
    <3> QED BY <3>1, <3>2
  <2> QED BY <2>1, <2>2 DEF OneAtATime, Over, InDoJob
<1>3. CASE SetWedged(s)
  <2>1. /\ created \in JobIds /\ scheduler[s].job = created /\ jobs[created].aged
        /\ UNCHANGED <<created, worker>>
    BY <1>3 DEF SetWedged, Scheduling, OneAtATime, SchedulersOK
  <2>2. \A n \in Nodes : ~InDoJob(n)
    BY <2>1 DEF OneAtATime
  <2>3. scheduler'[s].pc = "create"
    BY <1>3 DEF SetWedged, SchedulersOK, SchedulerType
  <2>4. CASE UNCHANGED jobs
    BY <2>1, <2>2, <2>3, <2>4 DEF OneAtATime, Over, InDoJob
  <2>5. CASE Update(created, "error")
    <3>1. Becomes(created, "error", jobs[created].lastDone)
      BY <2>1, <2>5, UpdateBecomes DEF Statuses
    <3>2. \A j \in JobIds : /\ jobs'[j].status # "cancel_requested"
                            /\ jobs'[j].status # "pending"
      BY <2>1, <3>1 DEF Becomes, OneAtATime
    <3> QED BY <2>1, <2>2, <2>3, <3>1, <3>2 DEF OneAtATime, Over, InDoJob, Becomes,
                                                FinalStatuses
  <2> QED BY <1>3, <2>1, <2>4, <2>5 DEF SetWedged
<1>4. CASE CreateJob(s)
  <2>1. /\ created + 1 \in JobIds /\ created' = created + 1 /\ UNCHANGED worker
        /\ created = 0 \/ Over(created)
    BY <1>4 DEF CreateJob, JobIds, Scheduling, OneAtATime
  <2>2. \A n \in Nodes : ~InDoJob(n)
    <3> SUFFICES ASSUME NEW n \in Nodes, InDoJob(n) PROVE FALSE
      OBVIOUS
    <3> QED BY <2>1, Running DEF Over, FinalStatuses, JobIds
  <2>3. \A j \in JobIds : jobs[j].status # "pending"
    <3> SUFFICES ASSUME NEW j \in JobIds, jobs[j].status = "pending" PROVE FALSE
      OBVIOUS
    <3> QED BY <2>1 DEF OneAtATime, Over, FinalStatuses, JobIds
  <2>4. /\ jobs'[created + 1].status = "pending" /\ ~jobs'[created + 1].aged
        /\ \A j \in JobIds : j # created + 1 => jobs'[j] = jobs[j]
    BY <1>4, <2>1 DEF CreateJob, JobType
  <2>5. scheduler'[s].pc = "next"
    BY <1>4 DEF CreateJob, SchedulerGoto, SchedulerAt, SchedulersOK, SchedulerType
  <2>6. \A j \in JobIds : /\ jobs'[j].status # "cancel_requested"
                          /\ jobs'[j].status = "pending" => j = created'
    BY <2>1, <2>3, <2>4 DEF OneAtATime
  <2> QED BY <2>1, <2>2, <2>4, <2>5, <2>6 DEF OneAtATime, InDoJob
<1> QED BY <1>1, <1>2, <1>3, <1>4 DEF SchedulerStep

\* A job that grows old is run by nobody.
LEMMA AbandonedKeepsOne ==
  ASSUME MigrationInv, OneAtATime, NEW j \in JobIds, AgeAbandoned(j)
  PROVE  OneAtATime'
<1> USE InvariantParts, JobFields
<1>1. /\ jobs[j].status = "in_progress" /\ \A n \in Nodes : worker[n].job # j
      /\ jobs' = [jobs EXCEPT ![j].aged = TRUE]
      /\ UNCHANGED <<created, worker, scheduler>>
  BY DEF AgeAbandoned
<1>2. /\ jobs'[j].status = "in_progress" /\ jobs'[j].aged
      /\ \A k \in JobIds : k # j => jobs'[k] = jobs[k]
  BY <1>1 DEF JobType, Job
<1>3. \A n \in Nodes : InDoJob(n) => created # j /\ created \in JobIds
  BY <1>1, Running DEF OneAtATime
<1>4. \A s \in Schedulers : /\ scheduler[s].pc = "create" => created = 0 \/ Over(created)'
                            /\ scheduler[s].pc = "wedged" => jobs'[created].aged
  <2> SUFFICES ASSUME NEW s \in Schedulers
               PROVE  /\ scheduler[s].pc = "create" => created = 0 \/ Over(created)'
                      /\ scheduler[s].pc = "wedged" => jobs'[created].aged
    OBVIOUS
  <2>1. created = 0 \/ created \in JobIds
    BY DEF JobIds
  <2>2. scheduler[s].pc = "wedged" => created \in JobIds
    BY DEF OneAtATime, SchedulersOK
  <2>3. ASSUME created \in JobIds PROVE Over(created) => Over(created)'
    BY <1>1, <1>2, <2>3 DEF Over
  <2> QED BY <1>1, <1>2, <2>1, <2>2, <2>3 DEF OneAtATime
<1>5. \A n \in Nodes : InDoJob(n)' => InDoJob(n)
  BY <1>1 DEF InDoJob
<1> QED BY <1>1, <1>2, <1>3, <1>4, <1>5 DEF OneAtATime

\* The end of a process, or its start, starts no job.
LEMMA ProcessKeepsOne ==
  ASSUME MigrationInv, OneAtATime, NEW n \in Nodes,
         CloseStore(n) \/ StopWorker(n) \/ Crash(n) \/ Restart(n)
  PROVE  OneAtATime'
<1>1. \A m \in Nodes : InDoJob(m)' => InDoJob(m) /\ worker'[m].job = worker[m].job
  BY InvariantParts
  DEF CloseStore, StopWorker, Crash, Restart, Goto, InDoJob, WorkerType, Worker
<1>2. UNCHANGED <<jobs, created>>
  BY DEF CloseStore, StopWorker, Crash, Restart, table
<1>3. \A s \in Schedulers : scheduler'[s] = scheduler[s] \/ scheduler'[s].pc \in Resting
  BY DEF CloseStore, StopWorker, Crash, Restart, SchedulerAt, Resting
<1> QED BY <1>1, <1>2, <1>3, NobodyStarts

\* No other step counts as trouble.
LEMMA CalmStays ==
  ASSUME UsedType, [Next]_vars, \A j \in JobIds : ~RequestCancellation(j) /\ ~AgeSlow(j)
  PROVE  used'.cancels = used.cancels /\ used'.slow = used.slow
<1> DEFINE Kept == used'.cancels = used.cancels /\ used'.slow = used.slow
<1>1. ASSUME NEW what \in {"errors", "crashes", "stops", "changes"}, Spend(what) PROVE Kept
  BY <1>1 DEF Spend, UsedType
<1>2. ASSUME NEW n \in Nodes, Fails(n) PROVE Kept
  BY <1>1, <1>2 DEF Fails
<1>3. ASSUME NEW n \in Nodes, WorkerStep(n) \/ Fail(n) PROVE Kept
  BY <1>2, <1>3 DEF WorkerStep, Claim, WatchCancellation, Cancel, RunBatch, EndOfTable,
                    SaveProgress, Complete, Succeed, SetError, Finish, Offer, Fail
<1>4. ASSUME NEW n \in Nodes, CloseStore(n) \/ StopWorker(n) \/ Crash(n) \/ Restart(n)
      PROVE  Kept
  BY <1>1, <1>4 DEF CloseStore, StopWorker, Crash, Restart
<1>5. ASSUME NEW s \in Schedulers,
             SchedulerStep(s) \/ SchedulingFails(s) \/ ChangeSchedule(s)
      PROVE  Kept
  <2>1. s \in Nodes
    BY SchedulersAssumption
  <2> QED BY <1>1, <1>2, <1>5, <2>1 DEF SchedulerStep, SetNextRunTime, ReadSystem, ReadJobs,
                                        SetWedged, CreateJob, SchedulingFails, ChangeSchedule
<1>6. ASSUME NEW j \in JobIds, AgeAbandoned(j) PROVE Kept
  BY <1>6 DEF AgeAbandoned
<1>7. CASE UNCHANGED vars
  BY <1>7 DEF vars
<1> QED BY <1>3, <1>4, <1>5, <1>6, <1>7 DEF Next

\* What has disturbed a run counts for good.
LEMMA CalmEnds ==
  ASSUME UsedType, [Next]_vars, Calm'
  PROVE  Calm /\ \A j \in JobIds : ~RequestCancellation(j) /\ ~AgeSlow(j)
<1>1. used.cancels \in Nat /\ used.slow \in Nat
  BY DEF UsedType
<1>2. ASSUME NEW j \in JobIds, RequestCancellation(j) PROVE FALSE
  <2>1. used'.cancels = used.cancels + 1
    BY <1>2 DEF RequestCancellation, Spend, UsedType
  <2> QED BY <1>1, <2>1 DEF Calm
<1>3. ASSUME NEW j \in JobIds, AgeSlow(j) PROVE FALSE
  <2>1. used'.slow = used.slow + 1
    BY <1>3 DEF AgeSlow, Spend, UsedType
  <2> QED BY <1>1, <2>1 DEF Calm
<1> QED BY <1>2, <1>3, CalmStays DEF Calm

\* With one scheduler, and until somebody asks for a cancellation or an hour
\* passes without activity, only the newest job is run and no other is created.
THEOREM RunnersTakeTurns ==
  (\A m, n \in Schedulers : m = n) /\ Spec => [](Calm => OneAtATime)
<1> SUFFICES ASSUME \A m, n \in Schedulers : m = n PROVE Spec => [](Calm => OneAtATime)
  OBVIOUS
<1>1. Init => OneAtATime
  BY DEF Init, Started, Unused, OneAtATime, InDoJob, SchedulerAt
<1>2. ASSUME MigrationInv, Calm => OneAtATime, [Next]_vars, Calm' PROVE OneAtATime'
  <2>1. OneAtATime /\ \A j \in JobIds : ~RequestCancellation(j) /\ ~AgeSlow(j)
    BY <1>2, CalmEnds, InvariantParts
  <2>2. CASE UNCHANGED vars
    BY <2>1, <2>2 DEF vars, table, OneAtATime, InDoJob, Over
  <2> QED BY <1>2, <2>1, <2>2, WorkerKeepsOne, ProcessKeepsOne, SchedulerKeepsOne,
             AbandonedKeepsOne DEF Next
<1>3. MigrationInv /\ (Calm => OneAtATime) /\ [Next]_vars => (Calm => OneAtATime)'
  BY <1>2
<1> QED BY <1>1, <1>3, MigrationInvariant, PTL DEF Spec

\* With one scheduler, no cancellation and no hour without activity, no two
\* workers are inside DoJob at a time, whatever fails, dies or is shut down.
THEOREM OneRunnerAtATime ==
  (\A m, n \in Schedulers : m = n) /\ MaxCancels = 0 /\ MaxSlow = 0 /\ Spec
    => [](OneRunner /\ \A m, n \in Nodes : InDoJob(m) /\ InDoJob(n) => m = n)
<1> DEFINE Alone == \A m, n \in Nodes : InDoJob(m) /\ InDoJob(n) => m = n
<1> SUFFICES ASSUME \A m, n \in Schedulers : m = n, MaxCancels = 0, MaxSlow = 0
             PROVE  Spec => [](OneRunner /\ Alone)
  OBVIOUS
<1>1. Init => Calm
  BY DEF Init, Started, Unused, Calm
<1>2. ASSUME MigrationInv, Calm, [Next]_vars PROVE Calm'
  <2>1. \A j \in JobIds : ~RequestCancellation(j) /\ ~AgeSlow(j)
    BY <1>2 DEF RequestCancellation, AgeSlow, Calm
  <2> QED BY <1>2, <2>1, CalmStays, InvariantParts DEF Calm
<1>3. ASSUME MigrationInv, Calm => OneAtATime, Calm PROVE OneRunner /\ Alone
  BY <1>3, Running DEF OneRunner
<1>4. Spec => [](Calm => OneAtATime)
  BY RunnersTakeTurns
<1> QED BY <1>1, <1>2, <1>3, <1>4, MigrationInvariant, PTL DEF Spec
=============================================================================
