---------------------------- MODULE MigrationJobs ----------------------------
(***************************************************************************)
(* The jobs of one migration on the nodes of a cluster: the migrations     *)
(* worker and scheduler (migrations/), the job server, its watcher and the *)
(* watcher of cancellations (jobs/), and the Jobs table                    *)
(* (store/sqlstore/job_store.go).                                          *)
(*                                                                         *)
(* A step ends at every statement that reads or writes the database, and   *)
(* at every select of the worker.  Jobs are numbered in the order of their *)
(* creation; the rows of a table, TeamMembers or ChannelMembers, in the    *)
(* order of their keys.  Left out: jobs created through the API, with data *)
(* of the client's choice, and reads from a replica that lags.             *)
(***************************************************************************)
EXTENDS Integers, FiniteSets

CONSTANTS
  Nodes,       \* processes with a migrations worker
  Schedulers,  \* those that run the schedulers as well
  Size,        \* the number of rows of each table when the migration starts
  BatchSize,   \* LIMIT 100
  MaxJobs,     \* bound on the jobs created
  MaxErrors,   \* bound on the statements that fail
  MaxCrashes,  \* bound on the processes that die
  MaxCancels,  \* bound on the requests for cancellation
  MaxSlow,     \* bound on the hours without activity of a job somebody runs
  MaxStops,    \* bound on the processes that shut down
  MaxChanges   \* bound on the changes of the configuration, or of the cluster's leader

Tables == {"TeamMembers", "ChannelMembers"}

ASSUME SchedulersAssumption == Schedulers \subseteq Nodes
ASSUME SizeAssumption == Size \in [Tables -> Nat] /\ BatchSize \in Nat \ {0}
ASSUME BoundsAssumption ==
  {MaxJobs, MaxErrors, MaxCrashes, MaxCancels, MaxSlow, MaxStops, MaxChanges} \subseteq Nat

VARIABLES
  jobs,       \* the rows of the Jobs table
  created,    \* the newest job; 0 if there is none
  completed,  \* the Systems table has the key of the migration
  migrated,   \* the rows that have been migrated
  worker,     \* the worker of every node
  scheduler,  \* the scheduler of every node
  wedged,     \* history: the jobs a scheduler took for wedged
  used        \* what the bounds count

table == <<jobs, created, completed, migrated>>
vars == <<table, worker, scheduler, wedged, used>>

JobIds == 1..MaxJobs
Rows == UNION {{t} \X (1..Size[t]) : t \in Tables}

\* AdvancedPermissionsPhase2Progress: the table and the last row migrated.
Progress == [table : Tables, last : Nat]
NoProgress == [table |-> "TeamMembers", last |-> 0]

\* A scheduler that has read no job: "next" is setNextRunTime, "off" a nextRunTime
\* of nil, and "done" allMigrationsCompleted.
SchedulerAt(pc) == [pc |-> pc, job |-> 0, lastDone |-> NoProgress]

\* The rows a batch that starts at p leaves behind.
Passed(p) ==
  {r \in Rows : \/ r[1] = p.table /\ r[2] <= p.last
                \/ r[1] = "TeamMembers" /\ p.table = "ChannelMembers"}

Unused == [errors |-> 0, crashes |-> 0, cancels |-> 0, slow |-> 0, stops |-> 0, changes |-> 0]

\* The processes have started; what of the bounds is left, a run may choose.
Started(spent) ==
  /\ jobs = [j \in JobIds |-> [status |-> "none", lastDone |-> NoProgress, aged |-> FALSE]]
  /\ created = 0
  /\ completed = FALSE
  /\ migrated = {}
  /\ worker = [n \in Nodes |-> [pc |-> "idle", job |-> 0, lastDone |-> NoProgress,
                                cancel |-> FALSE, stop |-> "none", storeOpen |-> TRUE]]
  /\ scheduler = [n \in Schedulers |-> SchedulerAt("next")]
  /\ wedged = {}
  /\ used = spent

Init == Started(Unused)

-----------------------------------------------------------------------------
(* The job store *)

\* Every update stores the time: the job has been active within the hour.
Update(j, status) == jobs' = [jobs EXCEPT ![j].status = status, ![j].aged = FALSE]

\* UpdateOptimistically also writes Data.
UpdateData(j, status, lastDone) ==
  jobs' = [jobs EXCEPT ![j] = [status |-> status, lastDone |-> lastDone, aged |-> FALSE]]

Spend(what) == used' = [used EXCEPT ![what] = @ + 1]

\* A statement of node n fails: an error of the database, or the Store was closed.
Fails(n) ==
  \/ /\ worker[n].storeOpen
     /\ used.errors < MaxErrors
     /\ Spend("errors")
  \/ /\ ~worker[n].storeOpen
     /\ UNCHANGED used

-----------------------------------------------------------------------------
(* The worker *)

At(n, pc) == worker[n].pc = pc
Goto(n, pc) == worker' = [worker EXCEPT ![n].pc = pc]

\* DoJob returns to Run, which has taken a stop or not.
ReturnTo(n, stop) ==
  worker' = [worker EXCEPT ![n].pc = "idle", ![n].job = 0, ![n].lastDone = NoProgress,
                           ![n].cancel = FALSE, ![n].stop = stop]
Return(n) == ReturnTo(n, worker[n].stop)

\* PollAndNotify of the watcher, and the receive of the worker.
Offer(n, j) ==
  /\ At(n, "idle")
  /\ worker[n].stop = "none" /\ worker[n].storeOpen
  /\ jobs[j].status = "pending"
  /\ worker' = [worker EXCEPT ![n].pc = "claim", ![n].job = j,
                              ![n].lastDone = jobs[j].lastDone]
  /\ UNCHANGED <<table, scheduler, wedged, used>>

\* Mutant of Claim: UpdateStatus instead of UpdateStatusOptimistically.
ClaimBlindly(n) ==
  /\ At(n, "claim")
  /\ worker[n].storeOpen
  /\ Update(worker[n].job, "in_progress")
  /\ Goto(n, "run")
  /\ UNCHANGED <<created, completed, migrated, scheduler, wedged, used>>

Claim(n) ==
  /\ At(n, "claim")
  /\ worker[n].storeOpen
  /\ \/ /\ jobs[worker[n].job].status = "pending"
        /\ Update(worker[n].job, "in_progress")
        /\ Goto(n, "run")
     \/ /\ jobs[worker[n].job].status # "pending"
        /\ Return(n)
        /\ UNCHANGED jobs
  /\ UNCHANGED <<created, completed, migrated, scheduler, wedged, used>>

InDoJob(n) == worker[n].pc \in {"run", "save", "complete", "success", "error"}

\* The CancellationWatcher of the job closes cancelChan.
WatchCancellation(n) ==
  /\ InDoJob(n)
  /\ ~worker[n].cancel /\ worker[n].storeOpen
  /\ jobs[worker[n].job].status = "cancel_requested"
  /\ worker' = [worker EXCEPT ![n].cancel = TRUE]
  /\ UNCHANGED <<table, scheduler, wedged, used>>

\* <-cancelWatcherChan or <-worker.stop, then SetJobCanceled; if it fails the
\* job is left as it is.
Cancel(n) ==
  /\ At(n, "run")
  /\ worker[n].cancel \/ worker[n].stop = "sent"
  /\ \/ /\ worker[n].cancel
        /\ Return(n)
     \/ /\ worker[n].stop = "sent"
        /\ ReturnTo(n, "taken")
  /\ \/ /\ worker[n].storeOpen
        /\ Update(worker[n].job, "canceled")
        /\ UNCHANGED used
     \/ /\ Fails(n)
        /\ UNCHANGED jobs
  /\ UNCHANGED <<created, completed, migrated, scheduler, wedged>>

\* The last row of the batch that starts at p.
BatchEnd(p) ==
  IF p.last + BatchSize < Size[p.table] THEN p.last + BatchSize ELSE Size[p.table]

\* Mutant of Batch: the first row of the batch is left out.
BatchAfter(p) == {r \in Rows : r[1] = p.table /\ r[2] \in (p.last + 2)..BatchEnd(p)}

\* The rows with a key above p, BatchSize of them at most.
Batch(p) == {r \in Rows : r[1] = p.table /\ r[2] \in (p.last + 1)..BatchEnd(p)}

\* MigrateTeamMembers or MigrateChannelMembers, in one transaction.
RunBatch(n) ==
  LET p == worker[n].lastDone
  IN  /\ At(n, "run")
      /\ worker[n].storeOpen
      /\ p.last < Size[p.table]
      /\ migrated' = migrated \cup Batch(p)
      /\ worker' = [worker EXCEPT ![n].pc = "save", ![n].lastDone.last = BatchEnd(p)]
      /\ UNCHANGED <<jobs, created, completed, scheduler, wedged, used>>

\* Mutant of EndOfTable: the last row is not reset for the second table.
EndOfTableKeepsLast(n) ==
  LET p == worker[n].lastDone
  IN  /\ At(n, "run")
      /\ worker[n].storeOpen
      /\ p.last >= Size[p.table]
      /\ worker' = [worker EXCEPT ![n].pc = IF p.table = "TeamMembers" THEN "save" ELSE "complete",
                                  ![n].lastDone.table = "ChannelMembers"]
      /\ UNCHANGED <<table, scheduler, wedged, used>>

\* The batch is empty: the next table, or the end of the migration.
EndOfTable(n) ==
  LET p == worker[n].lastDone
  IN  /\ At(n, "run")
      /\ worker[n].storeOpen
      /\ p.last >= Size[p.table]
      /\ \/ /\ p.table = "TeamMembers"
            /\ worker' = [worker EXCEPT ![n].pc = "save",
                            ![n].lastDone = [table |-> "ChannelMembers", last |-> 0]]
         \/ /\ p.table = "ChannelMembers"
            /\ Goto(n, "complete")
      /\ UNCHANGED <<table, scheduler, wedged, used>>

\* UpdateInProgressJobData: nobody looks at whether the job was in progress.
SaveProgress(n) ==
  /\ At(n, "save")
  /\ worker[n].storeOpen
  /\ IF jobs[worker[n].job].status = "in_progress"
     THEN UpdateData(worker[n].job, "in_progress", worker[n].lastDone)
     ELSE UNCHANGED jobs
  /\ Goto(n, "run")
  /\ UNCHANGED <<created, completed, migrated, scheduler, wedged, used>>

\* System().Save inserts the key, which fails if another worker did.
Complete(n) ==
  /\ At(n, "complete")
  /\ worker[n].storeOpen
  /\ completed' = TRUE
  /\ Goto(n, IF completed THEN "error" ELSE "success")
  /\ UNCHANGED <<jobs, created, migrated, scheduler, wedged, used>>

\* SetJobSuccess, whatever the status of the job.
Succeed(n) ==
  /\ At(n, "success")
  /\ worker[n].storeOpen
  /\ Update(worker[n].job, "success")
  /\ Return(n)
  /\ UNCHANGED <<created, completed, migrated, scheduler, wedged, used>>

\* The batch, or one of the updates, fails; or the claim does.
Fail(n) ==
  /\ worker[n].pc \in {"claim", "run", "save", "complete", "success"}
  /\ Fails(n)
  /\ IF At(n, "claim") THEN Return(n) ELSE Goto(n, "error")
  /\ UNCHANGED <<table, scheduler, wedged>>

\* Mutant of SetError: the error replaces the data of the job.
SetErrorForgets(n) ==
  /\ At(n, "error")
  /\ worker[n].storeOpen
  /\ UpdateData(worker[n].job, "error", NoProgress)
  /\ Return(n)
  /\ UNCHANGED <<created, completed, migrated, scheduler, wedged, used>>

\* Mutant of SetError: it is tried again until it succeeds.
SetErrorRetries(n) ==
  /\ At(n, "error")
  /\ worker[n].storeOpen
  /\ UpdateData(worker[n].job, "error", worker[n].lastDone)
  /\ Return(n)
  /\ UNCHANGED <<created, completed, migrated, scheduler, wedged, used>>

\* SetJobError of a job in progress or to be canceled; it may fail in turn.
SetError(n) ==
  /\ At(n, "error")
  /\ \/ /\ worker[n].storeOpen
        /\ IF jobs[worker[n].job].status \in {"in_progress", "cancel_requested"}
           THEN UpdateData(worker[n].job, "error", worker[n].lastDone)
           ELSE UNCHANGED jobs
        /\ UNCHANGED used
     \/ /\ Fails(n)
        /\ UNCHANGED jobs
  /\ Return(n)
  /\ UNCHANGED <<created, completed, migrated, scheduler, wedged>>

\* Run returns.
Finish(n) ==
  /\ At(n, "idle")
  /\ worker[n].stop = "sent"
  /\ worker' = [worker EXCEPT ![n].pc = "finished", ![n].stop = "taken"]
  /\ UNCHANGED <<table, scheduler, wedged, used>>

WorkerStep(n) ==
  \/ Claim(n) \/ WatchCancellation(n) \/ Cancel(n) \/ RunBatch(n) \/ EndOfTable(n)
  \/ SaveProgress(n) \/ Complete(n) \/ Succeed(n) \/ SetError(n) \/ Finish(n)
  \/ \E j \in JobIds : Offer(n, j)

-----------------------------------------------------------------------------
(* The scheduler: its loop, scheduleJob, ScheduleJob and createJob *)

Scheduling(n, pc) ==
  /\ scheduler[n].pc = pc
  /\ worker[n].pc \notin {"down", "finished"}

SchedulerGoto(n, pc) == scheduler' = [scheduler EXCEPT ![n] = SchedulerAt(pc)]

\* setNextRunTime, at the start, after a change and after every ScheduleJob that
\* gives no error: if a query fails there is no next time.
SetNextRunTime(n) ==
  /\ Scheduling(n, "next")
  /\ \/ /\ worker[n].storeOpen
        /\ SchedulerGoto(n, "idle")
        /\ UNCHANGED used
     \/ /\ Fails(n)
        /\ SchedulerGoto(n, "off")
  /\ UNCHANGED <<table, worker, wedged>>

\* configChanged, or clusterLeaderChanged: only the leader has a next time.
ChangeSchedule(n) ==
  /\ \E pc \in {"idle", "off"} : Scheduling(n, pc)
  /\ used.changes < MaxChanges
  /\ Spend("changes")
  /\ \E pc \in {"next", "off"} : SchedulerGoto(n, pc)
  /\ UNCHANGED <<table, worker, wedged>>

\* A minute has passed.  The key of the migration is found, or it is not, and
\* any error counts as not found.  Before that scheduleJob asks for pending jobs,
\* whose error it returns, and for the last success, whose error it loses.
ReadSystem(n) ==
  /\ Scheduling(n, "idle")
  /\ \/ /\ worker[n].storeOpen
        /\ SchedulerGoto(n, IF completed THEN "done" ELSE "jobs")
        /\ UNCHANGED used
     \/ /\ Fails(n)
        /\ \E pc \in {"idle", "next", "jobs"} : SchedulerGoto(n, pc)
  /\ UNCHANGED <<table, worker, wedged>>

\* Mutant of Live: a job that waits for a worker does not count.
LiveIfRunning(job) == job.status = "in_progress"

\* What GetMigrationState takes for MIGRATION_STATE_IN_PROGRESS.
Live(job) == job.status \in {"in_progress", "pending"}

\* Mutant of Wedged: no job is.
NeverWedged(job) == FALSE

\* Created, and active for the last time, more than an hour ago.
Wedged(job) == job.aged

\* The newest job decides.
ReadJobs(n) ==
  /\ Scheduling(n, "jobs")
  /\ worker[n].storeOpen
  /\ \/ /\ created = 0
        /\ scheduler' = [scheduler EXCEPT ![n].pc = "create"]
     \/ /\ created # 0
        /\ LET last == jobs[created] IN
           scheduler' = [scheduler EXCEPT ![n] =
             IF Live(last) /\ ~Wedged(last) THEN SchedulerAt("next")
             ELSE [pc |-> IF Live(last) THEN "wedged" ELSE "create",
                   job |-> created, lastDone |-> last.lastDone]]
  /\ UNCHANGED <<table, worker, wedged, used>>

\* SetJobError without an error, whatever the status of the job has become.
\* If it fails the scheduler goes on all the same.
SetWedged(n) ==
  /\ Scheduling(n, "wedged")
  /\ \/ /\ worker[n].storeOpen
        /\ Update(scheduler[n].job, "error")
        /\ wedged' = wedged \cup {scheduler[n].job}
        /\ UNCHANGED used
     \/ /\ Fails(n)
        /\ UNCHANGED <<jobs, wedged>>
  /\ scheduler' = [scheduler EXCEPT ![n].pc = "create"]
  /\ UNCHANGED <<created, completed, migrated, worker>>

\* Mutant of CreateJob: the new job takes the place of the newest.
CreateInPlace(n) ==
  /\ Scheduling(n, "create")
  /\ worker[n].storeOpen
  /\ created < MaxJobs
  /\ jobs' = [jobs EXCEPT ![created + 1] =
       [status |-> "pending", lastDone |-> scheduler[n].lastDone, aged |-> FALSE]]
  /\ SchedulerGoto(n, "next")
  /\ UNCHANGED <<created, completed, migrated, worker, wedged, used>>

\* createJob and CreateJob.
CreateJob(n) ==
  /\ Scheduling(n, "create")
  /\ worker[n].storeOpen
  /\ created < MaxJobs
  /\ jobs' = [jobs EXCEPT ![created + 1] =
       [status |-> "pending", lastDone |-> scheduler[n].lastDone, aged |-> FALSE]]
  /\ created' = created + 1
  /\ SchedulerGoto(n, "next")
  /\ UNCHANGED <<completed, migrated, worker, wedged, used>>

\* A statement fails.  ScheduleJob returns no error if the jobs could not be read,
\* and the one of CreateJob otherwise, after which it runs again a minute later.
SchedulingFails(n) ==
  /\ \/ Scheduling(n, "jobs") /\ SchedulerGoto(n, "next")
     \/ Scheduling(n, "create") /\ SchedulerGoto(n, "idle")
  /\ Fails(n)
  /\ UNCHANGED <<table, worker, wedged>>

SchedulerStep(n) ==
  SetNextRunTime(n) \/ ReadSystem(n) \/ ReadJobs(n) \/ SetWedged(n) \/ CreateJob(n)

-----------------------------------------------------------------------------
(* Clients, time, and the life of the processes *)

\* Mutant of RequestCancellation: UpdateStatus for a job that is not pending.
CancelAnyJob(j) ==
  /\ used.cancels < MaxCancels
  /\ jobs[j].status # "none"
  /\ Update(j, IF jobs[j].status = "pending" THEN "canceled" ELSE "cancel_requested")
  /\ Spend("cancels")
  /\ UNCHANGED <<created, completed, migrated, worker, scheduler, wedged>>

\* RequestCancellation.
RequestCancellation(j) ==
  /\ used.cancels < MaxCancels
  /\ \/ /\ jobs[j].status = "pending"
        /\ Update(j, "canceled")
     \/ /\ jobs[j].status = "in_progress"
        /\ Update(j, "cancel_requested")
  /\ Spend("cancels")
  /\ UNCHANGED <<created, completed, migrated, worker, scheduler, wedged>>

\* A job nobody runs has been in progress for an hour.
AgeAbandoned(j) ==
  /\ jobs[j].status = "in_progress" /\ ~jobs[j].aged
  /\ \A n \in Nodes : worker[n].job # j
  /\ jobs' = [jobs EXCEPT ![j].aged = TRUE]
  /\ UNCHANGED <<created, completed, migrated, worker, scheduler, wedged, used>>

\* A job has been waiting, or somebody's statement has been running, for an hour.
AgeSlow(j) ==
  /\ jobs[j].status \in {"pending", "in_progress"} /\ ~jobs[j].aged
  /\ used.slow < MaxSlow
  /\ Spend("slow")
  /\ jobs' = [jobs EXCEPT ![j].aged = TRUE]
  /\ UNCHANGED <<created, completed, migrated, worker, scheduler, wedged>>

\* Server.Shutdown closes the Store before it stops the workers.
CloseStore(n) ==
  /\ used.stops < MaxStops
  /\ worker[n].storeOpen /\ worker[n].stop = "none"
  /\ ~At(n, "down")
  /\ worker' = [worker EXCEPT ![n].storeOpen = FALSE]
  /\ Spend("stops")
  /\ UNCHANGED <<table, scheduler, wedged>>

\* Workers.Stop: the watcher has stopped, and the worker is sent a stop.
StopWorker(n) ==
  /\ worker[n].stop = "none"
  /\ ~At(n, "down")
  /\ \/ /\ ~worker[n].storeOpen
        /\ UNCHANGED used
     \/ /\ worker[n].storeOpen        \* the job server, which shuts down afterwards
        /\ used.stops < MaxStops
        /\ Spend("stops")
  /\ worker' = [worker EXCEPT ![n].stop = "sent"]
  /\ UNCHANGED <<table, scheduler, wedged>>

Crash(n) ==
  /\ used.crashes < MaxCrashes
  /\ ~At(n, "down")
  /\ worker' = [worker EXCEPT ![n] = [pc |-> "down", job |-> 0, lastDone |-> NoProgress,
                                      cancel |-> FALSE, stop |-> "none", storeOpen |-> TRUE]]
  /\ scheduler' = [m \in Schedulers |-> IF m = n THEN SchedulerAt("next") ELSE scheduler[m]]
  /\ Spend("crashes")
  /\ UNCHANGED <<table, wedged>>

Restart(n) ==
  /\ At(n, "down")
  /\ Goto(n, "idle")
  /\ UNCHANGED <<table, scheduler, wedged, used>>

Next ==
  \/ \E n \in Nodes : \/ WorkerStep(n) \/ Fail(n)
                      \/ CloseStore(n) \/ StopWorker(n) \/ Crash(n) \/ Restart(n)
  \/ \E n \in Schedulers : SchedulerStep(n) \/ SchedulingFails(n) \/ ChangeSchedule(n)
  \/ \E j \in JobIds : RequestCancellation(j) \/ AgeAbandoned(j) \/ AgeSlow(j)

Spec == Init /\ [][Next]_vars

\* Workers go on (with a closed Store, by failing), a scheduler goes on as long as
\* it has a next time, processes that died are started again, and an abandoned
\* job becomes an hour old.
Fairness ==
  /\ \A n \in Nodes : /\ WF_vars(WorkerStep(n) \/ (Fail(n) /\ ~worker[n].storeOpen))
                      /\ WF_vars(Restart(n))
  /\ \A n \in Schedulers : WF_vars(SchedulerStep(n))
  /\ \A j \in JobIds : WF_vars(AgeAbandoned(j))

FairSpec == Spec /\ Fairness

-----------------------------------------------------------------------------
(* Properties *)

Statuses == {"none", "pending", "in_progress", "success", "error",
             "cancel_requested", "canceled"}
FinalStatuses == {"success", "error", "canceled"}

Job == [status : Statuses, lastDone : Progress, aged : BOOLEAN]
Worker == [pc : {"idle", "claim", "run", "save", "complete", "success", "error", "finished",
                 "down"},
           job : JobIds \cup {0}, lastDone : Progress, cancel : BOOLEAN,
           stop : {"none", "sent", "taken"}, storeOpen : BOOLEAN]
Scheduler == [pc : {"next", "idle", "off", "done", "jobs", "wedged", "create"},
              lastDone : Progress, job : JobIds \cup {0}]

\* The types of the variables; jobs are numbered without gaps.
TypeOK ==
  /\ jobs \in [JobIds -> Job]
  /\ created \in 0..MaxJobs
  /\ completed \in BOOLEAN
  /\ migrated \subseteq Rows
  /\ worker \in [Nodes -> Worker]
  /\ scheduler \in [Schedulers -> Scheduler]
  /\ wedged \subseteq JobIds
  /\ used \in [{"errors", "crashes", "cancels", "slow", "stops", "changes"} -> Nat]
  /\ \A j \in JobIds : jobs[j].status = "none" <=> j > created

\* No two workers are ever inside DoJob with the same job.
OneWorkerPerJob ==
  \A m, n \in Nodes : InDoJob(m) /\ InDoJob(n) /\ worker[m].job = worker[n].job => m = n

\* Once the key of the migration is stored, and every later start of the server
\* takes the migration for done, every row has been migrated: whatever crashed,
\* was canceled, failed or ran twice on the way.
CompletedMeansMigrated == completed => migrated = Rows

\* A job never claims more progress than was made: who resumes it skips nothing.
ProgressIsCovered == \A j \in JobIds : Passed(jobs[j].lastDone) \subseteq migrated

\* Progress p is not before q.
AtLeast(p, q) == Passed(q) \subseteq Passed(p)

\* The progress of a job is never set back.
ProgressGrows ==
  [][\A j \in JobIds : jobs[j].status # "none" =>
        AtLeast(jobs'[j].lastDone, jobs[j].lastDone)]_vars

\* A final status is final, except in the hands of a scheduler, and of a worker
\* whose job a scheduler took for wedged.
FinalUnlessWedged ==
  [][\A j \in JobIds :
       jobs[j].status \in FinalStatuses /\ jobs'[j].status # jobs[j].status
         => j \in wedged']_vars

\* With one scheduler, and no hour without activity, one worker at a time runs
\* the migration, unless one of them has been asked to cancel its job.
OneRunner ==
  \A m, n \in Nodes : InDoJob(m) /\ InDoJob(n) /\ m # n =>
    \E w \in {m, n} : jobs[worker[w].job].status \in {"cancel_requested", "canceled"}

\* "Schedule the first one that isn't done (assuming it isn't in progress
\* already)": no job is created for a migration that a worker is running.
NotScheduledWhileRunning ==
  [][created' > created => \A n \in Nodes : ~InDoJob(n)]_vars

\* The server is being shut down, or has been.
ShutDown(n) == ~worker[n].storeOpen \/ worker[n].stop # "none"

\* As long as no server is shut down, and from some time on a scheduler keeps
\* having a next time, the migration completes once the bounded trouble ends: a
\* later job takes up what a dead or failed worker left.  One failed query in
\* setNextRunTime is enough to have no next time until something changes.
MigrationCompletes ==
  \/ <>(completed \/ \E n \in Nodes : ShutDown(n))
  \/ \A n \in Schedulers : []<>(scheduler[n].pc = "off")

\* A worker that runs a job ends it, or dies.
JobsEnd == \A n \in Nodes : InDoJob(n) ~> ~InDoJob(n)

\* Stop returns, unless the worker was inside DoJob, which takes the stop and
\* goes back to Run, or the process died.
StopReturnsUnlessTaken ==
  \A n \in Nodes : worker[n].stop = "sent" ~> worker[n].stop \in {"taken", "none"}

-----------------------------------------------------------------------------
(* The inductive invariant behind the safety properties *)

HasJob(n) == At(n, "claim") \/ InDoJob(n)

\* Who was offered a job holds one that exists; who is inside DoJob has claimed
\* it, nobody else has, and only a scheduler can have ended it.
Ownership ==
  /\ \A n \in Nodes : HasJob(n) => worker[n].job \in 1..created
  /\ \A n \in Nodes : InDoJob(n) => jobs[worker[n].job].status # "pending"
  /\ \A n \in Nodes : InDoJob(n) /\ jobs[worker[n].job].status \in FinalStatuses
                        => worker[n].job \in wedged
  /\ OneWorkerPerJob
  /\ \A n \in Schedulers : scheduler[n].pc = "wedged" => scheduler[n].job \in 1..created

\* Every copy of the progress, in the table or in memory, is of rows migrated.
Coverage ==
  /\ ProgressIsCovered
  /\ \A n \in Nodes : Passed(worker[n].lastDone) \subseteq migrated
  /\ \A n \in Schedulers : Passed(scheduler[n].lastDone) \subseteq migrated
  /\ \A n \in Nodes : At(n, "complete") => migrated = Rows
  /\ CompletedMeansMigrated

\* The worker of a job is at least as far as the table says.
Resumption ==
  \A n \in Nodes :
    InDoJob(n) \/ (At(n, "claim") /\ jobs[worker[n].job].status = "pending")
      => AtLeast(worker[n].lastDone, jobs[worker[n].job].lastDone)

MigrationInv == TypeOK /\ Ownership /\ Coverage /\ Resumption
=============================================================================
