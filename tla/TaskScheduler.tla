---------------------------- MODULE TaskScheduler ----------------------------
(***************************************************************************)
(* One scheduled task of apps/api: its row in scheduled_tasks, its job or  *)
(* job scheduler in the BullMQ queue, the requests of TasksService that    *)
(* create, update, pause, resume, run and remove it and that pause and     *)
(* resume the queue, and the worker's event listeners in TaskProcessor.    *)
(*                                                                         *)
(* The row and the queue are written one after the other with nothing to   *)
(* hold them together, and the listeners are not awaited by the worker.    *)
(* A job scheduler keeps one iteration ahead: it is delayed until its time *)
(* comes, then it waits for the worker, and the next one is made when it   *)
(* starts.  Removing the scheduler removes a delayed iteration; one that   *)
(* is waiting already is left.                                             *)
(* incidents records which of the things that should be rare have          *)
(* happened; no code reads it.                                             *)
(***************************************************************************)
EXTENDS Mishaps

CONSTANTS
    Admin,         \* concurrent requests
    Listener,      \* bound on event listeners under way
    MaxLeft,       \* bound on the iterations that wait without a scheduler
    TaskIncidents, \* the incidents that may happen
    MaxIncidents   \* bound on how many kinds of them do

Op == {"none", "create", "update", "edit", "remove", "pause", "resume", "run now",
       "pause queue", "resume queue"}

\* Two requests that met, or a request and a run, or an accident.
TaskIncident ==
    {{a, b} : a \in Op, b \in Op \cup {"run"}}
        \cup {{a} : a \in {"resumed queue", "left", "redis", "death", "late", "forced"}}

ASSUME TaskAssumption ==
    TaskIncidents \subseteq TaskIncident /\ MaxIncidents \in Nat /\ MaxLeft \in Nat

VARIABLES
    type,       \* CRON or ONCE
    task,       \* the row
    scheduler,  \* the job scheduler, by what its next iteration is
    left,       \* waiting iterations of no scheduler, or of an earlier one
    own,        \* the job with the task's id, of a ONCE task
    extra,      \* the job of runNow
    ticking,    \* is a job of the scheduler running?
    queue,      \* is the queue paused?
    admin,      \* what each request is doing, with the status it read
    listener,   \* what each listener is doing
    incidents

jobs == <<scheduler, left, own, extra, ticking, queue>>
taskVars == <<type, task, jobs, admin, listener, incidents>>

-----------------------------------------------------------------------------
TaskStatus == {"SCHEDULED", "RUNNING", "COMPLETED", "FAILED", "PAUSED"}
JobState == {"none", "waiting", "active", "kept"}
SchedulerState == {"none", "delayed", "due"}

Resting == [op |-> "none", at |-> "rest", read |-> "SCHEDULED"]
Silent == [event |-> "none", at |-> "rest"]

Present == task.exists /\ ~task.deleted
Scheduled == scheduler # "none"
Running == ticking \/ own = "active" \/ extra = "active"
Working == {a \in Admin : admin[a].op # "none"}
Hearing == {l \in Listener : listener[l].event # "none"}

Happen(kinds) ==
    /\ Recordable(kinds, incidents, TaskIncidents, MaxIncidents)
    /\ incidents' = incidents \cup kinds

\* A row that is gone is not updated.
Update(row) == task' = IF task.exists THEN row ELSE task

Doing(a, op, at) == admin[a].op = op /\ admin[a].at = at
GoTo(a, at) == admin' = [admin EXCEPT ![a].at = at]
Rest(a) == admin' = [admin EXCEPT ![a] = Resting]

-----------------------------------------------------------------------------
TaskInit ==
    /\ type \in {"CRON", "ONCE"}
    /\ task = [exists |-> FALSE, deleted |-> FALSE, jobId |-> FALSE, status |-> "SCHEDULED"]
    /\ scheduler = "none" /\ left = 0 /\ own = "none" /\ extra = "none" /\ ticking = FALSE /\ queue = "open"
    /\ admin = [a \in Admin |-> Resting]
    /\ listener = [l \in Listener |-> Silent]
    /\ incidents = {}

-----------------------------------------------------------------------------
(* Requests *)

Begin(a, op, at, kinds) ==
    /\ admin[a].op = "none"
    /\ admin' = [admin EXCEPT ![a] = [op |-> op, at |-> at, read |-> task.status]]
    /\ Happen({{op, admin[b].op} : b \in Working}
                 \cup IfSo({op, "run"}, Running \/ Hearing # {}) \cup kinds)
    /\ UNCHANGED <<type, jobs, listener>>

\* createCron, createOnce: the row first.  A creation that was rolled back is
\* not made good: the next one is of another task.
Create(a) ==
    /\ ~task.exists /\ ~task.deleted
    /\ Begin(a, "create", "adding", {})
    /\ task' = [task EXCEPT !.exists = TRUE]

\* detail, and what it makes of the status.  A paused row, or one without a
\* change of schedule, is only edited; an edit may set the status.
AskTask(a) ==
    /\ Present
    /\ \/ /\ type = "CRON" /\ task.status # "PAUSED"
          /\ Begin(a, "update", IF task.jobId THEN "removing" ELSE "adding", {})
       \/ Begin(a, "edit", "writing", {})
       \/ /\ task.status # "PAUSED"
          /\ Begin(a, "pause", IF task.jobId THEN "removing" ELSE "writing", {})
       \/ task.status = "PAUSED" /\ Begin(a, "resume", "adding", {})
       \/ Begin(a, "remove", IF task.jobId THEN "removing" ELSE "writing",
                IfSo({"left"}, extra = "waiting"))
       \/ Begin(a, "run now", "adding", {})
    /\ UNCHANGED task

AskQueue(a) ==
    /\ \/ Begin(a, "pause queue", "pausing", {})
       \/ Begin(a, "resume queue", "pausing",
                IfSo({"resumed queue"}, task.status = "PAUSED" /\ ~Scheduled /\ own # "waiting"))
    /\ UNCHANGED task

\* The queue's part.  What it throws on a removal is ignored.
\* (RemoveOnceOnly, RemoveCronOnly: the other kind of job is not removed.)
RemoveOnceOnly(a) ==
    /\ admin[a].at = "removing"
    /\ own' = IF type = "ONCE" /\ own # "active" THEN "none" ELSE own
    /\ GoTo(a, IF admin[a].op = "update" THEN "adding" ELSE "writing")
    /\ UNCHANGED <<type, task, scheduler, left, extra, ticking, queue, listener, incidents>>
RemoveCronOnly(a) ==
    /\ admin[a].at = "removing"
    /\ scheduler' = "none"
    /\ GoTo(a, IF admin[a].op = "update" THEN "adding" ELSE "writing")
    /\ UNCHANGED <<type, task, left, own, extra, ticking, queue, listener, incidents>>

\* removeJobScheduler: an iteration that is due stays in the queue.
DropScheduler ==
    /\ scheduler' = "none"
    /\ left' = IF scheduler = "due" THEN left + 1 ELSE left
    /\ Happen(IfSo({"left"}, scheduler = "due"))

RemoveJob(a) ==
    /\ admin[a].at = "removing"
    /\ \/ type = "CRON" /\ DropScheduler /\ UNCHANGED own
       \/ /\ type = "ONCE" /\ own' = (IF own = "active" THEN own ELSE "none")
          /\ UNCHANGED <<scheduler, left, incidents>>
       \/ Happen({{"redis"}}) /\ UNCHANGED <<scheduler, left, own>>
    /\ GoTo(a, IF admin[a].op = "update" THEN "adding" ELSE "writing")
    /\ UNCHANGED <<type, task, extra, ticking, queue, listener>>

\* upsertJobScheduler, which replaces the scheduler and its iteration; or add,
\* which does nothing if there is a job of that id, one that was kept after it
\* ended included.  (AddCronOnly: a one-time task's job is not added again.)
AddCronOnly(a) ==
    /\ admin[a].at = "adding" /\ admin[a].op # "run now"
    /\ scheduler' = IF type = "CRON" THEN "delayed" ELSE "none"
    /\ own' = IF type = "ONCE" /\ own = "none" /\ admin[a].op = "create" THEN "waiting" ELSE own
    /\ GoTo(a, "writing")
    /\ UNCHANGED <<type, task, left, extra, ticking, queue, listener, incidents>>
AddJob(a) ==
    /\ admin[a].at = "adding" /\ admin[a].op # "run now"
    /\ IF type = "CRON"
       THEN scheduler' = "delayed" /\ UNCHANGED own
       ELSE own' = (IF own = "none" THEN "waiting" ELSE own) /\ UNCHANGED scheduler
    /\ GoTo(a, "writing")
    /\ UNCHANGED <<type, task, left, extra, ticking, queue, listener, incidents>>

\* The queue throws, and so does the request; a creation deletes its row.
AddFails(a) ==
    /\ admin[a].at = "adding"
    /\ IF admin[a].op = "create" THEN GoTo(a, "rolling back") ELSE Rest(a)
    /\ Happen({{"redis"}})
    /\ UNCHANGED <<type, task, jobs, listener>>

RollBack(a) ==
    /\ Doing(a, "create", "rolling back")
    /\ task' = [task EXCEPT !.exists = FALSE, !.deleted = TRUE]
    /\ Rest(a)
    /\ UNCHANGED <<type, jobs, listener, incidents>>

RunNow(a) ==
    /\ Doing(a, "run now", "adding") /\ extra = "none"
    /\ extra' = "waiting"
    /\ Rest(a)
    /\ UNCHANGED <<type, task, scheduler, left, own, ticking, queue, listener, incidents>>

PauseQueue(a) ==
    /\ admin[a].at = "pausing"
    /\ queue' = IF admin[a].op = "pause queue" THEN "paused" ELSE "open"
    /\ GoTo(a, "writing")
    /\ UNCHANGED <<type, task, scheduler, left, own, extra, ticking, listener, incidents>>

\* The row's part.  An update writes the status it read.
WriteRow(a) ==
    /\ admin[a].at = "writing"
    /\ LET op == admin[a].op
       IN Update(
            CASE op = "create" -> [task EXCEPT !.jobId = TRUE]
              [] op = "update" -> [task EXCEPT !.jobId = TRUE, !.status = admin[a].read]
              [] op = "edit" -> [task EXCEPT !.status = admin[a].read]
              [] op = "pause" -> [task EXCEPT !.status = "PAUSED"]
              [] op = "resume" -> [task EXCEPT !.status = "SCHEDULED", !.jobId = TRUE]
              [] op = "remove" -> [task EXCEPT !.deleted = TRUE]
              [] op = "pause queue" /\ task.status = "SCHEDULED" ->
                    [task EXCEPT !.status = "PAUSED"]
              [] op = "resume queue" /\ task.status = "PAUSED" ->
                    [task EXCEPT !.status = "SCHEDULED"]
              [] OTHER -> task)
    /\ Rest(a)
    /\ UNCHANGED <<type, jobs, listener, incidents>>

\* An update may name a status.
ForceStatus(a) ==
    /\ Doing(a, "edit", "writing")
    /\ \E status \in TaskStatus : Update([task EXCEPT !.status = status])
    /\ Rest(a)
    /\ Happen({{"forced"}})
    /\ UNCHANGED <<type, jobs, listener>>

-----------------------------------------------------------------------------
(* The worker *)

Emit(event, kinds) ==
    \E l \in Listener :
        /\ listener[l].event = "none"
        /\ listener' = [listener EXCEPT ![l] = [event |-> event, at |-> "finding"]]
        /\ Happen(IfSo({"late"}, Hearing # {}) \cup kinds)

\* The time of the delayed iteration has come, in a paused queue too.
IterationDue ==
    /\ scheduler = "delayed" /\ left < MaxLeft
    /\ scheduler' = "due"
    /\ UNCHANGED <<type, task, left, own, extra, ticking, queue, admin, listener, incidents>>

\* A job of a paused queue stays where it is.
StartJob ==
    /\ queue = "open" /\ ~Running
    /\ \/ /\ scheduler = "due" /\ scheduler' = "delayed" /\ ticking' = TRUE
          /\ UNCHANGED <<left, own, extra>>
       \/ /\ left > 0 /\ left' = left - 1 /\ ticking' = TRUE
          /\ UNCHANGED <<scheduler, own, extra>>
       \/ own = "waiting" /\ own' = "active" /\ UNCHANGED <<scheduler, left, ticking, extra>>
       \/ extra = "waiting" /\ extra' = "active" /\ UNCHANGED <<scheduler, left, ticking, own>>
    /\ Emit("active", {{admin[a].op, "run"} : a \in Working}
                        \cup IfSo({"pause", "run"}, task.status = "PAUSED"))
    /\ UNCHANGED <<type, task, queue, admin>>

FinishJob ==
    /\ Running
    /\ ticking' = FALSE
    /\ own' = IF own = "active" THEN "kept" ELSE own
    /\ extra' = IF extra = "active" THEN "none" ELSE extra
    /\ \E event \in {"completed", "failed"} : Emit(event, {})
    /\ UNCHANGED <<type, task, scheduler, left, queue, admin>>

\* removeOnComplete and removeOnFail keep a job for a while.
ForgetJob ==
    /\ own = "kept"
    /\ own' = "none"
    /\ UNCHANGED <<type, task, scheduler, left, extra, ticking, queue, admin, listener, incidents>>

Silence(l) == listener' = [listener EXCEPT ![l] = Silent]

\* findTaskFromJob; onCompleted leaves a recurring task alone if it is paused.
\* (FindUnlessFailed: onFailed writes nothing.)
FindUnlessFailed(l) ==
    /\ listener[l].at = "finding"
    /\ IF Present /\ listener[l].event # "failed"
       THEN listener' = [listener EXCEPT ![l].at = "writing"]
       ELSE Silence(l)
    /\ UNCHANGED <<type, task, jobs, admin, incidents>>
FindTask(l) ==
    /\ listener[l].at = "finding"
    /\ IF Present /\ ~(/\ listener[l].event = "completed" /\ type = "CRON"
                       /\ task.status = "PAUSED")
       THEN listener' = [listener EXCEPT ![l].at = "writing"]
       ELSE Silence(l)
    /\ UNCHANGED <<type, task, jobs, admin, incidents>>

Told(event) ==
    IF event = "active" THEN "RUNNING"
    ELSE IF type = "CRON" THEN "SCHEDULED"
    ELSE IF event = "completed" THEN "COMPLETED" ELSE "FAILED"

TellStatus(l) ==
    /\ listener[l].at = "writing"
    /\ Update([task EXCEPT !.status = Told(listener[l].event)])
    /\ Silence(l)
    /\ UNCHANGED <<type, jobs, admin, incidents>>

\* The process dies; the job it ran is stalled and waits again, if BullMQ
\* has not seen it stall before.
TaskDeath ==
    /\ Running \/ Working # {} \/ Hearing # {}
    /\ admin' = [a \in Admin |-> Resting]
    /\ listener' = [l \in Listener |-> Silent]
    /\ ticking' = FALSE
    /\ left' = IF ticking THEN left + 1 ELSE left
    /\ own' = IF own = "active" THEN "waiting" ELSE own
    /\ extra' = IF extra = "active" THEN "waiting" ELSE extra
    /\ Happen({{"death"}})
    /\ UNCHANGED <<type, task, scheduler, queue>>

-----------------------------------------------------------------------------
TaskNext ==
    \/ \E a \in Admin :
         \/ Create(a) \/ AskTask(a) \/ AskQueue(a)
         \/ RemoveJob(a) \/ AddJob(a) \/ AddFails(a) \/ RollBack(a) \/ RunNow(a)
         \/ PauseQueue(a) \/ WriteRow(a) \/ ForceStatus(a)
    \/ IterationDue \/ StartJob \/ FinishJob \/ ForgetJob
    \/ \E l \in Listener : FindTask(l) \/ TellStatus(l)
    \/ TaskDeath

TaskSpec == TaskInit /\ [][TaskNext]_taskVars

-----------------------------------------------------------------------------
(* Properties *)

TaskTypeOK ==
    /\ type \in {"CRON", "ONCE"}
    /\ task \in [exists : BOOLEAN, deleted : BOOLEAN, jobId : BOOLEAN, status : TaskStatus]
    /\ scheduler \in SchedulerState /\ left \in Nat /\ ticking \in BOOLEAN /\ queue \in {"open", "paused"}
    /\ own \in JobState /\ extra \in JobState \ {"kept"}
    /\ \A a \in Admin : admin[a].op \in Op /\ admin[a].read \in TaskStatus
    /\ \A l \in Listener : listener[l].event \in {"none", "active", "completed", "failed"}
    /\ scheduler # "none" \/ left > 0 \/ ticking => type = "CRON"
    /\ own # "none" => type = "ONCE"

AtRest == Working = {} /\ Hearing = {} /\ ~Running

\* The queue failed, the process died, or the status was set by hand.
Broken == {{"redis"}, {"death"}, {"forced"}}

\* A queue was resumed over a task paused on its own, a run met a pause, an
\* edit or a resumption, or a pause met a change.
Unschedules ==
    Broken \cup {{"resumed queue"}}
        \cup {{other, "run"} : other \in {"pause", "edit", "resume"}}
        \cup {{"pause", other} : other \in {"create", "update", "edit", "resume", "resume queue"}}

\* What the row says is SCHEDULED has something that will run it, unless the
\* queue failed or the process died, the status was set by hand, or one of
\* those met: row and queue are written one after the other, and a listener
\* overwrites what a request wrote.  [TasksService and TaskProcessor]
ScheduledWillRun ==
    AtRest /\ Present /\ task.status = "SCHEDULED" /\ ~Scheduled /\ own # "waiting"
        => Among(Unschedules, incidents)

\* A pause and a request that schedules, an edit and one that schedules or
\* resumes, or two requests for the queue met.
Reschedules ==
    Broken \cup {{"create", "pause"}, {"update", "pause"}, {"pause", "resume"},
                 {"edit", "update"}, {"edit", "resume"}, {"edit", "resume queue"},
                 {"pause queue", "resume queue"}}

\* A task that shows PAUSED in an open queue does not run by itself, unless
\* requests met that change the same, or its scheduler was removed when an
\* iteration was waiting already.  Runs may meet a pause as they like.
\* [pauseTask, update, resumeQueue]
PausedIsOff ==
    AtRest /\ Present /\ task.status = "PAUSED" /\ queue = "open"
        /\ (Scheduled \/ left > 0 \/ own = "waiting")
        => Among(Reschedules \cup {{"left"}}, incidents)

\* A removed task leaves nothing in the queue, neither its scheduler nor a job
\* of any kind, unless the removal found an iteration or a job of runNow
\* waiting, or met a request that was about to put something there, or the
\* queue failed or the process died.  [remove]
DeletedIsOff ==
    AtRest /\ task.deleted
        /\ (Scheduled \/ left > 0 \/ own = "waiting" \/ extra = "waiting")
        => Among({{"redis"}, {"death"}, {"left"}, {"remove", "create"}, {"remove", "update"},
                  {"remove", "resume"}, {"remove", "run now"}}, incidents)

\* Nothing is shown RUNNING that does not run, unless the process died,
\* listeners overtook each other, or an update wrote back what it had read.
\* [onActive and the listeners that follow it]
NotLeftRunning ==
    AtRest /\ Present /\ task.status = "RUNNING"
        => Among({{"death"}, {"late"}, {"forced"}, {"update", "run"}, {"edit", "run"}}, incidents)

-----------------------------------------------------------------------------
\* A recurring task that shows SCHEDULED will be triggered again, whatever ran
\* while it was paused.  [onCompleted: "reset status back to SCHEDULED (if not
\* paused) awaiting next trigger"]
TriggersGoOn ==
    /\ incidents \subseteq {{"pause", "run"}}
    /\ AtRest /\ Present /\ type = "CRON" /\ task.status = "SCHEDULED"
    => Scheduled
=============================================================================
