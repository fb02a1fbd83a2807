------------------------------ MODULE Executor ------------------------------
(***************************************************************************)
(* The executor every entity and the server itself are (src/executor/):    *)
(* a bounded lock-free queue of works that any thread fills, drained once  *)
(* in every tick by the owner, and a heap of tasks with a due time that    *)
(* only the owner touches.  One pass of executeJobs goes through           *)
(*                                                                         *)
(*   jobs    pop and run works; unready futures and follow-up works wait   *)
(*           in the local vector reschedule                                *)
(*   push    the works of reschedule go back to the queue                  *)
(*   tasks   the due tasks run                                             *)
(*                                                                         *)
(* or ends early when a work raises ReadOutOfBounds, which closes the      *)
(* client the work belongs to.                                             *)
(***************************************************************************)
EXTENDS Integers, Sequences, FiniteSets

CONSTANTS Works,    \* the works that may be made
          Futures,  \* those of them that are FutureWork
          ClientOf, \* the client of each work
          Capacity, \* MaxQueued, the capacity of the queue
          Tasks,    \* the tasks that may be scheduled
          When,     \* the due time of each task
          MaxNow,   \* bound on the time
          None

ASSUME ExecutorAssumption ==
    /\ Futures \subseteq Works
    /\ Capacity \in Nat \ {0}
    /\ When \in [Tasks -> Nat]
    /\ MaxNow \in Nat
    /\ None \notin Works \cup Tasks

VARIABLES jobs,       \* Executor::_jobs
          reschedule, \* the vector of executeJobs
          made,       \* the works that have been made
          ready,      \* the futures that have their value
          deleted,    \* how often each work was run and deleted
          dropped,    \* history: works refused by a full queue
          abandoned,  \* history: works in reschedule at an early return
          closed,     \* the clients closed by a failed work
          tasks,      \* Executor::_scheduledTasks
          now,        \* Server::_now
          pc          \* where executeJobs is; "freed" after a use after
                      \* free, "gone" after the destructor

jobVars == <<jobs, reschedule, made, ready, deleted, dropped, abandoned, closed>>
vars == <<jobVars, tasks, now, pc>>

Init ==
    /\ jobs = << >> /\ reschedule = << >>
    /\ made = {} /\ ready = {}
    /\ deleted = [w \in Works |-> 0]
    /\ dropped = {} /\ abandoned = {} /\ closed = {}
    /\ tasks = {} /\ now = 0 /\ pc = "idle"

(* A push on a full queue fails, and nobody looks at the result.            *)
Push(q, w) ==
    IF Len(q) < Capacity
    THEN jobs' = Append(q, w) /\ UNCHANGED dropped
    ELSE jobs' = q /\ dropped' = dropped \cup {w}

(* Executor::schedule of a work, by any thread.                             *)
Schedule(w) ==
    /\ pc \notin {"freed", "gone"}
    /\ w \notin made
    /\ made' = made \cup {w}
    /\ Push(jobs, w)
    /\ UNCHANGED <<reschedule, ready, deleted, abandoned, closed, tasks, now, pc>>

(* Another thread fulfils the promise behind a future.                      *)
Resolve(f) ==
    /\ pc \notin {"freed", "gone"}
    /\ f \in (Futures \cap made) \ ready
    /\ ready' = ready \cup {f}
    /\ UNCHANGED <<jobs, reschedule, made, deleted, dropped, abandoned, closed,
                   tasks, now, pc>>

-----------------------------------------------------------------------------
(* executeJobs, called once per tick with the time of that tick.            *)

BeginPass(time) ==
    /\ pc = "idle"
    /\ time >= now
    /\ now' = time
    /\ pc' = "jobs"
    /\ UNCHANGED <<jobVars, tasks>>

IsReady(w) == w \in Futures => w \in ready

NotReadySpins ==  \* mutant: the future goes straight back to the queue
    /\ pc = "jobs"
    /\ jobs # << >> /\ ~IsReady(Head(jobs))
    /\ Push(Tail(jobs), Head(jobs))
    /\ UNCHANGED <<reschedule, made, ready, deleted, abandoned, closed, tasks, now, pc>>
NotReadyForgets ==  \* mutant: the future is popped and not kept
    /\ pc = "jobs"
    /\ jobs # << >> /\ ~IsReady(Head(jobs))
    /\ jobs' = Tail(jobs)
    /\ UNCHANGED <<reschedule, made, ready, deleted, dropped, abandoned, closed,
                   tasks, now, pc>>
NotReady ==
    /\ pc = "jobs"
    /\ jobs # << >> /\ ~IsReady(Head(jobs))
    /\ jobs' = Tail(jobs)
    /\ reschedule' = Append(reschedule, Head(jobs))
    /\ UNCHANGED <<made, ready, deleted, dropped, abandoned, closed, tasks, now, pc>>

(* The handler succeeds and returns the work that follows, or none.         *)
RunKeepsJob(next) ==  \* mutant: the work that returns a next one is kept too
    /\ pc = "jobs"
    /\ jobs # << >> /\ IsReady(Head(jobs))
    /\ next \notin made
    /\ jobs' = Tail(jobs)
    /\ deleted' = [deleted EXCEPT ![Head(jobs)] = @ + 1]
    /\ IF next = None THEN UNCHANGED <<reschedule, made>>
       ELSE /\ reschedule' = Append(Append(reschedule, Head(jobs)), next)
            /\ made' = made \cup {next}
    /\ UNCHANGED <<ready, dropped, abandoned, closed, tasks, now, pc>>
RunJob(next) ==
    /\ pc = "jobs"
    /\ jobs # << >> /\ IsReady(Head(jobs))
    /\ next \notin made
    /\ jobs' = Tail(jobs)
    /\ deleted' = [deleted EXCEPT ![Head(jobs)] = @ + 1]
    /\ IF next = None THEN UNCHANGED <<reschedule, made>>
       ELSE /\ reschedule' = Append(reschedule, next)
            /\ made' = made \cup {next}
    /\ UNCHANGED <<ready, dropped, abandoned, closed, tasks, now, pc>>

(* The handler raises ReadOutOfBounds: the client is closed, the work is    *)
(* deleted, and executeJobs returns at once.                                *)
FailJob ==
    /\ pc = "jobs"
    /\ jobs # << >> /\ IsReady(Head(jobs))
    /\ jobs' = Tail(jobs)
    /\ deleted' = [deleted EXCEPT ![Head(jobs)] = @ + 1]
    /\ closed' = closed \cup {ClientOf[Head(jobs)]}
    /\ abandoned' = abandoned \cup {reschedule[i] : i \in 1..Len(reschedule)}
    /\ reschedule' = << >>
    /\ pc' = "idle"
    /\ UNCHANGED <<made, ready, dropped, tasks, now>>

EndJobs ==
    /\ pc = "jobs"
    /\ jobs = << >>
    /\ pc' = "push"
    /\ UNCHANGED <<jobVars, tasks, now>>

PushBack ==
    /\ pc = "push"
    /\ reschedule # << >>
    /\ Push(jobs, Head(reschedule))
    /\ reschedule' = Tail(reschedule)
    /\ UNCHANGED <<made, ready, deleted, abandoned, closed, tasks, now, pc>>

EndPush ==
    /\ pc = "push"
    /\ reschedule = << >>
    /\ pc' = "tasks"
    /\ UNCHANGED <<jobVars, tasks, now>>

(* Executor::schedule of a task, from a handler that is running.            *)
ScheduleTask(t) ==
    /\ pc = "jobs"
    /\ t \notin tasks
    /\ tasks' = tasks \cup {t}
    /\ UNCHANGED <<jobVars, now, pc>>

(* SchedulableComparator: the top of the heap is a task with the largest    *)
(* due time.                                                                *)
Top(t) == t \in tasks /\ \A u \in tasks : When[u] <= When[t]

(* The top runs, possibly scheduling another task; then whatever is on top  *)
(* is popped, and the task that ran is freed.                               *)
RunTask(t, again) ==
    /\ pc = "tasks"
    /\ Top(t) /\ When[t] < now
    /\ again \notin tasks
    /\ IF again # None /\ When[again] > When[t]
       THEN tasks' = tasks /\ pc' = "freed"
       ELSE tasks' = (tasks \ {t}) \cup ({again} \cap Tasks) /\ UNCHANGED pc
    /\ UNCHANGED <<jobVars, now>>

EndAfterOne ==  \* mutant: one task is run in a pass, or none
    /\ pc = "tasks"
    /\ pc' = "idle"
    /\ UNCHANGED <<jobVars, tasks, now>>
EndPass ==
    /\ pc = "tasks"
    /\ \A t \in tasks : Top(t) => When[t] >= now
    /\ pc' = "idle"
    /\ UNCHANGED <<jobVars, tasks, now>>

(* Executor::~Executor, between two passes: what is queued is deleted.      *)
Destruct ==
    /\ pc = "idle"
    /\ pc' = "gone"
    /\ jobs' = << >> /\ tasks' = {}
    /\ deleted' = [w \in Works |-> deleted[w] + Cardinality({i \in 1..Len(jobs) : jobs[i] = w})]
    /\ UNCHANGED <<reschedule, made, ready, dropped, abandoned, closed, now>>

Ended == pc \in {"freed", "gone"} /\ UNCHANGED vars

-----------------------------------------------------------------------------
ExecuteJobs ==
    \/ \E time \in 0..MaxNow : BeginPass(time)
    \/ NotReady \/ FailJob \/ EndJobs \/ PushBack \/ EndPush \/ EndPass
    \/ \E next \in Works \cup {None} : RunJob(next)
    \/ \E t \in Tasks, again \in Tasks \cup {None} : RunTask(t, again)

Next ==
    \/ ExecuteJobs
    \/ \E w \in Works : Schedule(w)
    \/ \E f \in Futures : Resolve(f)
    \/ \E t \in Tasks : ScheduleTask(t)
    \/ Destruct \/ Ended

Spec == Init /\ [][Next]_vars

(* The owner is updated in every tick.                                      *)
FairSpec == Spec /\ WF_vars(ExecuteJobs)

-----------------------------------------------------------------------------
Places(w) ==
    Cardinality({i \in 1..Len(jobs) : jobs[i] = w})
      + Cardinality({i \in 1..Len(reschedule) : reschedule[i] = w})
      + deleted[w]
      + (IF w \in dropped THEN 1 ELSE 0) + (IF w \in abandoned THEN 1 ELSE 0)

(* A work that was made is in one place: queued, waiting to be rescheduled, *)
(* run and deleted once, refused by a full queue, or left behind by an      *)
(* early return.  None is freed twice or run after it was freed.            *)
JobInOnePlace == \A w \in Works : Places(w) = IF w \in made THEN 1 ELSE 0

(* A pass ends, even when a future never gets its value.                    *)
PassEnds == (pc # "idle") ~> (pc \in {"idle", "freed", "gone"})

(* A future that gets its value is run, if neither the queue overflows nor  *)
(* a client is closed in between, nor the process ends.                     *)
ReadyFutureRuns ==
    \A f \in Futures :
        (f \in ready) ~> (deleted[f] = 1 \/ f \in dropped \/ closed # {} \/ pc = "freed")

(* A task whose time has come waits after a pass only because the heap      *)
(* yields the task due last, and one that is not due yet is above it; or    *)
(* because a failed work made a pass return early.                          *)
OverdueOnlyBehindLater ==
    pc = "idle" /\ closed = {} =>
        \A t \in tasks : When[t] < now => \E u \in tasks : When[u] >= now
=============================================================================
