------------------------------ MODULE Database ------------------------------
(***************************************************************************)
(* The database worker threads (src/database/database.cpp, database.hpp):  *)
(* callers push work on a lock-free queue and signal a condition variable, *)
(* workers drain the queue and wait for the signal without a predicate.    *)
(*                                                                         *)
(* The mutex only ever covers one step: a worker takes it and wait gives   *)
(* it back, a caller takes it around notify_all.  Each such section is one *)
(* action here, so the mutex needs no variable of its own.                 *)
(***************************************************************************)
EXTENDS Integers, Sequences

CONSTANTS Workers,  \* the database threads
          Queries,  \* the calls of Database::query, one caller each
          NoWork

ASSUME DatabaseAssumption == NoWork \notin Queries

VARIABLES queue,    \* Database::_queue
          stop,     \* Database::_stop
          pc,       \* where each worker is in Database::run
          work,     \* the work a worker has popped
          caller,   \* where each caller is in Database::query
          executed, \* how often each work has run
          joined    \* whether ~Database has returned

vars == <<queue, stop, pc, work, caller, executed, joined>>

Init ==
    /\ queue = << >> /\ stop = FALSE /\ joined = FALSE
    /\ pc = [w \in Workers |-> "top"]
    /\ work = [w \in Workers |-> NoWork]
    /\ caller = [q \in Queries |-> "push"]
    /\ executed = [q \in Queries |-> 0]

Goto(w, from, to) == pc[w] = from /\ pc' = [pc EXCEPT ![w] = to]

-----------------------------------------------------------------------------
(* Database::query.                                                         *)

Push(q) ==
    /\ caller[q] = "push" /\ ~joined
    /\ queue' = Append(queue, q)
    /\ caller' = [caller EXCEPT ![q] = "notify"]
    /\ UNCHANGED <<stop, pc, work, executed, joined>>

NotifyAll(q) ==
    /\ caller[q] = "notify"
    /\ caller' = [caller EXCEPT ![q] = "done"]
    /\ pc' = [w \in Workers |-> IF pc[w] = "waiting" THEN "top" ELSE pc[w]]
    /\ UNCHANGED <<queue, stop, work, executed, joined>>

(* Database::stop, or the first line of ~Database.                          *)
Stop ==
    /\ ~stop /\ stop' = TRUE
    /\ UNCHANGED <<queue, pc, work, caller, executed, joined>>

(* ~Database has joined every thread.                                       *)
Join ==
    /\ stop /\ ~joined
    /\ \A w \in Workers : pc[w] = "exited"
    /\ joined' = TRUE
    /\ UNCHANGED <<queue, stop, pc, work, caller, executed>>

-----------------------------------------------------------------------------
(* Database::run.                                                           *)

CheckStop(w) ==
    /\ Goto(w, "top", IF stop THEN "exited" ELSE "drain")
    /\ UNCHANGED <<queue, stop, work, caller, executed, joined>>

CheckEmpty(w) ==
    /\ Goto(w, "drain", IF queue = << >> THEN "wait" ELSE "pop")
    /\ UNCHANGED <<queue, stop, work, caller, executed, joined>>

(* Another worker may have emptied the queue in between.                    *)
PopCopies(w) ==  \* mutant: the work stays in the queue
    /\ Goto(w, "pop", IF queue = << >> THEN "drain" ELSE "execute")
    /\ work' = IF queue = << >> THEN work ELSE [work EXCEPT ![w] = Head(queue)]
    /\ UNCHANGED <<queue, stop, caller, executed, joined>>
Pop(w) ==
    /\ Goto(w, "pop", IF queue = << >> THEN "drain" ELSE "execute")
    /\ IF queue = << >> THEN UNCHANGED <<queue, work>>
       ELSE /\ work' = [work EXCEPT ![w] = Head(queue)]
            /\ queue' = Tail(queue)
    /\ UNCHANGED <<stop, caller, executed, joined>>

ExecuteOne(w) ==  \* mutant: one work for each wake-up
    /\ Goto(w, "execute", "wait")
    /\ executed' = [executed EXCEPT ![work[w]] = @ + 1]
    /\ work' = [work EXCEPT ![w] = NoWork]
    /\ UNCHANGED <<queue, stop, caller, joined>>
Execute(w) ==
    /\ Goto(w, "execute", "drain")
    /\ executed' = [executed EXCEPT ![work[w]] = @ + 1]
    /\ work' = [work EXCEPT ![w] = NoWork]
    /\ UNCHANGED <<queue, stop, caller, joined>>

Wait(w) ==
    /\ Goto(w, "wait", "waiting")
    /\ UNCHANGED <<queue, stop, work, caller, executed, joined>>

(* A condition variable may wake without being notified.                    *)
SpuriousWake(w) ==
    /\ Goto(w, "waiting", "top")
    /\ UNCHANGED <<queue, stop, work, caller, executed, joined>>

Run(w) == CheckStop(w) \/ CheckEmpty(w) \/ Pop(w) \/ Execute(w) \/ Wait(w)

Finished == joined /\ UNCHANGED vars

Next ==
    \/ \E q \in Queries : Push(q) \/ NotifyAll(q)
    \/ Stop \/ Join
    \/ \E w \in Workers : Run(w) \/ SpuriousWake(w)
    \/ Finished

Spec == Init /\ [][Next]_vars

(* Threads that can run do run; a caller that has pushed goes on to notify. *)
FairSpec ==
    /\ Spec
    /\ \A w \in Workers : WF_vars(Run(w))
    /\ \A q \in Queries : WF_vars(NotifyAll(q))
    /\ WF_vars(Join)

-----------------------------------------------------------------------------
TypeOK ==
    /\ queue \in Seq(Queries)
    /\ stop \in BOOLEAN /\ joined \in BOOLEAN
    /\ pc \in [Workers -> {"top", "drain", "pop", "execute", "wait", "waiting", "exited"}]
    /\ work \in [Workers -> Queries \cup {NoWork}]
    /\ caller \in [Queries -> {"push", "notify", "done"}]
    /\ executed \in [Queries -> Nat]

Queued(q) == \E i \in 1..Len(queue) : queue[i] = q

HeldBy(w, q) == pc[w] = "execute" /\ work[w] = q

(* A work that was pushed is in exactly one place, once: in the queue, with *)
(* one worker, or executed.  None is lost between empty() and pop(), none   *)
(* runs twice, whichever workers compete for it.                            *)
WorkInOnePlace ==
    \A q \in Queries :
        /\ caller[q] = "push" =>
             ~Queued(q) /\ executed[q] = 0 /\ \A w \in Workers : ~HeldBy(w, q)
        /\ caller[q] # "push" /\ ~Queued(q) /\ executed[q] = 0
             => \E w \in Workers : HeldBy(w, q)
        /\ executed[q] <= 1
        /\ Queued(q) => executed[q] = 0
        /\ \A w \in Workers : HeldBy(w, q) => ~Queued(q) /\ executed[q] = 0
        /\ \A v, w \in Workers : HeldBy(v, q) /\ HeldBy(w, q) => v = w
        /\ \A i, j \in 1..Len(queue) : queue[i] = q /\ queue[j] = q => i = j

(* As long as one worker is awake and nobody stops it, the queue is drained.*)
AwakeWorkerDrains ==
    (\E w \in Workers : pc[w] \in {"top", "drain", "pop", "execute"}) ~> (queue = << >> \/ stop)

(* database.hpp: the caller signals and "whoever takes it" serves the work: *)
(* every work that was pushed runs, unless the database is stopped.         *)
EveryQueryServed ==
    \A q \in Queries : (caller[q] # "push") ~> (executed[q] = 1 \/ stop)
=============================================================================
