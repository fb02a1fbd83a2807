--------------------------- MODULE ExecutorProofs ---------------------------
(***************************************************************************)
(* Proofs about Executor for any works, any capacity of the queue and any  *)
(* tasks.                                                                  *)
(***************************************************************************)
EXTENDS Executor, FiniteSetTheorems, WellFoundedInduction, TLAPS

(* How often x is in the sequence q.                                        *)
Times(q, x) == Cardinality({i \in 1..Len(q) : q[i] = x})

LEMMA TimesType ==
    ASSUME NEW q \in Seq(Works), NEW x
    PROVE  /\ Times(q, x) \in Nat
           /\ (\E i \in 1..Len(q) : q[i] = x) <=> Times(q, x) > 0
<1> DEFINE S == {i \in 1..Len(q) : q[i] = x}
<1>1. IsFiniteSet(1..Len(q)) /\ S \subseteq 1..Len(q)
  BY FS_Interval
<1>2. IsFiniteSet(S)
  BY <1>1, FS_Subset
<1>3. Cardinality(S) \in Nat /\ (Cardinality(S) = 0 <=> S = {})
  BY <1>2, FS_CardinalityType, FS_EmptySet
<1>4. S = {} <=> ~\E i \in 1..Len(q) : q[i] = x
  OBVIOUS
<1> HIDE DEF S
<1>5. (\E i \in 1..Len(q) : q[i] = x) <=> Cardinality(S) > 0
  BY <1>3, <1>4
<1> QED BY <1>3, <1>5 DEF S, Times

LEMMA TimesEmpty ==
    ASSUME NEW x
    PROVE  Times(<< >>, x) = 0
<1>1. {i \in 1..Len(<< >>) : << >>[i] = x} = {}
  OBVIOUS
<1> QED BY <1>1, FS_EmptySet DEF Times

LEMMA TimesAppend ==
    ASSUME NEW q \in Seq(Works), NEW w \in Works, NEW x
    PROVE  Times(Append(q, w), x) = Times(q, x) + (IF w = x THEN 1 ELSE 0)
<1> DEFINE n == Len(q)
           r == Append(q, w)
           S == {i \in 1..n : q[i] = x}
           T == {i \in 1..Len(r) : r[i] = x}
<1>1. n \in Nat /\ Len(r) = n + 1 /\ r[n + 1] = w /\ \A i \in 1..n : r[i] = q[i]
  OBVIOUS
<1> HIDE DEF r, n
<1>2. T = IF w = x THEN S \cup {n + 1} ELSE S
  BY <1>1
<1>3. n + 1 \notin S
  BY <1>1
<1>4. IsFiniteSet(S) /\ Cardinality(S) \in Nat
  <2>1. IsFiniteSet(1..n)
    BY <1>1, FS_Interval
  <2>2. S \in SUBSET (1..n)
    OBVIOUS
  <2> QED BY <2>1, <2>2, FS_Subset, FS_CardinalityType
<1> HIDE DEF S, T
<1>5. Cardinality(S \cup {n + 1}) = Cardinality(S) + 1
  BY <1>3, <1>4, FS_AddElement
<1>6. Cardinality(T) = Cardinality(S) + (IF w = x THEN 1 ELSE 0)
  BY <1>2, <1>4, <1>5
<1> QED BY <1>6 DEF Times, S, T, r, n

LEMMA TimesTail ==
    ASSUME NEW q \in Seq(Works), q # << >>, NEW x
    PROVE  Times(q, x) = Times(Tail(q), x) + (IF Head(q) = x THEN 1 ELSE 0)
<1> DEFINE r == Tail(q)
           n == Len(r)
           S == {i \in 1..n : r[i] = x}
           U == {i \in 2..(n + 1) : q[i] = x}
           T == {i \in 1..Len(q) : q[i] = x}
           f == [i \in S |-> i + 1]
<1>1. /\ n \in Nat /\ Len(q) = n + 1 /\ Head(q) = q[1]
      /\ \A i \in 1..n : r[i] = q[i + 1]
  OBVIOUS
<1> HIDE DEF r, n
<1>2. \A i \in S : i \in Nat /\ i + 1 \in U
  BY <1>1
<1>3. \A j \in U : j - 1 \in S /\ (j - 1) + 1 = j
  BY <1>1
<1>4. f \in Bijection(S, U)
  <2>1. f \in [S -> U]
    BY <1>2
  <2>2. \A i, j \in S : f[i] = f[j] => i = j
    BY <1>2
  <2>3. \A j \in U : \E i \in S : f[i] = j
    BY <1>3
  <2> QED BY <2>1, <2>2, <2>3 DEF Bijection, Injection, IsInjective, Surjection
<1>5. IsFiniteSet(S) /\ IsFiniteSet(U) /\ Cardinality(U) = Cardinality(S) /\ Cardinality(S) \in Nat
  <2>1. IsFiniteSet(1..n)
    BY <1>1, FS_Interval
  <2>2. S \in SUBSET (1..n)
    OBVIOUS
  <2>3. IsFiniteSet(S)
    BY <2>1, <2>2, FS_Subset
  <2>4. ExistsBijection(S, U)
    BY <1>4 DEF ExistsBijection
  <2> HIDE DEF S, U
  <2> QED BY <2>3, <2>4, FS_Bijection, FS_CardinalityType
<1>6. T = IF Head(q) = x THEN U \cup {1} ELSE U
  BY <1>1
<1>7. 1 \notin U
  BY <1>1
<1> HIDE DEF S, T, U
<1>8. Cardinality(U \cup {1}) = Cardinality(U) + 1
  BY <1>5, <1>7, FS_AddElement
<1>9. Cardinality(T) = Cardinality(S) + (IF Head(q) = x THEN 1 ELSE 0)
  BY <1>5, <1>6, <1>8
<1> QED BY <1>9 DEF Times, S, T, r, n

(* The types the arguments below rest on.                                   *)
JobTypes ==
    /\ jobs \in Seq(Works) /\ reschedule \in Seq(Works)
    /\ made \subseteq Works
    /\ deleted \in [Works -> Nat]
    /\ dropped \subseteq Works /\ abandoned \subseteq Works
    /\ tasks \subseteq Tasks /\ now \in Nat

LEMMA PushType ==
    ASSUME NEW q \in Seq(Works), NEW w \in Works, dropped \subseteq Works, Push(q, w)
    PROVE  jobs' \in Seq(Works) /\ dropped' \subseteq Works
  BY DEF Push

LEMMA NextJobTypes == JobTypes /\ [Next]_vars => JobTypes'
<1> SUFFICES ASSUME JobTypes, [Next]_vars PROVE JobTypes'
  OBVIOUS
<1>1. ASSUME NEW time \in 0..MaxNow, BeginPass(time) PROVE JobTypes'
  BY <1>1, ExecutorAssumption DEF BeginPass, JobTypes, jobVars
<1>2. CASE NotReady
  BY <1>2 DEF NotReady, JobTypes
<1>3. CASE FailJob
  <2>1. {reschedule[i] : i \in 1..Len(reschedule)} \subseteq Works
    BY DEF JobTypes
  <2>2. Head(jobs) \in Works /\ Tail(jobs) \in Seq(Works)
    BY <1>3 DEF FailJob, JobTypes
  <2>3. deleted' \in [Works -> Nat]
    BY <1>3, <2>2 DEF FailJob, JobTypes
  <2> QED BY <1>3, <2>1, <2>2, <2>3 DEF FailJob, JobTypes
<1>4. CASE PushBack
  <2>1. Head(reschedule) \in Works /\ Tail(reschedule) \in Seq(Works)
    BY <1>4 DEF PushBack, JobTypes
  <2> QED BY <1>4, <2>1, PushType DEF PushBack, JobTypes
<1>5. ASSUME NEW next \in Works \cup {None}, RunJob(next) PROVE JobTypes'
  <2>1. Head(jobs) \in Works /\ Tail(jobs) \in Seq(Works)
    BY <1>5 DEF RunJob, JobTypes
  <2>2. deleted' \in [Works -> Nat]
    BY <1>5, <2>1 DEF RunJob, JobTypes
  <2>3. reschedule' \in Seq(Works) /\ made' \subseteq Works
    <3>1. CASE next = None
      BY <1>5, <3>1 DEF RunJob, JobTypes
    <3>2. CASE next \in Works /\ next # None
      <4>1. reschedule' = Append(reschedule, next) /\ made' = made \cup {next}
        BY <1>5, <3>2 DEF RunJob
      <4>2. reschedule \in Seq(Works) /\ made \subseteq Works
        BY DEF JobTypes
      <4> QED BY <3>2, <4>1, <4>2
    <3> QED BY <3>1, <3>2
  <2> QED BY <1>5, <2>1, <2>2, <2>3 DEF RunJob, JobTypes
<1>6. ASSUME NEW t \in Tasks, NEW again \in Tasks \cup {None}, RunTask(t, again)
      PROVE  JobTypes'
  BY <1>6 DEF RunTask, JobTypes, jobVars
<1>7. ASSUME NEW w \in Works, Schedule(w) PROVE JobTypes'
  BY <1>7, PushType DEF Schedule, JobTypes
<1>8. ASSUME NEW t \in Tasks, ScheduleTask(t) PROVE JobTypes'
  BY <1>8 DEF ScheduleTask, JobTypes, jobVars
<1>9. CASE Destruct
  <2>1. \A w \in Works : deleted[w] + Times(jobs, w) \in Nat
    BY TimesType DEF JobTypes
  <2>2. deleted' = [w \in Works |-> deleted[w] + Times(jobs, w)]
    BY <1>9 DEF Destruct, Times
  <2>3. jobs' \in Seq(Works)
    BY <1>9 DEF Destruct
  <2> QED BY <1>9, <2>1, <2>2, <2>3 DEF Destruct, JobTypes
<1>10. CASE EndJobs \/ EndPush \/ EndPass \/ (\E f \in Futures : Resolve(f)) \/ Ended
              \/ UNCHANGED vars
  BY <1>10 DEF EndJobs, EndPush, EndPass, Resolve, Ended, vars, jobVars, JobTypes
<1> QED
  BY <1>1, <1>2, <1>3, <1>4, <1>5, <1>6, <1>7, <1>8, <1>9, <1>10 DEF Next, ExecuteJobs

LEMMA JobTypesInvariant == Spec => []JobTypes
<1>1. Init => JobTypes
  BY DEF Init, JobTypes
<1> QED BY <1>1, NextJobTypes, PTL DEF Spec

-----------------------------------------------------------------------------
(* Works.                                                                   *)

One(b) == IF b THEN 1 ELSE 0

LEMMA PlacesAdd ==
    ASSUME JobTypes, NEW w \in Works
    PROVE  /\ Places(w) = Times(jobs, w) + Times(reschedule, w) + deleted[w]
                            + One(w \in dropped) + One(w \in abandoned)
           /\ Times(jobs, w) \in Nat /\ Times(reschedule, w) \in Nat /\ deleted[w] \in Nat
           /\ One(w \in dropped) \in {0, 1} /\ One(w \in abandoned) \in {0, 1}
<1>1. Times(jobs, w) \in Nat /\ Times(reschedule, w) \in Nat /\ deleted[w] \in Nat
  BY TimesType DEF JobTypes
<1> QED BY <1>1 DEF Places, Times, One

(* What a push does to the places of a work: the one that is pushed is in   *)
(* one place more.                                                          *)
LEMMA PushPlaces ==
    ASSUME NEW q \in Seq(Works), NEW x \in Works, Push(q, x), NEW w \in Works,
           w = x => x \notin dropped
    PROVE  Times(jobs', w) + One(w \in dropped') = Times(q, w) + One(w \in dropped) + One(x = w)
<1>1. Times(q, w) \in Nat
  BY TimesType
<1>2. CASE Len(q) < Capacity
  <2>1. jobs' = Append(q, x) /\ dropped' = dropped
    BY <1>2 DEF Push
  <2>2. Times(jobs', w) = Times(q, w) + One(x = w)
    BY <2>1, TimesAppend DEF One
  <2>3. One(x = w) \in {0, 1} /\ One(w \in dropped) \in {0, 1}
    BY DEF One
  <2> QED BY <1>1, <2>1, <2>2, <2>3
<1>3. CASE ~(Len(q) < Capacity)
  BY <1>1, <1>3 DEF Push, One
<1> QED BY <1>2, <1>3

LEMMA NextPlaces == JobTypes /\ JobTypes' /\ JobInOnePlace /\ [Next]_vars => JobInOnePlace'
<1> SUFFICES ASSUME JobTypes, JobTypes', JobInOnePlace, [Next]_vars, NEW w \in Works
             PROVE  Places(w)' = One(w \in made')
  BY DEF JobInOnePlace, One
<1>1. /\ Places(w) = Times(jobs, w) + Times(reschedule, w) + deleted[w]
                        + One(w \in dropped) + One(w \in abandoned)
      /\ Times(jobs, w) \in Nat /\ Times(reschedule, w) \in Nat /\ deleted[w] \in Nat
      /\ One(w \in dropped) \in {0, 1} /\ One(w \in abandoned) \in {0, 1}
  BY PlacesAdd
<1>2. /\ Places(w)' = Times(jobs', w) + Times(reschedule', w) + deleted'[w]
                         + One(w \in dropped') + One(w \in abandoned')
      /\ Times(jobs', w) \in Nat /\ Times(reschedule', w) \in Nat /\ deleted'[w] \in Nat
      /\ One(w \in dropped') \in {0, 1} /\ One(w \in abandoned') \in {0, 1}
  <2>1. jobs' \in Seq(Works) /\ reschedule' \in Seq(Works) /\ deleted' \in [Works -> Nat]
    BY DEF JobTypes
  <2>2. Times(jobs', w) \in Nat /\ Times(reschedule', w) \in Nat /\ deleted'[w] \in Nat
    BY <2>1, TimesType
  <2> QED BY <2>2 DEF Places, Times, One
<1>3. Places(w) = One(w \in made) /\ One(w \in made) \in {0, 1}
  BY DEF JobInOnePlace, One
<1>4. ASSUME UNCHANGED <<jobs, reschedule, made, deleted, dropped, abandoned>>
      PROVE  Places(w)' = One(w \in made')
  BY <1>1, <1>2, <1>3, <1>4
<1>5. CASE NotReady
  <2>1. /\ jobs # << >> /\ Head(jobs) \in Works
        /\ jobs' = Tail(jobs) /\ reschedule' = Append(reschedule, Head(jobs))
        /\ UNCHANGED <<made, deleted, dropped, abandoned>>
    BY <1>5 DEF NotReady, JobTypes
  <2>2. Times(jobs, w) = Times(jobs', w) + One(Head(jobs) = w)
    BY <2>1, TimesTail DEF JobTypes, One
  <2>3. Times(reschedule', w) = Times(reschedule, w) + One(Head(jobs) = w)
    BY <2>1, TimesAppend DEF JobTypes, One
  <2>4. One(Head(jobs) = w) \in {0, 1}
    BY DEF One
  <2> QED BY <1>1, <1>2, <1>3, <2>1, <2>2, <2>3, <2>4
<1>6. CASE FailJob
  <2>1. /\ jobs # << >> /\ Head(jobs) \in Works
        /\ jobs' = Tail(jobs) /\ reschedule' = << >>
        /\ deleted' = [deleted EXCEPT ![Head(jobs)] = @ + 1]
        /\ abandoned' = abandoned \cup {reschedule[i] : i \in 1..Len(reschedule)}
        /\ UNCHANGED <<made, dropped>>
    BY <1>6 DEF FailJob, JobTypes
  <2>2. Times(jobs, w) = Times(jobs', w) + One(Head(jobs) = w)
    BY <2>1, TimesTail DEF JobTypes, One
  <2>3. deleted'[w] = deleted[w] + One(Head(jobs) = w)
    BY <2>1 DEF JobTypes, One
  <2>4. One(Head(jobs) = w) \in {0, 1}
    BY DEF One
  <2>5. Times(reschedule', w) = 0
    BY <2>1, TimesEmpty
  <2>6. Times(reschedule, w) <= 1 /\ (Times(reschedule, w) > 0 => One(w \in abandoned) = 0)
    BY <1>1, <1>3
  <2>7. w \in abandoned' <=> w \in abandoned \/ Times(reschedule, w) > 0
    <3>1. (\E i \in 1..Len(reschedule) : reschedule[i] = w) <=> Times(reschedule, w) > 0
      BY TimesType DEF JobTypes
    <3> QED BY <2>1, <3>1
  <2>8. One(w \in abandoned') = One(w \in abandoned) + Times(reschedule, w)
    <3>1. CASE Times(reschedule, w) > 0
      BY <1>1, <2>6, <2>7, <3>1 DEF One
    <3>2. CASE Times(reschedule, w) = 0
      BY <1>1, <2>7, <3>2 DEF One
    <3> QED BY <1>1, <3>1, <3>2
  <2>9. One(w \in dropped') = One(w \in dropped) /\ One(w \in made') = One(w \in made)
    BY <2>1
  <2> QED BY <1>1, <1>2, <1>3, <2>2, <2>3, <2>4, <2>5, <2>8, <2>9
<1>7. CASE PushBack
  <2> DEFINE x == Head(reschedule)
  <2>1. /\ reschedule # << >> /\ x \in Works
        /\ Push(jobs, x) /\ reschedule' = Tail(reschedule)
        /\ UNCHANGED <<made, deleted, abandoned>>
    BY <1>7 DEF PushBack, JobTypes
  <2> HIDE DEF x
  <2>2. Times(reschedule, w) = Times(reschedule', w) + One(x = w)
    BY <2>1, TimesTail DEF JobTypes, One, x
  <2>3. One(x = w) \in {0, 1} /\ (x = w => One(x = w) = 1)
    BY DEF One
  <2>4. w = x => One(w \in dropped) = 0
    BY <1>1, <1>2, <1>3, <2>2, <2>3
  <2>5. w = x => x \notin dropped
    BY <2>4 DEF One
  <2>6. Times(jobs', w) + One(w \in dropped') = Times(jobs, w) + One(w \in dropped) + One(x = w)
    BY <2>1, <2>5, PushPlaces DEF JobTypes
  <2>7. /\ One(w \in abandoned') = One(w \in abandoned) /\ One(w \in made') = One(w \in made)
        /\ deleted'[w] = deleted[w]
    BY <2>1
  <2>8. One(x = w) \in {0, 1}
    BY <2>3
  <2> QED BY <1>1, <1>2, <1>3, <2>2, <2>6, <2>7, <2>8
<1>8. ASSUME NEW next \in Works \cup {None}, RunJob(next) PROVE Places(w)' = One(w \in made')
  <2>1. /\ jobs # << >> /\ Head(jobs) \in Works
        /\ jobs' = Tail(jobs) /\ next \notin made
        /\ deleted' = [deleted EXCEPT ![Head(jobs)] = @ + 1]
        /\ UNCHANGED <<dropped, abandoned>>
    BY <1>8 DEF RunJob, JobTypes
  <2>2. Times(jobs, w) = Times(jobs', w) + One(Head(jobs) = w)
    BY <2>1, TimesTail DEF JobTypes, One
  <2>3. deleted'[w] = deleted[w] + One(Head(jobs) = w)
    BY <2>1 DEF JobTypes, One
  <2>4. One(Head(jobs) = w) \in {0, 1}
    BY DEF One
  <2>5. CASE next = None
    <3>1. UNCHANGED <<reschedule, made>>
      BY <1>8, <2>5 DEF RunJob
    <3> QED BY <1>1, <1>2, <1>3, <2>1, <2>2, <2>3, <2>4, <3>1
  <2>6. CASE next # None
    <3>1. next \in Works /\ reschedule' = Append(reschedule, next) /\ made' = made \cup {next}
      BY <1>8, <2>6 DEF RunJob
    <3>2. Times(reschedule', w) = Times(reschedule, w) + One(next = w)
      BY <3>1, TimesAppend DEF JobTypes, One
    <3>3. One(w \in made') = One(w \in made) + One(next = w) /\ One(next = w) \in {0, 1}
      BY <2>1, <3>1 DEF One
    <3>4. One(w \in dropped') = One(w \in dropped) /\ One(w \in abandoned') = One(w \in abandoned)
      BY <2>1
    <3> QED BY <1>1, <1>2, <1>3, <2>2, <2>3, <2>4, <3>2, <3>3, <3>4
  <2> QED BY <2>5, <2>6
<1>9. ASSUME NEW x \in Works, Schedule(x) PROVE Places(w)' = One(w \in made')
  <2>1. /\ x \notin made /\ made' = made \cup {x} /\ Push(jobs, x)
        /\ UNCHANGED <<reschedule, deleted, abandoned>>
    BY <1>9 DEF Schedule
  <2>2. One(w \in made') = One(w \in made) + One(x = w) /\ One(x = w) \in {0, 1}
    BY <2>1 DEF One
  <2>3. w = x => One(w \in made) = 0
    BY <2>1 DEF One
  <2>4. w = x => One(w \in dropped) = 0
    BY <1>1, <1>3, <2>3
  <2>5. w = x => x \notin dropped
    BY <2>4 DEF One
  <2>6. Times(jobs', w) + One(w \in dropped') = Times(jobs, w) + One(w \in dropped) + One(x = w)
    BY <2>1, <2>5, PushPlaces DEF JobTypes
  <2> QED BY <1>1, <1>2, <1>3, <2>1, <2>2, <2>6
<1>10. CASE Destruct
  <2>1. /\ jobs' = << >>
        /\ deleted' = [v \in Works |-> deleted[v] + Times(jobs, v)]
        /\ UNCHANGED <<reschedule, made, dropped, abandoned>>
    BY <1>10 DEF Destruct, Times
  <2>2. Times(jobs', w) = 0 /\ deleted'[w] = deleted[w] + Times(jobs, w)
    BY <2>1, TimesEmpty
  <2> QED BY <1>1, <1>2, <1>3, <2>1, <2>2
<1>11. CASE \/ \E time \in 0..MaxNow : BeginPass(time)
            \/ EndJobs \/ EndPush \/ EndPass
            \/ \E t \in Tasks, again \in Tasks \cup {None} : RunTask(t, again)
            \/ \E f \in Futures : Resolve(f)
            \/ \E t \in Tasks : ScheduleTask(t)
            \/ Ended \/ UNCHANGED vars
  <2>1. UNCHANGED <<jobs, reschedule, made, deleted, dropped, abandoned>>
    BY <1>11 DEF BeginPass, EndJobs, EndPush, EndPass, RunTask, Resolve, ScheduleTask, Ended,
                 vars, jobVars
  <2> QED BY <1>4, <2>1
<1> QED
  BY <1>5, <1>6, <1>7, <1>8, <1>9, <1>10, <1>11 DEF Next, ExecuteJobs

(* A work that was made is in one place: queued, waiting to be rescheduled, *)
(* run and deleted once, refused by a full queue or left behind by an early *)
(* return of executeJobs.  None is freed twice, for any number of works and *)
(* any capacity of the queue, whatever other threads push in between.       *)
THEOREM JobsInOnePlace == Spec => []JobInOnePlace
<1>1. Init => JobInOnePlace
  <2> SUFFICES ASSUME Init, NEW w \in Works PROVE Places(w) = 0 /\ w \notin made
    BY DEF JobInOnePlace
  <2>1. JobTypes
    BY DEF Init, JobTypes
  <2>2. Times(jobs, w) = 0 /\ Times(reschedule, w) = 0
    BY TimesEmpty DEF Init
  <2>3. deleted[w] = 0 /\ w \notin dropped /\ w \notin abandoned /\ w \notin made
    BY DEF Init
  <2> QED BY <2>1, <2>2, <2>3, PlacesAdd DEF One
<1> QED BY <1>1, NextPlaces, JobTypesInvariant, PTL DEF Spec

-----------------------------------------------------------------------------
(* Tasks.                                                                   *)

(* Tasks that are all due have one that is due last.                        *)
LEMMA TopExists ==
    ASSUME JobTypes, tasks # {}, \A u \in tasks : When[u] < now
    PROVE  \E t \in tasks : Top(t)
<1> DEFINE R == {p \in Nat \X Nat : p[1] < p[2]}
           T == {now - When[u] : u \in tasks}
<1>1. IsWellFoundedOn(R, Nat)
  BY NatLessThanWellFounded DEF OpToRel
<1>2. \A u \in tasks : When[u] \in Nat /\ now - When[u] \in Nat
  BY ExecutorAssumption DEF JobTypes
<1>3. T \subseteq Nat /\ T # {}
  BY <1>2
<1> HIDE DEF R, T
<1>4. PICK m \in T : \A y \in T : ~(<<y, m>> \in R)
  BY <1>1, <1>3, WFMin
<1>5. PICK t \in tasks : m = now - When[t]
  BY <1>4 DEF T
<1>6. ASSUME NEW u \in tasks PROVE When[u] <= When[t]
  <2>1. ~(<<now - When[u], now - When[t]>> \in R)
    BY <1>4, <1>5 DEF T
  <2>2. ~(now - When[u] < now - When[t])
    BY <1>2, <2>1 DEF R
  <2> QED BY <1>2, <2>2 DEF JobTypes
<1> QED BY <1>6 DEF Top

(* Whatever is scheduled, and for when: a task whose time has come is still *)
(* there after a pass only because the heap has one on top that is not due  *)
(* yet, or because a failed work made a pass return early.                  *)
THEOREM OverdueTasksBehindLater == Spec => []OverdueOnlyBehindLater
<1>1. Init => OverdueOnlyBehindLater
  BY DEF Init, OverdueOnlyBehindLater
<1>2. JobTypes /\ OverdueOnlyBehindLater /\ [Next]_vars => OverdueOnlyBehindLater'
  <2> SUFFICES ASSUME JobTypes, OverdueOnlyBehindLater, [Next]_vars
               PROVE  OverdueOnlyBehindLater'
    OBVIOUS
  <2>1. CASE EndPass
    <3> SUFFICES ASSUME NEW t \in tasks, When[t] < now, \A u \in tasks : ~(When[u] >= now)
                 PROVE  FALSE
      BY <2>1 DEF EndPass, OverdueOnlyBehindLater
    <3>1. \A u \in tasks : When[u] < now
      BY ExecutorAssumption DEF JobTypes
    <3>2. PICK u \in tasks : Top(u)
      BY <3>1, TopExists
    <3> QED BY <2>1, <3>2 DEF EndPass
  <2>2. CASE FailJob
    BY <2>2 DEF FailJob, OverdueOnlyBehindLater
  <2>3. CASE UNCHANGED <<pc, closed, tasks, now>> \/ pc' # "idle"
    BY <2>3 DEF OverdueOnlyBehindLater
  <2>4. ASSUME ~EndPass, ~FailJob
        PROVE  UNCHANGED <<pc, closed, tasks, now>> \/ pc' # "idle"
    BY <2>4 DEF Next, ExecuteJobs, BeginPass, NotReady, EndJobs, PushBack, EndPush, RunJob,
                RunTask, Schedule, Resolve, ScheduleTask, Destruct, Ended, vars, jobVars
  <2> QED BY <2>1, <2>2, <2>3, <2>4
<1> QED BY <1>1, <1>2, JobTypesInvariant, PTL DEF Spec
=============================================================================
