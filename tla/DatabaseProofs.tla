--------------------------- MODULE DatabaseProofs ---------------------------
(***************************************************************************)
(* Proofs about Database for any number of workers and queries.            *)
(***************************************************************************)
EXTENDS Database, TLAPS

(* Membership in a queue of queries and its being free of repetitions,      *)
(* across a push and a pop.                                                 *)
InQueue(s, q) == \E i \in 1..Len(s) : s[i] = q

OnceInQueue(s, q) == \A i, j \in 1..Len(s) : s[i] = q /\ s[j] = q => i = j

LEMMA PushQueue ==
    ASSUME NEW s \in Seq(Queries), NEW x \in Queries, NEW q \in Queries
    PROVE  /\ Append(s, x) \in Seq(Queries)
           /\ InQueue(Append(s, x), q) <=> InQueue(s, q) \/ q = x
           /\ OnceInQueue(s, q) /\ (q = x => ~InQueue(s, q)) => OnceInQueue(Append(s, x), q)
<1> DEFINE t == Append(s, x)
<1>1. /\ t \in Seq(Queries) /\ Len(s) \in Nat /\ Len(t) = Len(s) + 1
      /\ t[Len(s) + 1] = x /\ \A i \in 1..Len(s) : t[i] = s[i]
  OBVIOUS
<1> HIDE DEF t
<1>2. InQueue(t, q) <=> InQueue(s, q) \/ q = x
  BY <1>1 DEF InQueue
<1>3. OnceInQueue(s, q) /\ (q = x => ~InQueue(s, q)) => OnceInQueue(t, q)
  BY <1>1 DEF InQueue, OnceInQueue
<1> QED BY <1>1, <1>2, <1>3 DEF t

LEMMA PopQueue ==
    ASSUME NEW s \in Seq(Queries), s # << >>, NEW q \in Queries
    PROVE  /\ Head(s) \in Queries /\ Tail(s) \in Seq(Queries)
           /\ InQueue(s, Head(s))
           /\ InQueue(Tail(s), q) => InQueue(s, q)
           /\ InQueue(s, q) => InQueue(Tail(s), q) \/ q = Head(s)
           /\ OnceInQueue(s, q) => OnceInQueue(Tail(s), q)
           /\ OnceInQueue(s, q) /\ q = Head(s) => ~InQueue(Tail(s), q)
<1> DEFINE t == Tail(s)
<1>1. /\ t \in Seq(Queries) /\ Len(s) \in Nat /\ Len(s) > 0 /\ Len(t) = Len(s) - 1
      /\ Head(s) = s[1] /\ s[1] \in Queries
      /\ \A i \in 1..Len(t) : i + 1 \in 1..Len(s) /\ t[i] = s[i + 1]
  OBVIOUS
<1> HIDE DEF t
<1>2. \A i \in 2..Len(s) : i - 1 \in 1..Len(t) /\ t[i - 1] = s[i]
  BY <1>1
<1>3. InQueue(s, Head(s))
  BY <1>1 DEF InQueue
<1>4. InQueue(t, q) => InQueue(s, q)
  BY <1>1 DEF InQueue
<1>5. InQueue(s, q) => InQueue(t, q) \/ q = Head(s)
  <2> SUFFICES ASSUME NEW i \in 1..Len(s), s[i] = q, q # s[1] PROVE InQueue(t, q)
    BY <1>1 DEF InQueue
  <2>1. i \in 2..Len(s)
    BY <1>1
  <2> QED BY <2>1, <1>2 DEF InQueue
<1>6. ASSUME OnceInQueue(s, q) PROVE OnceInQueue(t, q)
  <2> SUFFICES ASSUME NEW i \in 1..Len(t), NEW j \in 1..Len(t), t[i] = q, t[j] = q
               PROVE  i = j
    BY DEF OnceInQueue
  <2>1. i + 1 = j + 1
    BY <1>1, <1>6 DEF OnceInQueue
  <2> QED BY <2>1
<1>7. ASSUME OnceInQueue(s, q), q = Head(s) PROVE ~InQueue(t, q)
  <2> SUFFICES ASSUME NEW i \in 1..Len(t), t[i] = q PROVE FALSE
    BY DEF InQueue
  <2>1. i + 1 = 1
    BY <1>1, <1>7 DEF OnceInQueue
  <2> QED BY <2>1
<1> QED BY <1>1, <1>3, <1>4, <1>5, <1>6, <1>7 DEF t

(* WorkInOnePlace for one work, in terms of the two predicates above.       *)
OnePlace(q) ==
    /\ caller[q] = "push" =>
         ~InQueue(queue, q) /\ executed[q] = 0 /\ \A w \in Workers : ~HeldBy(w, q)
    /\ caller[q] # "push" /\ ~InQueue(queue, q) /\ executed[q] = 0
         => \E w \in Workers : HeldBy(w, q)
    /\ executed[q] <= 1
    /\ InQueue(queue, q) => executed[q] = 0
    /\ \A w \in Workers : HeldBy(w, q) => ~InQueue(queue, q) /\ executed[q] = 0
    /\ \A v, w \in Workers : HeldBy(v, q) /\ HeldBy(w, q) => v = w
    /\ OnceInQueue(queue, q)

LEMMA OnePlaceIsWorkInOnePlace == WorkInOnePlace <=> \A q \in Queries : OnePlace(q)
  BY DEF WorkInOnePlace, OnePlace, Queued, InQueue, OnceInQueue

Inv == /\ TypeOK
       /\ \A q \in Queries : OnePlace(q)
       /\ \A w \in Workers : pc[w] = "execute" => work[w] # NoWork

LEMMA InitInv == Init => Inv
<1> SUFFICES ASSUME Init PROVE Inv
  OBVIOUS
<1>1. TypeOK
  <2>1. stop \in BOOLEAN /\ joined \in BOOLEAN
    BY Zenon DEF Init
  <2>2. queue \in Seq(Queries)
    BY DEF Init
  <2> QED BY <2>1, <2>2 DEF Init, TypeOK
<1>2. Len(queue) = 0
  BY DEF Init
<1>3. ASSUME NEW q \in Queries PROVE OnePlace(q)
  BY <1>2 DEF Init, OnePlace, InQueue, OnceInQueue, HeldBy
<1> QED BY <1>1, <1>3 DEF Inv, Init

LEMMA NextInv == Inv /\ [Next]_vars => Inv'
<1> SUFFICES ASSUME Inv, [Next]_vars PROVE Inv'
  OBVIOUS
<1>1. ASSUME NEW x \in Queries, Push(x) PROVE Inv'
  <2>1. queue \in Seq(Queries) /\ OnePlace(x) /\ caller[x] = "push"
    BY <1>1 DEF Inv, TypeOK, Push
  <2>2. TypeOK'
    BY <1>1, PushQueue DEF Inv, TypeOK, Push
  <2>3. ASSUME NEW q \in Queries PROVE OnePlace(q)'
    <3>1. OnePlace(q) /\ OnceInQueue(queue, q)
      BY DEF Inv, OnePlace
    <3>2. \A w \in Workers : HeldBy(w, q)' <=> HeldBy(w, q)
      BY <1>1 DEF Push, HeldBy
    <3>3. \A w \in Workers : ~HeldBy(w, x)
      BY <2>1 DEF OnePlace
    <3>4. /\ InQueue(queue', q) <=> InQueue(queue, q) \/ q = x
          /\ OnceInQueue(queue', q)
      BY <1>1, <2>1, <3>1, PushQueue DEF Push, OnePlace
    <3>5. /\ executed' = executed
          /\ q # x => caller'[q] = caller[q]
          /\ caller'[x] = "notify"
      BY <1>1 DEF Push, Inv, TypeOK
    <3> QED BY <2>1, <3>1, <3>2, <3>3, <3>4, <3>5 DEF OnePlace
  <2> QED BY <1>1, <2>2, <2>3 DEF Inv, Push
<1>2. ASSUME TypeOK', \A w \in Workers, q \in Queries : HeldBy(w, q)' <=> HeldBy(w, q),
             \A q \in Queries : caller'[q] = "push" <=> caller[q] = "push",
             \A w \in Workers : pc'[w] = "execute" => work'[w] # NoWork,
             UNCHANGED <<queue, executed>>
      PROVE  Inv'
  BY <1>2 DEF Inv, OnePlace
<1>3. ASSUME NEW x \in Queries, NotifyAll(x) PROVE Inv'
  <2>1. TypeOK'
    BY <1>3 DEF NotifyAll, Inv, TypeOK
  <2>2. \A w \in Workers, q \in Queries : HeldBy(w, q)' <=> HeldBy(w, q)
    BY <1>3 DEF NotifyAll, HeldBy
  <2>3. \A q \in Queries : caller'[q] = "push" <=> caller[q] = "push"
    BY <1>3 DEF NotifyAll, Inv, TypeOK
  <2> QED BY <1>2, <1>3, <2>1, <2>2, <2>3 DEF NotifyAll, Inv
<1>4. CASE Stop \/ Join \/ Finished \/ UNCHANGED vars
  <2>1. TypeOK'
    BY <1>4 DEF Stop, Join, Finished, vars, Inv, TypeOK
  <2>2. UNCHANGED <<queue, pc, work, caller, executed>>
    BY <1>4 DEF Stop, Join, Finished, vars
  <2> QED BY <1>2, <2>1, <2>2 DEF Inv, HeldBy
<1>5. ASSUME NEW w \in Workers,
             CheckStop(w) \/ CheckEmpty(w) \/ Wait(w) \/ SpuriousWake(w)
      PROVE  Inv'
  <2>1. TypeOK'
    BY <1>5 DEF CheckStop, CheckEmpty, Wait, SpuriousWake, Goto, Inv, TypeOK
  <2>2. \A v \in Workers : pc'[v] = "execute" <=> pc[v] = "execute"
    BY <1>5 DEF CheckStop, CheckEmpty, Wait, SpuriousWake, Goto, Inv, TypeOK
  <2>3. UNCHANGED <<queue, work, caller, executed>>
    BY <1>5 DEF CheckStop, CheckEmpty, Wait, SpuriousWake
  <2> QED BY <1>2, <2>1, <2>2, <2>3 DEF Inv, HeldBy
<1>6. ASSUME NEW w \in Workers, Pop(w) PROVE Inv'
  <2>1. CASE queue = << >>
    <3>1. TypeOK'
      BY <1>6, <2>1 DEF Pop, Goto, Inv, TypeOK
    <3>2. \A v \in Workers : pc'[v] = "execute" <=> pc[v] = "execute"
      BY <1>6, <2>1 DEF Pop, Goto, Inv, TypeOK
    <3>3. UNCHANGED <<queue, work, caller, executed>>
      BY <1>6, <2>1 DEF Pop
    <3> QED BY <1>2, <3>1, <3>2, <3>3 DEF Inv, HeldBy
  <2>2. CASE queue # << >>
    <3> DEFINE x == Head(queue)
    <3>1. /\ pc[w] = "pop" /\ pc' = [pc EXCEPT ![w] = "execute"]
          /\ work' = [work EXCEPT ![w] = x] /\ queue' = Tail(queue)
          /\ UNCHANGED <<stop, caller, executed, joined>>
      BY <1>6, <2>2 DEF Pop, Goto
    <3>2. queue \in Seq(Queries)
      BY DEF Inv, TypeOK
    <3>3. ASSUME NEW q \in Queries
          PROVE  /\ x \in Queries /\ queue' \in Seq(Queries)
                 /\ InQueue(queue, x)
                 /\ InQueue(queue', q) => InQueue(queue, q)
                 /\ InQueue(queue, q) => InQueue(queue', q) \/ q = x
                 /\ OnceInQueue(queue, q) => OnceInQueue(queue', q)
                 /\ OnceInQueue(queue, q) /\ q = x => ~InQueue(queue', q)
      BY <2>2, <3>1, <3>2, PopQueue
    <3>4. x \in Queries /\ queue' \in Seq(Queries) /\ InQueue(queue, x)
      BY <2>2, <3>1, <3>2, PopQueue DEF InQueue
    <3> HIDE DEF x
    <3>5. TypeOK'
      BY <3>1, <3>4 DEF Inv, TypeOK
    <3>6. /\ \A v \in Workers : v # w => pc'[v] = pc[v] /\ work'[v] = work[v]
          /\ pc'[w] = "execute" /\ work'[w] = x
      BY <3>1 DEF Inv, TypeOK
    <3>7. ASSUME NEW q \in Queries PROVE OnePlace(q)'
      <4>1. OnePlace(q) /\ OnePlace(x)
        BY <3>4 DEF Inv
      <4>2. \A v \in Workers : HeldBy(v, q)' <=> HeldBy(v, q) \/ (v = w /\ q = x)
        BY <3>1, <3>6 DEF HeldBy
      <4>3. /\ executed' = executed /\ caller' = caller
            /\ InQueue(queue', q) => InQueue(queue, q)
            /\ InQueue(queue, q) => InQueue(queue', q) \/ q = x
            /\ OnceInQueue(queue', q)
            /\ q = x => ~InQueue(queue', q)
        BY <3>1, <3>3, <4>1 DEF OnePlace
      <4>4. CASE q = x
        <5>1. /\ InQueue(queue, q) /\ executed[q] = 0 /\ caller[q] # "push"
              /\ \A v \in Workers : ~HeldBy(v, q)
          BY <3>4, <4>1, <4>4 DEF OnePlace
        <5>2. \A v \in Workers : HeldBy(v, q)' <=> v = w
          BY <4>2, <4>4, <5>1
        <5> QED BY <4>3, <4>4, <5>1, <5>2 DEF OnePlace
      <4>5. CASE q # x
        <5>1. \A v \in Workers : HeldBy(v, q)' <=> HeldBy(v, q)
          BY <4>2, <4>5
        <5>2. InQueue(queue', q) <=> InQueue(queue, q)
          BY <4>3, <4>5
        <5> QED BY <4>1, <4>3, <5>1, <5>2 DEF OnePlace
      <4> QED BY <4>4, <4>5
    <3>8. \A v \in Workers : pc'[v] = "execute" => work'[v] # NoWork
      BY <3>4, <3>6, DatabaseAssumption DEF Inv
    <3> QED BY <3>5, <3>7, <3>8 DEF Inv
  <2> QED BY <2>1, <2>2
<1>7. ASSUME NEW w \in Workers, Execute(w) PROVE Inv'
  <2> DEFINE x == work[w]
  <2>1. /\ pc[w] = "execute" /\ pc' = [pc EXCEPT ![w] = "drain"]
        /\ executed' = [executed EXCEPT ![x] = @ + 1]
        /\ work' = [work EXCEPT ![w] = NoWork]
        /\ UNCHANGED <<queue, stop, caller, joined>>
    BY <1>7 DEF Execute, Goto
  <2>2. x \in Queries /\ HeldBy(w, x) /\ OnePlace(x)
    BY <2>1 DEF Inv, TypeOK, HeldBy
  <2>3. executed[x] = 0
    BY <2>2 DEF OnePlace
  <2>4. /\ \A v \in Workers : v # w => pc'[v] = pc[v] /\ work'[v] = work[v]
        /\ pc'[w] = "drain"
    BY <2>1 DEF Inv, TypeOK
  <2>5. executed'[x] = 1 /\ \A q \in Queries : q # x => executed'[q] = executed[q]
    BY <2>1, <2>2, <2>3 DEF Inv, TypeOK
  <2>6. TypeOK'
    BY <2>1, <2>2 DEF Inv, TypeOK
  <2>7. \A q \in Queries, v \in Workers : HeldBy(v, q)' <=> HeldBy(v, q) /\ v # w
    BY <2>4 DEF HeldBy
  <2> HIDE DEF x
  <2>8. ASSUME NEW q \in Queries PROVE OnePlace(q)'
    <3>1. OnePlace(q) /\ queue' = queue /\ caller' = caller
      BY <2>1 DEF Inv
    <3>2. CASE q = x
      BY <2>2, <2>5, <2>7, <3>1, <3>2 DEF OnePlace
    <3>3. CASE q # x
      <4>1. ~HeldBy(w, q)
        BY <2>2, <3>3 DEF HeldBy
      <4>2. \A v \in Workers : HeldBy(v, q)' <=> HeldBy(v, q)
        BY <2>7, <4>1
      <4> QED BY <2>5, <3>1, <3>3, <4>2 DEF OnePlace
    <3> QED BY <3>2, <3>3
  <2> QED BY <2>4, <2>6, <2>8 DEF Inv
<1> QED BY <1>1, <1>3, <1>4, <1>5, <1>6, <1>7 DEF Next, Run

(* No work is lost, executed twice or held by two workers, whatever the     *)
(* number of workers and the order in which they race for the queue.        *)
THEOREM WorkConserved == Spec => []WorkInOnePlace
<1>1. Inv => WorkInOnePlace
  BY OnePlaceIsWorkInOnePlace DEF Inv
<1> QED BY <1>1, InitInv, NextInv, PTL DEF Spec
=============================================================================
