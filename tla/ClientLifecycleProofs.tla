------------------------ MODULE ClientLifecycleProofs ------------------------
(***************************************************************************)
(* Proofs about ClientLifecycle for any number of clients.                 *)
(***************************************************************************)
EXTENDS ClientLifecycle, MapClusterProofs, FiniteSetTheorems, TLAPS

ServerOperation == [type : {"accept", "close"}, client : Updaters]

CloseOf(c) == [type |-> "close", client |-> c]

IsCloser(r) == /\ r = [at |-> r.at, client |-> r.client, cell |-> r.cell]
               /\ r.client \in Updaters \cup {Null}
               /\ r.at # "idle" => r.client \in Updaters

SessionTypes ==
    /\ conn \in [Updaters -> {"none", "listening", "accepted", "serving", "destroyed"}]
    /\ status \in [Updaters -> {"initialized", "closed"}]
    /\ raced \in [Updaters -> SUBSET {"moved", "twice"}]
    /\ ops \in Seq(ServerOperation) /\ pending \in Seq(ServerOperation)
    /\ DOMAIN closer = Threads /\ closer = [t \in Threads |-> closer[t]]
    /\ \A t \in Threads : IsCloser(closer[t])

(* An operation is in a queue, and in one place of it only.                 *)
Holds(q, x) == \E i \in 1..Len(q) : q[i] = x

HoldsOnce(q, x) == \A i, j \in 1..Len(q) : q[i] = x /\ q[j] = x => i = j

LEMMA PushOnce ==
    ASSUME NEW q \in Seq(ServerOperation), NEW y \in ServerOperation, NEW x
    PROVE  /\ Append(q, y) \in Seq(ServerOperation)
           /\ Holds(Append(q, y), x) <=> Holds(q, x) \/ x = y
           /\ HoldsOnce(q, x) /\ (x = y => ~Holds(q, x)) => HoldsOnce(Append(q, y), x)
<1> DEFINE r == Append(q, y)
<1>1. /\ r \in Seq(ServerOperation) /\ Len(q) \in Nat /\ Len(r) = Len(q) + 1
      /\ r[Len(q) + 1] = y /\ \A i \in 1..Len(q) : r[i] = q[i]
  OBVIOUS
<1> HIDE DEF r
<1>2. Holds(r, x) <=> Holds(q, x) \/ x = y
  BY <1>1 DEF Holds
<1>3. HoldsOnce(q, x) /\ (x = y => ~Holds(q, x)) => HoldsOnce(r, x)
  BY <1>1 DEF Holds, HoldsOnce
<1> QED BY <1>1, <1>2, <1>3 DEF r

LEMMA PopOnce ==
    ASSUME NEW q \in Seq(ServerOperation), q # << >>, NEW x
    PROVE  /\ Head(q) \in ServerOperation /\ Tail(q) \in Seq(ServerOperation)
           /\ Holds(q, Head(q))
           /\ Holds(Tail(q), x) => Holds(q, x)
           /\ Holds(q, x) => x = Head(q) \/ Holds(Tail(q), x)
           /\ HoldsOnce(q, x) => HoldsOnce(Tail(q), x)
           /\ HoldsOnce(q, x) /\ x = Head(q) => ~Holds(Tail(q), x)
<1> DEFINE r == Tail(q)
<1>1. /\ r \in Seq(ServerOperation) /\ Len(q) \in Nat /\ Len(r) = Len(q) - 1
      /\ 1 \in 1..Len(q) /\ Head(q) = q[1] /\ Head(q) \in ServerOperation
      /\ \A i \in 1..Len(r) : i + 1 \in 1..Len(q) /\ r[i] = q[i + 1]
  OBVIOUS
<1> HIDE DEF r
<1>2. Holds(q, Head(q)) /\ (Holds(r, x) => Holds(q, x))
  BY <1>1 DEF Holds
<1>3. ASSUME HoldsOnce(q, x) PROVE HoldsOnce(r, x)
  <2> SUFFICES ASSUME NEW i \in 1..Len(r), NEW j \in 1..Len(r), r[i] = x, r[j] = x
               PROVE  i = j
    BY DEF HoldsOnce
  <2>1. i + 1 = j + 1
    BY <1>1, <1>3 DEF HoldsOnce
  <2> QED BY <2>1
<1>4. ASSUME HoldsOnce(q, x), x = Head(q), Holds(r, x) PROVE FALSE
  <2>1. PICK i \in 1..Len(r) : r[i] = x
    BY <1>4 DEF Holds
  <2>2. i + 1 = 1
    BY <1>1, <1>4, <2>1 DEF HoldsOnce
  <2> QED BY <1>1, <2>2
<1>5. ASSUME Holds(q, x), x # Head(q) PROVE Holds(r, x)
  <2>1. PICK i \in 1..Len(q) : q[i] = x
    BY <1>5 DEF Holds
  <2>2. i - 1 \in 1..Len(r) /\ (i - 1) + 1 = i
    BY <1>1, <1>5, <2>1
  <2>3. r[i - 1] = x
    BY <1>1, <2>1, <2>2
  <2> QED BY <2>2, <2>3 DEF Holds
<1> QED BY <1>1, <1>2, <1>3, <1>4, <1>5 DEF r

(* A push adds the operation at the end, or the queue is full and the       *)
(* client is noted as lost.                                                 *)
LEMMA Pushed ==
    ASSUME SessionTypes, NEW type \in {"accept", "close"}, NEW c \in Updaters,
           PushServerOp(type, c), NEW y
    PROVE  /\ ops' \in Seq(ServerOperation)
           /\ Holds(ops', y) => Holds(ops, y) \/ y = [type |-> type, client |-> c]
           /\ Holds(ops, y) => Holds(ops', y)
           /\ Holds(ops', [type |-> type, client |-> c]) \/ c \in lost'
           /\ lost \subseteq lost'
           /\ HoldsOnce(ops, y)
                 /\ (y = [type |-> type, client |-> c] => ~Holds(ops, y))
                    => HoldsOnce(ops', y)
<1> DEFINE x == [type |-> type, client |-> c]
<1>1. x \in ServerOperation /\ ops \in Seq(ServerOperation)
  BY DEF ServerOperation, SessionTypes
<1>2. \/ ops' = Append(ops, x) /\ lost' = lost
      \/ ops' = ops /\ lost' = lost \cup {c}
  BY DEF PushServerOp
<1> HIDE DEF x
<1>3. CASE ops' = ops /\ lost' = lost \cup {c}
  BY <1>1, <1>3
<1>4. CASE ops' = Append(ops, x) /\ lost' = lost
  BY <1>1, <1>4, PushOnce DEF x
<1> QED BY <1>2, <1>3, <1>4

(* The CLOSE operations of a client are counted by where they are.          *)
LEMMA CountOnce ==
    ASSUME SessionTypes, NEW c \in Updaters,
           HoldsOnce(ops, CloseOf(c)), HoldsOnce(pending, CloseOf(c)),
           ~(Holds(ops, CloseOf(c)) /\ Holds(pending, CloseOf(c)))
    PROVE  /\ CloseOps(c) \in {0, 1}
           /\ CloseOps(c) = 1 => Holds(ops, CloseOf(c)) \/ Holds(pending, CloseOf(c))
<1> DEFINE q == ops \o pending
           n == Len(ops)
           x == CloseOf(c)
           S == {i \in 1..Len(q) : q[i] = x}
<1>1. /\ n \in Nat /\ Len(pending) \in Nat /\ Len(q) = n + Len(pending)
      /\ \A i \in 1..Len(q) : q[i] = IF i <= n THEN ops[i] ELSE pending[i - n]
  BY DEF SessionTypes
<1> HIDE DEF q, n, x
<1>2. \A i \in 1..Len(q) : /\ i <= n => i \in 1..n
                           /\ ~(i <= n) => i - n \in 1..Len(pending)
  BY <1>1
<1>3. ASSUME NEW i \in S, NEW j \in S PROVE i = j
  <2>1. i \in 1..Len(q) /\ j \in 1..Len(q) /\ q[i] = x /\ q[j] = x /\ i \in Int /\ j \in Int
    BY <1>1
  <2>2. i <= n => i \in 1..n /\ ops[i] = x
    BY <1>1, <1>2, <2>1
  <2>3. ~(i <= n) => i - n \in 1..Len(pending) /\ pending[i - n] = x
    BY <1>1, <1>2, <2>1
  <2>4. j <= n => j \in 1..n /\ ops[j] = x
    BY <1>1, <1>2, <2>1
  <2>5. ~(j <= n) => j - n \in 1..Len(pending) /\ pending[j - n] = x
    BY <1>1, <1>2, <2>1
  <2>6. CASE i <= n /\ j <= n
    BY <2>2, <2>4, <2>6 DEF HoldsOnce, n, x
  <2>7. CASE ~(i <= n) /\ ~(j <= n)
    <3>1. i - n = j - n
      BY <2>3, <2>5, <2>7 DEF HoldsOnce, x
    <3> QED BY <1>1, <2>1, <3>1
  <2>8. CASE i <= n /\ ~(j <= n)
    BY <2>2, <2>5, <2>8 DEF Holds, n, x
  <2>9. CASE ~(i <= n) /\ j <= n
    BY <2>3, <2>4, <2>9 DEF Holds, n, x
  <2> QED BY <2>6, <2>7, <2>8, <2>9
<1>4. ASSUME NEW i \in S PROVE Holds(ops, x) \/ Holds(pending, x)
  BY <1>1, <1>2, <1>4 DEF Holds, n
<1>5. CloseOps(c) = Cardinality(S)
  BY DEF CloseOps, CloseOf, q, x
<1> HIDE DEF S
<1>6. CASE S = {}
  BY <1>5, <1>6, FS_EmptySet
<1>7. CASE S # {}
  <2>1. PICK i \in S : S = {i}
    BY <1>3, <1>7
  <2>2. Cardinality(S) = 1
    BY <2>1, FS_Singleton
  <2> QED BY <1>4, <1>5, <2>1, <2>2 DEF x
<1> QED BY <1>6, <1>7

-----------------------------------------------------------------------------
LEMMA CloserRecords ==
    ASSUME NEW r, IsCloser(r), NEW at, NEW cell
    PROVE  /\ [r EXCEPT !.at = at].client = r.client
           /\ [r EXCEPT !.at = at, !.cell = cell].client = r.client
           /\ at # "idle" /\ r.at # "idle" =>
                 /\ IsCloser([r EXCEPT !.at = at])
                 /\ IsCloser([r EXCEPT !.at = at, !.cell = cell])
<1> DEFINE r1 == [r EXCEPT !.at = at]
           r2 == [r EXCEPT !.at = at, !.cell = cell]
<1>1. /\ r1 = [at |-> at, client |-> r.client, cell |-> r.cell]
      /\ r2 = [at |-> at, client |-> r.client, cell |-> cell]
  <2>1. PICK a, b, d : r = [at |-> a, client |-> b, cell |-> d]
    BY DEF IsCloser
  <2>2. /\ [[at |-> a, client |-> b, cell |-> d] EXCEPT !.at = at]
             = [at |-> at, client |-> b, cell |-> d]
        /\ [[at |-> at, client |-> b, cell |-> d] EXCEPT !.cell = cell]
             = [at |-> at, client |-> b, cell |-> cell]
    OBVIOUS
  <2> QED BY <2>1, <2>2
<1>2. r1.client = r.client /\ r2.client = r.client
  BY <1>1
<1> HIDE DEF r1, r2
<1>3. at # "idle" /\ r.at # "idle" => IsCloser(r1) /\ IsCloser(r2)
  BY <1>1 DEF IsCloser
<1> QED BY <1>2, <1>3 DEF r1, r2

(* What the steps of close and the beginnings of it do to closer.           *)
LEMMA BeginCloser ==
    ASSUME SessionTypes, NEW t \in Threads, NEW c \in Updaters, BeginClose(t, c)
    PROVE  /\ DOMAIN closer' = Threads /\ closer' = [u \in Threads |-> closer'[u]]
           /\ \A u \in Threads : IsCloser(closer'[u])
           /\ \A u \in Threads \ {t} : closer'[u] = closer[u]
           /\ closer' = closer \/ (status[c] # "closed" /\ closer'[t].client = c)
<1> DEFINE r == [at |-> "cancel", client |-> c, cell |-> Null]
<1>1. IsCloser(r) /\ r.client = c
  BY DEF IsCloser
<1>2. closer' = IF status[c] = "closed" THEN closer ELSE [closer EXCEPT ![t] = r]
  BY DEF BeginClose
<1> HIDE DEF r
<1>3. CASE status[c] = "closed"
  BY <1>2, <1>3 DEF SessionTypes
<1>4. CASE status[c] # "closed"
  BY <1>1, <1>2, <1>4 DEF SessionTypes
<1> QED BY <1>3, <1>4

LEMMA StepCloser ==
    ASSUME SessionTypes, NEW t \in Threads, CloseCancel(t) \/ CloseRemove(t), ~Crash("freed")
    PROVE  /\ DOMAIN closer' = Threads /\ closer' = [u \in Threads |-> closer'[u]]
           /\ \A u \in Threads : IsCloser(closer'[u]) /\ closer'[u].client = closer[u].client
<1>1. IsCloser(closer[t]) /\ closer[t].at # "idle"
  BY DEF SessionTypes, CloseCancel, CloseRemove
<1>2. CASE CloseCancel(t)
  <2> DEFINE r == [closer[t] EXCEPT !.at = "remove", !.cell = entCell[closer[t].client]]
  <2>1. closer' = [closer EXCEPT ![t] = r]
    BY <1>2 DEF CloseCancel
  <2>2. IsCloser(r) /\ r.client = closer[t].client
    <3> DEFINE x == entCell[closer[t].client]
               s == closer[t]
    <3>1. r = [s EXCEPT !.at = "remove", !.cell = x] /\ IsCloser(s) /\ s.at # "idle"
      BY <1>1
    <3> HIDE DEF r, s, x
    <3>2. s = [at |-> s.at, client |-> s.client, cell |-> s.cell] /\ s.client \in Updaters
      BY <3>1 DEF IsCloser
    <3>3. PICK p, b, d : s = [at |-> p, client |-> b, cell |-> d]
      BY <3>2
    <3>4. r = [at |-> "remove", client |-> b, cell |-> x]
      BY <3>1, <3>3
    <3>5. IsCloser(r) /\ r.client = s.client
      BY <3>2, <3>3, <3>4 DEF IsCloser
    <3> QED BY <3>5 DEF s
  <2> HIDE DEF r
  <2> QED BY <2>1, <2>2 DEF SessionTypes
<1>3. CASE CloseRemove(t)
  <2> DEFINE r == [closer[t] EXCEPT !.at = "flag"]
  <2>1. closer' = [closer EXCEPT ![t] = r]
    BY <1>3 DEF CloseRemove
  <2>2. IsCloser(r) /\ r.client = closer[t].client
    BY <1>1, CloserRecords
  <2> HIDE DEF r
  <2> QED BY <2>1, <2>2 DEF SessionTypes
<1> QED BY <1>2, <1>3

LEMMA FlagCloser ==
    ASSUME SessionTypes, NEW t \in Threads, CloseFlag(t)
    PROVE  /\ DOMAIN closer' = Threads /\ closer' = [u \in Threads |-> closer'[u]]
           /\ \A u \in Threads : IsCloser(closer'[u])
           /\ closer[t].client \in Updaters /\ closer'[t].client = Null
           /\ \A u \in Threads \ {t} : closer'[u] = closer[u]
<1>1. IsCloser(closer[t]) /\ closer[t].at = "flag" /\ closer' = [closer EXCEPT ![t] = NotClosing]
  BY DEF CloseFlag, SessionTypes
<1>2. IsCloser(NotClosing) /\ NotClosing.client = Null
  BY DEF IsCloser, NotClosing
<1>3. closer[t].client \in Updaters
  BY <1>1 DEF IsCloser
<1> HIDE DEF NotClosing
<1> QED BY <1>1, <1>2, <1>3 DEF SessionTypes

-----------------------------------------------------------------------------
LEMMA NextSessionTypes == SessionTypes /\ [ClientNext]_allVars => SessionTypes'
<1> SUFFICES ASSUME SessionTypes, [ClientNext]_allVars PROVE SessionTypes'
  OBVIOUS
<1> DEFINE Kept == UNCHANGED <<conn, status, raced, ops, pending, closer>>
<1>1. Kept => SessionTypes'
  BY DEF SessionTypes
<1>2. ASSUME NEW why, Crash(why) PROVE SessionTypes'
  BY <1>1, <1>2 DEF Crash, clientVars, sessionVars
<1>3. ASSUME NEW c \in Updaters, Accept(c) PROVE SessionTypes'
  <2>2. ops' \in Seq(ServerOperation)
    BY <1>3, Pushed DEF Accept
  <2>3. PICK d \in Updaters : conn' = [conn EXCEPT ![d] = "listening", ![c] = "accepted"]
    BY <1>3 DEF Accept
  <2>4. conn' \in [Updaters -> {"none", "listening", "accepted", "serving", "destroyed"}]
    BY <2>3 DEF SessionTypes
  <2> QED BY <1>3, <2>2, <2>4 DEF Accept, SessionTypes
<1>4. ASSUME NEW c \in Updaters, HandleRead(c) PROVE SessionTypes'
  BY <1>1, <1>2, <1>4 DEF HandleRead
<1>5. ASSUME NEW t \in Threads, NEW c \in Updaters, BeginClose(t, c), NoteOverlap(t, c),
             UNCHANGED <<conn, status, ops, pending>>
      PROVE  SessionTypes'
  <2>1. raced' \in [Updaters -> SUBSET {"moved", "twice"}]
    BY <1>5 DEF NoteOverlap, SessionTypes
  <2> QED BY <1>5, <2>1, BeginCloser DEF SessionTypes
<1>6. ASSUME NEW c \in Updaters, HandleEof(c) \/ HandleTimeout(c) \/ WorkError(c)
      PROVE  SessionTypes'
  BY <1>2, <1>5, <1>6 DEF HandleEof, HandleTimeout, WorkError, sessionVars, Threads
<1>7. ASSUME NEW t \in Threads, CloseCancel(t) \/ CloseRemove(t) PROVE SessionTypes'
  <2>1. CASE Crash("freed")
    BY <1>2, <2>1
  <2>2. CASE ~Crash("freed")
    <3>1. UNCHANGED <<conn, status, ops, pending>>
      BY <1>7, <2>2 DEF CloseCancel, CloseRemove, sessionVars
    <3>2. raced' \in [Updaters -> SUBSET {"moved", "twice"}]
      BY <1>7, <2>2 DEF CloseCancel, CloseRemove, SessionTypes
    <3> QED BY <1>7, <2>2, <3>1, <3>2, StepCloser DEF SessionTypes
  <2> QED BY <2>1, <2>2
<1>8. ASSUME NEW t \in Threads, CloseFlag(t) PROVE SessionTypes'
  <2>1. closer[t].client \in Updaters
    BY <1>8, FlagCloser
  <2>2. PushServerOp("close", closer[t].client)
    BY <1>8 DEF CloseFlag, HandleClose
  <2>3. ops' \in Seq(ServerOperation)
    BY <2>1, <2>2, Pushed
  <2>4. status' \in [Updaters -> {"initialized", "closed"}]
    BY <1>8 DEF CloseFlag, SessionTypes
  <2> QED BY <1>8, <2>3, <2>4, FlagCloser DEF CloseFlag, SessionTypes
<1>9. CASE HandleAccept \/ StillInMap \/ DestroyClient
  <2>1. Head(ops) \in ServerOperation /\ Tail(ops) \in Seq(ServerOperation)
    BY <1>9, PopOnce DEF HandleAccept, StillInMap, DestroyClient, InOps, SessionTypes
  <2>2. Head(ops).client \in Updaters
    BY <2>1 DEF ServerOperation
  <2>3. CASE HandleAccept
    BY <2>1, <2>2, <2>3 DEF HandleAccept, SessionTypes
  <2>4. CASE StillInMap
    BY <2>1, <2>2, <2>4 DEF StillInMap, sessionVars, SessionTypes
  <2>5. CASE DestroyClient
    BY <1>2, <2>1, <2>2, <2>5 DEF DestroyClient, SessionTypes
  <2> QED BY <1>9, <2>3, <2>4, <2>5
<1>10. CASE PushPending
  <2>1. Head(pending) \in ServerOperation /\ Tail(pending) \in Seq(ServerOperation)
    BY <1>10, PopOnce DEF PushPending, SessionTypes
  <2>2. ops' \in Seq(ServerOperation)
    BY <1>10, <2>1, Pushed DEF PushPending, ServerOperation
  <2> QED BY <1>10, <2>1, <2>2 DEF PushPending, sessionVars, SessionTypes
<1>11. CASE MapStep
  BY <1>11 DEF MapStep, sessionVars, SessionTypes
<1>12. ASSUME NEW c \in Updaters, EnterOrLeave(c) PROVE SessionTypes'
  BY <1>12 DEF EnterOrLeave, sessionVars, SessionTypes
<1>13. CASE \/ EndJobs \/ EndOps \/ EndPush
            \/ (\E c \in Updaters : Complete(c)) \/ UNCHANGED allVars
  BY <1>1, <1>13 DEF EndJobs, EndOps, EndPush, Complete, allVars, clientVars, sessionVars
<1>14. "io" \in Threads /\ "server" \in Threads
  BY DEF Threads
<1> QED
  BY <1>3, <1>4, <1>6, <1>7, <1>8, <1>9, <1>10, <1>11, <1>12, <1>13, <1>14,
     PlayersAssumption
  DEF ClientNext, IoStep, CloseStep, ServerStep

LEMMA SessionTypesInvariant == ClientSpec => []SessionTypes
<1>1. ClientInit => SessionTypes
  <2> SUFFICES ASSUME ClientInit PROVE SessionTypes
    OBVIOUS
  <2>1. closer = [t \in Threads |-> NotClosing] /\ IsCloser(NotClosing)
    BY DEF ClientInit, IsCloser, NotClosing
  <2> QED BY <2>1 DEF ClientInit, SessionTypes
<1> QED BY <1>1, NextSessionTypes, PTL DEF ClientSpec

-----------------------------------------------------------------------------
(* The inductive strengthening of RecycledOnce: a client that two threads   *)
(* never closed at once is closed by one thread, before its status says so  *)
(* and before its CLOSE is queued; that is in one place, and it is gone     *)
(* once the client is destroyed.                                            *)
OnceClosed(c) ==
    /\ \A t \in Threads : closer[t].client = c => status[c] # "closed"
    /\ \A t, u \in Threads : closer[t].client = c /\ closer[u].client = c => t = u
    /\ HoldsOnce(ops, CloseOf(c)) /\ HoldsOnce(pending, CloseOf(c))
    /\ ~(Holds(ops, CloseOf(c)) /\ Holds(pending, CloseOf(c)))
    /\ Holds(ops, CloseOf(c)) \/ Holds(pending, CloseOf(c)) =>
          status[c] = "closed" /\ conn[c] # "destroyed"
    /\ conn[c] = "destroyed" => status[c] = "closed"

OnceInv == \A c \in Updaters : "twice" \notin raced[c] => OnceClosed(c)

(* A step that begins no close, ends none and moves no CLOSE.               *)
LEMMA OnceKept ==
    ASSUME OnceInv, NEW c \in Updaters, "twice" \notin raced[c],
           status'[c] = status[c], pending' = pending,
           \A t \in Threads : closer'[t].client = closer[t].client,
           Holds(ops', CloseOf(c)) => Holds(ops, CloseOf(c)),
           HoldsOnce(ops, CloseOf(c)) => HoldsOnce(ops', CloseOf(c)),
           conn'[c] = "destroyed" => conn[c] = "destroyed"
    PROVE  OnceClosed(c)'
<1>1. OnceClosed(c)
  BY DEF OnceInv
<1>2. CloseOf(c)' = CloseOf(c)
  BY DEF CloseOf
<1> QED BY <1>1, <1>2 DEF OnceClosed

(* A thread enters close, unless the client is closed already.              *)
LEMMA OnceBegun ==
    ASSUME SessionTypes, OnceInv, NEW t \in Threads, NEW b \in Updaters,
           BeginClose(t, b), NoteOverlap(t, b), UNCHANGED <<conn, status, ops, pending>>,
           NEW c \in Updaters, "twice" \notin raced'[c]
    PROVE  OnceClosed(c)'
<1>1. "twice" \notin raced[c] /\ (c = b => ~Overlap(t, b))
  BY DEF NoteOverlap, SessionTypes
<1>2. /\ \A u \in Threads \ {t} : closer'[u] = closer[u]
      /\ closer' = closer \/ (status[b] # "closed" /\ closer'[t].client = b)
  BY BeginCloser
<1>3. CASE closer' = closer
  BY <1>1, <1>3, OnceKept DEF OnceInv
<1>4. CASE status[b] # "closed" /\ closer'[t].client = b
  <2>1. \A u \in Threads : closer'[u].client = c => status[c] # "closed"
    BY <1>1, <1>2, <1>4 DEF OnceInv, OnceClosed
  <2>2. \A u, v \in Threads : closer'[u].client = c /\ closer'[v].client = c => u = v
    BY <1>1, <1>2, <1>4 DEF OnceInv, OnceClosed, Overlap
  <2>3. OnceClosed(c)
    BY <1>1 DEF OnceInv
  <2>4. /\ Holds(ops, CloseOf(c))' = Holds(ops, CloseOf(c))
        /\ Holds(pending, CloseOf(c))' = Holds(pending, CloseOf(c))
        /\ HoldsOnce(ops, CloseOf(c))' = HoldsOnce(ops, CloseOf(c))
        /\ HoldsOnce(pending, CloseOf(c))' = HoldsOnce(pending, CloseOf(c))
    BY DEF Holds, HoldsOnce, CloseOf
  <2>5. status' = status /\ conn' = conn
    OBVIOUS
  <2> QED BY <2>1, <2>2, <2>3, <2>4, <2>5 DEF OnceClosed
<1> QED BY <1>2, <1>3, <1>4

(* The only thread that is closing the client queues its CLOSE.             *)
LEMMA OnceFlagged ==
    ASSUME SessionTypes, OnceInv, NEW t \in Threads, CloseFlag(t),
           NEW c \in Updaters, "twice" \notin raced'[c]
    PROVE  OnceClosed(c)'
<1> DEFINE b == closer[t].client
<1>1. /\ b \in Updaters /\ closer'[t].client = Null
      /\ \A u \in Threads \ {t} : closer'[u] = closer[u]
  BY FlagCloser
<1>2. /\ status' = [status EXCEPT ![b] = "closed"] /\ PushServerOp("close", b)
      /\ UNCHANGED <<conn, pending, raced>>
  BY DEF CloseFlag, HandleClose
<1>3. [type |-> "close", client |-> b] = CloseOf(c) <=> b = c
  BY <1>1 DEF CloseOf
<1>4. "twice" \notin raced[c] /\ OnceClosed(c)
  BY <1>2 DEF OnceInv
<1>5. c # Null
  BY EntitiesAssumption
<1> HIDE DEF b
<1>6. /\ Holds(ops', CloseOf(c)) => Holds(ops, CloseOf(c)) \/ b = c
      /\ HoldsOnce(ops, CloseOf(c)) /\ (b = c => ~Holds(ops, CloseOf(c)))
            => HoldsOnce(ops', CloseOf(c))
  BY <1>1, <1>2, <1>3, Pushed
<1>7. CASE c = b
  <2>1. /\ status[c] # "closed" /\ status'[c] = "closed"
        /\ \A u \in Threads : closer[u].client = c => u = t
    BY <1>2, <1>4, <1>7 DEF OnceClosed, SessionTypes, b
  <2>2. \A u \in Threads : closer'[u].client # c
    BY <1>1, <1>5, <2>1
  <2>3. ~Holds(ops, CloseOf(c)) /\ ~Holds(pending, CloseOf(c)) /\ conn[c] # "destroyed"
    BY <1>4, <2>1 DEF OnceClosed
  <2>4. /\ HoldsOnce(ops', CloseOf(c)) /\ HoldsOnce(pending, CloseOf(c))
        /\ ~Holds(pending, CloseOf(c))
    BY <1>4, <1>6, <2>3 DEF OnceClosed
  <2>5. CloseOf(c)' = CloseOf(c)
    BY DEF CloseOf
  <2> QED BY <1>2, <2>1, <2>2, <2>3, <2>4, <2>5 DEF OnceClosed, Holds, HoldsOnce
<1>8. CASE c # b
  <2>1. \A u \in Threads : closer'[u].client = c => closer[u].client = c
    BY <1>1, <1>5
  <2>2. status'[c] = status[c]
    BY <1>2, <1>8 DEF SessionTypes
  <2>3. (Holds(ops', CloseOf(c)) => Holds(ops, CloseOf(c))) /\ HoldsOnce(ops', CloseOf(c))
    BY <1>4, <1>6, <1>8 DEF OnceClosed
  <2>4. CloseOf(c)' = CloseOf(c)
    BY DEF CloseOf
  <2> QED BY <1>2, <1>4, <2>1, <2>2, <2>3, <2>4 DEF OnceClosed, Holds, HoldsOnce
<1> QED BY <1>7, <1>8

(* The server takes an operation off its queue and keeps it for the next    *)
(* tick or destroys the client.                                             *)
LEMMA OncePopped ==
    ASSUME SessionTypes, OnceInv, HandleAccept \/ StillInMap \/ DestroyClient,
           ~Crash("double"), NEW c \in Updaters, "twice" \notin raced'[c]
    PROVE  OnceClosed(c)'
<1> DEFINE x == Head(ops)
<1>1. /\ ops # << >> /\ ops' = Tail(ops) /\ UNCHANGED <<status, closer, raced>>
  BY DEF HandleAccept, StillInMap, DestroyClient, InOps, sessionVars
<1>2. /\ x \in ServerOperation /\ Holds(ops, x)
      /\ Holds(ops', CloseOf(c)) => Holds(ops, CloseOf(c))
      /\ HoldsOnce(ops, CloseOf(c)) => HoldsOnce(ops', CloseOf(c))
      /\ HoldsOnce(ops, CloseOf(c)) /\ CloseOf(c) = x => ~Holds(ops', CloseOf(c))
  BY <1>1, PopOnce DEF SessionTypes
<1>3. "twice" \notin raced[c] /\ OnceClosed(c)
  BY <1>1 DEF OnceInv
<1>4. x.type = "close" => x = CloseOf(x.client)
  BY <1>2 DEF ServerOperation, CloseOf
<1>5. x.client \in Updaters
  BY <1>2 DEF ServerOperation
<1>6. CASE HandleAccept
  <2>1. pending' = pending /\ (conn'[c] = "destroyed" => conn[c] = "destroyed")
    BY <1>5, <1>6 DEF HandleAccept, SessionTypes
  <2> QED BY <1>1, <1>2, <1>3, <2>1, OnceKept
<1>7. CASE StillInMap
  <2>1. pending' = Append(pending, x) /\ conn' = conn
    BY <1>7 DEF StillInMap, sessionVars
  <2>2. x = CloseOf(x.client)
    BY <1>4, <1>7 DEF StillInMap
  <2> HIDE DEF x
  <2>3. /\ Holds(pending', CloseOf(c)) <=> Holds(pending, CloseOf(c)) \/ CloseOf(c) = x
        /\ HoldsOnce(pending, CloseOf(c)) /\ (CloseOf(c) = x => ~Holds(pending, CloseOf(c)))
              => HoldsOnce(pending', CloseOf(c))
    BY <1>2, <2>1, PushOnce DEF SessionTypes
  <2>4. HoldsOnce(ops', CloseOf(c)) /\ HoldsOnce(pending', CloseOf(c))
    BY <1>2, <1>3, <2>3 DEF OnceClosed
  <2>5. ~(Holds(ops', CloseOf(c)) /\ Holds(pending', CloseOf(c)))
    BY <1>2, <1>3, <2>3 DEF OnceClosed
  <2>6. Holds(ops', CloseOf(c)) \/ Holds(pending', CloseOf(c)) =>
            status[c] = "closed" /\ conn[c] # "destroyed"
    BY <1>2, <1>3, <2>3 DEF OnceClosed
  <2>7. CloseOf(c)' = CloseOf(c)
    BY DEF CloseOf
  <2> QED BY <1>1, <1>3, <2>1, <2>4, <2>5, <2>6, <2>7 DEF OnceClosed, Holds, HoldsOnce
<1>8. CASE DestroyClient
  <2>1. pending' = pending /\ conn' = [conn EXCEPT ![x.client] = "destroyed"]
    BY <1>8 DEF DestroyClient
  <2>2. x = CloseOf(x.client)
    BY <1>4, <1>8 DEF DestroyClient
  <2> HIDE DEF x
  <2>3. CASE c # x.client
    <3>1. conn'[c] = conn[c]
      BY <1>5, <2>1, <2>3 DEF SessionTypes
    <3> QED BY <1>1, <1>2, <1>3, <2>1, <3>1, OnceKept
  <2>4. CASE c = x.client
    <3>1. Holds(ops, CloseOf(c)) /\ ~Holds(ops', CloseOf(c)) /\ ~Holds(pending', CloseOf(c))
      BY <1>2, <1>3, <2>1, <2>2, <2>4 DEF OnceClosed
    <3>2. status[c] = "closed" /\ HoldsOnce(ops', CloseOf(c))
      BY <1>2, <1>3, <3>1 DEF OnceClosed
    <3>3. CloseOf(c)' = CloseOf(c)
      BY DEF CloseOf
    <3> QED BY <1>1, <1>3, <2>1, <3>1, <3>2, <3>3 DEF OnceClosed, Holds, HoldsOnce
  <2> QED BY <2>3, <2>4
<1> QED BY <1>6, <1>7, <1>8

LEMMA NextOnce == SessionTypes /\ OnceInv /\ [ClientNext]_allVars => OnceInv'
<1> SUFFICES ASSUME SessionTypes, OnceInv, [ClientNext]_allVars,
                    NEW c \in Updaters, "twice" \notin raced'[c]
             PROVE  OnceClosed(c)'
  BY DEF OnceInv
<1>1. ASSUME UNCHANGED <<status, ops, pending, closer, conn>>, "twice" \notin raced[c]
      PROVE  OnceClosed(c)'
  BY <1>1, OnceKept
<1>2. ASSUME NEW why, Crash(why) PROVE OnceClosed(c)'
  BY <1>1, <1>2 DEF Crash, clientVars, sessionVars
<1>3. ASSUME NEW b \in Updaters, Accept(b) PROVE OnceClosed(c)'
  <2>1. CloseOf(c) # [type |-> "accept", client |-> b]
    BY DEF CloseOf
  <2>2. PushServerOp("accept", b) /\ UNCHANGED <<status, pending, closer, raced>>
    BY <1>3 DEF Accept
  <2>3. /\ Holds(ops', CloseOf(c)) => Holds(ops, CloseOf(c))
        /\ HoldsOnce(ops, CloseOf(c)) => HoldsOnce(ops', CloseOf(c))
    BY <2>1, <2>2, Pushed
  <2>4. PICK d \in Updaters : conn' = [conn EXCEPT ![d] = "listening", ![b] = "accepted"]
    BY <1>3 DEF Accept
  <2>5. conn'[c] = "destroyed" => conn[c] = "destroyed"
    BY <2>4 DEF SessionTypes
  <2> QED BY <2>2, <2>3, <2>5, OnceKept
<1>4. ASSUME NEW b \in Updaters, HandleRead(b) PROVE OnceClosed(c)'
  BY <1>1, <1>2, <1>4 DEF HandleRead
<1>5. ASSUME NEW b \in Updaters, HandleEof(b) \/ HandleTimeout(b) \/ WorkError(b)
      PROVE  OnceClosed(c)'
  BY <1>2, <1>5, OnceBegun DEF HandleEof, HandleTimeout, WorkError, sessionVars, Threads
<1>6. ASSUME NEW t \in Threads, CloseCancel(t) \/ CloseRemove(t) PROVE OnceClosed(c)'
  <2>1. CASE Crash("freed")
    BY <1>2, <2>1
  <2>2. CASE ~Crash("freed")
    <3>1. UNCHANGED <<conn, status, ops, pending>>
      BY <1>6, <2>2 DEF CloseCancel, CloseRemove, sessionVars
    <3>2. "twice" \notin raced[c]
      BY <1>6, <2>2 DEF CloseCancel, CloseRemove, SessionTypes
    <3> QED BY <1>6, <2>2, <3>1, <3>2, StepCloser, OnceKept
  <2> QED BY <2>1, <2>2
<1>7. ASSUME NEW t \in Threads, CloseFlag(t) PROVE OnceClosed(c)'
  BY <1>7, OnceFlagged
<1>8. CASE HandleAccept \/ StillInMap \/ DestroyClient
  BY <1>2, <1>8, OncePopped
<1>9. CASE PushPending
  <2> DEFINE x == Head(pending)
  <2>1. /\ pending # << >> /\ PushServerOp(x.type, x.client) /\ pending' = Tail(pending)
        /\ UNCHANGED <<status, closer, conn, raced>>
    BY <1>9 DEF PushPending, sessionVars
  <2>2. OnceClosed(c)
    BY <2>1 DEF OnceInv
  <2>3. /\ x \in ServerOperation /\ Holds(pending, x)
        /\ Holds(pending', CloseOf(c)) => Holds(pending, CloseOf(c))
        /\ HoldsOnce(pending, CloseOf(c)) => HoldsOnce(pending', CloseOf(c))
        /\ HoldsOnce(pending, CloseOf(c)) /\ CloseOf(c) = x => ~Holds(pending', CloseOf(c))
    BY <2>1, PopOnce DEF SessionTypes
  <2> HIDE DEF x
  <2>4. x.type \in {"accept", "close"} /\ x.client \in Updaters
        /\ x = [type |-> x.type, client |-> x.client]
    BY <2>3 DEF ServerOperation
  <2>5. /\ Holds(ops', CloseOf(c)) => Holds(ops, CloseOf(c)) \/ CloseOf(c) = x
        /\ HoldsOnce(ops, CloseOf(c)) /\ (CloseOf(c) = x => ~Holds(ops, CloseOf(c)))
              => HoldsOnce(ops', CloseOf(c))
    BY <2>1, <2>4, Pushed
  <2>6. HoldsOnce(ops', CloseOf(c)) /\ HoldsOnce(pending', CloseOf(c))
    BY <2>2, <2>3, <2>5 DEF OnceClosed
  <2>7. ~(Holds(ops', CloseOf(c)) /\ Holds(pending', CloseOf(c)))
    BY <2>2, <2>3, <2>5 DEF OnceClosed
  <2>8. Holds(ops', CloseOf(c)) \/ Holds(pending', CloseOf(c)) =>
            status[c] = "closed" /\ conn[c] # "destroyed"
    BY <2>2, <2>3, <2>5 DEF OnceClosed
  <2>9. CloseOf(c)' = CloseOf(c)
    BY DEF CloseOf
  <2> QED BY <2>1, <2>2, <2>6, <2>7, <2>8, <2>9 DEF OnceClosed, Holds, HoldsOnce
<1>10. CASE MapStep
  <2>1. "twice" \notin raced[c]
    BY <1>10 DEF MapStep
  <2> QED BY <1>1, <1>10, <2>1 DEF MapStep, sessionVars
<1>11. ASSUME NEW b \in Updaters, EnterOrLeave(b) PROVE OnceClosed(c)'
  <2>1. "twice" \notin raced[c]
    BY <1>11 DEF EnterOrLeave, SessionTypes
  <2> QED BY <1>1, <1>11, <2>1 DEF EnterOrLeave, sessionVars
<1>12. CASE \/ EndJobs \/ EndOps \/ EndPush
            \/ (\E b \in Updaters : Complete(b)) \/ UNCHANGED allVars
  <2>1. UNCHANGED <<status, ops, pending, closer, conn, raced>>
    BY <1>12 DEF EndJobs, EndOps, EndPush, Complete, allVars, clientVars, sessionVars
  <2> QED BY <1>1, <2>1
<1>13. "io" \in Threads /\ "server" \in Threads
  BY DEF Threads
<1> QED
  BY <1>3, <1>4, <1>5, <1>6, <1>7, <1>8, <1>9, <1>10, <1>11, <1>12, <1>13,
     PlayersAssumption
  DEF ClientNext, IoStep, CloseStep, ServerStep

LEMMA InitOnce == ClientInit => OnceInv
<1> SUFFICES ASSUME ClientInit, NEW c \in Updaters PROVE OnceClosed(c)
  BY DEF OnceInv
<1>1. \A t \in Threads : closer[t].client = Null
  BY DEF ClientInit, NotClosing
<1>2. c # Null /\ conn[c] # "destroyed" /\ ops = << >> /\ pending = << >>
  BY EntitiesAssumption DEF ClientInit
<1> QED BY <1>1, <1>2 DEF OnceClosed, Holds, HoldsOnce

(* Unless two threads are inside Client::close at once, a client is         *)
(* recycled once: CLOSE is never queued twice, nor for a client that is     *)
(* destroyed, with any number of clients, handlers and failing works.       *)
THEOREM ClientsRecycledOnce == ClientSpec => []RecycledOnce
<1>1. SessionTypes /\ OnceInv => RecycledOnce
  <2> SUFFICES ASSUME SessionTypes, OnceInv, NEW c \in Updaters, "twice" \notin raced[c]
               PROVE  CloseOps(c) + (IF conn[c] = "destroyed" THEN 1 ELSE 0) <= 1
    BY DEF RecycledOnce
  <2>1. OnceClosed(c)
    BY DEF OnceInv
  <2>2. /\ CloseOps(c) \in {0, 1}
        /\ CloseOps(c) = 1 => Holds(ops, CloseOf(c)) \/ Holds(pending, CloseOf(c))
    BY <2>1, CountOnce DEF OnceClosed
  <2>3. CloseOps(c) = 1 => conn[c] # "destroyed"
    BY <2>1, <2>2 DEF OnceClosed
  <2> QED BY <2>2, <2>3
<1> QED BY <1>1, InitOnce, NextOnce, SessionTypesInvariant, PTL DEF ClientSpec

-----------------------------------------------------------------------------
(* The inductive strengthening of RefusedOrQueued.  That a closed client    *)
(* stays closed in the eyes of the server needs that its ACCEPT is not      *)
(* queued any more: nobody reads from, times or closes a client before it   *)
(* is accepted, and it is accepted once.                                    *)
AcceptOf(c) == [type |-> "accept", client |-> c]

Early(c) == conn[c] \in {"none", "listening", "accepted"}

Untouched(c) ==
    /\ reading[c] = "off" /\ c \notin armed /\ c \notin due
    /\ status[c] # "closed" /\ \A t \in Threads : closer[t].client # c
    /\ ~Holds(ops, CloseOf(c)) /\ ~Holds(pending, CloseOf(c))

AcceptedOnce(c) ==
    /\ Holds(ops, AcceptOf(c)) => conn[c] = "accepted"
    /\ HoldsOnce(ops, AcceptOf(c)) /\ ~Holds(pending, AcceptOf(c))

Waits(c) ==
    status[c] = "closed" /\ conn[c] # "destroyed" =>
        Holds(ops, CloseOf(c)) \/ Holds(pending, CloseOf(c)) \/ c \in lost

Kept(c) == AcceptedOnce(c) /\ (Early(c) => Untouched(c)) /\ Waits(c)

KeptInv ==
    /\ reading \in [Updaters -> {"off", "waiting", "data", "eof"}]
    /\ \A c \in Updaters : Kept(c)

(* A step that leaves the operations and the status alone.                  *)
LEMMA KeptStill ==
    ASSUME NEW c \in Updaters, Kept(c),
           conn'[c] = conn[c], status'[c] = status[c], UNCHANGED <<ops, pending, lost>>,
           Early(c) => /\ reading'[c] = "off" /\ c \notin armed' /\ c \notin due'
                       /\ \A t \in Threads : closer'[t].client # c
    PROVE  Kept(c)'
<1>1. CloseOf(c)' = CloseOf(c) /\ AcceptOf(c)' = AcceptOf(c)
  BY DEF CloseOf, AcceptOf
<1> QED BY <1>1 DEF Kept, AcceptedOnce, Early, Untouched, Waits, Holds, HoldsOnce

(* A step that changes the operations, said by what the queues hold.        *)
LEMMA KeptMoved ==
    ASSUME NEW c \in Updaters,
           Holds(ops', AcceptOf(c)) => conn'[c] = "accepted",
           HoldsOnce(ops', AcceptOf(c)), ~Holds(pending', AcceptOf(c)),
           conn'[c] \in {"none", "listening", "accepted"} =>
               /\ reading'[c] = "off" /\ c \notin armed' /\ c \notin due'
               /\ status'[c] # "closed" /\ \A t \in Threads : closer'[t].client # c
               /\ ~Holds(ops', CloseOf(c)) /\ ~Holds(pending', CloseOf(c)),
           status'[c] = "closed" /\ conn'[c] # "destroyed" =>
               Holds(ops', CloseOf(c)) \/ Holds(pending', CloseOf(c)) \/ c \in lost'
    PROVE  Kept(c)'
<1>1. CloseOf(c)' = CloseOf(c) /\ AcceptOf(c)' = AcceptOf(c)
  BY DEF CloseOf, AcceptOf
<1> QED BY <1>1 DEF Kept, AcceptedOnce, Early, Untouched, Waits, Holds, HoldsOnce

(* The client is handed to the server, and another one listens.             *)
LEMMA KeptAccept ==
    ASSUME SessionTypes, KeptInv, NEW b \in Updaters, Accept(b), NEW c \in Updaters
    PROVE  Kept(c)'
<1>1. /\ conn[b] = "listening" /\ PushServerOp("accept", b)
      /\ UNCHANGED <<status, reading, armed, due, closer, pending>>
  BY DEF Accept
<1>2. PICK d \in Updaters : /\ d = b \/ conn[d] = "none"
                            /\ conn' = [conn EXCEPT ![d] = "listening", ![b] = "accepted"]
  BY DEF Accept
<1>3. /\ c = b => conn'[c] = "accepted"
      /\ c # b /\ c = d => conn[c] = "none" /\ conn'[c] = "listening"
      /\ c # b /\ c # d => conn'[c] = conn[c]
  BY <1>2 DEF SessionTypes
<1>4. Kept(c) /\ Kept(b)
  BY DEF KeptInv
<1>5. /\ CloseOf(c) # [type |-> "accept", client |-> b]
      /\ AcceptOf(c) = [type |-> "accept", client |-> b] <=> b = c
  BY DEF CloseOf, AcceptOf
<1>6. /\ Holds(ops', CloseOf(c)) <=> Holds(ops, CloseOf(c))
      /\ Holds(ops', AcceptOf(c)) => Holds(ops, AcceptOf(c)) \/ b = c
      /\ HoldsOnce(ops, AcceptOf(c)) /\ (b = c => ~Holds(ops, AcceptOf(c)))
            => HoldsOnce(ops', AcceptOf(c))
      /\ lost \subseteq lost'
  BY <1>1, <1>5, Pushed
<1>7. HoldsOnce(ops', AcceptOf(c)) /\ ~Holds(pending', AcceptOf(c))
  BY <1>1, <1>4, <1>6 DEF Kept, AcceptedOnce
<1>8. Holds(ops', AcceptOf(c)) => conn'[c] = "accepted"
  BY <1>3, <1>4, <1>6 DEF Kept, AcceptedOnce
<1>9. conn'[c] \in {"none", "listening", "accepted"} => Early(c)
  BY <1>1, <1>3 DEF Early
<1>10. Early(c) => Untouched(c)
  BY <1>4 DEF Kept
<1>11. conn'[c] # "destroyed" => conn[c] # "destroyed"
  BY <1>1, <1>3
<1> QED
  BY <1>1, <1>4, <1>6, <1>7, <1>8, <1>9, <1>10, <1>11, KeptMoved DEF Kept, Untouched, Waits

(* The status is set and CLOSE pushed.                                      *)
LEMMA KeptFlag ==
    ASSUME SessionTypes, KeptInv, NEW t \in Threads, CloseFlag(t), NEW c \in Updaters
    PROVE  Kept(c)'
<1> DEFINE b == closer[t].client
<1>1. /\ b \in Updaters /\ closer'[t].client = Null
      /\ \A u \in Threads \ {t} : closer'[u] = closer[u]
  BY FlagCloser
<1>2. /\ status' = [status EXCEPT ![b] = "closed"] /\ PushServerOp("close", b)
      /\ UNCHANGED <<conn, reading, armed, due, pending>>
  BY DEF CloseFlag, HandleClose
<1>3. Kept(c) /\ (Early(c) => c # b)
  BY <1>1 DEF KeptInv, Kept, Untouched
<1> HIDE DEF b
<1>4. /\ AcceptOf(c) # [type |-> "close", client |-> b]
      /\ CloseOf(c) = [type |-> "close", client |-> b] <=> b = c
  BY DEF CloseOf, AcceptOf
<1>5. /\ Holds(ops', CloseOf(c)) => Holds(ops, CloseOf(c)) \/ b = c
      /\ Holds(ops, CloseOf(c)) => Holds(ops', CloseOf(c))
      /\ Holds(ops', [type |-> "close", client |-> b]) \/ b \in lost'
      /\ Holds(ops', AcceptOf(c)) => Holds(ops, AcceptOf(c))
      /\ HoldsOnce(ops, AcceptOf(c)) => HoldsOnce(ops', AcceptOf(c))
      /\ lost \subseteq lost'
  BY <1>1, <1>2, <1>4, Pushed
<1>6. \A u \in Threads : closer'[u].client = c => closer[u].client = c
  BY <1>1, EntitiesAssumption
<1>7. HoldsOnce(ops', AcceptOf(c)) /\ ~Holds(pending', AcceptOf(c))
  BY <1>2, <1>3, <1>5 DEF Kept, AcceptedOnce
<1>8. Holds(ops', AcceptOf(c)) => conn'[c] = "accepted"
  BY <1>2, <1>3, <1>5 DEF Kept, AcceptedOnce
<1>9. c # b => status'[c] = status[c]
  BY <1>1, <1>2 DEF SessionTypes
<1>10. conn'[c] \in {"none", "listening", "accepted"} => Early(c)
  BY <1>2 DEF Early
<1>11. Early(c) => Untouched(c)
  BY <1>3 DEF Kept
<1>12. status'[c] = "closed" /\ conn'[c] # "destroyed" =>
           Holds(ops', CloseOf(c)) \/ Holds(pending', CloseOf(c)) \/ c \in lost'
  <2>1. CASE c = b
    BY <1>4, <1>5, <2>1
  <2>2. CASE c # b
    BY <1>2, <1>3, <1>5, <1>9, <2>2 DEF Kept, Waits
  <2> QED BY <2>1, <2>2
<1> QED
  BY <1>2, <1>3, <1>5, <1>6, <1>7, <1>8, <1>9, <1>10, <1>11, <1>12, KeptMoved DEF Untouched

(* The server takes an operation off its queue.                             *)
LEMMA KeptPopped ==
    ASSUME SessionTypes, KeptInv, HandleAccept \/ StillInMap \/ DestroyClient,
           ~Crash("double"), NEW c \in Updaters
    PROVE  Kept(c)'
<1> DEFINE x == Head(ops)
<1>1. /\ ops # << >> /\ ops' = Tail(ops) /\ UNCHANGED <<status, closer, due, lost>>
  BY DEF HandleAccept, StillInMap, DestroyClient, InOps, sessionVars
<1>2. /\ x \in ServerOperation /\ Holds(ops, x)
      /\ \A y : /\ Holds(ops', y) => Holds(ops, y)
                /\ Holds(ops, y) => y = x \/ Holds(ops', y)
                /\ HoldsOnce(ops, y) => HoldsOnce(ops', y)
                /\ HoldsOnce(ops, y) /\ y = x => ~Holds(ops', y)
  BY <1>1, PopOnce DEF SessionTypes
<1>3. /\ x.client \in Updaters
      /\ x.type = "close" => x = CloseOf(x.client)
      /\ x.type = "accept" => x = AcceptOf(x.client)
  BY <1>2 DEF ServerOperation, CloseOf, AcceptOf
<1>4. Kept(c) /\ Kept(x.client) /\ reading \in [Updaters -> {"off", "waiting", "data", "eof"}]
  BY <1>3 DEF KeptInv
<1>5. \A d, e : CloseOf(d) # AcceptOf(e) /\ (CloseOf(d) = CloseOf(e) => d = e)
  BY DEF CloseOf, AcceptOf
<1>6. HoldsOnce(ops', AcceptOf(c)) /\ (Holds(ops', AcceptOf(c)) => conn[c] = "accepted")
  BY <1>2, <1>4 DEF Kept, AcceptedOnce
<1>7. CASE HandleAccept
  <2>1. /\ x = AcceptOf(x.client) /\ pending' = pending
        /\ conn' = [conn EXCEPT ![x.client] = "serving"]
        /\ reading' = [reading EXCEPT ![x.client] = "waiting"]
        /\ armed' = armed \cup {x.client}
    BY <1>3, <1>7 DEF HandleAccept, ScheduleRead
  <2> HIDE DEF x
  <2>2. CASE c = x.client
    <3>1. conn'[c] = "serving" /\ conn[c] = "accepted" /\ ~Holds(ops', AcceptOf(c))
      BY <1>2, <1>4, <2>1, <2>2 DEF Kept, AcceptedOnce, SessionTypes
    <3>2. status'[c] # "closed"
      BY <1>1, <1>4, <3>1 DEF Kept, Early, Untouched
    <3>3. ~Holds(pending', AcceptOf(c))
      BY <1>4, <2>1 DEF Kept, AcceptedOnce
    <3> QED BY <1>6, <3>1, <3>2, <3>3, KeptMoved
  <2>3. CASE c # x.client
    <3>1. conn'[c] = conn[c] /\ reading'[c] = reading[c] /\ (c \in armed' => c \in armed)
      BY <1>4, <2>1, <2>3 DEF SessionTypes
    <3>2. Holds(ops', CloseOf(c)) <=> Holds(ops, CloseOf(c))
      BY <1>2, <1>5, <2>1
    <3>3. ~Holds(pending', AcceptOf(c))
      BY <1>4, <2>1 DEF Kept, AcceptedOnce
    <3> QED BY <1>1, <1>4, <1>6, <2>1, <3>1, <3>2, <3>3, KeptMoved
            DEF Kept, Early, Untouched, Waits
  <2> QED BY <2>2, <2>3
<1>8. CASE StillInMap
  <2>1. x = CloseOf(x.client) /\ pending' = Append(pending, x) /\ UNCHANGED <<conn, reading, armed>>
    BY <1>3, <1>8 DEF StillInMap, sessionVars
  <2> HIDE DEF x
  <2>2. \A y : Holds(pending', y) <=> Holds(pending, y) \/ y = x
    BY <1>2, <2>1, PushOnce DEF SessionTypes
  <2>3. ~Holds(pending', AcceptOf(c))
    BY <1>4, <1>5, <2>1, <2>2 DEF Kept, AcceptedOnce
  <2>4. Early(c) => c # x.client
    BY <1>2, <1>4, <2>1 DEF Kept, Untouched
  <2>5. Early(c) => ~Holds(ops', CloseOf(c)) /\ ~Holds(pending', CloseOf(c))
    BY <1>2, <1>4, <1>5, <2>1, <2>2, <2>4 DEF Kept, Untouched
  <2>6. status[c] = "closed" /\ conn[c] # "destroyed" =>
            Holds(ops', CloseOf(c)) \/ Holds(pending', CloseOf(c)) \/ c \in lost
    BY <1>2, <1>4, <2>2 DEF Kept, Waits
  <2> QED BY <1>1, <1>4, <1>6, <2>1, <2>3, <2>5, <2>6, KeptMoved DEF Kept, Early, Untouched
<1>9. CASE DestroyClient
  <2>1. /\ x = CloseOf(x.client) /\ pending' = pending
        /\ conn' = [conn EXCEPT ![x.client] = "destroyed"]
        /\ reading' = [reading EXCEPT ![x.client] = IF @ = "waiting" THEN "off" ELSE @]
        /\ armed' = armed \ {x.client}
    BY <1>3, <1>9 DEF DestroyClient
  <2> HIDE DEF x
  <2>2. ~Holds(pending', AcceptOf(c))
    BY <1>4, <2>1 DEF Kept, AcceptedOnce
  <2>3. CASE c = x.client
    <3>1. conn'[c] = "destroyed"
      BY <1>3, <2>1, <2>3 DEF SessionTypes
    <3>2. ~Holds(ops', AcceptOf(c))
      <4>1. ~Early(c)
        BY <1>2, <1>4, <2>1, <2>3 DEF Kept, Untouched
      <4> QED BY <1>6, <4>1 DEF Early
    <3> QED BY <1>6, <2>2, <3>1, <3>2, KeptMoved
  <2>4. CASE c # x.client
    <3>1. conn'[c] = conn[c] /\ reading'[c] = reading[c] /\ (c \in armed' => c \in armed)
      BY <1>4, <2>1, <2>4 DEF SessionTypes
    <3>2. Holds(ops', CloseOf(c)) <=> Holds(ops, CloseOf(c))
      BY <1>2, <1>5, <2>1, <2>4
    <3> QED BY <1>1, <1>4, <1>6, <2>1, <2>2, <3>1, <3>2, KeptMoved
            DEF Kept, Early, Untouched, Waits
  <2> QED BY <2>3, <2>4
<1> QED BY <1>7, <1>8, <1>9

(* An operation is pushed back, or refused.                                 *)
LEMMA KeptPushed ==
    ASSUME SessionTypes, KeptInv, PushPending, NEW c \in Updaters
    PROVE  Kept(c)'
<1> DEFINE x == Head(pending)
<1>1. /\ pending # << >> /\ PushServerOp(x.type, x.client) /\ pending' = Tail(pending)
      /\ UNCHANGED <<status, closer, conn, reading, armed, due>>
  BY DEF PushPending, sessionVars
<1>2. /\ x \in ServerOperation /\ Holds(pending, x)
      /\ \A y : /\ Holds(pending', y) => Holds(pending, y)
                /\ Holds(pending, y) => y = x \/ Holds(pending', y)
  BY <1>1, PopOnce DEF SessionTypes
<1> HIDE DEF x
<1>3. /\ x.client \in Updaters /\ x.type \in {"accept", "close"}
      /\ x = [type |-> x.type, client |-> x.client]
  BY <1>2 DEF ServerOperation
<1>4. Kept(c) /\ Kept(x.client)
  BY <1>3 DEF KeptInv
<1>5. x = CloseOf(x.client)
  BY <1>2, <1>3, <1>4 DEF Kept, AcceptedOnce, AcceptOf, CloseOf
<1>6. CloseOf(c) # AcceptOf(c) /\ AcceptOf(c) # x /\ (CloseOf(c) = x <=> c = x.client)
  BY <1>5 DEF CloseOf, AcceptOf
<1>7. /\ Holds(ops', CloseOf(c)) => Holds(ops, CloseOf(c)) \/ CloseOf(c) = x
      /\ Holds(ops, CloseOf(c)) => Holds(ops', CloseOf(c))
      /\ Holds(ops', x) \/ x.client \in lost'
      /\ Holds(ops', AcceptOf(c)) => Holds(ops, AcceptOf(c))
      /\ HoldsOnce(ops, AcceptOf(c)) => HoldsOnce(ops', AcceptOf(c))
      /\ lost \subseteq lost'
  BY <1>1, <1>3, <1>6, Pushed
<1>8. /\ HoldsOnce(ops', AcceptOf(c)) /\ ~Holds(pending', AcceptOf(c))
      /\ Holds(ops', AcceptOf(c)) => conn'[c] = "accepted"
  BY <1>1, <1>2, <1>4, <1>7 DEF Kept, AcceptedOnce
<1>9. Early(c) => ~Holds(ops', CloseOf(c)) /\ ~Holds(pending', CloseOf(c))
  BY <1>2, <1>4, <1>6, <1>7 DEF Kept, Untouched
<1>10. status[c] = "closed" /\ conn[c] # "destroyed" =>
           Holds(ops', CloseOf(c)) \/ Holds(pending', CloseOf(c)) \/ c \in lost'
  BY <1>2, <1>4, <1>6, <1>7 DEF Kept, Waits
<1> QED BY <1>1, <1>4, <1>8, <1>9, <1>10, KeptMoved DEF Kept, Early, Untouched

LEMMA NextKept == SessionTypes /\ KeptInv /\ [ClientNext]_allVars => KeptInv'
<1> SUFFICES ASSUME SessionTypes, KeptInv, [ClientNext]_allVars PROVE KeptInv'
  OBVIOUS
<1> DEFINE Readings == [Updaters -> {"off", "waiting", "data", "eof"}]
<1> DEFINE Goal == reading' \in Readings /\ \A c \in Updaters : Kept(c)'
<1>1. \A c \in Updaters : Kept(c) /\ (Early(c) => Untouched(c))
  BY DEF KeptInv, Kept
<1>2. reading \in Readings
  BY DEF KeptInv
<1>3. ASSUME UNCHANGED <<sessionVars, closer, ops, pending, lost>> PROVE Goal
  BY <1>1, <1>2, <1>3, KeptStill DEF sessionVars, Untouched
<1>4. ASSUME NEW why, Crash(why) PROVE Goal
  BY <1>3, <1>4 DEF Crash, clientVars
<1>5. ASSUME NEW b \in Updaters, Accept(b) PROVE Goal
  BY <1>2, <1>5, KeptAccept DEF Accept
<1>6. ASSUME NEW b \in Updaters, Complete(b) \/ HandleRead(b) PROVE Goal
  <2>1. CASE Crash("late")
    BY <1>4, <2>1
  <2>2. CASE ~Crash("late")
    <3>1. /\ reading[b] # "off" \/ b \in armed
          /\ UNCHANGED <<conn, status, closer, ops, pending, lost>>
      BY <1>6, <2>2 DEF Complete, HandleRead
    <3>2. ~Early(b)
      BY <1>1, <3>1 DEF Untouched
    <3>3. reading' \in Readings /\ \A c \in Updaters \ {b} : reading'[c] = reading[c]
      BY <1>2, <1>6, <2>2 DEF Complete, HandleRead, ScheduleRead
    <3>4. armed' \subseteq armed \cup {b} /\ due' \subseteq due \cup {b}
      BY <1>6, <2>2 DEF Complete, HandleRead, ScheduleRead
    <3>5. ASSUME NEW c \in Updaters PROVE Kept(c)'
      <4>1. Early(c) => /\ reading'[c] = "off" /\ c \notin armed' /\ c \notin due'
                        /\ \A t \in Threads : closer'[t].client # c
        BY <1>1, <3>1, <3>2, <3>3, <3>4 DEF Untouched
      <4> QED BY <1>1, <3>1, <4>1, KeptStill
    <3> QED BY <3>3, <3>5
  <2> QED BY <2>1, <2>2
<1>7. ASSUME NEW b \in Updaters, HandleEof(b) \/ HandleTimeout(b) \/ WorkError(b) PROVE Goal
  <2>1. CASE Crash("late")
    BY <1>4, <2>1
  <2>2. CASE ~Crash("late")
    <3>1. PICK t \in Threads : /\ BeginClose(t, b)
                               /\ UNCHANGED <<conn, status, armed, ops, pending, lost>>
      BY <1>7, <2>2 DEF HandleEof, HandleTimeout, WorkError, sessionVars, Threads
    <3>2. ~Early(b)
      BY <1>1, <1>7, <2>2 DEF Untouched, Early, HandleEof, HandleTimeout, WorkError
    <3>3. /\ reading' \in Readings /\ \A c \in Updaters \ {b} : reading'[c] = reading[c]
          /\ due' \subseteq due
      BY <1>2, <1>7, <2>2 DEF HandleEof, HandleTimeout, WorkError, sessionVars
    <3>4. \A u \in Threads : closer'[u].client \in {closer[u].client, b}
      BY <3>1, BeginCloser
    <3>5. ASSUME NEW c \in Updaters PROVE Kept(c)'
      <4>1. Early(c) => /\ reading'[c] = "off" /\ c \notin armed' /\ c \notin due'
                        /\ \A u \in Threads : closer'[u].client # c
        BY <1>1, <3>1, <3>2, <3>3, <3>4 DEF Untouched
      <4> QED BY <1>1, <3>1, <4>1, KeptStill
    <3> QED BY <3>3, <3>5
  <2> QED BY <2>1, <2>2
<1>8. ASSUME NEW t \in Threads, CloseCancel(t) \/ CloseRemove(t) PROVE Goal
  <2>1. CASE Crash("freed")
    BY <1>4, <2>1
  <2>2. CASE ~Crash("freed")
    <3>1. UNCHANGED <<conn, status, due, ops, pending, lost>> /\ armed' \subseteq armed
      BY <1>8, <2>2 DEF CloseCancel, CloseRemove, sessionVars
    <3>2. /\ reading' \in Readings
          /\ \A c \in Updaters : reading[c] = "off" => reading'[c] = "off"
      BY <1>2, <1>8, <2>2 DEF CloseCancel, CloseRemove, sessionVars
    <3>3. \A u \in Threads : closer'[u].client = closer[u].client
      BY <1>8, <2>2, StepCloser
    <3>4. ASSUME NEW c \in Updaters PROVE Kept(c)'
      <4>1. Early(c) => /\ reading'[c] = "off" /\ c \notin armed' /\ c \notin due'
                        /\ \A u \in Threads : closer'[u].client # c
        BY <1>1, <3>1, <3>2, <3>3 DEF Untouched
      <4> QED BY <1>1, <3>1, <4>1, KeptStill
    <3> QED BY <3>2, <3>4
  <2> QED BY <2>1, <2>2
<1>9. ASSUME NEW t \in Threads, CloseFlag(t) PROVE Goal
  BY <1>2, <1>9, KeptFlag DEF CloseFlag
<1>10. ASSUME HandleAccept \/ StillInMap \/ DestroyClient PROVE Goal
  <2>1. CASE Crash("double")
    BY <1>4, <2>1
  <2>2. CASE ~Crash("double")
    <3>1. reading' \in Readings
      BY <1>2, <1>10, <2>2
      DEF HandleAccept, ScheduleRead, StillInMap, DestroyClient, sessionVars
    <3> QED BY <1>10, <2>2, <3>1, KeptPopped
  <2> QED BY <2>1, <2>2
<1>11. ASSUME PushPending PROVE Goal
  BY <1>2, <1>11, KeptPushed DEF PushPending, sessionVars
<1>12. ASSUME EndJobs \/ EndOps \/ EndPush \/ MapStep PROVE Goal
  BY <1>3, <1>12 DEF EndJobs, EndOps, EndPush, MapStep
<1>13. ASSUME (\E b \in Updaters : EnterOrLeave(b)) \/ UNCHANGED allVars PROVE Goal
  BY <1>3, <1>13 DEF EnterOrLeave, allVars, clientVars
<1>14. "io" \in Threads /\ "server" \in Threads
  BY DEF Threads
<1> HIDE DEF Goal
<1>15. Goal
  BY <1>5, <1>6, <1>7, <1>8, <1>9, <1>10, <1>11, <1>12, <1>13, <1>14,
     PlayersAssumption
  DEF ClientNext, IoStep, CloseStep, ServerStep
<1> QED BY <1>15 DEF Goal, KeptInv

(* An operation that is in one of the two queues is counted.                *)
LEMMA CountHeld ==
    ASSUME SessionTypes, NEW c \in Updaters,
           Holds(ops, CloseOf(c)) \/ Holds(pending, CloseOf(c))
    PROVE  CloseOps(c) >= 1
<1> DEFINE q == ops \o pending
           n == Len(ops)
           x == CloseOf(c)
           S == {i \in 1..Len(q) : q[i] = x}
<1>1. /\ n \in Nat /\ Len(pending) \in Nat /\ Len(q) = n + Len(pending)
      /\ \A i \in 1..Len(q) : q[i] = IF i <= n THEN ops[i] ELSE pending[i - n]
  BY DEF SessionTypes
<1> HIDE DEF q, x
<1>2. ASSUME NEW i \in 1..n, ops[i] = x PROVE i \in S
  BY <1>1, <1>2
<1>3. ASSUME NEW i \in 1..Len(pending), pending[i] = x PROVE i + n \in S
  <2>1. i + n \in 1..Len(q) /\ ~(i + n <= n) /\ (i + n) - n = i
    BY <1>1
  <2> QED BY <1>1, <1>3, <2>1
<1>4. S # {}
  BY <1>2, <1>3 DEF Holds, x
<1>5. IsFiniteSet(S)
  <2>1. IsFiniteSet(1..Len(q))
    BY <1>1, FS_Interval
  <2> QED BY <2>1, FS_Subset
<1>6. Cardinality(S) \in Nat /\ Cardinality(S) # 0
  BY <1>4, <1>5, FS_CardinalityType, FS_EmptySet
<1>7. CloseOps(c) = Cardinality(S)
  BY DEF CloseOps, CloseOf, q, x
<1> QED BY <1>6, <1>7

(* As long as a closed client has not been destroyed, its CLOSE is queued   *)
(* or about to be pushed back, or a full queue has refused it: nothing else *)
(* on the way from Client::close through Server::runScheduledOperations     *)
(* and back loses it, for any number of clients and any capacity.           *)
THEOREM ClosesNeverForgotten == ClientSpec => []RefusedOrQueued
<1>1. ClientInit => KeptInv
  <2> SUFFICES ASSUME ClientInit PROVE KeptInv
    OBVIOUS
  <2>1. \A t \in Threads : closer[t].client = Null
    BY DEF ClientInit, NotClosing
  <2>2. ASSUME NEW c \in Updaters PROVE Kept(c)
    <3>1. /\ c # Null /\ ops = << >> /\ pending = << >> /\ status[c] # "closed"
          /\ reading[c] = "off" /\ armed = {} /\ due = {}
      BY EntitiesAssumption DEF ClientInit
    <3>2. \A y : ~Holds(ops, y) /\ ~Holds(pending, y) /\ HoldsOnce(ops, y)
      BY <3>1 DEF Holds, HoldsOnce
    <3> QED BY <2>1, <3>1, <3>2 DEF Kept, AcceptedOnce, Untouched, Waits
  <2> QED BY <2>2 DEF KeptInv, ClientInit
<1>2. SessionTypes /\ KeptInv => RefusedOrQueued
  BY CountHeld DEF KeptInv, Kept, Waits, RefusedOrQueued
<1> QED BY <1>1, <1>2, NextKept, SessionTypesInvariant, PTL DEF ClientSpec

-----------------------------------------------------------------------------
(* DestroyedOutsideMap.  The queue of the cluster has room for one more.    *)
NeverFull == Len(clusterOps) < ClusterCap

(* What a queue of the map holds for one client whose cell is ent[c]: at    *)
(* most a departure and then an arrival, and then its cell stays allocated  *)
(* until the departure; it departs from the cell it is in, and arrives only *)
(* when it is in none.                                                      *)
QueueOf(q, c, ent, dang) ==
    /\ \A i, j \in 1..Len(q) :
          i < j /\ q[i].entity = c /\ q[j].entity = c =>
             /\ q[i].type = "remove" /\ q[j].type = "add" /\ c \notin dang
             /\ \A k \in 1..(i - 1) : ~(q[k].type = "destroy" /\ q[k].offset = q[i].offset)
    /\ \A i \in 1..Len(q) : q[i].entity = c /\ q[i].type = "remove" => ent[c] = q[i].offset
    /\ \A j \in 1..Len(q) : q[j].entity = c /\ q[j].type = "add" /\ ent[c] # Null =>
          \E i \in 1..(j - 1) : q[i].entity = c

(* The client c is in the cell it points to and in no other.                *)
Placed(c) ==
    /\ \A o \in Offsets : c \in members[o] <=> entCell[c] = o /\ c \notin dangling
    /\ QueueOf(mapOps, c, entCell, dangling)
    /\ c \in dangling => entCell[c] # Null
    /\ c \in todo => phase = "update" /\ entCell[c] # Null /\ c \notin dangling

(* What the queue of the cluster holds for a client is in turn a KEEP and   *)
(* an UNKEEP: the first agrees with what has been counted in keep, the last *)
(* with where the client is, which is ent.                                  *)
Alternates(q, c, ent, keep) ==
    /\ keep[c] \in {0, 1}
    /\ (\A i \in 1..Len(q) : q[i].entity # c) => (keep[c] = 1 <=> ent[c] # Null)
    /\ \A i \in 1..Len(q) :
          q[i].entity = c /\ (\A k \in 1..(i - 1) : q[k].entity # c) =>
             (q[i].type = "keep" <=> keep[c] = 0)
    /\ \A i \in 1..Len(q) :
          q[i].entity = c /\ (\A k \in (i + 1)..Len(q) : q[k].entity # c) =>
             (q[i].type = "keep" <=> ent[c] # Null)
    /\ \A i, j \in 1..Len(q) :
          /\ i < j /\ q[i].entity = c /\ q[j].entity = c
          /\ \A k \in (i + 1)..(j - 1) : q[k].entity # c
          => ~(q[i].type = "keep" <=> q[j].type = "keep")

(* How far the close of a client that nothing interfered with has come:     *)
(* once its departure is queued no arrival follows, and its cell is still   *)
(* the one that was read when its departure is about to be queued.          *)
Departs(c) ==
    /\ c \in todo /\ Queued(c) => Closing(c)
    /\ \A t \in Threads : closer[t].client = c =>
          /\ closer[t].at # "idle"
          /\ closer[t].at = "remove" => ~Queued(c) /\ closer[t].cell = entCell[c]
          /\ closer[t].at = "flag" => ~Awaits(mapOps, "add", c)
    /\ status[c] = "closed" => ~Awaits(mapOps, "add", c)
    /\ conn[c] = "destroyed" => entCell[c] = Null

(* The inductive strengthening of DestroyedOutsideMap.                      *)
LeavesInv ==
    /\ \A c \in Updaters : raced[c] = {} =>
          Placed(c) /\ Alternates(clusterOps, c, entCell, keepers) /\ Departs(c)
    /\ phase = "stalls" => clusterOps = << >>
    /\ mapOps \in Seq(MapOperation)
    /\ Up => TypeOK /\ CellsInv

(* Pushing an operation: of another entity, or of a client that has none    *)
(* queued.                                                                  *)
LEMMA PushOf ==
    ASSUME NEW q \in Seq(MapOperation), NEW op \in MapOperation, NEW c, NEW ent, NEW dang,
           QueueOf(q, c, ent, dang),
           op.entity = c =>
              /\ \A i \in 1..Len(q) : q[i].entity # c
              /\ op.type = "remove" => ent[c] = op.offset
              /\ op.type = "add" => ent[c] = Null
    PROVE  QueueOf(Append(q, op), c, ent, dang)
<1> DEFINE r == Append(q, op)
           n == Len(q)
<1>1. /\ Len(r) = n + 1 /\ n \in Nat
      /\ r[n + 1] = op
      /\ \A i \in 1..n : r[i] = q[i]
  OBVIOUS
<1> HIDE DEF r, n
<1>2. \A i \in 1..n : \A k \in 1..(i - 1) : k \in 1..n
  BY <1>1
<1>3. ASSUME NEW i \in 1..Len(r), NEW j \in 1..Len(r), i < j, r[i].entity = c, r[j].entity = c
      PROVE  i \in 1..n /\ j \in 1..n
  BY <1>1, <1>3 DEF n
<1>4. ASSUME NEW i \in 1..Len(r), NEW j \in 1..Len(r), i < j, r[i].entity = c, r[j].entity = c
      PROVE  /\ r[i].type = "remove" /\ r[j].type = "add" /\ c \notin dang
             /\ \A k \in 1..(i - 1) : ~(r[k].type = "destroy" /\ r[k].offset = r[i].offset)
  BY <1>1, <1>2, <1>3, <1>4 DEF QueueOf, n
<1>5. ASSUME NEW i \in 1..Len(r), r[i].entity = c, r[i].type = "remove"
      PROVE  ent[c] = r[i].offset
  BY <1>1, <1>5 DEF QueueOf, n
<1>6. ASSUME NEW j \in 1..Len(r), r[j].entity = c, r[j].type = "add", ent[c] # Null
      PROVE  \E i \in 1..(j - 1) : r[i].entity = c
  <2>1. j \in 1..n
    BY <1>1, <1>6
  <2>2. PICK i \in 1..(j - 1) : q[i].entity = c
    BY <1>1, <1>6, <2>1 DEF QueueOf, n
  <2> QED BY <1>1, <1>2, <2>1, <2>2
<1>7. QueueOf(r, c, ent, dang)
  BY <1>4, <1>5, <1>6 DEF QueueOf
<1> QED BY <1>7 DEF r

(* Pushing the two operations of its move, while no cell is to be freed.    *)
LEMMA PushMoveOf ==
    ASSUME NEW q \in Seq(MapOperation), NEW op1 \in MapOperation, NEW op2 \in MapOperation,
           NEW c, NEW ent, NEW dang, DestroysIn(q) = {},
           op1.type = "remove", op2.type = "add", op1.entity = c, op2.entity = c,
           \A i \in 1..Len(q) : q[i].entity # c, ent[c] = op1.offset, c \notin dang
    PROVE  QueueOf(Append(Append(q, op1), op2), c, ent, dang)
<1> DEFINE r == Append(Append(q, op1), op2)
           n == Len(q)
<1>1. /\ Len(r) = n + 2 /\ n \in Nat
      /\ r[n + 1] = op1 /\ r[n + 2] = op2
      /\ \A i \in 1..n : r[i] = q[i]
  OBVIOUS
<1>2. \A k \in 1..n : q[k].type # "destroy"
  BY DEF DestroysIn
<1> HIDE DEF r, n
<1>3. \A i \in 1..Len(r) : r[i].entity = c => i = n + 1 \/ i = n + 2
  BY <1>1 DEF n
<1>4. \A k \in 1..((n + 1) - 1) : k \in 1..n
  BY <1>1
<1>5. ASSUME NEW i \in 1..Len(r), NEW j \in 1..Len(r), i < j, r[i].entity = c, r[j].entity = c
      PROVE  /\ r[i].type = "remove" /\ r[j].type = "add"
             /\ \A k \in 1..(i - 1) : ~(r[k].type = "destroy" /\ r[k].offset = r[i].offset)
  <2>1. i = n + 1 /\ j = n + 2
    BY <1>1, <1>3, <1>5
  <2> QED BY <1>1, <1>2, <1>4, <2>1
<1>6. \A i \in 1..Len(r) : r[i].entity = c /\ r[i].type = "remove" => ent[c] = r[i].offset
  BY <1>1, <1>3
<1>7. ASSUME NEW j \in 1..Len(r), r[j].entity = c, r[j].type = "add"
      PROVE  \E i \in 1..(j - 1) : r[i].entity = c
  <2>1. j = n + 2 /\ n + 1 \in 1..(j - 1)
    BY <1>1, <1>3, <1>7
  <2> QED BY <1>1, <2>1
<1>8. QueueOf(r, c, ent, dang)
  BY <1>5, <1>6, <1>7 DEF QueueOf
<1> QED BY <1>8 DEF r

(* Popping an operation, which may change the client's cell as far as the   *)
(* operations left allow.                                                   *)
LEMMA PopOf ==
    ASSUME NEW q \in Seq(MapOperation), q # << >>, NEW c, NEW ent, NEW dang,
           NEW ent2, NEW dang2, QueueOf(q, c, ent, dang),
           \A i \in 2..Len(q) : q[i].entity = c =>
              /\ q[i].type = "remove" => ent2[c] = ent[c]
              /\ q[i].type = "add" /\ ent2[c] # Null => ent[c] # Null /\ q[1].entity # c,
           \A i, j \in 2..Len(q) :
              i < j /\ q[i].entity = c /\ q[j].entity = c => c \notin dang2
    PROVE  QueueOf(Tail(q), c, ent2, dang2)
<1> DEFINE r == Tail(q)
<1>1. /\ Len(q) \in Nat /\ Len(r) \in Nat /\ Len(r) = Len(q) - 1
      /\ \A i \in 1..Len(r) : r[i] = q[i + 1] /\ i + 1 \in 2..Len(q) /\ i + 1 \in 1..Len(q)
  OBVIOUS
<1> HIDE DEF r
<1>2. \A i \in 1..Len(r) : \A k \in 1..(i - 1) : k \in 1..Len(r) /\ k + 1 \in 1..((i + 1) - 1)
  BY <1>1
<1>3. ASSUME NEW i \in 1..Len(r), NEW j \in 1..Len(r), i < j, r[i].entity = c, r[j].entity = c
      PROVE  /\ r[i].type = "remove" /\ r[j].type = "add" /\ c \notin dang2
             /\ \A k \in 1..(i - 1) : ~(r[k].type = "destroy" /\ r[k].offset = r[i].offset)
  <2>1. /\ i + 1 \in 1..Len(q) /\ j + 1 \in 1..Len(q) /\ i + 1 < j + 1
        /\ i + 1 \in 2..Len(q) /\ j + 1 \in 2..Len(q)
        /\ q[i + 1].entity = c /\ q[j + 1].entity = c
        /\ r[i] = q[i + 1] /\ r[j] = q[j + 1]
    BY <1>1, <1>3
  <2>2. /\ q[i + 1].type = "remove" /\ q[j + 1].type = "add"
        /\ \A k \in 1..((i + 1) - 1) :
              ~(q[k].type = "destroy" /\ q[k].offset = q[i + 1].offset)
    BY <2>1 DEF QueueOf
  <2>3. \A k \in 1..(i - 1) : ~(r[k].type = "destroy" /\ r[k].offset = r[i].offset)
    BY <1>1, <1>2, <2>1, <2>2
  <2> QED BY <2>1, <2>2, <2>3
<1>4. ASSUME NEW i \in 1..Len(r), r[i].entity = c, r[i].type = "remove"
      PROVE  ent2[c] = r[i].offset
  BY <1>1, <1>4 DEF QueueOf
<1>5. ASSUME NEW j \in 1..Len(r), r[j].entity = c, r[j].type = "add", ent2[c] # Null
      PROVE  \E i \in 1..(j - 1) : r[i].entity = c
  <2>1. /\ j + 1 \in 1..Len(q) /\ j + 1 \in 2..Len(q) /\ r[j] = q[j + 1]
        /\ q[j + 1].entity = c /\ q[j + 1].type = "add"
    BY <1>1, <1>5
  <2>2. ent[c] # Null /\ q[1].entity # c
    BY <1>5, <2>1
  <2>3. PICK i \in 1..((j + 1) - 1) : q[i].entity = c
    BY <2>1, <2>2 DEF QueueOf
  <2>4. i # 1 /\ i - 1 \in 1..(j - 1) /\ i - 1 \in 1..Len(r)
    BY <1>1, <2>2, <2>3
  <2>5. r[i - 1] = q[i]
    BY <1>1, <2>4
  <2> QED BY <2>3, <2>4, <2>5
<1>6. QueueOf(r, c, ent2, dang2)
  BY <1>3, <1>4, <1>5 DEF QueueOf
<1> QED BY <1>6 DEF r

(* Counting: an operation of another entity changes nothing.                *)
LEMMA PushAlternates ==
    ASSUME NEW q \in Seq(ClusterOperation), NEW op \in ClusterOperation, NEW c,
           NEW ent, NEW ent2, NEW keep, Alternates(q, c, ent, keep),
           op.entity # c => ent2[c] = ent[c],
           op.entity = c => /\ op.type = "keep" <=> ent2[c] # Null
                            /\ ~(ent[c] = Null <=> ent2[c] = Null)
    PROVE  Alternates(Append(q, op), c, ent2, keep)
<1> DEFINE r == Append(q, op)
           n == Len(q)
<1>1. /\ n \in Nat /\ Len(r) = n + 1 /\ r[n + 1] = op
      /\ \A i \in 1..n : r[i] = q[i] /\ i \in 1..Len(r)
      /\ \A i \in 1..Len(r) : i \in 1..n \/ i = n + 1
      /\ n + 1 \in 1..Len(r)
  OBVIOUS
<1> HIDE DEF r
<1>2. /\ \A i \in 1..Len(r) : \A k \in 1..(i - 1) : k \in 1..n
      /\ \A i \in 1..n : \A k \in (i + 1)..n : k \in 1..n /\ k \in (i + 1)..Len(r)
      /\ \A i \in 1..n : n + 1 \in (i + 1)..Len(r) /\ (i + 1)..((n + 1) - 1) = (i + 1)..n
      /\ 1..((n + 1) - 1) = 1..n
  BY <1>1
<1>3. (\A i \in 1..Len(r) : r[i].entity # c) => (keep[c] = 1 <=> ent2[c] # Null)
  BY <1>1 DEF Alternates
<1>4. ASSUME NEW i \in 1..Len(r), r[i].entity = c, \A k \in 1..(i - 1) : r[k].entity # c
      PROVE  r[i].type = "keep" <=> keep[c] = 0
  <2>1. \A k \in 1..(i - 1) : q[k].entity # c
    BY <1>1, <1>2, <1>4
  <2>2. CASE i \in 1..n
    BY <1>1, <1>4, <2>1, <2>2 DEF Alternates
  <2>3. CASE i = n + 1
    <3>1. keep[c] = 1 <=> ent[c] # Null
      BY <1>2, <2>1, <2>3 DEF Alternates
    <3>2. keep[c] \in {0, 1}
      BY DEF Alternates
    <3> QED BY <1>1, <1>4, <2>3, <3>1, <3>2
  <2> QED BY <1>1, <2>2, <2>3
<1>5. ASSUME NEW i \in 1..Len(r), r[i].entity = c, \A k \in (i + 1)..Len(r) : r[k].entity # c
      PROVE  r[i].type = "keep" <=> ent2[c] # Null
  <2>1. CASE i \in 1..n
    <3>1. op.entity # c /\ \A k \in (i + 1)..n : q[k].entity # c
      BY <1>1, <1>2, <1>5, <2>1
    <3> QED BY <1>1, <1>5, <2>1, <3>1 DEF Alternates
  <2>2. CASE i = n + 1
    BY <1>1, <1>5, <2>2
  <2> QED BY <1>1, <2>1, <2>2
<1>6. ASSUME NEW i \in 1..Len(r), NEW j \in 1..Len(r), i < j, r[i].entity = c, r[j].entity = c,
             \A k \in (i + 1)..(j - 1) : r[k].entity # c
      PROVE  ~(r[i].type = "keep" <=> r[j].type = "keep")
  <2>1. i \in 1..n
    BY <1>1, <1>6
  <2>2. CASE j \in 1..n
    <3>1. \A k \in (i + 1)..(j - 1) : k \in 1..n
      BY <1>1, <2>1, <2>2
    <3>2. \A k \in (i + 1)..(j - 1) : q[k].entity # c
      BY <1>1, <1>6, <3>1
    <3> QED BY <1>1, <1>6, <2>1, <2>2, <3>2 DEF Alternates
  <2>3. CASE j = n + 1
    <3>1. \A k \in (i + 1)..n : q[k].entity # c
      BY <1>1, <1>2, <1>6, <2>1, <2>3
    <3>2. q[i].type = "keep" <=> ent[c] # Null
      BY <1>1, <1>6, <2>1, <3>1 DEF Alternates
    <3> QED BY <1>1, <1>6, <2>1, <2>3, <3>2
  <2> QED BY <1>1, <2>2, <2>3
<1>7. Alternates(r, c, ent2, keep)
  BY <1>3, <1>4, <1>5, <1>6 DEF Alternates
<1> QED BY <1>7 DEF r

(* Popping an operation and counting it.                                    *)
LEMMA PopAlternates ==
    ASSUME NEW q \in Seq(ClusterOperation), q # << >>, NEW c, NEW ent, NEW keep, NEW keep2,
           Alternates(q, c, ent, keep),
           q[1].entity # c => keep2[c] = keep[c],
           q[1].entity = c => keep2[c] = IF q[1].type = "keep" THEN keep[c] + 1 ELSE keep[c] - 1
    PROVE  Alternates(Tail(q), c, ent, keep2)
<1> DEFINE r == Tail(q)
           n == Len(r)
<1>1. /\ n \in Nat /\ Len(q) = n + 1 /\ 1 \in 1..Len(q)
      /\ \A i \in 1..n : r[i] = q[i + 1] /\ i + 1 \in 1..Len(q) /\ 1 < i + 1
      /\ \A i \in 2..Len(q) : i - 1 \in 1..n /\ r[i - 1] = q[i]
      /\ \A i \in 1..Len(q) : i = 1 \/ i \in 2..Len(q)
  OBVIOUS
<1> HIDE DEF r, n
<1>2. \A k \in 1..(1 - 1) : FALSE
  OBVIOUS
<1>3. q[1].entity = c => /\ q[1].type = "keep" <=> keep[c] = 0
                         /\ keep2[c] = IF q[1].type = "keep" THEN 1 ELSE 0
  <2>1. q[1].entity = c => (q[1].type = "keep" <=> keep[c] = 0)
    BY <1>1, <1>2 DEF Alternates
  <2> QED BY <2>1 DEF Alternates
<1>4. ASSUME \A i \in 1..n : r[i].entity # c PROVE keep2[c] = 1 <=> ent[c] # Null
  <2>1. ASSUME NEW i \in 2..Len(q) PROVE q[i].entity # c
    <3>1. i - 1 \in 1..n /\ r[i - 1] = q[i]
      BY <1>1
    <3> QED BY <1>4, <3>1
  <2>2. CASE q[1].entity = c
    <3>1. \A k \in (1 + 1)..Len(q) : q[k].entity # c
      BY <2>1
    <3>2. q[1].type = "keep" <=> ent[c] # Null
      BY <1>1, <2>2, <3>1 DEF Alternates
    <3> QED BY <1>3, <2>2, <3>2
  <2>3. CASE q[1].entity # c
    BY <1>1, <2>1, <2>3 DEF Alternates
  <2> QED BY <2>2, <2>3
<1>5. ASSUME NEW i \in 1..n, r[i].entity = c, \A k \in 1..(i - 1) : r[k].entity # c
      PROVE  r[i].type = "keep" <=> keep2[c] = 0
  <2>1. \A k \in 2..i : k - 1 \in 1..(i - 1) /\ k \in 2..Len(q)
    BY <1>1
  <2>2. ASSUME NEW k \in 2..i PROVE q[k].entity # c
    <3>1. k - 1 \in 1..(i - 1) /\ r[k - 1] = q[k]
      BY <1>1, <2>1
    <3> QED BY <1>5, <3>1
  <2>3. CASE q[1].entity = c
    <3>1. \A k \in (1 + 1)..((i + 1) - 1) : q[k].entity # c
      BY <2>2
    <3>2. ~(q[1].type = "keep" <=> q[i + 1].type = "keep")
      BY <1>1, <1>5, <2>3, <3>1 DEF Alternates
    <3> QED BY <1>1, <1>3, <2>3, <3>2
  <2>4. CASE q[1].entity # c
    <3>1. \A k \in 1..((i + 1) - 1) : k = 1 \/ k \in 2..i
      OBVIOUS
    <3>2. \A k \in 1..((i + 1) - 1) : q[k].entity # c
      BY <2>2, <2>4, <3>1
    <3> QED BY <1>1, <1>5, <2>4, <3>2 DEF Alternates
  <2> QED BY <2>3, <2>4
<1>6. ASSUME NEW i \in 1..n, r[i].entity = c, \A k \in (i + 1)..n : r[k].entity # c
      PROVE  r[i].type = "keep" <=> ent[c] # Null
  <2> DEFINE a == i + 1
  <2>1. a \in 1..Len(q) /\ r[i] = q[a]
    BY <1>1
  <2>2. ASSUME NEW k \in (a + 1)..Len(q) PROVE q[k].entity # c
    <3>1. k - 1 \in (i + 1)..n /\ k \in 2..Len(q)
      BY <1>1
    <3>2. r[k - 1] = q[k]
      BY <1>1, <3>1
    <3> QED BY <1>6, <3>1, <3>2
  <2> HIDE DEF a
  <2>3. q[a].type = "keep" <=> ent[c] # Null
    BY <1>6, <2>1, <2>2 DEF Alternates
  <2> QED BY <2>1, <2>3
<1>7. ASSUME NEW i \in 1..n, NEW j \in 1..n, i < j, r[i].entity = c, r[j].entity = c,
             \A k \in (i + 1)..(j - 1) : r[k].entity # c
      PROVE  ~(r[i].type = "keep" <=> r[j].type = "keep")
  <2> DEFINE a == i + 1
             b == j + 1
  <2>1. a \in 1..Len(q) /\ b \in 1..Len(q) /\ r[i] = q[a] /\ r[j] = q[b]
    BY <1>1
  <2>2. a < b
    BY <1>1, <1>7
  <2>3. ASSUME NEW k \in (a + 1)..(b - 1) PROVE q[k].entity # c
    <3>1. k - 1 \in (i + 1)..(j - 1) /\ k \in 2..Len(q)
      BY <1>1
    <3>2. r[k - 1] = q[k]
      BY <1>1, <3>1
    <3> QED BY <1>7, <3>1, <3>2
  <2> HIDE DEF a, b
  <2>4. ~(q[a].type = "keep" <=> q[b].type = "keep")
    BY <1>7, <2>1, <2>2, <2>3 DEF Alternates
  <2> QED BY <2>1, <2>4
<1>8. keep2[c] \in {0, 1}
  BY <1>3 DEF Alternates
<1>9. Alternates(r, c, ent, keep2)
  BY <1>4, <1>5, <1>6, <1>7, <1>8 DEF Alternates, n
<1> QED BY <1>9 DEF r

-----------------------------------------------------------------------------
(* The steps of the map, seen from one client: what is queued for it, its   *)
(* cell, and whether it is still to be updated.                             *)
InPlace(c) == Placed(c) /\ Alternates(clusterOps, c, entCell, keepers)

(* A step that queues nothing for the client and moves it only as queued.   *)
Quiet(c) ==
    /\ Queued(c)' => Queued(c)
    /\ Awaits(mapOps', "add", c) => Awaits(mapOps, "add", c)
    /\ entCell'[c] # entCell[c] => Queued(c)
    /\ entCell[c] = Null /\ entCell'[c] # Null => Awaits(mapOps, "add", c)
    /\ c \in todo' => c \in todo \/ ~Queued(c)'

LEMMA PoppedOf ==
    ASSUME mapOps \in Seq(MapOperation), mapOps # << >>, mapOps' = Tail(mapOps), NEW c
    PROVE  /\ Queued(c)' => Queued(c)
           /\ Awaits(mapOps', "add", c) => Awaits(mapOps, "add", c)
           /\ Len(mapOps) \in Nat /\ 1 \in 1..Len(mapOps) /\ mapOps[1] = Head(mapOps)
           /\ mapOps[1] \in MapOperation
           /\ \A i \in 2..Len(mapOps) : i \in 1..Len(mapOps) /\ 1 < i /\ 1 \in 1..(i - 1)
<1>1. \A i \in 1..Len(mapOps') : mapOps'[i] = mapOps[i + 1] /\ i + 1 \in 1..Len(mapOps)
  OBVIOUS
<1>2. Queued(c)' => Queued(c)
  BY <1>1 DEF Queued
<1>3. Awaits(mapOps', "add", c) => Awaits(mapOps, "add", c)
  BY <1>1 DEF Awaits
<1>4. /\ Len(mapOps) \in Nat /\ 1 \in 1..Len(mapOps) /\ mapOps[1] = Head(mapOps)
      /\ mapOps[1] \in MapOperation
      /\ \A i \in 2..Len(mapOps) : i \in 1..Len(mapOps) /\ 1 < i /\ 1 \in 1..(i - 1)
  OBVIOUS
<1> QED BY <1>2, <1>3, <1>4

(* An arrival is that of a client that is nowhere, a departure that of one  *)
(* that is in the cell it leaves: both are told to the cluster in turn.     *)
LEMMA AddOf ==
    ASSUME TypeOK, NeverFull, NEW c \in Updaters, InPlace(c), AddEntity, ~Halt("assert")
    PROVE  InPlace(c)' /\ Quiet(c)
<1>1. PICK o \in Offsets, e \in Entities :
          /\ mapOps # << >> /\ Head(mapOps).type = "add" /\ Head(mapOps).entity = e
          /\ mapOps' = Tail(mapOps)
          /\ members' = [members EXCEPT ![o] = @ \cup {e}]
          /\ entCell' = [entCell EXCEPT ![e] = o]
          /\ dangling' = dangling \ {e}
          /\ PushClusterOp("keep", e)
          /\ UNCHANGED <<keepers, phase, todo>>
  BY AddEntityStep
<1>2. mapOps \in Seq(MapOperation) /\ clusterOps \in Seq(ClusterOperation)
  BY DEF TypeOK
<1>3. /\ Queued(c)' => Queued(c)
      /\ Awaits(mapOps', "add", c) => Awaits(mapOps, "add", c)
      /\ Len(mapOps) \in Nat /\ 1 \in 1..Len(mapOps) /\ mapOps[1] = Head(mapOps)
      /\ \A i \in 2..Len(mapOps) : i \in 1..Len(mapOps) /\ 1 < i
  BY <1>1, <1>2, PoppedOf
<1>4. c \in Entities /\ Null \notin Offsets
  BY EntitiesAssumption
<1>5. \A i \in 1..(1 - 1) : FALSE
  OBVIOUS
<1>6. e = c => /\ entCell[c] = Null
               /\ \A i \in 2..Len(mapOps) : mapOps[i].entity # c
               /\ Queued(c) /\ Awaits(mapOps, "add", c)
  BY <1>1, <1>3, <1>5 DEF InPlace, Placed, QueueOf, Queued, Awaits
<1>7. /\ e # c => entCell'[c] = entCell[c] /\ (c \in dangling' <=> c \in dangling)
      /\ e = c => entCell'[c] = o /\ c \notin dangling'
      /\ \A p \in Offsets : c \in members'[p] <=> c \in members[p] \/ (p = o /\ c = e)
  BY <1>1, <1>4 DEF TypeOK
<1>8. \A p \in Offsets : c \in members'[p] <=> entCell'[c] = p /\ c \notin dangling'
  BY <1>4, <1>6, <1>7 DEF InPlace, Placed
<1>9. QueueOf(Tail(mapOps), c, entCell', dangling')
  <2>1. QueueOf(mapOps, c, entCell, dangling)
    BY DEF InPlace, Placed
  <2>2. \A i \in 2..Len(mapOps) : mapOps[i].entity = c =>
          /\ mapOps[i].type = "remove" => entCell'[c] = entCell[c]
          /\ mapOps[i].type = "add" /\ entCell'[c] # Null =>
                entCell[c] # Null /\ mapOps[1].entity # c
    BY <1>1, <1>3, <1>6, <1>7
  <2>3. \A i, j \in 2..Len(mapOps) :
          i < j /\ mapOps[i].entity = c /\ mapOps[j].entity = c => c \notin dangling'
    BY <1>3, <1>7, <2>1 DEF QueueOf
  <2> QED BY <1>1, <1>2, <2>1, <2>2, <2>3, PopOf
<1>10. Placed(c)'
  BY <1>1, <1>4, <1>7, <1>8, <1>9 DEF InPlace, Placed, AddEntity, Running
<1>11. Alternates(clusterOps, c, entCell, keepers)'
  <2>1. CASE e \notin Updaters
    <3>1. clusterOps' = clusterOps /\ keepers' = keepers /\ e # c
      BY <1>1, <2>1 DEF PushClusterOp
    <3> QED BY <1>7, <3>1 DEF InPlace, Alternates
  <2>2. CASE e \in Updaters
    <3> DEFINE op == [type |-> "keep", entity |-> e]
    <3>1. op \in ClusterOperation /\ op.type = "keep" /\ op.entity = e
      BY <2>2 DEF ClusterOperation
    <3>2. clusterOps' = Append(clusterOps, op) /\ keepers' = keepers
      BY <1>1, <2>2 DEF PushClusterOp, NeverFull
    <3> HIDE DEF op
    <3>3. Alternates(Append(clusterOps, op), c, entCell', keepers)
      BY <1>2, <1>4, <1>6, <1>7, <3>1, PushAlternates DEF InPlace
    <3> QED BY <3>2, <3>3
  <2> QED BY <2>1, <2>2
<1>12. Quiet(c)
  BY <1>1, <1>3, <1>6, <1>7 DEF Quiet
<1> QED BY <1>10, <1>11, <1>12 DEF InPlace

LEMMA RemoveOf ==
    ASSUME TypeOK, NeverFull, NEW c \in Updaters, InPlace(c), RemoveEntity, ~Halt("assert")
    PROVE  InPlace(c)' /\ Quiet(c)
<1>1. PICK o \in Offsets, e \in Entities :
          /\ mapOps # << >> /\ Head(mapOps).type = "remove"
          /\ Head(mapOps).entity = e /\ Head(mapOps).offset = o
          /\ mapOps' = Tail(mapOps)
          /\ members' = [members EXCEPT ![o] = @ \ {e}]
          /\ entCell' = [entCell EXCEPT ![e] = Null]
          /\ dangling' = dangling \ {e}
          /\ PushClusterOp("unkeep", e)
          /\ UNCHANGED <<keepers, phase, todo>>
  BY RemoveEntityStep
<1>2. mapOps \in Seq(MapOperation) /\ clusterOps \in Seq(ClusterOperation)
  BY DEF TypeOK
<1>3. /\ Queued(c)' => Queued(c)
      /\ Awaits(mapOps', "add", c) => Awaits(mapOps, "add", c)
      /\ Len(mapOps) \in Nat /\ 1 \in 1..Len(mapOps) /\ mapOps[1] = Head(mapOps)
      /\ \A i \in 2..Len(mapOps) : i \in 1..Len(mapOps) /\ 1 < i
  BY <1>1, <1>2, PoppedOf
<1>4. c \in Entities /\ Null \notin Offsets
  BY EntitiesAssumption
<1>5. e = c => /\ entCell[c] = o
               /\ \A i \in 2..Len(mapOps) : mapOps[i].entity = c => mapOps[i].type = "add"
               /\ Queued(c)
  BY <1>1, <1>3 DEF InPlace, Placed, QueueOf, Queued
<1>6. /\ e # c => entCell'[c] = entCell[c] /\ (c \in dangling' <=> c \in dangling)
      /\ e = c => entCell'[c] = Null /\ c \notin dangling'
      /\ \A p \in Offsets : c \in members'[p] <=> c \in members[p] /\ ~(p = o /\ c = e)
  BY <1>1, <1>4 DEF TypeOK
<1>7. \A p \in Offsets : c \in members'[p] <=> entCell'[c] = p /\ c \notin dangling'
  BY <1>4, <1>5, <1>6 DEF InPlace, Placed
<1>8. QueueOf(Tail(mapOps), c, entCell', dangling')
  <2>1. QueueOf(mapOps, c, entCell, dangling)
    BY DEF InPlace, Placed
  <2>2. \A i \in 2..Len(mapOps) : mapOps[i].entity = c =>
          /\ mapOps[i].type = "remove" => entCell'[c] = entCell[c]
          /\ mapOps[i].type = "add" /\ entCell'[c] # Null =>
                entCell[c] # Null /\ mapOps[1].entity # c
    BY <1>1, <1>3, <1>5, <1>6
  <2>3. \A i, j \in 2..Len(mapOps) :
          i < j /\ mapOps[i].entity = c /\ mapOps[j].entity = c => c \notin dangling'
    BY <1>3, <1>6, <2>1 DEF QueueOf
  <2> QED BY <1>1, <1>2, <2>1, <2>2, <2>3, PopOf
<1>9. Placed(c)'
  BY <1>1, <1>6, <1>7, <1>8 DEF InPlace, Placed, RemoveEntity, Running
<1>10. Alternates(clusterOps, c, entCell, keepers)'
  <2>1. CASE e \notin Updaters
    <3>1. clusterOps' = clusterOps /\ keepers' = keepers /\ e # c
      BY <1>1, <2>1 DEF PushClusterOp
    <3> QED BY <1>6, <3>1 DEF InPlace, Alternates
  <2>2. CASE e \in Updaters
    <3> DEFINE op == [type |-> "unkeep", entity |-> e]
    <3>1. op \in ClusterOperation /\ op.type = "unkeep" /\ op.entity = e
      BY <2>2 DEF ClusterOperation
    <3>2. clusterOps' = Append(clusterOps, op) /\ keepers' = keepers
      BY <1>1, <2>2 DEF PushClusterOp, NeverFull
    <3> HIDE DEF op
    <3>3. Alternates(Append(clusterOps, op), c, entCell', keepers)
      BY <1>2, <1>4, <1>5, <1>6, <3>1, PushAlternates DEF InPlace
    <3> QED BY <3>2, <3>3
  <2> QED BY <2>1, <2>2
<1>11. Quiet(c)
  BY <1>1, <1>3, <1>5, <1>6 DEF Quiet
<1> QED BY <1>9, <1>10, <1>11 DEF InPlace

(* A departure is dropped because its cell is gone: the client dangles, and *)
(* was not on its way to another cell.                                      *)
LEMMA DropOf ==
    ASSUME TypeOK, CellsInv, NEW c \in Updaters, InPlace(c), RemoveFromNowhere
    PROVE  InPlace(c)' /\ Quiet(c)
<1>1. /\ mapOps \in Seq(MapOperation) /\ mapOps # << >>
      /\ Head(mapOps).type = "remove" /\ Head(mapOps).offset \notin cells
      /\ mapOps' = Tail(mapOps)
      /\ UNCHANGED <<members, entCell, dangling, phase, todo, clusterOps, keepers>>
  BY DEF RemoveFromNowhere, TypeOK, loopVars, clusterVars
<1>2. /\ Queued(c)' => Queued(c)
      /\ Awaits(mapOps', "add", c) => Awaits(mapOps, "add", c)
      /\ Len(mapOps) \in Nat /\ 1 \in 1..Len(mapOps) /\ mapOps[1] = Head(mapOps)
      /\ mapOps[1] \in MapOperation
      /\ \A i \in 2..Len(mapOps) : i \in 1..Len(mapOps) /\ 1 < i
  BY <1>1, PoppedOf
<1>3. c \in Entities /\ Null \notin Offsets
  BY EntitiesAssumption
<1>4. mapOps[1].entity = c => c \in dangling
  <2> SUFFICES ASSUME mapOps[1].entity = c PROVE c \in dangling
    OBVIOUS
  <2>1. entCell[c] = mapOps[1].offset
    BY <1>1, <1>2 DEF InPlace, Placed, QueueOf
  <2>2. mapOps[1].offset # Null
    BY <1>1, <1>2, <1>3 DEF MapOperation
  <2> QED BY <1>1, <1>2, <1>3, <2>1, <2>2 DEF CellsInv, PointersLive
<1>5. mapOps[1].entity = c => \A i \in 2..Len(mapOps) : mapOps[i].entity # c
  BY <1>2, <1>4 DEF InPlace, Placed, QueueOf
<1>6. QueueOf(Tail(mapOps), c, entCell, dangling)
  <2>1. QueueOf(mapOps, c, entCell, dangling)
    BY DEF InPlace, Placed
  <2>2. \A i, j \in 2..Len(mapOps) :
          i < j /\ mapOps[i].entity = c /\ mapOps[j].entity = c => c \notin dangling
    BY <1>2, <2>1 DEF QueueOf
  <2> QED BY <1>1, <1>5, <2>1, <2>2, PopOf
<1>7. Placed(c)'
  BY <1>1, <1>6 DEF InPlace, Placed
<1> QED BY <1>1, <1>2, <1>7 DEF InPlace, Alternates, Quiet

(* A cell is freed with what it holds; a client on its way from there to    *)
(* another cell is not behind it in the queue.                              *)
LEMMA DestroyOf ==
    ASSUME TypeOK, NEW c \in Updaters, InPlace(c), Destroy
    PROVE  InPlace(c)' /\ Quiet(c)
<1> DEFINE o == mapOps[1].offset
<1>1. mapOps \in Seq(MapOperation) /\ mapOps # << >> /\ mapOps' = Tail(mapOps)
  BY DEF Destroy, TypeOK
<1>2. /\ Queued(c)' => Queued(c)
      /\ Awaits(mapOps', "add", c) => Awaits(mapOps, "add", c)
      /\ Len(mapOps) \in Nat /\ 1 \in 1..Len(mapOps) /\ mapOps[1] = Head(mapOps)
      /\ mapOps[1] \in MapOperation
      /\ \A i \in 2..Len(mapOps) : i \in 1..Len(mapOps) /\ 1 < i /\ 1 \in 1..(i - 1)
  BY <1>1, PoppedOf
<1>3. /\ mapOps[1].type = "destroy"
      /\ members' = [members EXCEPT ![o] = {}]
      /\ dangling' = dangling \cup {e \in Entities : entCell[e] = o}
      /\ UNCHANGED <<entCell, phase, todo, clusterOps, keepers>>
      /\ phase = "mapOps"
  BY <1>2 DEF Destroy, loopVars, Running
<1>4. o \in Offsets /\ o # Null /\ mapOps[1].entity # c /\ c \in Entities
  BY <1>2, <1>3, EntitiesAssumption DEF MapOperation
<1>5. /\ c \in dangling' <=> c \in dangling \/ entCell[c] = o
      /\ \A p \in Offsets : c \in members'[p] <=> c \in members[p] /\ p # o
  BY <1>3, <1>4 DEF TypeOK
<1> HIDE DEF o
<1>6. \A p \in Offsets : c \in members'[p] <=> entCell'[c] = p /\ c \notin dangling'
  BY <1>3, <1>4, <1>5 DEF InPlace, Placed
<1>7. QueueOf(Tail(mapOps), c, entCell', dangling')
  <2>1. QueueOf(mapOps, c, entCell, dangling)
    BY DEF InPlace, Placed
  <2>2. ASSUME NEW i \in 2..Len(mapOps), NEW j \in 2..Len(mapOps), i < j,
               mapOps[i].entity = c, mapOps[j].entity = c
        PROVE  c \notin dangling'
    <3>1. /\ mapOps[i].type = "remove" /\ c \notin dangling
          /\ mapOps[i].offset # o
          /\ entCell[c] = mapOps[i].offset
      BY <1>2, <1>3, <2>1, <2>2 DEF QueueOf, o
    <3> QED BY <1>5, <3>1
  <2>3. \A i \in 2..Len(mapOps) : mapOps[i].entity = c =>
          /\ mapOps[i].type = "remove" => entCell'[c] = entCell[c]
          /\ mapOps[i].type = "add" /\ entCell'[c] # Null =>
                entCell[c] # Null /\ mapOps[1].entity # c
    BY <1>3, <1>4
  <2> QED BY <1>1, <2>1, <2>2, <2>3, PopOf
<1>8. Placed(c)'
  BY <1>1, <1>3, <1>4, <1>5, <1>6, <1>7 DEF InPlace, Placed
<1> QED BY <1>2, <1>3, <1>8 DEF InPlace, Alternates, Quiet

(* An operation is queued: for another entity, or for a client without any. *)
LEMMA PushedOf ==
    ASSUME TypeOK, NEW c \in Updaters, InPlace(c), NEW op \in MapOperation,
           mapOps' = Append(mapOps, op),
           UNCHANGED <<members, entCell, dangling, phase, todo, clusterOps, keepers>>,
           op.entity = c => /\ ~Queued(c)
                            /\ op.type = "remove" => entCell[c] = op.offset
                            /\ op.type = "add" => entCell[c] = Null
    PROVE  /\ InPlace(c)'
           /\ op.entity # c => Quiet(c)
           /\ op.type # "add" => (Awaits(mapOps', "add", c) => Awaits(mapOps, "add", c))
<1> DEFINE n == Len(mapOps)
<1>1. mapOps \in Seq(MapOperation)
  BY DEF TypeOK
<1>2. /\ Len(mapOps') = n + 1 /\ n \in Nat
      /\ mapOps'[n + 1] = op
      /\ \A i \in 1..n : mapOps'[i] = mapOps[i]
  BY <1>1
<1>3. QueueOf(Append(mapOps, op), c, entCell, dangling)
  BY <1>1, PushOf DEF InPlace, Placed, Queued
<1>4. Placed(c)'
  BY <1>3 DEF InPlace, Placed
<1>5. Alternates(clusterOps, c, entCell, keepers)'
  BY DEF InPlace, Alternates
<1> HIDE DEF n
<1>6. op.entity # c => (Queued(c)' => Queued(c))
  BY <1>2 DEF Queued, n
<1>7. op.entity # c \/ op.type # "add" =>
          (Awaits(mapOps', "add", c) => Awaits(mapOps, "add", c))
  BY <1>2 DEF Awaits, n
<1> QED BY <1>4, <1>5, <1>6, <1>7 DEF InPlace, Quiet

(* Another entity moves, or the client does while nothing is queued for it. *)
LEMMA MovedOf ==
    ASSUME TypeOK, CellsInv, NEW c \in Updaters, InPlace(c),
           NEW e \in Entities, NEW to \in Offsets, OnMove(e, to),
           ~Halt("assert"), ~Halt("null"), e = c => ~Queued(c)
    PROVE  /\ InPlace(c)'
           /\ e # c => Quiet(c)
           /\ e = c => c \in todo \ todo' /\ phase = "update" /\ mapOps' # mapOps
<1>0. PICK op1 \in MapOperation, op2 \in MapOperation : MovesBy(e, to, op1, op2)
  BY OnMoveStep
<1>1. /\ op1.type = "remove" /\ op1.entity = e /\ op1.offset = entCell[e]
      /\ op2.type = "add" /\ op2.entity = e
      /\ mapOps' = Append(Append(mapOps, op1), op2)
      /\ todo' = todo \ {e}
      /\ UNCHANGED <<members, entCell, dangling, keepers, clusterOps, phase>>
  BY <1>0 DEF MovesBy
<1>2. phase = "update" /\ e \in todo
  BY DEF OnMove, Running
<1>3. mapOps \in Seq(MapOperation) /\ DestroysIn(mapOps) = {}
  BY <1>2 DEF TypeOK, CellsInv, CooldownInv, Destroying
<1>4. /\ Len(mapOps') = Len(mapOps) + 2 /\ Len(mapOps) \in Nat
      /\ mapOps'[Len(mapOps) + 1] = op1 /\ mapOps'[Len(mapOps) + 2] = op2
      /\ \A i \in 1..Len(mapOps) : mapOps'[i] = mapOps[i]
  BY <1>1, <1>3
<1>5. mapOps' # mapOps
  BY <1>4
<1>6. Alternates(clusterOps, c, entCell, keepers)'
  BY <1>1 DEF InPlace, Alternates
<1>7. CASE e = c
  <2>1. c \notin dangling /\ \A i \in 1..Len(mapOps) : mapOps[i].entity # c
    BY <1>2, <1>7 DEF InPlace, Placed, Queued
  <2>2. QueueOf(Append(Append(mapOps, op1), op2), c, entCell, dangling)
    BY <1>1, <1>3, <1>7, <2>1, PushMoveOf
  <2>3. Placed(c)'
    BY <1>1, <2>2 DEF InPlace, Placed
  <2> QED BY <1>1, <1>2, <1>5, <1>6, <1>7, <2>3 DEF InPlace
<1>8. CASE e # c
  <2>1. QueueOf(Append(mapOps, op1), c, entCell, dangling)
    BY <1>1, <1>3, <1>8, PushOf DEF InPlace, Placed
  <2>2. Append(mapOps, op1) \in Seq(MapOperation)
    BY <1>3
  <2>3. QueueOf(Append(Append(mapOps, op1), op2), c, entCell, dangling)
    BY <1>1, <1>8, <2>1, <2>2, PushOf
  <2>4. Placed(c)'
    BY <1>1, <2>3 DEF InPlace, Placed
  <2>5. Queued(c)' => Queued(c)
    BY <1>1, <1>4, <1>8 DEF Queued
  <2>6. Awaits(mapOps', "add", c) => Awaits(mapOps, "add", c)
    BY <1>1, <1>4, <1>8 DEF Awaits
  <2> QED BY <1>1, <1>6, <1>8, <2>4, <2>5, <2>6 DEF InPlace, Quiet
<1> QED BY <1>7, <1>8

(* The cluster counts an operation of its queue.                            *)
LEMMA CountOf ==
    ASSUME TypeOK, NEW c \in Updaters, InPlace(c), Keep \/ Unkeep, ~Halt("erase")
    PROVE  InPlace(c)' /\ Quiet(c)
<1> DEFINE op == clusterOps[1]
<1>1. /\ clusterOps \in Seq(ClusterOperation) /\ clusterOps # << >>
      /\ op = Head(clusterOps) /\ op \in ClusterOperation
  BY DEF Keep, Unkeep, TypeOK
<1>2. op.entity \in Updaters
  BY <1>1 DEF ClusterOperation
<1>3. /\ keepers' = [keepers EXCEPT ![op.entity] =
                        IF op.type = "keep" THEN @ + 1 ELSE @ - 1]
      /\ clusterOps' = Tail(clusterOps)
      /\ UNCHANGED <<mapVars, phase, todo>>
  <2>1. CASE Keep
    BY <1>1, <2>1 DEF Keep, loopVars
  <2>2. CASE Unkeep
    BY <1>1, <2>2 DEF Unkeep, loopVars
  <2> QED BY <2>1, <2>2
<1>4. /\ op.entity # c => keepers'[c] = keepers[c]
      /\ op.entity = c => keepers'[c] = IF op.type = "keep" THEN keepers[c] + 1
                                        ELSE keepers[c] - 1
  BY <1>2, <1>3 DEF TypeOK
<1>5. Alternates(Tail(clusterOps), c, entCell, keepers')
  BY <1>1, <1>4, PopAlternates DEF InPlace
<1>6. Alternates(clusterOps, c, entCell, keepers)'
  BY <1>3, <1>5 DEF mapVars
<1> QED BY <1>3, <1>6 DEF InPlace, Placed, Quiet, Queued, mapVars

(* Every step of the server's loop, for a client that does not move while   *)
(* something is queued for it.                                              *)
LEMMA ServerLoopOf ==
    ASSUME TypeOK, CellsInv, NeverFull, NEW c \in Updaters, InPlace(c), ServerLoop,
           phase = "update" /\ mapOps' # mapOps /\ c \in todo \ todo' => ~Queued(c)
    PROVE  /\ InPlace(c)'
           /\ Quiet(c) \/ (phase = "update" /\ mapOps' # mapOps /\ c \in todo \ todo')
<1>1. ASSUME UNCHANGED <<mapVars, clusterOps, keepers>>,
             UNCHANGED <<phase, todo>> \/ todo' = {}
      PROVE  InPlace(c)' /\ Quiet(c)
  <2>1. UNCHANGED <<members, entCell, dangling, mapOps>>
    BY <1>1 DEF mapVars
  <2>2. Placed(c)'
    BY <1>1, <2>1 DEF InPlace, Placed, QueueOf
  <2>3. Alternates(clusterOps, c, entCell, keepers)'
    BY <1>1, <2>1 DEF InPlace, Alternates
  <2> QED BY <1>1, <2>1, <2>2, <2>3 DEF InPlace, Quiet, Queued
<1>2. ASSUME NEW why, Halt(why) PROVE InPlace(c)' /\ Quiet(c)
  BY <1>1, <1>2 DEF Halt, clusterVars
<1>3. CASE AddEntity
  BY <1>2, <1>3, AddOf
<1>4. CASE RemoveEntity
  BY <1>2, <1>4, RemoveOf
<1>5. CASE RemoveFromNowhere
  BY <1>5, DropOf
<1>6. CASE Destroy
  BY <1>6, DestroyOf
<1>7. CASE BeginUpdate
  <2>1. /\ mapOps = << >> /\ phase' = "update"
        /\ todo' = UNION {members[o] : o \in current}
        /\ UNCHANGED <<members, entCell, dangling, mapOps, clusterOps, keepers>>
    BY <1>7 DEF BeginUpdate, mapVars
  <2>2. ~Queued(c)'
    BY <2>1 DEF Queued
  <2>3. c \in todo' => \E o \in Offsets : c \in members[o]
    BY <2>1 DEF TypeOK
  <2>4. c \in todo' => entCell[c] # Null /\ c \notin dangling
    BY <2>3, EntitiesAssumption DEF InPlace, Placed
  <2>5. Placed(c)'
    BY <2>1, <2>4 DEF InPlace, Placed, QueueOf
  <2>6. Alternates(clusterOps, c, entCell, keepers)'
    BY <2>1 DEF InPlace, Alternates
  <2> QED BY <2>1, <2>2, <2>5, <2>6 DEF InPlace, Quiet
<1>8. ASSUME NEW e \in Entities, NEW to \in Offsets, OnMove(e, to)
      PROVE  /\ InPlace(c)'
             /\ Quiet(c) \/ (phase = "update" /\ mapOps' # mapOps /\ c \in todo \ todo')
  <2>1. CASE Halt("assert") \/ Halt("null")
    BY <1>2, <2>1
  <2>2. ASSUME ~Halt("assert"), ~Halt("null"), e = c PROVE ~Queued(c)
    <3>1. /\ \E op1 \in MapOperation, op2 \in MapOperation : MovesBy(e, to, op1, op2)
          /\ mapOps \in Seq(MapOperation)
      BY <1>8, <2>2, OnMoveStep DEF TypeOK
    <3>2. PICK op1 \in MapOperation, op2 \in MapOperation :
              mapOps' = Append(Append(mapOps, op1), op2) /\ todo' = todo \ {e}
      BY <3>1 DEF MovesBy
    <3>3. Len(mapOps') = Len(mapOps) + 2 /\ Len(mapOps) \in Nat
      BY <3>1, <3>2
    <3>4. mapOps' # mapOps
      BY <3>3
    <3> QED BY <1>8, <2>2, <3>2, <3>4 DEF OnMove, Running
  <2>3. CASE ~Halt("assert") /\ ~Halt("null")
    BY <1>8, <2>2, <2>3, MovedOf
  <2> QED BY <2>1, <2>3
<1>9. CASE EndUpdate
  BY <1>1, <1>9 DEF EndUpdate, clusterVars
<1>10. ASSUME NEW elapsed \in 0..MaxElapsed, Cleanup(elapsed) PROVE InPlace(c)' /\ Quiet(c)
  <2>1. /\ UNCHANGED <<members, entCell, dangling, mapOps, clusterOps, keepers, todo>>
        /\ phase # "update"
    BY <1>10 DEF Cleanup, Running, mapVars
  <2>2. Placed(c)'
    BY <2>1 DEF InPlace, Placed, QueueOf
  <2>3. Alternates(clusterOps, c, entCell, keepers)'
    BY <2>1 DEF InPlace, Alternates
  <2> QED BY <2>1, <2>2, <2>3 DEF InPlace, Quiet, Queued
<1>11. CASE Keep \/ Unkeep
  BY <1>2, <1>11, CountOf
<1>12. CASE TouchKeepers \/ EndTick
  <2>1. CASE \E why \in {"null", "freed", "assert"} : Halt(why)
    BY <1>2, <2>1
  <2>2. CASE ~ \E why \in {"null", "freed", "assert"} : Halt(why)
    <3>1. UNCHANGED <<mapVars, keepers, clusterOps, todo>> /\ phase # "update"
      BY <1>12, <2>2, TouchKeepersStep DEF EndTick, Running, clusterVars
    <3>2. UNCHANGED <<members, entCell, dangling, mapOps, clusterOps, keepers, todo>>
      BY <3>1 DEF mapVars
    <3>3. Placed(c)'
      BY <3>1, <3>2 DEF InPlace, Placed, QueueOf
    <3>4. Alternates(clusterOps, c, entCell, keepers)'
      BY <3>2 DEF InPlace, Alternates
    <3> QED BY <3>2, <3>3, <3>4 DEF InPlace, Quiet, Queued
  <2> QED BY <2>1, <2>2
<1>13. ASSUME NEW o \in Offsets, DestroyCell(o) PROVE InPlace(c)' /\ Quiet(c)
  <2> DEFINE op == [type |-> "destroy", offset |-> o, entity |-> Null, param |-> o]
  <2>1. op \in MapOperation /\ op.type = "destroy" /\ op.entity # c
    BY EntitiesAssumption DEF MapOperation
  <2>2. /\ mapOps' = Append(mapOps, op)
        /\ UNCHANGED <<members, entCell, dangling, phase, todo, clusterOps, keepers>>
    BY <1>13 DEF DestroyCell, loopVars
  <2> HIDE DEF op
  <2> QED BY <2>1, <2>2, PushedOf
<1> QED
  BY <1>3, <1>4, <1>5, <1>6, <1>7, <1>8, <1>9, <1>10, <1>11, <1>12, <1>13 DEF ServerLoop

-----------------------------------------------------------------------------
(* The map below the clients: nothing happens once the process has ended,   *)
(* and until then the cells are as MapCluster has them.                     *)
LEMMA NothingAfterFault ==
    ASSUME [ClientNext]_allVars, ~Up
    PROVE  UNCHANGED allVars
  BY DEF ClientNext, IoStep, CloseStep, ServerStep, Up, IoIdle, ServerIdle, InOps,
         Accept, HandleRead, HandleEof, HandleTimeout, CloseCancel, CloseRemove, CloseFlag,
         EndJobs, HandleAccept, StillInMap, DestroyClient, EndOps, PushPending, EndPush,
         MapStep, Complete, WorkError, EnterOrLeave, AddTo, RemoveFrom, Running

(* What a close queues for its client.                                      *)
LEMMA CloseQueues ==
    ASSUME SessionTypes, TypeOK, NEW t \in Threads, CloseRemove(t), ~Crash("freed")
    PROVE  LET c == closer[t].client
               o == closer[t].cell
               op == [type |-> "remove", offset |-> o, entity |-> c, param |-> Null]
           IN  /\ c \in Updaters
               /\ o = Null => mapOps' = mapOps
               /\ o # Null => op \in MapOperation /\ mapOps' = Append(mapOps, op)
               /\ UNCHANGED <<cells, members, entCell, dangling, clusterVars, loopVars>>
<1> DEFINE c == closer[t].client
           o == closer[t].cell
           op == [type |-> "remove", offset |-> o, entity |-> c, param |-> Null]
<1>1. c \in Updaters /\ c \in Entities
  BY EntitiesAssumption DEF SessionTypes, IsCloser, CloseRemove
<1>2. /\ o # Null => o \in cells
      /\ mapOps' = IF o = Null THEN mapOps ELSE Append(mapOps, op)
      /\ UNCHANGED <<cells, members, entCell, dangling, clusterVars, loopVars>>
  BY DEF CloseRemove
<1>3. o # Null => op \in MapOperation
  BY <1>1, <1>2 DEF MapOperation, TypeOK
<1> QED BY <1>1, <1>2, <1>3

(* What a step of the clients is to the map.                                *)
LEMMA StepsOfTheMap ==
    ASSUME [ClientNext]_allVars
    PROVE  \/ UNCHANGED vars
           \/ ServerLoop
           \/ \E c \in Updaters : RemoveFrom(c) \/ \E o \in Offsets : AddTo(c, o)
           \/ \E t \in Threads : CloseRemove(t) /\ ~Crash("freed")
           \/ /\ fault' # "none"
              /\ UNCHANGED <<mapVars, clusterVars, phase, todo, clientVars>>
<1>1. ASSUME NEW why \in {"late", "freed", "double"}, Crash(why)
      PROVE  /\ fault' # "none"
             /\ UNCHANGED <<mapVars, clusterVars, phase, todo, clientVars>>
  BY <1>1 DEF Crash
<1>2. "io" \in Threads /\ "server" \in Threads
  BY DEF Threads
<1>3. CASE IoStep
  BY <1>1, <1>3 DEF IoStep, Accept, HandleRead, HandleEof, HandleTimeout
<1>4. ASSUME NEW t \in Threads, CloseStep(t)
      PROVE  UNCHANGED vars \/ CloseRemove(t)
  BY <1>4 DEF CloseStep, CloseCancel, CloseFlag
<1>5. CASE ServerStep
  BY <1>1, <1>2, <1>4, <1>5
  DEF ServerStep, EndJobs, HandleAccept, StillInMap, DestroyClient, EndOps, PushPending,
      EndPush, MapStep
<1>6. CASE \E c \in Updaters : Complete(c) \/ WorkError(c) \/ EnterOrLeave(c)
  BY <1>6 DEF Complete, WorkError, EnterOrLeave
<1>7. CASE UNCHANGED allVars
  BY <1>7 DEF allVars
<1> QED BY <1>1, <1>2, <1>3, <1>4, <1>5, <1>6, <1>7, PlayersAssumption DEF ClientNext

LEMMA NextMap ==
    ASSUME SessionTypes, Up => TypeOK /\ CellsInv, [ClientNext]_allVars, Up'
    PROVE  TypeOK' /\ CellsInv'
<1>1. Up
  BY NothingAfterFault DEF Up, allVars, vars, loopVars
<1>2. TypeOK /\ CellsInv
  BY <1>1
<1>3. ASSUME [Next]_vars PROVE TypeOK' /\ CellsInv'
  BY <1>2, <1>3, NextTypes, NextCells
<1>4. CASE UNCHANGED vars
  BY <1>3, <1>4
<1>5. CASE ServerLoop
  BY <1>3, <1>5 DEF Next
<1>6. CASE \E c \in Updaters : RemoveFrom(c) \/ \E o \in Offsets : AddTo(c, o)
  BY <1>3, <1>6, EntitiesAssumption DEF Next, Callers
<1>7. ASSUME NEW t \in Threads, CloseRemove(t), ~Crash("freed") PROVE TypeOK' /\ CellsInv'
  <2> DEFINE c == closer[t].client
             o == closer[t].cell
             op == [type |-> "remove", offset |-> o, entity |-> c, param |-> Null]
  <2>1. /\ o = Null => mapOps' = mapOps
        /\ o # Null => op \in MapOperation /\ mapOps' = Append(mapOps, op)
        /\ UNCHANGED <<cells, members, entCell, dangling, clusterVars, loopVars>>
    BY <1>2, <1>7, CloseQueues
  <2>2. op.type # "destroy"
    OBVIOUS
  <2> HIDE DEF op, o
  <2>3. CASE o = Null
    BY <1>3, <2>1, <2>3 DEF vars, mapVars
  <2>4. CASE o # Null
    <3>1. CellsInv'
      BY <1>2, <2>1, <2>2, <2>4, PushCells
    <3>2. mapOps' \in Seq(MapOperation)
      <4>1. mapOps \in Seq(MapOperation)
        BY <1>2 DEF TypeOK
      <4> QED BY <2>1, <2>4, <4>1
    <3> QED BY <1>2, <2>1, <3>1, <3>2 DEF TypeOK, clusterVars, loopVars
  <2> QED BY <2>3, <2>4
<1> QED BY <1>4, <1>5, <1>6, <1>7, StepsOfTheMap DEF Up

(* The cluster has counted all it was told when it looks at its stalled     *)
(* cells.                                                                   *)
LEMMA NextCounted ==
    ASSUME SessionTypes, Up => TypeOK /\ CellsInv, phase = "stalls" => clusterOps = << >>,
           [ClientNext]_allVars
    PROVE  phase' = "stalls" => clusterOps' = << >>
<1>1. CASE ~Up
  BY <1>1, NothingAfterFault DEF allVars, vars, loopVars, clusterVars
<1>2. CASE Up
  <2>1. ASSUME UNCHANGED <<phase, clusterOps>> PROVE phase' = "stalls" => clusterOps' = << >>
    BY <2>1
  <2>2. CASE ServerLoop
    <3>1. ASSUME NEW why, Halt(why) PROVE phase' = "stalls" => clusterOps' = << >>
      BY <2>1, <3>1 DEF Halt, clusterVars
    <3>2. CASE AddEntity \/ RemoveEntity
      <4>1. phase = "mapOps"
        BY <3>2 DEF AddEntity, RemoveEntity, Running
      <4>2. Halt("assert") \/ phase' = phase
        BY <1>2, <3>2, AddEntityStep, RemoveEntityStep
      <4> QED BY <3>1, <4>1, <4>2
    <3>3. CASE RemoveFromNowhere \/ Destroy
      BY <2>1, <3>3 DEF RemoveFromNowhere, Destroy, clusterVars, loopVars
    <3>4. ASSUME NEW e \in Entities, NEW to \in Offsets, OnMove(e, to)
          PROVE  phase' = "stalls" => clusterOps' = << >>
      <4>1. Halt("assert") \/ Halt("null") \/ UNCHANGED <<phase, clusterOps>>
        BY <1>2, <3>4, OnMoveStep DEF MovesBy
      <4> QED BY <2>1, <3>1, <4>1
    <3>5. CASE BeginUpdate \/ EndUpdate \/ (\E elapsed \in 0..MaxElapsed : Cleanup(elapsed))
                  \/ EndTick
      BY <3>5 DEF BeginUpdate, EndUpdate, Cleanup, EndTick
    <3>6. CASE Keep \/ Unkeep
      <4>1. phase = "clusterOps" /\ (Halt("erase") \/ phase' = phase)
        BY <3>6 DEF Keep, Unkeep, Running, loopVars
      <4> QED BY <3>1, <4>1
    <3>7. CASE TouchKeepers
      <4>1. clusterOps = << >>
        BY <3>7 DEF TouchKeepers
      <4>2. clusterOps' = clusterOps
        BY <1>2, <3>7, TouchKeepersStep DEF Halt, clusterVars
      <4> QED BY <4>1, <4>2
    <3>8. ASSUME NEW o \in Offsets, DestroyCell(o)
          PROVE  phase' = "stalls" => clusterOps' = << >>
      BY <2>1, <3>8 DEF DestroyCell, loopVars
    <3> QED
      BY <2>2, <3>2, <3>3, <3>4, <3>5, <3>6, <3>7, <3>8 DEF ServerLoop
  <2>3. CASE \/ UNCHANGED vars
             \/ \E c \in Updaters : RemoveFrom(c) \/ \E o \in Offsets : AddTo(c, o)
             \/ \E t \in Threads : CloseRemove(t) /\ ~Crash("freed")
             \/ UNCHANGED <<mapVars, clusterVars, phase, todo, clientVars>>
    BY <2>1, <2>3 DEF vars, clusterVars, loopVars, RemoveFrom, AddTo, CloseRemove
  <2> QED BY <2>2, <2>3, StepsOfTheMap
<1> QED BY <1>1, <1>2

-----------------------------------------------------------------------------
(* How far the close of a client has come, step by step.                    *)

(* The map and the session of the client stay as they are.                  *)
LEMMA DepartsKept ==
    ASSUME NEW c \in Updaters, InPlace(c), Departs(c),
           UNCHANGED <<members, entCell, dangling, mapOps, todo, phase, clusterOps, keepers>>,
           status'[c] = status[c], closer' = closer,
           conn'[c] = "destroyed" => conn[c] = "destroyed"
    PROVE  InPlace(c)' /\ Departs(c)'
<1>1. Placed(c)'
  BY DEF InPlace, Placed, QueueOf
<1>2. Alternates(clusterOps, c, entCell, keepers)'
  BY DEF InPlace, Alternates
<1>3. Departs(c)'
  BY DEF Departs, Queued, Closing, Awaits
<1> QED BY <1>1, <1>2, <1>3 DEF InPlace

(* A thread that was in no close enters that of some client.                *)
LEMMA DepartsBegun ==
    ASSUME SessionTypes, NEW c \in Updaters, InPlace(c), Departs(c),
           NEW t \in Threads, NEW b \in Updaters, closer[t].at = "idle", BeginClose(t, b),
           UNCHANGED vars, UNCHANGED <<conn, status>>
    PROVE  InPlace(c)' /\ Departs(c)'
<1>1. UNCHANGED <<members, entCell, dangling, mapOps, todo, phase, clusterOps, keepers>>
  BY DEF vars, mapVars, clusterVars, loopVars
<1>2. CASE closer' = closer
  BY <1>1, <1>2, DepartsKept
<1>3. CASE closer' # closer
  <2> DEFINE r == [at |-> "cancel", client |-> b, cell |-> Null]
  <2>1. closer' = [closer EXCEPT ![t] = r] /\ r.at = "cancel"
    BY <1>3 DEF BeginClose
  <2> HIDE DEF r
  <2>2. closer'[t].at = "cancel" /\ \A u \in Threads \ {t} : closer'[u] = closer[u]
    BY <2>1 DEF SessionTypes
  <2>3. closer[t].client # c
    BY DEF Departs
  <2>4. Closing(c) => Closing(c)'
    BY <2>2, <2>3 DEF Closing
  <2>5. \A u \in Threads : closer'[u].client = c =>
          /\ closer'[u].at # "idle"
          /\ closer'[u].at = "remove" => ~Queued(c) /\ closer'[u].cell = entCell[c]
          /\ closer'[u].at = "flag" => ~Awaits(mapOps, "add", c)
    BY <2>2 DEF Departs
  <2>6. Departs(c)'
    BY <1>1, <2>4, <2>5 DEF Departs, Queued, Awaits
  <2>7. Placed(c)'
    BY <1>1 DEF InPlace, Placed, QueueOf
  <2>8. Alternates(clusterOps, c, entCell, keepers)'
    BY <1>1 DEF InPlace, Alternates
  <2> QED BY <2>6, <2>7, <2>8 DEF InPlace
<1> QED BY <1>2, <1>3

(* The cell of the client is read while nothing is queued for it.           *)
LEMMA DepartsRead ==
    ASSUME SessionTypes, NEW c \in Updaters, InPlace(c), Departs(c),
           NEW t \in Threads, CloseCancel(t), raced'[c] = {}
    PROVE  InPlace(c)' /\ Departs(c)'
<1> DEFINE b == closer[t].client
           r == [closer[t] EXCEPT !.at = "remove", !.cell = entCell[b]]
<1>1. /\ IsCloser(closer[t]) /\ closer[t].at = "cancel" /\ closer' = [closer EXCEPT ![t] = r]
      /\ raced' = IF Queued(b) THEN [raced EXCEPT ![b] = @ \cup {"moved"}] ELSE raced
      /\ UNCHANGED <<conn, status>> /\ UNCHANGED vars
  BY DEF SessionTypes, CloseCancel
<1>2. r.client = b /\ r.at = "remove" /\ r.cell = entCell[b]
  <2>1. closer[t] = [at |-> closer[t].at, client |-> closer[t].client, cell |-> closer[t].cell]
    BY <1>1 DEF IsCloser
  <2>2. PICK x, y, z : closer[t] = [at |-> x, client |-> y, cell |-> z]
    BY <2>1
  <2>3. /\ [[at |-> x, client |-> y, cell |-> z] EXCEPT !.at = "remove"]
             = [at |-> "remove", client |-> y, cell |-> z]
        /\ [[at |-> "remove", client |-> y, cell |-> z] EXCEPT !.cell = entCell[b]]
             = [at |-> "remove", client |-> y, cell |-> entCell[b]]
    OBVIOUS
  <2>4. r = [at |-> "remove", client |-> y, cell |-> entCell[b]] /\ b = y
    BY <2>2, <2>3
  <2> QED BY <2>4
<1> HIDE DEF r
<1>3. closer'[t] = r /\ \A u \in Threads \ {t} : closer'[u] = closer[u]
  BY <1>1 DEF SessionTypes
<1>4. b = c => ~Queued(c)
  BY <1>1 DEF SessionTypes
<1>5. UNCHANGED <<members, entCell, dangling, mapOps, todo, phase, clusterOps, keepers>>
  BY <1>1 DEF vars, mapVars, clusterVars, loopVars
<1>6. Closing(c) => Closing(c)'
  BY <1>1, <1>2, <1>3 DEF Closing
<1>7. \A u \in Threads : closer'[u].client = c =>
          /\ closer'[u].at # "idle"
          /\ closer'[u].at = "remove" => ~Queued(c) /\ closer'[u].cell = entCell[c]
          /\ closer'[u].at = "flag" => ~Awaits(mapOps, "add", c)
  BY <1>2, <1>3, <1>4 DEF Departs
<1>8. Departs(c)'
  BY <1>1, <1>5, <1>6, <1>7 DEF Departs, Queued, Awaits
<1>9. Placed(c)'
  BY <1>5 DEF InPlace, Placed, QueueOf
<1>10. Alternates(clusterOps, c, entCell, keepers)'
  BY <1>5 DEF InPlace, Alternates
<1> QED BY <1>8, <1>9, <1>10 DEF InPlace

(* Its departure is queued, from the cell it is still in.                   *)
LEMMA DepartsQueued ==
    ASSUME SessionTypes, TypeOK, NEW c \in Updaters, OnceClosed(c), InPlace(c), Departs(c),
           NEW t \in Threads, CloseRemove(t), ~Crash("freed")
    PROVE  InPlace(c)' /\ Departs(c)'
<1> DEFINE b == closer[t].client
           o == closer[t].cell
           op == [type |-> "remove", offset |-> o, entity |-> b, param |-> Null]
           r == [closer[t] EXCEPT !.at = "flag"]
<1>1. /\ o = Null => mapOps' = mapOps
      /\ o # Null => op \in MapOperation /\ mapOps' = Append(mapOps, op)
      /\ UNCHANGED <<cells, members, entCell, dangling, clusterVars, loopVars>>
  BY CloseQueues
<1>2. op.type = "remove" /\ op.entity = b /\ op.offset = o
  OBVIOUS
<1>3. /\ IsCloser(closer[t]) /\ closer[t].at = "remove" /\ closer' = [closer EXCEPT ![t] = r]
      /\ UNCHANGED <<conn, status>>
  BY DEF SessionTypes, CloseRemove, sessionVars
<1>4. r.client = b /\ r.at = "flag"
  <2>1. PICK x, y, z : closer[t] = [at |-> x, client |-> y, cell |-> z]
    BY <1>3 DEF IsCloser
  <2>2. [[at |-> x, client |-> y, cell |-> z] EXCEPT !.at = "flag"]
             = [at |-> "flag", client |-> y, cell |-> z]
    OBVIOUS
  <2>3. r = [at |-> "flag", client |-> y, cell |-> z] /\ b = y
    BY <2>1, <2>2
  <2> QED BY <2>3
<1> HIDE DEF r, op
<1>5. closer'[t] = r /\ \A u \in Threads \ {t} : closer'[u] = closer[u]
  BY <1>3 DEF SessionTypes
<1>6. b = c => ~Queued(c) /\ o = entCell[c] /\ ~Awaits(mapOps, "add", c)
  BY <1>3 DEF Departs, Queued, Awaits
<1>7. b = c => \A u \in Threads \ {t} : closer[u].client # c
  BY DEF OnceClosed
<1>8. UNCHANGED <<members, entCell, dangling, todo, phase, clusterOps, keepers>>
  BY <1>1 DEF clusterVars, loopVars
<1>9. /\ InPlace(c)'
      /\ b # c => (Queued(c)' => Queued(c))
      /\ Awaits(mapOps', "add", c) => Awaits(mapOps, "add", c)
  <2>1. CASE o = Null
    <3>1. mapOps' = mapOps
      BY <1>1, <2>1
    <3>2. Placed(c)'
      BY <1>8, <3>1 DEF InPlace, Placed, QueueOf
    <3>3. Alternates(clusterOps, c, entCell, keepers)'
      BY <1>8 DEF InPlace, Alternates
    <3> QED BY <3>1, <3>2, <3>3 DEF InPlace, Queued
  <2>2. CASE o # Null
    <3>1. op \in MapOperation /\ mapOps' = Append(mapOps, op)
      BY <1>1, <2>2
    <3>2. op.type # "add" /\ (op.entity = c => ~Queued(c) /\ entCell[c] = op.offset)
      BY <1>2, <1>6
    <3>3. /\ InPlace(c)'
          /\ op.entity # c => Quiet(c)
          /\ Awaits(mapOps', "add", c) => Awaits(mapOps, "add", c)
      BY <1>8, <3>1, <3>2, PushedOf
    <3> QED BY <1>2, <3>3 DEF Quiet
  <2> QED BY <2>1, <2>2
<1>10. (Closing(c) => Closing(c)') /\ (b = c => Closing(c)')
  BY <1>3, <1>4, <1>5 DEF Closing
<1>11. \A u \in Threads : closer'[u].client = c =>
          /\ closer'[u].at # "idle"
          /\ closer'[u].at = "remove" => ~Queued(c)' /\ closer'[u].cell = entCell[c]
          /\ closer'[u].at = "flag" => ~Awaits(mapOps', "add", c)
  <2> SUFFICES ASSUME NEW u \in Threads, closer'[u].client = c
               PROVE  /\ closer'[u].at # "idle"
                      /\ closer'[u].at = "remove" => ~Queued(c)' /\ closer'[u].cell = entCell[c]
                      /\ closer'[u].at = "flag" => ~Awaits(mapOps', "add", c)
    OBVIOUS
  <2>1. CASE u = t
    BY <1>4, <1>5, <1>6, <1>9, <2>1
  <2>2. CASE u # t
    <3>1. closer'[u] = closer[u] /\ b # c
      BY <1>5, <1>7, <2>2
    <3> QED BY <1>9, <3>1 DEF Departs
  <2> QED BY <2>1, <2>2
<1>12. c \in todo' /\ Queued(c)' => Closing(c)'
  BY <1>8, <1>9, <1>10 DEF Departs
<1>13. Departs(c)'
  BY <1>3, <1>8, <1>9, <1>11, <1>12 DEF Departs
<1> QED BY <1>9, <1>13

(* The status is set: it is closed and no arrival is queued.                *)
LEMMA DepartsFlagged ==
    ASSUME SessionTypes, NEW c \in Updaters, InPlace(c), Departs(c),
           NEW t \in Threads, CloseFlag(t)
    PROVE  InPlace(c)' /\ Departs(c)'
<1> DEFINE b == closer[t].client
<1>1. /\ b \in Updaters /\ closer'[t].client = Null
      /\ \A u \in Threads \ {t} : closer'[u] = closer[u]
  BY FlagCloser
<1>2. /\ closer[t].at = "flag" /\ status' = [status EXCEPT ![b] = "closed"]
      /\ conn' = conn /\ UNCHANGED vars
  BY DEF CloseFlag
<1>3. UNCHANGED <<members, entCell, dangling, mapOps, todo, phase, clusterOps, keepers>>
  BY <1>2 DEF vars, mapVars, clusterVars, loopVars
<1>4. c # Null
  BY EntitiesAssumption
<1>5. status'[c] = IF b = c THEN "closed" ELSE status[c]
  BY <1>2 DEF SessionTypes
<1>6. Closing(c) => Closing(c)'
  BY <1>1, <1>5 DEF Closing
<1>7. status'[c] = "closed" => ~Awaits(mapOps, "add", c)
  BY <1>2, <1>5 DEF Departs
<1>8. \A u \in Threads : closer'[u].client = c => u # t /\ closer'[u] = closer[u]
  BY <1>1, <1>4
<1>9. Departs(c)'
  BY <1>2, <1>3, <1>6, <1>7, <1>8 DEF Departs, Queued, Awaits
<1>10. Placed(c)'
  BY <1>3 DEF InPlace, Placed, QueueOf
<1>11. Alternates(clusterOps, c, entCell, keepers)'
  BY <1>3 DEF InPlace, Alternates
<1> QED BY <1>9, <1>10, <1>11 DEF InPlace

(* The game puts a client into the map or takes it out.                     *)
LEMMA DepartsEntered ==
    ASSUME SessionTypes, TypeOK, NEW c \in Updaters, InPlace(c), Departs(c),
           NEW b \in Updaters, EnterOrLeave(b), raced'[c] = {}
    PROVE  InPlace(c)' /\ Departs(c)'
<1>1. /\ conn[b] = "serving" /\ status[b] # "closed"
      /\ raced' = IF Closing(b) THEN [raced EXCEPT ![b] = @ \cup {"moved"}] ELSE raced
      /\ UNCHANGED <<conn, status, closer>>
  BY DEF EnterOrLeave, sessionVars
<1>2. b = c => ~Closing(c)
  BY <1>1 DEF SessionTypes
<1>3. b \in Entities
  BY EntitiesAssumption
<1>4. PICK op \in MapOperation :
          /\ mapOps' = Append(mapOps, op) /\ op.entity = b
          /\ ~Queued(b)
          /\ op.type = "remove" => entCell[b] = op.offset /\ phase # "update"
          /\ op.type = "add" => entCell[b] = Null
          /\ op.type \in {"add", "remove"}
          /\ UNCHANGED <<members, entCell, dangling, clusterVars, loopVars>>
  <2>1. ASSUME NEW o \in Offsets, AddTo(b, o)
        PROVE  \E op \in MapOperation :
                  /\ mapOps' = Append(mapOps, op) /\ op.entity = b
                  /\ ~Queued(b)
                  /\ op.type = "remove" => entCell[b] = op.offset /\ phase # "update"
                  /\ op.type = "add" => entCell[b] = Null
                  /\ op.type \in {"add", "remove"}
                  /\ UNCHANGED <<members, entCell, dangling, clusterVars, loopVars>>
    <3> DEFINE op == [type |-> "add", offset |-> o, entity |-> b, param |-> Null]
    <3>1. op \in MapOperation /\ op.type = "add" /\ op.entity = b
      BY <1>3 DEF MapOperation
    <3>2. /\ mapOps' = Append(mapOps, op) /\ ~Queued(b) /\ entCell[b] = Null
          /\ UNCHANGED <<members, entCell, dangling, clusterVars, loopVars>>
      BY <2>1 DEF AddTo
    <3> HIDE DEF op
    <3> QED BY <3>1, <3>2
  <2>2. ASSUME RemoveFrom(b)
        PROVE  \E op \in MapOperation :
                  /\ mapOps' = Append(mapOps, op) /\ op.entity = b
                  /\ ~Queued(b)
                  /\ op.type = "remove" => entCell[b] = op.offset /\ phase # "update"
                  /\ op.type = "add" => entCell[b] = Null
                  /\ op.type \in {"add", "remove"}
                  /\ UNCHANGED <<members, entCell, dangling, clusterVars, loopVars>>
    <3> DEFINE op == [type |-> "remove", offset |-> entCell[b], entity |-> b, param |-> Null]
    <3>1. entCell[b] \in Offsets
      BY <1>3, <2>2 DEF RemoveFrom, TypeOK
    <3>2. op \in MapOperation /\ op.type = "remove" /\ op.entity = b /\ op.offset = entCell[b]
      BY <1>3, <3>1 DEF MapOperation
    <3>3. /\ mapOps' = Append(mapOps, op) /\ ~Queued(b) /\ phase # "update"
          /\ UNCHANGED <<members, entCell, dangling, clusterVars, loopVars>>
      BY <2>2 DEF RemoveFrom, Running
    <3> HIDE DEF op
    <3> QED BY <3>2, <3>3
  <2> QED BY <2>1, <2>2 DEF EnterOrLeave
<1>5. UNCHANGED <<members, entCell, dangling, todo, phase, clusterOps, keepers>>
  BY <1>4 DEF clusterVars, loopVars
<1>6. InPlace(c)' /\ (b # c => Quiet(c))
  BY <1>4, <1>5, PushedOf
<1>7. CASE b = c
  <2>1. c \notin todo
    BY <1>4, <1>7 DEF InPlace, Placed
  <2>2. status[c] # "closed" /\ \A u \in Threads : closer[u].client # c
    BY <1>2, <1>7 DEF Closing
  <2>3. Departs(c)'
    BY <1>1, <1>5, <1>7, <2>1, <2>2 DEF Departs
  <2> QED BY <1>6, <2>3
<1>8. CASE b # c
  <2>1. Closing(c)' <=> Closing(c)
    BY <1>1 DEF Closing
  <2>2. Departs(c)'
    BY <1>1, <1>5, <1>6, <1>8, <2>1 DEF Departs, Quiet
  <2> QED BY <1>6, <2>2
<1> QED BY <1>7, <1>8

(* The map goes on.                                                         *)
LEMMA DepartsMoved ==
    ASSUME TypeOK, CellsInv, NeverFull, NEW c \in Updaters,
           OnceClosed(c), InPlace(c), Departs(c), MapStep, raced'[c] = {}
    PROVE  InPlace(c)' /\ Departs(c)'
<1>1. /\ ServerLoop /\ UNCHANGED <<conn, status, closer>>
      /\ phase = "update" /\ mapOps' # mapOps /\ c \in todo \ todo' => ~Closing(c)
  BY DEF MapStep, sessionVars
<1>2. phase = "update" /\ mapOps' # mapOps /\ c \in todo \ todo' => ~Queued(c)
  BY <1>1 DEF Departs
<1>3. /\ InPlace(c)'
      /\ Quiet(c) \/ (phase = "update" /\ mapOps' # mapOps /\ c \in todo \ todo')
  BY <1>1, <1>2, ServerLoopOf
<1>4. Closing(c)' <=> Closing(c)
  BY <1>1 DEF Closing
<1>5. conn[c] = "destroyed" => status[c] = "closed"
  BY DEF OnceClosed
<1>6. CASE Quiet(c)
  BY <1>1, <1>3, <1>4, <1>5, <1>6 DEF Departs, Quiet
<1>7. CASE phase = "update" /\ mapOps' # mapOps /\ c \in todo \ todo'
  <2>1. status[c] # "closed" /\ conn[c] # "destroyed" /\ \A u \in Threads : closer[u].client # c
    BY <1>1, <1>5, <1>7 DEF Closing
  <2>2. Departs(c)'
    BY <1>1, <1>7, <2>1 DEF Departs
  <2> QED BY <1>3, <2>2
<1> QED BY <1>3, <1>6, <1>7

LEMMA NextLeaves ==
    ASSUME SessionTypes, OnceInv, LeavesInv, NeverFull, [ClientNext]_allVars
    PROVE  LeavesInv'
<1>1. Up' => TypeOK' /\ CellsInv'
  BY NextMap DEF LeavesInv
<1>2. phase' = "stalls" => clusterOps' = << >>
  BY NextCounted DEF LeavesInv
<1>3. ASSUME NEW c \in Updaters, raced'[c] = {} PROVE InPlace(c)' /\ Departs(c)'
  <2>1. ASSUME raced[c] = {} PROVE InPlace(c) /\ Departs(c) /\ OnceClosed(c)
    BY <2>1 DEF LeavesInv, InPlace, OnceInv
  <2>2. ASSUME raced[c] = {}, UNCHANGED <<mapVars, clusterVars, phase, todo>>,
               UNCHANGED <<status, closer>>, conn'[c] = "destroyed" => conn[c] = "destroyed"
        PROVE  InPlace(c)' /\ Departs(c)'
    BY <2>1, <2>2, DepartsKept DEF mapVars, clusterVars
  <2>3. ASSUME NEW why, Crash(why) PROVE InPlace(c)' /\ Departs(c)'
    BY <1>3, <2>2, <2>3 DEF Crash, clientVars, sessionVars
  <2>4. UNCHANGED allVars => InPlace(c)' /\ Departs(c)'
    BY <1>3, <2>2 DEF allVars, clientVars, sessionVars, vars, loopVars
  <2>5. ASSUME ~Up PROVE InPlace(c)' /\ Departs(c)'
    BY <2>4, <2>5, NothingAfterFault
  <2>6. ASSUME NEW b \in Updaters, Accept(b) PROVE InPlace(c)' /\ Departs(c)'
    <3>1. PICK d \in Updaters : conn' = [conn EXCEPT ![d] = "listening", ![b] = "accepted"]
      BY <2>6 DEF Accept
    <3>2. conn'[c] = "destroyed" => conn[c] = "destroyed"
      BY <3>1 DEF SessionTypes
    <3> QED BY <1>3, <2>2, <2>6, <3>2 DEF Accept, vars, loopVars
  <2>7. ASSUME NEW b \in Updaters, HandleRead(b) \/ Complete(b) PROVE InPlace(c)' /\ Departs(c)'
    BY <1>3, <2>2, <2>3, <2>7 DEF HandleRead, Complete, vars, loopVars
  <2>8. ASSUME NEW b \in Updaters, HandleEof(b) \/ HandleTimeout(b) \/ WorkError(b)
        PROVE  InPlace(c)' /\ Departs(c)'
    <3>1. CASE Crash("late")
      BY <2>3, <3>1
    <3>2. CASE ~Crash("late")
      <4>1. PICK t \in Threads :
                /\ closer[t].at = "idle" /\ BeginClose(t, b) /\ NoteOverlap(t, b)
                /\ UNCHANGED vars /\ UNCHANGED <<conn, status>>
        BY <2>8, <3>2
        DEF HandleEof, HandleTimeout, WorkError, IoIdle, ServerIdle, sessionVars, Threads
      <4>2. raced[c] = {}
        BY <1>3, <4>1 DEF NoteOverlap, SessionTypes
      <4> QED BY <2>1, <4>1, <4>2, DepartsBegun
    <3> QED BY <3>1, <3>2
  <2>9. ASSUME NEW t \in Threads, CloseStep(t), Up PROVE InPlace(c)' /\ Departs(c)'
    <3>1. TypeOK
      BY <2>9 DEF LeavesInv
    <3>2. CASE CloseCancel(t)
      <4>1. raced[c] = {}
        BY <1>3, <3>2 DEF CloseCancel, SessionTypes
      <4> QED BY <1>3, <2>1, <3>2, <4>1, DepartsRead
    <3>3. CASE CloseRemove(t)
      <4>1. CASE Crash("freed")
        BY <2>3, <4>1
      <4>2. CASE ~Crash("freed")
        <5>1. raced[c] = {}
          BY <1>3, <3>3, <4>2 DEF CloseRemove
        <5> QED BY <2>1, <3>1, <3>3, <4>2, <5>1, DepartsQueued
      <4> QED BY <4>1, <4>2
    <3>4. CASE CloseFlag(t)
      <4>1. raced[c] = {}
        BY <1>3, <3>4 DEF CloseFlag
      <4> QED BY <2>1, <3>4, <4>1, DepartsFlagged
    <3> QED BY <2>9, <3>2, <3>3, <3>4 DEF CloseStep
  <2>10. CASE EndJobs \/ StillInMap \/ EndOps \/ PushPending \/ EndPush
    BY <1>3, <2>2, <2>10
    DEF EndJobs, StillInMap, EndOps, PushPending, EndPush, sessionVars, vars, loopVars
  <2>11. CASE HandleAccept \/ DestroyClient
    <3>1. ops # << >> /\ Head(ops).client \in Updaters
      <4>1. ops # << >>
        BY <2>11 DEF HandleAccept, DestroyClient, InOps
      <4>2. Head(ops) \in ServerOperation
        BY <4>1, PopOnce DEF SessionTypes
      <4> QED BY <4>1, <4>2 DEF ServerOperation
    <3>2. CASE HandleAccept
      <4>1. conn'[c] = "destroyed" => conn[c] = "destroyed"
        BY <3>1, <3>2 DEF HandleAccept, SessionTypes
      <4> QED BY <1>3, <2>2, <3>2, <4>1 DEF HandleAccept, vars, loopVars
    <3>3. CASE DestroyClient
      <4>1. CASE Crash("double")
        BY <2>3, <4>1
      <4>2. CASE ~Crash("double")
        <5>1. /\ conn' = [conn EXCEPT ![Head(ops).client] = "destroyed"]
              /\ entCell[Head(ops).client] = Null
              /\ UNCHANGED vars /\ UNCHANGED <<status, closer, raced>>
          BY <3>3, <4>2 DEF DestroyClient, InMap
        <5>2. InPlace(c) /\ Departs(c)
          BY <1>3, <2>1, <5>1
        <5>3. UNCHANGED <<members, entCell, dangling, mapOps, todo, phase, clusterOps, keepers>>
          BY <5>1 DEF vars, mapVars, clusterVars, loopVars
        <5>4. CASE Head(ops).client # c
          <6>1. conn'[c] = conn[c]
            BY <3>1, <5>1, <5>4 DEF SessionTypes
          <6> QED BY <5>1, <5>2, <5>3, <6>1, DepartsKept
        <5>5. CASE Head(ops).client = c
          <6>1. entCell[c] = Null
            BY <5>1, <5>5
          <6>2. Departs(c)'
            BY <5>1, <5>2, <5>3, <6>1 DEF Departs, Queued, Closing, Awaits
          <6>3. Placed(c)'
            BY <5>2, <5>3 DEF InPlace, Placed, QueueOf
          <6>4. Alternates(clusterOps, c, entCell, keepers)'
            BY <5>2, <5>3 DEF InPlace, Alternates
          <6> QED BY <6>2, <6>3, <6>4 DEF InPlace
        <5> QED BY <5>4, <5>5
      <4> QED BY <4>1, <4>2
    <3> QED BY <2>11, <3>2, <3>3
  <2>12. ASSUME MapStep, Up PROVE InPlace(c)' /\ Departs(c)'
    <3>1. TypeOK /\ CellsInv
      BY <2>12 DEF LeavesInv
    <3>2. raced[c] = {}
      BY <1>3, <2>12 DEF MapStep
    <3> QED BY <1>3, <2>1, <2>12, <3>1, <3>2, DepartsMoved
  <2>13. ASSUME NEW b \in Updaters, EnterOrLeave(b), Up PROVE InPlace(c)' /\ Departs(c)'
    <3>1. TypeOK
      BY <2>13 DEF LeavesInv
    <3>2. raced[c] = {}
      BY <1>3, <2>13 DEF EnterOrLeave, SessionTypes
    <3> QED BY <1>3, <2>1, <2>13, <3>1, <3>2, DepartsEntered
  <2>14. "io" \in Threads /\ "server" \in Threads
    BY DEF Threads
  <2> QED
    BY <2>4, <2>5, <2>6, <2>7, <2>8, <2>9, <2>10, <2>11, <2>12, <2>13, <2>14,
       PlayersAssumption
    DEF ClientNext, IoStep, ServerStep
<1>4. mapOps' \in Seq(MapOperation)
  <2>1. CASE ~Up
    BY <2>1, NothingAfterFault DEF allVars, vars, mapVars, LeavesInv
  <2>2. CASE Up
    <3>1. ASSUME [Next]_vars PROVE mapOps' \in Seq(MapOperation)
      <4>1. TypeOK'
        BY <2>2, <3>1, NextTypes DEF LeavesInv
      <4> QED BY <4>1 DEF TypeOK
    <3>2. CASE UNCHANGED vars \/ ServerLoop
      BY <3>1, <3>2 DEF Next
    <3>3. CASE \E c \in Updaters : RemoveFrom(c) \/ \E o \in Offsets : AddTo(c, o)
      BY <3>1, <3>3, EntitiesAssumption DEF Next, Callers
    <3>4. ASSUME NEW t \in Threads, CloseRemove(t), ~Crash("freed")
          PROVE  mapOps' \in Seq(MapOperation)
      <4>1. Up'
        BY <2>2, <3>4 DEF CloseRemove, loopVars, Up
      <4> QED BY <1>1, <4>1 DEF TypeOK
    <3>5. CASE UNCHANGED <<mapVars, clusterVars, phase, todo, clientVars>>
      BY <3>5 DEF mapVars, LeavesInv
    <3> QED BY <3>2, <3>3, <3>4, <3>5, StepsOfTheMap
  <2> QED BY <2>1, <2>2
<1> QED BY <1>1, <1>2, <1>3, <1>4 DEF LeavesInv, InPlace

(* A client whose close nothing interfered with is destroyed only after it  *)
(* has left the map, with any number of clients and any grid, as long as    *)
(* the queue of the cluster is never full: Cluster::remove does not look at *)
(* the result of its push, and an UNKEEP that is lost would leave a freed   *)
(* entity among the keepers.                                                *)
THEOREM ClientsDestroyedOutsideMap ==
    ClientSpec /\ []NeverFull => []DestroyedOutsideMap
<1>1. ClientInit => LeavesInv
  <2> SUFFICES ASSUME ClientInit PROVE LeavesInv
    OBVIOUS
  <2>1. TypeOK
    BY BoundsAssumption, EntitiesAssumption DEF ClientInit, Init, TypeOK, Phases
  <2>2. CellsInv
    BY InitCells DEF ClientInit
  <2>3. ASSUME NEW c \in Updaters
        PROVE  Placed(c) /\ Alternates(clusterOps, c, entCell, keepers) /\ Departs(c)
    <3>1. c \in Entities /\ c # Null /\ Null \notin Offsets
      BY EntitiesAssumption
    <3>2. /\ mapOps = << >> /\ clusterOps = << >> /\ entCell[c] = Null /\ keepers[c] = 0
          /\ todo = {} /\ dangling = {} /\ \A o \in Offsets : c \notin members[o]
      BY <3>1 DEF ClientInit, Init
    <3>3. Placed(c)
      BY <3>1, <3>2 DEF Placed, QueueOf
    <3>4. Alternates(clusterOps, c, entCell, keepers)
      BY <3>2 DEF Alternates
    <3>5. \A t \in Threads : closer[t].client # c
      BY <3>1 DEF ClientInit, NotClosing
    <3>6. Departs(c)
      BY <3>2, <3>5 DEF Departs, Awaits
    <3> QED BY <3>3, <3>4, <3>6
  <2>4. mapOps \in Seq(MapOperation)
    BY <2>1 DEF TypeOK
  <2> QED BY <2>1, <2>2, <2>3, <2>4 DEF LeavesInv, ClientInit, Init
<1>2. OnceInv /\ LeavesInv => DestroyedOutsideMap
  <2> SUFFICES ASSUME OnceInv, LeavesInv, NEW c \in Updaters, conn[c] = "destroyed", raced[c] = {}
               PROVE  /\ \A o \in Offsets : c \notin members[o]
                      /\ ~Queued(c) /\ entCell[c] = Null
                      /\ phase = "stalls" => keepers[c] = 0
    BY DEF DestroyedOutsideMap
  <2>1. Placed(c) /\ Alternates(clusterOps, c, entCell, keepers) /\ Departs(c)
    BY DEF LeavesInv
  <2>2. entCell[c] = Null /\ ~Awaits(mapOps, "add", c)
    BY <2>1 DEF Departs, OnceInv, OnceClosed
  <2>3. \A o \in Offsets : c \notin members[o]
    BY <2>1, <2>2, EntitiesAssumption DEF Placed
  <2>4. phase = "stalls" => keepers[c] = 0
    BY <2>1, <2>2 DEF Alternates, LeavesInv
  <2>5. ~Queued(c)
    <3> SUFFICES ASSUME NEW i \in 1..Len(mapOps), mapOps[i].entity = c PROVE FALSE
      BY DEF Queued
    <3>1. mapOps[i] \in MapOperation
      BY DEF LeavesInv
    <3>2. mapOps[i].type = "remove" /\ mapOps[i].offset # Null
      BY <2>2, <3>1, EntitiesAssumption DEF MapOperation, Awaits
    <3> QED BY <2>1, <2>2, <3>2 DEF Placed, QueueOf
  <2> QED BY <2>2, <2>3, <2>4, <2>5
<1>3. SessionTypes /\ OnceInv /\ LeavesInv /\ NeverFull /\ [ClientNext]_allVars => LeavesInv'
  BY NextLeaves
<1>4. ClientSpec => []SessionTypes /\ []OnceInv
  BY InitOnce, NextOnce, SessionTypesInvariant, PTL DEF ClientSpec
<1> QED BY <1>1, <1>2, <1>3, <1>4, PTL DEF ClientSpec
=============================================================================
