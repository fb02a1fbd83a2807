----------------------------- MODULE MCExecutor -----------------------------
(* Small executors: works of two clients and tasks due at different times.  *)
EXTENDS Executor, TLC

CONSTANTS a, b, c,   \* works; c is a future
          t1, t2,    \* tasks
          x, y       \* clients

TwoClients == (a :> x) @@ (b :> y) @@ (c :> x)

DueTimes == (t1 :> 0) @@ (t2 :> 1)
=============================================================================
