------------------------------- MODULE RwLocks -------------------------------
(***************************************************************************)
(* Tasks that run operations under tokio::sync::RwLock, as the async       *)
(* methods of GroundCore do.  An operation is the sequence of lock steps   *)
(* of its body: take a read guard, take a write guard, or drop a guard     *)
(* before the end of the function; every guard still held is dropped when  *)
(* the function returns.  A lock serves its waiters in the order they      *)
(* came, so a reader waits behind a writer that is already waiting.        *)
(***************************************************************************)
EXTENDS Naturals, Sequences

CONSTANTS
  Tasks,     \* concurrent callers
  Programs,  \* operation name -> its lock steps
  Ops,       \* the operations the callers use
  Idle       \* no operation

Locks == UNION {{Programs[o][i].lock : i \in DOMAIN Programs[o]} : o \in Ops}

VARIABLES
  op,       \* the operation each task runs
  pc,       \* the lock step each task is at
  readers,  \* tasks with a read guard, per lock
  writer,   \* tasks with the write guard, per lock
  waiters   \* queue of tasks waiting, per lock

vars == <<op, pc, readers, writer, waiters>>

Init ==
  /\ op = [t \in Tasks |-> Idle]
  /\ pc = [t \in Tasks |-> 1]
  /\ readers = [l \in Locks |-> {}]
  /\ writer = [l \in Locks |-> {}]
  /\ waiters = [l \in Locks |-> <<>>]

Running(t) == op[t] # Idle

Done(t) == Running(t) /\ pc[t] > Len(Programs[op[t]])

Step(t) == Programs[op[t]][pc[t]]

Waiting(t) == \E l \in Locks : \E i \in DOMAIN waiters[l] : waiters[l][i] = t

\* A caller starts an operation.
Call(t, o) ==
  /\ ~ Running(t)
  /\ op' = [op EXCEPT ![t] = o]
  /\ pc' = [pc EXCEPT ![t] = 1]
  /\ UNCHANGED <<readers, writer, waiters>>

\* lock.read().await or lock.write().await: join the lock's queue.
Request(t) ==
  /\ Running(t) /\ ~ Done(t) /\ ~ Waiting(t)
  /\ Step(t).do \in {"read", "write"}
  /\ waiters' = [waiters EXCEPT ![Step(t).lock] = Append(@, t)]
  /\ UNCHANGED <<op, pc, readers, writer>>

Compatible(t, l) ==
  /\ writer[l] = {}
  /\ Step(t).do = "write" => readers[l] = {}

\* Only the first waiter is served.
Grant(l) ==
  /\ waiters[l] # <<>>
  /\ LET t == Head(waiters[l]) IN
       /\ Compatible(t, l)
       /\ IF Step(t).do = "read"
          THEN /\ readers' = [readers EXCEPT ![l] = @ \cup {t}]
               /\ UNCHANGED writer
          ELSE /\ writer' = [writer EXCEPT ![l] = {t}]
               /\ UNCHANGED readers
       /\ pc' = [pc EXCEPT ![t] = @ + 1]
  /\ waiters' = [waiters EXCEPT ![l] = Tail(@)]
  /\ UNCHANGED op

\* drop(guard), or the end of the guard's block.
Drop(t) ==
  /\ Running(t) /\ ~ Done(t)
  /\ Step(t).do = "drop"
  /\ readers' = [readers EXCEPT ![Step(t).lock] = @ \ {t}]
  /\ writer' = [writer EXCEPT ![Step(t).lock] = @ \ {t}]
  /\ pc' = [pc EXCEPT ![t] = @ + 1]
  /\ UNCHANGED <<op, waiters>>

\* The function returns and its guards go out of scope.
Return(t) ==
  /\ Done(t)
  /\ op' = [op EXCEPT ![t] = Idle]
  /\ readers' = [l \in Locks |-> readers[l] \ {t}]
  /\ writer' = [l \in Locks |-> writer[l] \ {t}]
  /\ UNCHANGED <<pc, waiters>>

Next ==
  \/ \E t \in Tasks, o \in Ops : Call(t, o)
  \/ \E t \in Tasks : Request(t) \/ Drop(t) \/ Return(t)
  \/ \E l \in Locks : Grant(l)

\* The runtime polls every task that can go on, and a free lock wakes its first
\* waiter.  Callers need not call.
Fairness ==
  /\ \A t \in Tasks : WF_vars(Request(t) \/ Drop(t) \/ Return(t))
  /\ \A l \in Locks : WF_vars(Grant(l))

Spec == Init /\ [][Next]_vars /\ Fairness

\* Every operation of Ops that is called returns: no lock order, upgrade of a
\* guard or queued writer between two reads leaves tasks waiting for each other,
\* and no loop keeps a guard for ever.
EveryCallReturns == \A t \in Tasks : Running(t) ~> ~ Running(t)

==============================================================================
