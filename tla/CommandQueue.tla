---------------------------- MODULE CommandQueue ----------------------------
(***************************************************************************)
(* The uplink command queue, uplink/src/queue.rs: a priority queue of      *)
(* command identifiers, the commands by identifier, and what each depends  *)
(* on.                                                                     *)
(*                                                                         *)
(* dequeue() takes the write guard of the queue and read guards of the two *)
(* maps and keeps them until it returns, so between its steps no other     *)
(* operation changes anything: the operations that write are actions whose *)
(* guard is that no dequeue() is under way.  Having found a ready command, *)
(* dequeue() asks for the write guard of a map it holds a read guard of,   *)
(* which is never granted (run locks_dequeue): from there only  *)
(* a caller that drops the future goes on.                                 *)
(***************************************************************************)
EXTENDS Naturals, FiniteSets, UplinkCommands

CONSTANT Dependencies   \* the depends_on lists callers pass

ASSUME QueueAssumption == Dependencies \subseteq SUBSET Commands

VARIABLES
  queue,         \* identifiers in the priority queue
  state,         \* QueuedCommand.state in the command map, or "Unknown"
  dependencies,  \* depends_on of each command; {} when there is no entry
  phase,         \* of the dequeue() under way, or "idle"
  popped,        \* the command it took from the queue
  abandoned      \* history: commands a dropped dequeue() had taken

queueVars == <<queue, state, dependencies, phase, popped, abandoned>>

Known(c) == state[c] # "Unknown"

QueueInit ==
  /\ queue = {}
  /\ state = [c \in Commands |-> "Unknown"]
  /\ dependencies = [c \in Commands |-> {}]
  /\ phase = "idle"
  /\ popped = None
  /\ abandoned = {}

\* enqueue(): the dependencies of an earlier enqueue of the command stay.
Enqueue(c) ==
  /\ phase = "idle"
  /\ queue' = queue \cup {c}
  /\ state' = [state EXCEPT ![c] = "Queued"]
  /\ abandoned' = abandoned \ {c}
  /\ UNCHANGED <<dependencies, phase, popped>>

EnqueueWithDependencies(c, depends_on) ==
  /\ phase = "idle"
  /\ queue' = queue \cup {c}
  /\ state' = [state EXCEPT ![c] = "Queued"]
  /\ dependencies' = [dependencies EXCEPT ![c] = depends_on]
  /\ abandoned' = abandoned \ {c}
  /\ UNCHANGED <<phase, popped>>

UpdateStateUnlocked(c, s) ==
  /\ Known(c)
  /\ state' = [state EXCEPT ![c] = s]
  /\ UNCHANGED <<queue, dependencies, phase, popped, abandoned>>

\* update_state(), as the sender reports the command's progress.
UpdateState(c, s) ==
  /\ phase = "idle"
  /\ Known(c)
  /\ state' = [state EXCEPT ![c] = s]
  /\ UNCHANGED <<queue, dependencies, phase, popped, abandoned>>

\* cancel(): whatever the command's state; it stays in the queue.
Cancel(c) ==
  /\ phase = "idle"
  /\ Known(c)
  /\ state' = [state EXCEPT ![c] = "Cancelled"]
  /\ UNCHANGED <<queue, dependencies, phase, popped, abandoned>>

-----------------------------------------------------------------------------
(* dequeue() *)

\* QueuedCommand is the queue's priority, and its derived order compares the
\* command's identifier first: the greatest identifier is popped.
Pops(c) == c \in queue /\ \A d \in queue : IdOrder[d] <= IdOrder[c]

\* All dependencies are satisfied; one that was never enqueued is not.
Satisfied(c) == \A d \in dependencies[c] : state[d] = "Acknowledged"

DequeueBegin ==
  /\ phase = "idle"
  /\ phase' = "scanning"
  /\ UNCHANGED <<queue, state, dependencies, popped, abandoned>>

\* pop() found nothing: the loop ends, dequeue() returns None.
DequeueNone ==
  /\ phase = "scanning"
  /\ queue = {}
  /\ phase' = "idle"
  /\ UNCHANGED <<queue, state, dependencies, popped, abandoned>>

\* pop(): the loop looks at the next command.
DequeuePop(c) ==
  /\ phase = "scanning"
  /\ Pops(c)
  /\ queue' = queue \ {c}
  /\ popped' = c
  /\ phase' = "checking"
  /\ UNCHANGED <<state, dependencies, abandoned>>

\* The popped command has to wait: it is pushed back and the loop goes on.
DequeueSkip ==
  /\ phase = "checking"
  /\ ~ Satisfied(popped)
  /\ queue' = queue \cup {popped}
  /\ popped' = None
  /\ phase' = "scanning"
  /\ UNCHANGED <<state, dependencies, abandoned>>

\* The popped command is ready; the write guard is asked for.
DequeueReady ==
  /\ phase = "checking"
  /\ Satisfied(popped)
  /\ phase' = "marking"
  /\ UNCHANGED <<queue, state, dependencies, popped, abandoned>>

\* The caller drops the future that waits (a timeout around dequeue()): the
\* guards go, the popped command does not come back.
DequeueDropped ==
  /\ phase = "marking"
  /\ phase' = "idle"
  /\ popped' = None
  /\ abandoned' = abandoned \cup {popped}
  /\ UNCHANGED <<queue, state, dependencies>>

QueueNext ==
  \/ \E c \in Commands :
       \/ Enqueue(c) \/ Cancel(c) \/ DequeuePop(c)
       \/ \E D \in Dependencies : EnqueueWithDependencies(c, D)
       \/ \E s \in {"Transmitting", "Acknowledged", "Failed"} : UpdateState(c, s)
  \/ DequeueBegin \/ DequeueNone \/ DequeueSkip \/ DequeueReady \/ DequeueDropped

QueueSpec == QueueInit /\ [][QueueNext]_queueVars

-----------------------------------------------------------------------------
(* Properties *)

\* Every field of the queue has its type.
QueueTypeOK ==
  /\ queue \subseteq Commands
  /\ state \in [Commands -> CommandState \cup {"Unknown"}]
  /\ dependencies \in [Commands -> SUBSET Commands]
  /\ phase \in {"idle", "scanning", "checking", "marking"}
  /\ popped \in Commands \cup {None}
  /\ popped # None <=> phase \in {"checking", "marking"}
  /\ abandoned \subseteq Commands

\* The command dequeue() has taken is one whose dependencies are acknowledged,
\* and still are while it waits to mark it: no state update falls between the
\* check and the mark.
PoppedIsReady == phase = "marking" => Satisfied(popped)

\* A queued command is in the queue, or in the hands of a dequeue(): the
\* commands the loop passes over are not lost, only what a dropped dequeue()
\* had taken is.
QueuedIsReachable ==
  \A c \in Commands :
    state[c] = "Queued" => c \in queue \/ c = popped \/ c \in abandoned

\* dequeue() hands out what may be sent and loses nothing it passes over.
DequeueIsSound == PoppedIsReady /\ QueuedIsReachable

=============================================================================
