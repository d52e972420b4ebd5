----------------------------- MODULE LockPrograms -----------------------------
(***************************************************************************)
(* The lock steps of the async methods of hardware/src/pool.rs and of      *)
(* uplink/src, in source order.  A path that asks for fewer of the locks   *)
(* and holds no more at each request meets no wait that the full path does *)
(* not meet; a path of its own is listed beside the full one only when one *)
(* of the two never returns.                                               *)
(***************************************************************************)
EXTENDS RwLocks, TLC

Read(l) == [do |-> "read", lock |-> l]
Write(l) == [do |-> "write", lock |-> l]
Dropped(l) == [do |-> "drop", lock |-> l]

\* A loop over what the guard of l protects that no later step ends.
ScanForEver(l) == [do |-> "scan", lock |-> l]

PoolReleaseReversed ==
  "release" :> <<Write("allocations"), Write("devices")>>

\* HardwarePool::release(): the read guard ends with its block.
PoolRelease ==
  "release" :> <<Read("allocations"), Dropped("allocations"),
                 Write("devices"), Write("allocations")>>

\* HardwarePool
PoolPrograms ==
  [ add_device      |-> <<Write("devices")>>,
    get_device      |-> <<Read("devices")>>,
    find_available  |-> <<Read("devices"), Write("circuit_breakers")>>,
    allocate        |-> <<Write("devices"), Write("allocations")>>,
    get_allocation  |-> <<Read("allocations")>>,
    mark_unhealthy  |-> <<Write("devices"), Write("circuit_breakers")>>,
    record_success  |-> <<Write("circuit_breakers")>>,
    circuit_state   |-> <<Read("circuit_breakers")>> ] @@ PoolRelease

\* CommandQueue, without dequeue().
QueuePrograms ==
  [ enqueue                    |-> <<Write("queue"), Write("commands")>>,
    enqueue_with_dependencies  |-> <<Write("queue"), Write("commands"), Write("dependencies")>>,
    update_state               |-> <<Write("commands")>>,
    get_command                |-> <<Read("commands")>> ]

\* CommandQueue::dequeue(): on an empty queue, when the first command is ready,
\* and when it waits for a dependency.  The three guards of its first lines live
\* until it returns.  A command that is not ready is pushed back under the
\* priority it was popped with, so the next pop() takes it again, and nobody can
\* acknowledge its dependency while the loop holds commands.read().
DequeuePrograms ==
  [ dequeue_empty   |-> <<Write("queue"), Read("commands"), Read("dependencies")>>,
    dequeue_ready   |-> <<Write("queue"), Read("commands"), Read("dependencies"),
                          Write("commands")>>,
    dequeue_unready |-> <<Write("queue"), Read("commands"), Read("dependencies"),
                          ScanForEver("queue")>> ]

\* SdrTransmitter and ModemTransmitter.  abort() shadows its read guard of the
\* current transmission, which lives on when it asks for the write guard; when
\* the transmission is another one it returns before.
TransmitterPrograms ==
  [ transmit   |-> <<Write("status"), Dropped("status"), Write("current_transmission")>>,
    get_status |-> <<Read("status")>>,
    get_state  |-> <<Read("status"), Read("current_transmission")>>,
    abort      |-> <<Read("current_transmission")>>,
    abort_current |-> <<Read("current_transmission"), Write("status"),
                        Write("current_transmission")>> ]

\* TransmissionScheduler::schedule(), on the path through can_override(): the
\* guard on windows lives until it returns, the guards of has_conflict() and
\* can_override() end with those functions.
ScheduleProgram ==
  "schedule" :> <<Read("windows"), Read("scheduled"), Dropped("scheduled"),
                  Read("scheduled"), Read("pending"), Dropped("pending"),
                  Dropped("scheduled"), Write("scheduled")>>

\* TransmissionScheduler
SchedulerPrograms ==
  [ add_window       |-> <<Write("windows")>>,
    get_window       |-> <<Read("windows")>>,
    remove_scheduled |-> <<Write("scheduled")>>,
    get_scheduled    |-> <<Read("scheduled")>> ] @@ ScheduleProgram

-------------------------------------------------------------------------------
(* Two tasks: one that holds and one that queues between two of its steps,  *)
(* or each holding what the other waits for.                                *)

CONSTANTS t1, t2

TwoTasks == {t1, t2}

MCPrograms ==
  PoolPrograms @@ QueuePrograms @@ DequeuePrograms @@ TransmitterPrograms
  @@ SchedulerPrograms

\* The paths that ask for the write guard of a lock they hold a read guard of.
SelfWaiting == {"dequeue_ready", "abort_current"}

\* The path whose loop has no way out.
Scanning == {"dequeue_unready"}

NeverReturning == SelfWaiting \cup Scanning
AllOthers == DOMAIN MCPrograms \ NeverReturning

===============================================================================
