------------------------------ MODULE MCUplink ------------------------------
(***************************************************************************)
(* The command queue, the confirmation tracker and the transmission        *)
(* scheduler of the uplink on one small set of commands, and the caches,   *)
(* snapshots and batches.  They share no state and none calls another, so  *)
(* a behaviour exercises one of them: interleaving their steps would only  *)
(* multiply the states.                                                    *)
(***************************************************************************)
EXTENDS CommandQueue, ConfirmationTracker, TransmissionScheduler, BoundedStores

CONSTANTS c1, c2, p1, p2, t1, t2

VARIABLE subject  \* the component a behaviour exercises

\* Dependencies that can be met, that chain, and that cannot be met (a command
\* on itself).
MCCommands == {c1, c2}
MCIdOrder == [c \in MCCommands |-> IF c = c1 THEN 1 ELSE 2]
MCDependencies == {{}, {c1}, {c2}, {c1, c2}}

\* Windows that are open, adjacent and still to come.
MCPasses == {p1, p2}
MCPassWindows == {[start |-> 0, end |-> 1], [start |-> 2, end |-> 3]}
MCEstimate == [cp \in Commands \X Passes |-> IF cp[1] = c1 \/ cp[2] = p2 THEN 2 ELSE 1]
MCCallers == {{t1}, {t1, t2}}

UplinkInit ==
  /\ subject \in {"queue", "tracker", "scheduler", "lru", "timed", "orbit", "fragments",
                  "snapshots", "pipeline", "refresh"}
  /\ QueueInit
  /\ TrackerInit
  /\ SchedulerInit
  /\ StoresInit
  /\ subject # "scheduler" => callers = {t1} /\ conflict_strategy = "Fcfs"

\* All stores but the one whose variables are left out are idle.
UplinkStays == UNCHANGED <<subject, queueVars, trackerVars, schedulerVars>>

UplinkNext ==
  \/ subject = "queue" /\ QueueNext /\ UNCHANGED <<subject, trackerVars, schedulerVars, storeVars>>
  \/ subject = "tracker" /\ TrackerNext /\ UNCHANGED <<subject, queueVars, schedulerVars, storeVars>>
  \/ subject = "scheduler" /\ SchedulerNext /\ UNCHANGED <<subject, queueVars, trackerVars, storeVars>>
  \/ subject = "lru" /\ LruNext /\ UplinkStays
     /\ UNCHANGED <<timedVars, orbitVars, fragmentVars, snapshotVars, pipelineVars, refreshed>>
  \/ subject = "timed" /\ TimedNext /\ UplinkStays
     /\ UNCHANGED <<lruVars, orbitVars, fragmentVars, snapshotVars, pipelineVars, refreshed>>
  \/ subject = "orbit" /\ OrbitNext /\ UplinkStays
     /\ UNCHANGED <<lruVars, timedVars, fragmentVars, snapshotVars, pipelineVars, refreshed>>
  \/ subject = "fragments" /\ FragmentNext /\ UplinkStays
     /\ UNCHANGED <<lruVars, timedVars, orbitVars, snapshotVars, pipelineVars, refreshed>>
  \/ subject = "snapshots" /\ SnapshotNext /\ UplinkStays
     /\ UNCHANGED <<store_now, lruVars, timedVars, orbitVars, fragmentVars, pipelineVars, refreshed>>
  \/ subject = "pipeline" /\ PipelineNext /\ UplinkStays
     /\ UNCHANGED <<store_now, lruVars, timedVars, orbitVars, fragmentVars, snapshotVars, refreshed>>
  \/ subject = "refresh" /\ RefreshNext /\ UplinkStays
     /\ UNCHANGED <<store_now, lruVars, timedVars, orbitVars, fragmentVars, snapshotVars, pipelineVars>>

\* Time passes, and timeout_checker_task(), an endless loop around a sleep, is
\* polled by the runtime once it was started with the tracker.  That it is ever
\* started is not assumed, nor anything of the satellite or the callers.
TrackerFairness ==
  /\ WF_trackerVars(subject = "tracker" /\ CheckTimeouts)
  /\ \A c \in Commands :
       /\ WF_trackerVars(subject = "tracker" /\ TimePasses(c))
       /\ WF_trackerVars(subject = "tracker" /\ CheckerRetry(c))

UplinkSpec ==
  UplinkInit /\ [][UplinkNext]_<<subject, queueVars, trackerVars, schedulerVars, storeVars>>
  /\ TrackerFairness

\* The state of the queue, the tracker, the scheduler and the stores has its type.
UplinkTypeOK == QueueTypeOK /\ TrackerTypeOK /\ SchedulerTypeOK /\ StoresTypeOK

=============================================================================
