-------------------------- MODULE MissionPlanning --------------------------
(***************************************************************************)
(* Mission planning, oisl/src/mission: the intent compiler (compiler.rs)   *)
(* turns an intent into tasks, using the constellation (state_machine.rs)  *)
(* and the router; the caller hands the tasks to the TaskingScheduler      *)
(* (scheduler.rs), whose loop is taken a task at a time.  Time counts      *)
(* units of 30 s, the time of an acquisition and of a hop.                 *)
(*                                                                         *)
(* A task's id is its place in `tasks`; the code draws a UUID.  The link   *)
(* reservations of a plan, which nothing but the validator reads, its      *)
(* times and its confidence are left out.                                  *)
(***************************************************************************)
EXTENDS SpatiotemporalRouter

CONSTANTS
  Intents,         \* [kind, ...] with kind "relay", "observation", "custody" or "downlink"
  TerminalAssets,  \* assets that are optical terminals
  Host,            \* the satellite each belongs to
  Stations,
  Availability,    \* the windows of each ground station
  CloudCover,      \* its cloud_cover_percent
  MaxIntents,      \* bound on the compilations
  MaxTasks         \* bound on the tasks

ASSUME MissionAssumption ==
  /\ Host \in [TerminalAssets -> Craft] /\ TerminalAssets \cap Craft = {}
  /\ CloudCover \in [Stations -> 0..100]
  /\ MaxIntents \in Nat /\ MaxTasks \in Nat
  /\ Nothing \notin Craft /\ Nothing \notin [start : Nat, end : Nat]
  /\ \A i \in Intents :
       /\ i.kind = "relay" => i.max_latency \in Latencies \cup {Unbounded}
       /\ i.kind = "observation" => i.revisit \in Nat
       /\ i.kind = "custody" => i.persistence \in Nat
       /\ i.kind = "downlink" => i.ground_window \in [start : Nat, end : Nat]

VARIABLES
  satellites,          \* of the ConstellationState
  optical_terminals,   \* of the ConstellationState
  tasks,               \* the tasks of all plans
  unsubmitted,         \* those the caller has not enqueued
  task_queue,
  scheduled_tasks,     \* start and end of a scheduled task, or Nothing
  resource_conflicts,  \* the pairs of tasks of recorded conflicts
  refused,             \* the tasks schedule() returned WindowExceeded for
  planner,             \* "idle", "routing" or "scheduling"
  compiled             \* how many intents were compiled

constellationVars == <<satellites, optical_terminals>>
planVars == <<tasks, unsubmitted, compiled>>
taskingVars == <<task_queue, scheduled_tasks, resource_conflicts, refused>>
missionVars == <<routerVars, constellationVars, planVars, taskingVars, planner>>

MissionInit ==
  /\ RouterInit
  /\ satellites = {}
  /\ optical_terminals = {}
  /\ tasks = <<>>
  /\ unsubmitted = {}
  /\ task_queue = <<>>
  /\ scheduled_tasks = <<>>
  /\ resource_conflicts = {}
  /\ refused = {}
  /\ planner = "idle"
  /\ compiled = 0

-----------------------------------------------------------------------------
(* The constellation *)

\* The constellation is filled before the first plan is compiled (a bound).
UpdateSatellite(s) ==
  /\ planner = "idle" /\ compiled = 0
  /\ satellites' = satellites \cup {s}
  /\ UNCHANGED <<routerVars, optical_terminals, planVars, taskingVars, planner>>

UpdateTerminal(a) ==
  /\ planner = "idle" /\ compiled = 0
  /\ optical_terminals' = optical_terminals \cup {a}
  /\ UNCHANGED <<routerVars, satellites, planVars, taskingVars, planner>>

\* resolve_asset_to_satellite(): a terminal's satellite need not be known.
Resolve(asset) ==
  IF asset \in satellites THEN asset
  ELSE IF asset \in optical_terminals THEN Host[asset]
  ELSE Nothing

Overlapping(v, w) == v.start < w.end /\ v.end > w.start

\* find_optimal_ground_station() finds one: an availability overlaps the window,
\* which it need not cover, and the sky is clear enough.  Which of several is
\* left out; the score of every candidate is above the initial 0.
HasStation(s, window) ==
  /\ s \in satellites
  /\ \E g \in Stations : CloudCover[g] <= 80 /\ \E a \in Availability[g] : Overlapping(a, window)

-----------------------------------------------------------------------------
(* The compiler *)

Task(s, kind, peer, window, deps) ==
  [satellite_id |-> s, kind |-> kind, peer |-> peer,
   scheduled_window |-> window, dependencies |-> deps]

\* The tasks of a plan so far with one more; ids go on from those of earlier plans.
NextId(plan) == Len(tasks) + Len(plan) + 1

\* compile_data_relay(): one link after the other along the route.
RelayTasks(hops) ==
  [i \in DOMAIN hops |->
    Task(hops[i].from, "link", hops[i].to, hops[i].use_window,
         IF i > 1 THEN {Len(tasks) + i - 1} ELSE {})]

\* compile_observation(): a window each revisit, at least 60 s apart, the
\* satellites in turn, each followed by five minutes for a downlink if there is
\* a station for it.
ObservationTurn(plan, i, revisit, f, order) ==
  LET s == order[(i % Len(order)) + 1]
      obs == [start |-> f.start + i * revisit,
              end |-> f.start + i * revisit + Min({revisit, 20})]
      down == [start |-> obs.end, end |-> obs.end + 10]
      observe == Task(s, "observation", Nothing, obs, {})
  IN  IF HasStation(s, down)
      THEN plan \o <<observe, Task(s, "downlink", Nothing, down, {NextId(plan)})>>
      ELSE Append(plan, observe)

ObservationTasks(intent, f, order) ==
  LET revisit == Max({intent.revisit, 2})
  IN  FoldLeft(LAMBDA plan, i : ObservationTurn(plan, i, revisit, f, order), <<>>,
               [i \in 1..Max({(f.end - f.start) \div revisit, 1}) |-> i - 1])

\* compile_custody(): ten-minute segments, each begun a minute before the
\* previous one ends; their number is counted without the overlap.
CustodyTasks(target, intent, f, order) ==
  LET horizon == Min({f.end - f.start, intent.persistence})
      Segment(i) == [start |-> f.start + i * 18, end |-> f.start + i * 18 + 20]
  IN  [i \in 1..Max({(horizon + 19) \div 20, 1}) |->
        Task(order[((i - 1) % Len(order)) + 1], "link", target, Segment(i - 1),
             IF i > 1 THEN {Len(tasks) + i - 1} ELSE {})]

\* The plan goes to the caller.
Deliver(plan) ==
  /\ Len(tasks) + Len(plan) <= MaxTasks
  /\ tasks' = tasks \o plan
  /\ unsubmitted' = unsubmitted \cup {Len(tasks) + i : i \in DOMAIN plan}
  /\ scheduled_tasks' = scheduled_tasks \o [i \in DOMAIN plan |-> Nothing]

Compiling == planner = "idle" /\ compiled < MaxIntents /\ compiled' = compiled + 1

\* An error leaves everything as it was.
CompileFails == UNCHANGED <<tasks, unsubmitted, scheduled_tasks>>

\* compile() of a relay up to the router's answer.
CompileRelay(intent, f) ==
  LET source == Resolve(intent.source)
      destination == Resolve(intent.destination)
  IN  /\ intent.kind = "relay"
      /\ Compiling
      /\ \/ /\ Nothing \in {source, destination}
            /\ UNCHANGED <<routerVars, planner>>
         \/ /\ Nothing \notin {source, destination}
            /\ ComputeRoute([source |-> source, destination |-> destination, topology |-> f,
                             max_latency |-> intent.max_latency])
            /\ planner' = "routing"
      /\ UNCHANGED <<constellationVars, tasks, unsubmitted, taskingVars>>

SearchRoute ==
  /\ planner = "routing"
  /\ SearchNext
  /\ UNCHANGED <<constellationVars, planVars, taskingVars, planner>>

\* The rest of compile_data_relay().
CompileRoute ==
  /\ planner = "routing" /\ answer # Nothing
  /\ \/ answer.hops # Nothing /\ Deliver(RelayTasks(answer.hops))
     \/ answer.hops = Nothing /\ CompileFails
  /\ planner' = "idle"
  /\ answer' = Nothing
  /\ UNCHANGED <<route_cache, query, heap, visited, constellationVars, compiled,
                 task_queue, resource_conflicts, refused>>

\* compile() of the other objectives.  The candidates come from a hash map, in
\* any order.
CompileDirectly(intent, f) ==
  LET target == Resolve(intent.target)
      others == satellites \ {target}
  IN  /\ Compiling
      /\ \/ /\ intent.kind = "observation"
            /\ \/ satellites = {} /\ CompileFails
               \/ \E order \in SetToSeqs(satellites) :
                    satellites # {} /\ Deliver(ObservationTasks(intent, f, order))
         \/ /\ intent.kind = "custody"
            /\ \/ (target = Nothing \/ others = {}) /\ CompileFails
               \/ \E order \in SetToSeqs(others) :
                    /\ target # Nothing /\ others # {}
                    /\ Deliver(CustodyTasks(target, intent, f, order))
         \/ /\ intent.kind = "downlink"
            /\ IF HasStation(intent.satellite, intent.ground_window)
               THEN Deliver(<<Task(intent.satellite, "downlink", Nothing, intent.ground_window, {})>>)
               ELSE CompileFails
      /\ UNCHANGED <<routerVars, constellationVars, planner,
                     task_queue, resource_conflicts, refused>>

-----------------------------------------------------------------------------
(* The scheduler *)

Enqueue(i) ==
  /\ planner = "idle"
  /\ i \in unsubmitted
  /\ task_queue' = Append(task_queue, i)
  /\ unsubmitted' = unsubmitted \ {i}
  /\ UNCHANGED <<routerVars, constellationVars, tasks, compiled, scheduled_tasks,
                 resource_conflicts, refused, planner>>

Schedule ==
  /\ planner = "idle"
  /\ planner' = "scheduling"
  /\ UNCHANGED <<routerVars, constellationVars, planVars, taskingVars>>

\* The durations of calculate_task_timing(): 30 s, 5 and 10 minutes.
TaskDuration == [link |-> 1, observation |-> 10, downlink |-> 20]

Scheduled == {i \in DOMAIN tasks : scheduled_tasks[i] # Nothing}

\* The window's start, or the end of the latest dependency.
StartOf(i) ==
  Max({tasks[i].scheduled_window.start} \cup {scheduled_tasks[d].end : d \in tasks[i].dependencies})

EndOf(i) == StartOf(i) + TaskDuration[tasks[i].kind]

StartFitsWindow(i) == StartOf(i) <= tasks[i].scheduled_window.end

FitsWindow(i) == EndOf(i) <= tasks[i].scheduled_window.end

\* detect_conflicts(): scheduled links to the same peer in windows that overlap.
Rivals(i) ==
  {j \in Scheduled :
    /\ tasks[i].kind = "link" /\ tasks[j].kind = "link"
    /\ tasks[i].peer = tasks[j].peer
    /\ Overlapping(tasks[i].scheduled_window, tasks[j].scheduled_window)}

\* A turn of schedule() for the task at the head of the queue whose dependencies
\* are not all scheduled puts it back.  Nothing else can happen to the scheduler
\* meanwhile: if no task in the queue can be scheduled, the loop goes on for ever.
Requeue ==
  /\ planner = "scheduling" /\ task_queue # <<>>
  /\ ~ tasks[Head(task_queue)].dependencies \subseteq Scheduled
  /\ task_queue' = Append(Tail(task_queue), Head(task_queue))
  /\ UNCHANGED <<routerVars, constellationVars, planVars, scheduled_tasks,
                 resource_conflicts, refused, planner>>

\* A conflict with one of the rivals is recorded, and that is all its resolution.
Place ==
  /\ planner = "scheduling" /\ task_queue # <<>>
  /\ LET i == Head(task_queue)
     IN  /\ tasks[i].dependencies \subseteq Scheduled
         /\ FitsWindow(i)
         /\ scheduled_tasks' = [scheduled_tasks EXCEPT ![i] = [start |-> StartOf(i), end |-> EndOf(i)]]
         /\ IF Rivals(i) = {} THEN UNCHANGED resource_conflicts
            ELSE \E j \in Rivals(i) : resource_conflicts' = resource_conflicts \cup {<<i, j>>}
  /\ task_queue' = Tail(task_queue)
  /\ UNCHANGED <<routerVars, constellationVars, planVars, refused, planner>>

\* WindowExceeded ends the call; the task has left the queue.
Refuse ==
  /\ planner = "scheduling" /\ task_queue # <<>>
  /\ tasks[Head(task_queue)].dependencies \subseteq Scheduled
  /\ ~ FitsWindow(Head(task_queue))
  /\ refused' = refused \cup {Head(task_queue)}
  /\ task_queue' = Tail(task_queue)
  /\ planner' = "idle"
  /\ UNCHANGED <<routerVars, constellationVars, planVars, scheduled_tasks, resource_conflicts>>

ScheduleDone ==
  /\ planner = "scheduling" /\ task_queue = <<>>
  /\ planner' = "idle"
  /\ UNCHANGED <<routerVars, constellationVars, planVars, taskingVars>>

MissionNext ==
  \/ \E s \in Craft : UpdateSatellite(s)
  \/ \E a \in TerminalAssets : UpdateTerminal(a)
  \/ \E intent \in Intents, f \in Forecasts : CompileRelay(intent, f) \/ CompileDirectly(intent, f)
  \/ SearchRoute \/ CompileRoute
  \/ \E i \in unsubmitted : Enqueue(i)
  \/ Schedule \/ Requeue \/ Place \/ Refuse \/ ScheduleDone

MissionSpec == MissionInit /\ [][MissionNext]_missionVars

-----------------------------------------------------------------------------
(* Properties *)

Queued == Range(task_queue)

\* The state has its type, and the books of the tasks are kept together.
MissionTypeOK ==
  /\ satellites \subseteq Craft /\ optical_terminals \subseteq TerminalAssets
  /\ \A i \in DOMAIN tasks : tasks[i].kind \in DOMAIN TaskDuration
  /\ DOMAIN scheduled_tasks = DOMAIN tasks
  /\ unsubmitted \cup Queued \cup refused \subseteq DOMAIN tasks
  /\ planner \in {"idle", "routing", "scheduling"}
  /\ planner = "idle" => query = Nothing /\ answer = Nothing
  /\ DOMAIN route_cache = Keys

\* Whatever the order in which tasks are enqueued and schedule() is called, a
\* scheduled task lies in its window and begins when all it depends on has ended.
TimelineKeepsOrder ==
  \A i \in Scheduled :
    /\ scheduled_tasks[i].start >= tasks[i].scheduled_window.start
    /\ scheduled_tasks[i].end <= tasks[i].scheduled_window.end
    /\ \A d \in tasks[i].dependencies :
         d \in Scheduled /\ scheduled_tasks[d].end <= scheduled_tasks[i].start

\* A task is with the caller, in the queue once, scheduled, or was named in an
\* error: schedule(), which takes tasks out and puts them back, loses none.
NoTaskIsLost ==
  /\ \A i \in DOMAIN tasks :
       Cardinality({k \in 1..4 : i \in <<unsubmitted, Queued, Scheduled, refused>>[k]}) = 1
  /\ IsInjective(task_queue)

\* Of two scheduled links to one peer in windows that overlap, the one placed
\* later is recorded in a conflict.
ContentionIsRecorded ==
  \A i, j \in Scheduled : i # j /\ j \in Rivals(i)
    => \E c \in resource_conflicts : c[1] \in {i, j}

\* The tasks of missions are placed soundly: in their windows and in order, none
\* lost, contention for a peer recorded.
MissionsAreSound == TimelineKeepsOrder /\ NoTaskIsLost /\ ContentionIsRecorded

=============================================================================
