------------------------ MODULE TransmissionScheduler ------------------------
(***************************************************************************)
(* Uplink transmission scheduling, uplink/src/scheduler.rs: the pass       *)
(* windows, the transmissions scheduled in them, and schedule() calls of   *)
(* concurrent tasks.                                                       *)
(*                                                                         *)
(* A schedule() call reads the clock, takes a read guard of the windows    *)
(* that it keeps, plans, looks for conflicts under a guard of `scheduled`  *)
(* it gives up, and inserts under another: steps between which other calls *)
(* take theirs.  `pending` is left out: nothing ever adds to it.           *)
(***************************************************************************)
EXTENDS Naturals, FiniteSets, UplinkCommands

CONSTANTS
  Passes,        \* pass identifiers
  PassWindows,   \* the [start, end] windows a pass may have
  Estimate,      \* estimated_duration of a command at the rate of a pass
  Callers,       \* the groups of concurrent callers of schedule()
  MaxTime        \* bound on the clock

ASSUME SchedulerAssumption ==
  /\ PassWindows \subseteq [start : 0..MaxTime, end : 0..MaxTime]
  /\ \A w \in PassWindows : w.start <= w.end
  /\ Estimate \in [Commands \X Passes -> Nat]
  /\ MaxTime \in Nat
  /\ None \notin PassWindows
  /\ \A group \in Callers : IsFiniteSet(group)

Tasks == UNION Callers

ConflictStrategy == {"Priority", "Fcfs", "Reject"}

VARIABLES
  clock,      \* Utc::now()
  windows,    \* window of each pass, or None
  scheduled,  \* transmission of each command, or None
  call,       \* the schedule() call of each task
  callers,    \* the tasks that use this scheduler; never changes
  conflict_strategy  \* never changes

configVars == <<callers, conflict_strategy>>
schedulerVars == <<clock, windows, scheduled, call, configVars>>

Transmissions ==
  [window : PassWindows, transmission_time : 0..MaxTime, estimated_duration : Nat]

NoCall == [step |-> "none"]

Calls ==
  {NoCall}
  \cup [step : {"sampled"}, command : Commands, now : 0..MaxTime]
  \cup [step : {"planned", "conflict", "clear"}, command : Commands, plan : Transmissions]

SchedulerInit ==
  /\ clock = 0
  /\ windows = [p \in Passes |-> None]
  /\ scheduled = [c \in Commands |-> None]
  /\ call = [t \in Tasks |-> NoCall]
  /\ callers \in Callers
  /\ conflict_strategy \in ConflictStrategy

Tick ==
  /\ clock < MaxTime
  /\ clock' = clock + 1
  /\ UNCHANGED <<windows, scheduled, call, configVars>>

\* No call has a guard of the windows.
WindowsFree == \A t \in Tasks : call[t].step \in {"none", "sampled"}

AddWindow(p, w) ==
  /\ WindowsFree
  /\ windows' = [windows EXCEPT ![p] = w]
  /\ UNCHANGED <<clock, scheduled, call, configVars>>

RemoveWindow(p) ==
  /\ WindowsFree
  /\ windows' = [windows EXCEPT ![p] = None]
  /\ UNCHANGED <<clock, scheduled, call, configVars>>

-----------------------------------------------------------------------------
(* schedule() *)

\* The clock is read before the windows are locked.
ScheduleBegin(t, c) ==
  /\ t \in callers
  /\ call[t] = NoCall
  /\ call' = [call EXCEPT ![t] = [step |-> "sampled", command |-> c, now |-> clock]]
  /\ UNCHANGED <<clock, windows, scheduled, configVars>>

WindowContains(w, time) == w.start <= time /\ time <= w.end

\* find() tests the sampled time against the window, and time_until_start()
\* the time it is by then.
Suitable(p, now) ==
  /\ windows[p] # None
  /\ WindowContains(windows[p], now) \/ windows[p].start > clock

StartAtSample(w, now) == now

TransmissionTime(w, now) == IF WindowContains(w, now) THEN now ELSE w.start

\* Some suitable window, in the order of the hash map, and the transmission in it.
SchedulePlan(t) ==
  /\ call[t].step = "sampled"
  /\ \E p \in Passes :
       /\ Suitable(p, call[t].now)
       /\ call' = [call EXCEPT ![t] =
            [step |-> "planned", command |-> @.command,
             plan |-> [window |-> windows[p],
                       transmission_time |-> TransmissionTime(windows[p], @.now),
                       estimated_duration |-> Estimate[@.command, p]]]]
  /\ UNCHANGED <<clock, windows, scheduled, configVars>>

\* "No suitable transmission window".
ScheduleNoWindow(t) ==
  /\ call[t].step = "sampled"
  /\ \A p \in Passes : ~ Suitable(p, call[t].now)
  /\ call' = [call EXCEPT ![t] = NoCall]
  /\ UNCHANGED <<clock, windows, scheduled, configVars>>

Overlap(a, b) ==
  /\ a.transmission_time < b.transmission_time + b.estimated_duration
  /\ b.transmission_time < a.transmission_time + a.estimated_duration

HasConflict(plan) == \E c \in Commands : scheduled[c] # None /\ Overlap(plan, scheduled[c])

\* can_override() finds the priority of a scheduled command only in the pending
\* list, so nothing but the command's own transmission refuses it.
CanOverride(c) == scheduled[c] = None

\* The match on the strategy: a conflict is an error, or the Priority strategy's
\* next question.
OnConflict(aCall) ==
  IF conflict_strategy = "Priority" THEN [aCall EXCEPT !.step = "conflict"] ELSE NoCall

\* has_conflict().
ScheduleCheck(t) ==
  /\ call[t].step = "planned"
  /\ call' = [call EXCEPT ![t] =
       IF HasConflict(@.plan) THEN OnConflict(@) ELSE [@ EXCEPT !.step = "clear"]]
  /\ UNCHANGED <<clock, windows, scheduled, configVars>>

\* can_override(), under another guard of `scheduled`.
ScheduleOverride(t) ==
  /\ call[t].step = "conflict"
  /\ call' = [call EXCEPT ![t] =
       IF CanOverride(@.command) THEN [@ EXCEPT !.step = "clear"] ELSE NoCall]
  /\ UNCHANGED <<clock, windows, scheduled, configVars>>

\* The insert, which replaces an earlier transmission of the command.
ScheduleInsert(t) ==
  /\ call[t].step = "clear"
  /\ scheduled' = [scheduled EXCEPT ![call[t].command] = call[t].plan]
  /\ call' = [call EXCEPT ![t] = NoCall]
  /\ UNCHANGED <<clock, windows, configVars>>

RemoveScheduled(c) ==
  /\ scheduled[c] # None
  /\ scheduled' = [scheduled EXCEPT ![c] = None]
  /\ UNCHANGED <<clock, windows, call, configVars>>

SchedulerNext ==
  \/ Tick
  \/ \E p \in Passes : RemoveWindow(p) \/ \E w \in PassWindows : AddWindow(p, w)
  \/ \E t \in Tasks :
       \/ \E c \in Commands : ScheduleBegin(t, c)
       \/ SchedulePlan(t) \/ ScheduleNoWindow(t) \/ ScheduleCheck(t)
       \/ ScheduleOverride(t) \/ ScheduleInsert(t)
  \/ \E c \in Commands : RemoveScheduled(c)

SchedulerSpec == SchedulerInit /\ [][SchedulerNext]_schedulerVars

-----------------------------------------------------------------------------
(* Properties *)

\* Every field of the scheduler has its type.
SchedulerTypeOK ==
  /\ clock \in 0..MaxTime
  /\ windows \in [Passes -> PassWindows \cup {None}]
  /\ scheduled \in [Commands -> Transmissions \cup {None}]
  /\ call \in [Tasks -> Calls]
  /\ callers \in Callers
  /\ conflict_strategy \in ConflictStrategy

\* A transmission starts inside the window it was planned in, although the clock
\* was read before the windows were and the windows change afterwards.
StartsInItsWindow ==
  \A c \in Commands :
    scheduled[c] # None => WindowContains(scheduled[c].window, scheduled[c].transmission_time)

NoOverlapOf(c, d) ==
  scheduled[c] # None /\ scheduled[d] # None => ~ Overlap(scheduled[c], scheduled[d])

\* Calls of schedule() that follow one another, under a strategy that refuses
\* conflicts, never leave two transmissions that overlap in time, whatever
\* windows and transmissions come and go between them.
SerialCallsDoNotOverlap ==
  Cardinality(callers) = 1 /\ conflict_strategy # "Priority" =>
    \A c, d \in Commands : c # d => NoOverlapOf(c, d)

\* "Reject conflicts": under that strategy no two transmissions overlap, however
\* many tasks schedule.  The code does not keep it: the check and the insert are
\* under different guards.
RejectsConflicts ==
  conflict_strategy = "Reject" => \A c, d \in Commands : c # d => NoOverlapOf(c, d)

\* What schedule() inserts lies in its window, and does not overlap what earlier
\* calls inserted, as long as the calls do not race.
SchedulesAreSound == StartsInItsWindow /\ SerialCallsDoNotOverlap

==============================================================================
