--------------------------- MODULE PatCoordinator ---------------------------
(***************************************************************************)
(* The coordinator of pointing, acquisition and tracking,                  *)
(* optical/src/pat/coordinator.rs, with the clock of pat/clock.rs.  The    *)
(* calls take &mut self, so while execute() or execute_concurrent() is     *)
(* awaited nothing else is called; but a caller may drop either future at  *)
(* an await.  The tasks execute_concurrent() spawns then run on.  Then the *)
(* queue of acquisitions, pat/scheduler.rs.                                *)
(***************************************************************************)
EXTENDS Naturals, Sequences, FiniteSets, SequencesExt

CONSTANTS
  Plans,
  TargetT0,   \* target_t0 of each plan
  MaxPatTime  \* bound on the time

ASSUME PatAssumption == MaxPatTime \in Nat /\ TargetT0 \in [Plans -> 0..MaxPatTime]

VARIABLES
  pat_now,                \* Utc::now()
  confidence_ok,          \* is_acceptable_for_pat() of the clock's confidence
  acquisition_schedules,  \* by target_t0; NoPlan where there is none
  current_phase,
  executing,              \* the future of execute()
  joining,                \* is the future of execute_concurrent() awaited?
  task                    \* the tasks it spawned, one for a plan

patVars == <<pat_now, confidence_ok, acquisition_schedules, current_phase,
             executing, joining, task>>

NoPlan == "no plan"
PatTimes == 0..MaxPatTime
Phase(name, plan) == [name |-> name, plan |-> plan]
PatPhases == {Phase("Idle", NoPlan)} \cup
             {Phase(name, p) : name \in {"Scheduled", "CoarseAcquisition", "Tracking"}, p \in Plans}

NotExecuting == [at |-> "none", plan |-> NoPlan, clock |-> FALSE]
Futures == {NotExecuting} \cup [at : {"waiting", "searching"}, plan : Plans, clock : BOOLEAN]
TaskStates == [at : {"none", "waiting", "searching", "failed", "done"}, clock : BOOLEAN]

\* The coordinator, its futures and its tasks have their types.
PatTypeOK ==
  /\ pat_now \in PatTimes
  /\ confidence_ok \in BOOLEAN
  /\ acquisition_schedules \in [PatTimes -> Plans \cup {NoPlan}]
  /\ current_phase \in PatPhases
  /\ executing \in Futures
  /\ joining \in BOOLEAN
  /\ task \in [Plans -> TaskStates]

PatInit ==
  /\ pat_now = 0
  /\ confidence_ok = TRUE
  /\ acquisition_schedules = [t \in PatTimes |-> NoPlan]
  /\ current_phase = Phase("Idle", NoPlan)
  /\ executing = NotExecuting
  /\ joining = FALSE
  /\ task = [p \in Plans |-> [at |-> "none", clock |-> FALSE]]

\* No &mut borrow of the coordinator is alive.
Free == executing = NotExecuting /\ ~joining

\* schedule(): a plan with the same target_t0 is replaced.
SchedulePat(plan) ==
  /\ Free
  /\ acquisition_schedules' = [acquisition_schedules EXCEPT ![TargetT0[plan]] = plan]
  /\ current_phase' = Phase("Scheduled", plan)
  /\ UNCHANGED <<pat_now, confidence_ok, executing, joining, task>>

\* find_plan()
FindPlan(plan) == \E t \in PatTimes : acquisition_schedules[t] = plan

\* execute(), up to the wait for the synchronized start.
ExecutePlan(plan) ==
  /\ Free
  /\ FindPlan(plan)
  /\ executing' = [at |-> "waiting", plan |-> plan, clock |-> confidence_ok]
  /\ UNCHANGED <<pat_now, confidence_ok, acquisition_schedules, current_phase, joining, task>>

ClockChecked == executing.clock

\* The clock's confidence is asked for after the wait.
ClockAccepted == confidence_ok

\* The moment has come: the clock is checked and the search begins, or the call
\* fails and the phase stays as it is.
ExecuteStart ==
  /\ executing.at = "waiting"
  /\ pat_now >= TargetT0[executing.plan]
  /\ IF ClockAccepted
     THEN /\ current_phase' = Phase("CoarseAcquisition", executing.plan)
          /\ executing' = [executing EXCEPT !.at = "searching"]
     ELSE executing' = NotExecuting /\ UNCHANGED current_phase
  /\ UNCHANGED <<pat_now, confidence_ok, acquisition_schedules, joining, task>>

\* The search succeeds, as the code assumes.
ExecuteDone ==
  /\ executing.at = "searching"
  /\ current_phase' = Phase("Tracking", executing.plan)
  /\ executing' = NotExecuting
  /\ UNCHANGED <<pat_now, confidence_ok, acquisition_schedules, joining, task>>

\* The caller drops the future at an await, say on a timeout of its own.
ExecuteDropped ==
  /\ executing # NotExecuting
  /\ executing' = NotExecuting
  /\ UNCHANGED <<pat_now, confidence_ok, acquisition_schedules, current_phase, joining, task>>

\* execute_concurrent(): unknown plans are passed over, and the clock is asked
\* before the tasks are spawned.  A plan has one task at a time here.
ExecuteConcurrent(plans) ==
  /\ Free
  /\ \A p \in plans : task[p].at \notin {"waiting", "searching"}
  /\ joining' = TRUE
  /\ task' = [p \in Plans |-> IF p \in plans /\ FindPlan(p)
                              THEN [at |-> "waiting", clock |-> confidence_ok]
                              ELSE task[p]]
  /\ UNCHANGED <<pat_now, confidence_ok, acquisition_schedules, current_phase, executing>>

\* now < plan.target_t0 puts the task to sleep.
TaskDue(p) == pat_now >= TargetT0[p]

TaskStart(p) ==
  /\ task[p].at = "waiting"
  /\ TaskDue(p)
  /\ task' = [task EXCEPT ![p].at = IF task[p].clock THEN "searching" ELSE "failed"]
  /\ UNCHANGED <<pat_now, confidence_ok, acquisition_schedules, current_phase, executing, joining>>

TaskDone(p) ==
  /\ task[p].at = "searching"
  /\ task' = [task EXCEPT ![p].at = "done"]
  /\ UNCHANGED <<pat_now, confidence_ok, acquisition_schedules, current_phase, executing, joining>>

\* join_all() has every result, or its future is dropped.
Joined ==
  /\ joining
  /\ joining' = FALSE
  /\ UNCHANGED <<pat_now, confidence_ok, acquisition_schedules, current_phase, executing, task>>

\* sync_clock(): to GPS, PTP or an atomic clock, or to an NTP server, whose
\* 1000 ns are not acceptable.
SyncClock ==
  /\ Free
  /\ confidence_ok' \in BOOLEAN
  /\ UNCHANGED <<pat_now, acquisition_schedules, current_phase, executing, joining, task>>

\* The time source behind the PrecisionClock trait loses or regains confidence.
ClockMoves ==
  /\ confidence_ok' = ~confidence_ok
  /\ UNCHANGED <<pat_now, acquisition_schedules, current_phase, executing, joining, task>>

PatTick ==
  /\ pat_now < MaxPatTime
  /\ pat_now' = pat_now + 1
  /\ UNCHANGED <<confidence_ok, acquisition_schedules, current_phase, executing, joining, task>>

PatNext ==
  \/ ExecuteStart \/ ExecuteDone \/ ExecuteDropped
  \/ Joined \/ SyncClock \/ ClockMoves \/ PatTick
  \/ \E plan \in Plans :
       SchedulePat(plan) \/ ExecutePlan(plan) \/ TaskStart(plan) \/ TaskDone(plan)
  \/ \E plans \in SUBSET Plans : ExecuteConcurrent(plans)

PatSpec == PatInit /\ [][PatNext]_patVars

-----------------------------------------------------------------------------
(* Properties *)

\* The phase announces an acquisition the coordinator can still execute, also
\* when another plan had been scheduled for the same moment.
AnnouncedPlanIsStored ==
  current_phase.name = "Scheduled" =>
    acquisition_schedules[TargetT0[current_phase.plan]] = current_phase.plan

\* A search begins no earlier than the moment both satellites agreed on, and on
\* a clock that is good enough at that moment, not only when the call was made.
SearchBeginsInSync ==
  [][current_phase.name # "CoarseAcquisition" /\ current_phase'.name = "CoarseAcquisition" =>
       confidence_ok /\ pat_now >= TargetT0[current_phase'.plan]]_patVars

\* A task of execute_concurrent() has not begun before its moment, whether or
\* not the call that spawned it is still awaited, and never on a clock that had
\* been refused.
TasksBeginOnTime ==
  \A p \in Plans :
    task[p].at \in {"searching", "done"} => pat_now >= TargetT0[p] /\ task[p].clock

\* Both ways of executing a plan keep to the moment both satellites agreed on
\* and to a clock that was found good, and the phase names a plan that is kept.
AcquisitionsAreCoordinated ==
  [](AnnouncedPlanIsStored /\ TasksBeginOnTime) /\ SearchBeginsInSync

-----------------------------------------------------------------------------
(***************************************************************************)
(* The queue of optical acquisitions, optical/src/pat/scheduler.rs.        *)
(* AcquisitionQueue only forwards to AcquisitionScheduler, so its methods  *)
(* are the same actions.  Every method takes &mut self and is one action.  *)
(* The binary heap is the sequence of its entries in the order they were   *)
(* pushed, which pop() does not keep: it takes some greatest entry.        *)
(***************************************************************************)

CONSTANTS
  PlanIds,
  AcquisitionPriorities,  \* the numbers callers give: a set of naturals
  MaxQueued               \* bound: calls of queue() for one plan, and the time

ASSUME AcquisitionQueueAssumption ==
  AcquisitionPriorities \subseteq Nat /\ MaxQueued \in Nat

VARIABLES
  queue,        \* QueueEntry: plan, priority, queued_at
  scheduled,    \* the plans handed out, oldest first
  in_progress,
  wall,         \* Utc::now(), as the calls of queue() read it
  calls,        \* history: calls of queue() for each plan
  cancelled,    \* history: how many of them the plan's cancellations withdrew
  popped        \* history: the entry schedule_next() took last and those it left

schedulerQueueVars == <<queue, scheduled, in_progress, wall, calls, cancelled, popped>>

NoAcquisition == "no acquisition"

Entries == [plan : PlanIds, priority : AcquisitionPriorities, queued_at : 0..MaxQueued]

\* The queue and its entries have their types.
AcquisitionQueueTypeOK ==
  /\ queue \in Seq(Entries)
  /\ scheduled \in Seq(PlanIds)
  /\ in_progress \in PlanIds \cup {NoAcquisition}
  /\ wall \in 0..MaxQueued
  /\ calls \in [PlanIds -> Nat]
  /\ cancelled \in [PlanIds -> Nat]

AcquisitionQueueInit ==
  /\ queue = <<>>
  /\ scheduled = <<>>
  /\ in_progress = NoAcquisition
  /\ wall = 0
  /\ calls = [p \in PlanIds |-> 0]
  /\ cancelled = [p \in PlanIds |-> 0]
  /\ popped = <<>>

\* Ord::cmp: by priority number, then by the time of queueing.
Above(e, f) ==
  \/ e.priority > f.priority
  \/ e.priority = f.priority /\ e.queued_at > f.queued_at

\* queue(): the clock may or may not have moved since the last call.  A plan
\* may be queued again.
Queue(plan, priority) ==
  /\ calls[plan] < MaxQueued
  /\ \E now \in {wall, wall + 1} :
       /\ now <= MaxQueued
       /\ wall' = now
       /\ queue' = Append(queue, [plan |-> plan, priority |-> priority, queued_at |-> now])
  /\ calls' = [calls EXCEPT ![plan] = @ + 1]
  /\ UNCHANGED <<scheduled, in_progress, cancelled, popped>>

\* schedule_next(): whatever is in progress already.
ScheduleNext ==
  \E i \in DOMAIN queue :
    /\ \A j \in DOMAIN queue : ~Above(queue[j], queue[i])
    /\ queue' = RemoveAt(queue, i)
    /\ scheduled' = Append(scheduled, queue[i].plan)
    /\ in_progress' = queue[i].plan
    /\ popped' = <<queue[i], ToSet(RemoveAt(queue, i))>>
    /\ UNCHANGED <<wall, calls, cancelled>>

\* complete(): only of the one in progress.
CompleteAcquisition(plan) ==
  /\ in_progress = plan
  /\ in_progress' = NoAcquisition
  /\ UNCHANGED <<queue, scheduled, wall, calls, cancelled, popped>>

HandedOut(plan) == Cardinality({i \in DOMAIN scheduled : scheduled[i] = plan})

\* What was asked for and not handed out is no longer wanted.
CancelsAll(plan) == cancelled' = [cancelled EXCEPT ![plan] = calls[plan] - HandedOut(plan)]

CancelFirst(plan) ==
  LET i == SelectInSeq(queue, LAMBDA e : e.plan = plan) IN
  /\ i # 0
  /\ queue' = RemoveAt(queue, i)
  /\ CancelsAll(plan)
  /\ UNCHANGED <<scheduled, in_progress, wall, calls, popped>>

\* The elements of a sequence that a set holds, in their order.
Keep(s, T) == FoldLeft(LAMBDA kept, x : IF x \in T THEN Append(kept, x) ELSE kept, <<>>, s)

\* cancel(): the heap is emptied into another one, without the plan's entries.
CancelAcquisition(plan) ==
  /\ \E i \in DOMAIN queue : queue[i].plan = plan
  /\ queue' = Keep(queue, {e \in Entries : e.plan # plan})
  /\ CancelsAll(plan)
  /\ UNCHANGED <<scheduled, in_progress, wall, calls, popped>>

AcquisitionQueueNext ==
  \/ ScheduleNext
  \/ \E plan \in PlanIds :
       \/ CompleteAcquisition(plan) \/ CancelAcquisition(plan)
       \/ \E priority \in AcquisitionPriorities : Queue(plan, priority)

AcquisitionQueueSpec == AcquisitionQueueInit /\ [][AcquisitionQueueNext]_schedulerQueueVars

-----------------------------------------------------------------------------
(* Properties *)

Waiting(plan) == Cardinality({i \in DOMAIN queue : queue[i].plan = plan})

\* Every call of queue() is answered for: its entry waits, was handed out, or
\* was cancelled, and only one of these.  A heap that is taken apart and built
\* again by cancel() loses nobody else's entry and keeps none of the plan's.
EveryRequestIsAccountedFor ==
  \A plan \in PlanIds :
    calls[plan] = Waiting(plan) + HandedOut(plan) + cancelled[plan]

\* "Higher priority (lower number) comes first": schedule_next() leaves no
\* entry with a lower number waiting.  The code does the opposite: BinaryHeap
\* pops the greatest entry.
LowerNumberFirst ==
  popped # <<>> => \A e \in popped[2] : popped[1].priority <= e.priority

=============================================================================
