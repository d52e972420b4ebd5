--------------------------- MODULE PassScheduling ---------------------------
(***************************************************************************)
(* The pass scheduler: the schedule and its conflicts (scheduler/src/      *)
(* schedule.rs), the annealing and the incremental optimizer               *)
(* (optimization.rs) and the analysis of passes near the zenith            *)
(* (keyhole.rs).                                                           *)
(*                                                                         *)
(* The random choices of the optimizer are nondeterministic, and so is the *)
(* acceptance of a worse neighbour, whose probability is never 0 nor 1.    *)
(* Fairness and reputation are not written during a call: their share of   *)
(* the score is a constant, left out.  Scores are twentieths, times of     *)
(* schedules five minutes, times of profiles half seconds.                 *)
(***************************************************************************)
EXTENDS Integers, Sequences, SequencesExt, FiniteSets

CONSTANTS
  RequestLists,   \* sequences of PassRequests [id, start, end, shadow] of a call
  Existing,       \* schedules the station may start from
  Sdrs, ShadowSdrs, Antennas, Rotators,  \* HardwareConfig, sequences
  FallbackSdr, FallbackAntenna, FallbackRotator,
  MaxShift,       \* the ten minutes of shift_time_slot()
  Hour, MinimumLength,
  max_iterations, \* of one call of the optimizer
  MaxCalls, MaxScheduleTime,
  Profiles,       \* sequences of [at, elevation]
  Threshold, typical_loss_duration_s

IsSequence(s) == s \in Seq(ToSet(s))

\* A ScheduledPass: its window, its HardwareAllocation and its keyhole warning.  A
\* shadow receiver and a warning are Options: sequences of one element or none.
IsPass(p) ==
  /\ p = [request |-> p.request, start |-> p.start, end |-> p.end,
          sdr_devices |-> p.sdr_devices, shadow_sdr |-> p.shadow_sdr,
          antenna |-> p.antenna, rotator |-> p.rotator, keyhole_warning |-> p.keyhole_warning]
  /\ p.start \in Int /\ p.end \in Int /\ p.start < p.end
  /\ \A q \in {p.sdr_devices, p.shadow_sdr, p.keyhole_warning} : IsSequence(q)
  /\ ToSet(p.shadow_sdr) \subseteq ToSet(ShadowSdrs)
  /\ \A w \in ToSet(p.keyhole_warning) : w.loss \in 0..100 /\ w.handoff_scheduled \in BOOLEAN

IsSchedule(s) == IsSequence(s) /\ \A i \in DOMAIN s : IsPass(s[i])

\* Profiles are in the order of their times, as analyse_pass() asks.
ASSUME SchedulingAssumption ==
  /\ {MaxShift, Hour, MinimumLength, max_iterations, MaxCalls, MaxScheduleTime,
      Threshold, typical_loss_duration_s} \subseteq Nat
  /\ MaxShift < Hour
  /\ \A s \in Existing : IsSchedule(s)
  /\ \A requests \in RequestLists :
       /\ IsSequence(requests)
       /\ \A r \in ToSet(requests) : r.start \in Int /\ r.end \in Int /\ r.start < r.end
  /\ IsSequence(ShadowSdrs)
  /\ \A samples \in Profiles :
       /\ samples \in Seq([at : Int, elevation : Int])
       /\ \A i, j \in DOMAIN samples : i < j => samples[i].at < samples[j].at

VARIABLES
  plan,       \* the schedule in force, replaced by what a call returns
  before,     \* the schedule the last call was given
  asked,      \* the requests of that call
  working,    \* the schedule or mutable tail the call works on
  best,       \* best_schedule
  stable,     \* the committed passes of an incremental call
  mode,       \* "idle", "annealing", "climbing", "annealed" or "climbed"
  iteration, calls, schedule_now, version,
  profile, analysis  \* of analyse_pass()

planVars == <<plan, before, asked, working, best, stable, mode, iteration, calls,
              schedule_now, version>>
keyholeVars == <<profile, analysis>>
schedulingVars == <<planVars, keyholeVars>>

-----------------------------------------------------------------------------
(* Conflicts.                                                              *)

windows_overlap(p, q) == p.start < q.end /\ q.start < p.end

\* Every device a pass lists, once for each place it is listed in.
DevicesListed(p) == p.sdr_devices \o p.shadow_sdr \o <<p.antenna, p.rotator>>

PlacesOf(d, p) == {k \in DOMAIN DevicesListed(p) : DevicesListed(p)[k] = d}

\* device_index: the indices of the passes that list d, with repetitions.
DeviceIndex(s, d) ==
  FoldLeft(LAMBDA index, i :
             index \o [k \in 1..Cardinality(PlacesOf(d, s[i])) |-> i],
           <<>>, [i \in DOMAIN s |-> i])

AllDevices(s) == UNION {ToSet(DevicesListed(s[i])) : i \in DOMAIN s}

\* The pairs seen in some device's group; the order of the groups is a hash
\* map's and changes nothing, since each pair is examined once.
Seen(s) ==
  UNION {LET index == DeviceIndex(s, d) IN
           UNION {{<<index[i], index[j]>> : j \in (i + 1)..Len(index)} : i \in DOMAIN index}
         : d \in AllDevices(s)}

check_conflicts(s) == {ab \in Seen(s) : windows_overlap(s[ab[1]], s[ab[2]])}

-----------------------------------------------------------------------------
(* The score.                                                              *)

keyhole_score_penalty(warning) ==
  IF warning.handoff_scheduled THEN -6 * warning.loss ELSE -20 * warning.loss

KeyholePenalty(p) ==
  IF p.keyhole_warning = <<>> THEN 0 ELSE keyhole_score_penalty(p.keyhole_warning[1])

KeyholePenalties(s) == FoldLeft(LAMBDA total, p : total + KeyholePenalty(p), 0, s)

Fulfilled(s) == {i \in DOMAIN s : s[i].end - s[i].start >= MinimumLength}

compute_fulfilled_ratio(s) == IF s = <<>> THEN 0 ELSE (600 * Cardinality(Fulfilled(s))) \div Len(s)

evaluate_schedule(s) ==
  compute_fulfilled_ratio(s) - 4000 * Cardinality(check_conflicts(s))
  + KeyholePenalties(s)

-----------------------------------------------------------------------------
(* The neighbours of a schedule.                                           *)

FirstOr(pool, fallback) == IF pool = <<>> THEN fallback ELSE Head(pool)

\* create_pass_from_request(): always the first device of each kind.
create_pass_from_request(r) ==
  [request |-> r.id, start |-> r.start, end |-> r.end,
   sdr_devices |-> <<FirstOr(Sdrs, FallbackSdr)>>,
   shadow_sdr |-> IF r.shadow /\ ShadowSdrs # <<>> THEN <<Head(ShadowSdrs)>> ELSE <<>>,
   antenna |-> FirstOr(Antennas, FallbackAntenna),
   rotator |-> FirstOr(Rotators, FallbackRotator),
   keyhole_warning |-> <<>>]

\* shift_time_slot(): later or earlier, not to before now; the bound on the new
\* end is relative to the old one.
ShiftTimeSlot(p) ==
  {IF p.start + shift > schedule_now /\ p.end + shift < p.end + Hour
     THEN [p EXCEPT !.start = @ + shift, !.end = @ + shift] ELSE p
   : shift \in -MaxShift..MaxShift}

\* reallocate_hardware(): the next receiver of the pool, any antenna; the shadow
\* and the rotator stay.
ReallocateHardware(p) ==
  IF Sdrs = <<>> THEN {p}
  ELSE LET places == {i \in DOMAIN Sdrs : p.sdr_devices # <<>> /\ Sdrs[i] = Head(p.sdr_devices)}
           current == IF places = {} THEN 1 ELSE CHOOSE i \in places : \A j \in places : i <= j
           next == (current % Len(Sdrs)) + 1
       IN  {[p EXCEPT !.sdr_devices = <<Sdrs[next]>>, !.antenna = a]
              : a \in IF Antennas = <<>> THEN {p.antenna} ELSE ToSet(Antennas)}

\* try_preemption(): a swap with the pass before.
Swapped(s, i) == IF i = 1 THEN s ELSE [s EXCEPT ![i] = s[i - 1], ![i - 1] = s[i]]

Ids(s) == {s[i].request : i \in DOMAIN s}

\* add_unscheduled_request(): the first request with no pass.
AddUnscheduled(s, requests) ==
  LET left == {i \in DOMAIN requests : requests[i].id \notin Ids(s)}
  IN  IF left = {} THEN s ELSE Append(s, create_pass_from_request(requests[Min(left)]))

\* generate_neighbor(): the schedules it may return.
Neighbors(s, requests) ==
  IF s = <<>>
    THEN {IF requests = <<>> THEN s ELSE <<create_pass_from_request(Head(requests))>>}
    ELSE {AddUnscheduled(s, requests)}
         \cup UNION {{[s EXCEPT ![i] = p] : p \in ShiftTimeSlot(s[i]) \cup ReallocateHardware(s[i])}
                       \cup {Swapped(s, i)} : i \in DOMAIN s}

-----------------------------------------------------------------------------
(* Calls of the optimizer.                                                 *)

SchedulingInit ==
  /\ plan \in Existing /\ before = <<>> /\ asked = <<>>
  /\ working = <<>> /\ best = <<>> /\ stable = <<>>
  /\ mode = "idle" /\ iteration = 0 /\ calls = 0 /\ schedule_now = 0 /\ version = 0
  /\ profile = <<>> /\ analysis = {}

BetweenCalls == mode \in {"idle", "annealed", "climbed"}

\* optimize(), up to the loop.
Optimize(requests) ==
  /\ BetweenCalls /\ calls < MaxCalls
  /\ before' = plan /\ asked' = requests
  /\ working' = plan /\ best' = plan
  /\ mode' = "annealing" /\ iteration' = 0 /\ calls' = calls + 1
  /\ UNCHANGED <<plan, stable, schedule_now, version>>

\* The best schedule is the last one taken.
AnnealForgettingTheBest ==
  /\ mode = "annealing" /\ iteration < max_iterations
  /\ \E neighbor \in Neighbors(working, asked) :
       working' = neighbor /\ best' = neighbor
  /\ iteration' = iteration + 1
  /\ UNCHANGED <<plan, before, asked, stable, mode, calls, schedule_now, version>>

\* One iteration: a neighbour no worse than the best is taken, a worse one may be.
Anneal ==
  /\ mode = "annealing" /\ iteration < max_iterations
  /\ \E neighbor \in Neighbors(working, asked) :
       LET delta == evaluate_schedule(neighbor) - evaluate_schedule(best) IN
       /\ \/ working' = neighbor
          \/ delta < 0 /\ working' = working
       /\ best' = IF delta > 0 THEN neighbor ELSE best
  /\ iteration' = iteration + 1
  /\ UNCHANGED <<plan, before, asked, stable, mode, calls, schedule_now, version>>

\* The end of the loop, by its bound or by the timeout, and the comparison with
\* the snapshot taken first; a new Schedule has version 0.
OptimizeReturns ==
  /\ mode = "annealing"
  /\ plan' = IF evaluate_schedule(best) < evaluate_schedule(before) THEN before ELSE best
  /\ mode' = "annealed" /\ version' = 0 /\ iteration' = 0
  /\ working' = <<>> /\ best' = <<>> /\ stable' = <<>>
  /\ UNCHANGED <<before, asked, calls, schedule_now>>

\* filter(): the elements of s that are in T, in their order.
Keep(s, T) == FoldLeft(LAMBDA kept, x : IF x \in T THEN Append(kept, x) ELSE kept, <<>>, s)

Committed(s) == Keep(s, {p \in ToSet(s) : p.start <= schedule_now})
Future(s) == Keep(s, {p \in ToSet(s) : p.start > schedule_now})
Created(requests) == [i \in DOMAIN requests |-> create_pass_from_request(requests[i])]

\* incremental_optimize(), up to the loop: the requests are appended unseen.
IncrementalOptimize(requests) ==
  /\ BetweenCalls /\ calls < MaxCalls
  /\ before' = plan /\ asked' = requests
  /\ stable' = Committed(plan)
  /\ working' = Future(plan) \o Created(requests)
  /\ best' = working'
  /\ mode' = "climbing" /\ iteration' = 0 /\ calls' = calls + 1
  /\ UNCHANGED <<plan, schedule_now, version>>

\* One of the 200 iterations: only improvements are taken.
Climb ==
  /\ mode = "climbing" /\ iteration < max_iterations
  /\ \E neighbor \in Neighbors(working, asked) :
       working' = IF evaluate_schedule(neighbor) > evaluate_schedule(working)
                    THEN neighbor ELSE working
  /\ iteration' = iteration + 1
  /\ UNCHANGED <<plan, before, asked, best, stable, mode, calls, schedule_now, version>>

IncrementalReturns ==
  /\ mode = "climbing"
  /\ plan' = stable \o working /\ version' = version + 1
  /\ mode' = "climbed" /\ iteration' = 0
  /\ UNCHANGED <<before, asked, working, best, stable, calls, schedule_now>>

\* Passes begin between calls; a call is shorter than the unit of time.
ScheduleTimePasses ==
  /\ BetweenCalls /\ schedule_now < MaxScheduleTime
  /\ schedule_now' = schedule_now + 1 /\ mode' = "idle"
  /\ before' = <<>> /\ asked' = <<>> /\ working' = <<>> /\ best' = <<>> /\ stable' = <<>>
  /\ UNCHANGED <<plan, iteration, calls, version>>

PlanNext ==
  \/ \E requests \in RequestLists : Optimize(requests) \/ IncrementalOptimize(requests)
  \/ Anneal
  \/ OptimizeReturns
  \/ Climb
  \/ IncrementalReturns
  \/ ScheduleTimePasses

-----------------------------------------------------------------------------
(* The keyhole.                                                            *)

in_keyhole(elevation) == elevation >= Threshold

\* is_likely_keyhole_pass()
LikelyKeyhole(samples) == \E i \in DOMAIN samples : in_keyhole(samples[i].elevation)

\* step_s, in whole seconds, of a step that touches the keyhole
StepSeconds(samples, i) ==
  IF in_keyhole(samples[i].elevation) \/ in_keyhole(samples[i + 1].elevation)
    THEN (samples[i + 1].at - samples[i].at) \div 2 ELSE 0

KeyholeSeconds(samples) ==
  FoldLeft(LAMBDA total, i : total + StepSeconds(samples, i), 0, [i \in 1..(Len(samples) - 1) |-> i])

\* analyse_pass() for a mount with a zenith keyhole: the time of the steps that
\* touch it, the first entry and the last exit.
analyse_pass(samples) ==
  LET steps == 1..(Len(samples) - 1)
      Inside(i) == in_keyhole(samples[i].elevation)
      entries == {i \in steps : ~Inside(i) /\ Inside(i + 1)}
      exits == {i \in steps : Inside(i) /\ ~Inside(i + 1)}
      seconds == KeyholeSeconds(samples)
  IN  [enters |-> seconds > 0,
       loss |-> IF seconds < typical_loss_duration_s THEN seconds ELSE typical_loss_duration_s,
       entry |-> {samples[i].at : i \in {i \in entries : \A j \in entries : i <= j}},
       exit |-> {samples[i + 1].at : i \in {i \in exits : \A j \in exits : i >= j}}]

AnalysePass ==
  /\ analysis = {}
  /\ \E samples \in Profiles :
       profile' = samples /\ analysis' = {analyse_pass(samples)}

SchedulingSpec == SchedulingInit /\ [][PlanNext]_planVars /\ [][AnalysePass]_keyholeVars

-----------------------------------------------------------------------------
(* Properties.                                                             *)

\* The schedule, the call in progress and the analysis have their types.
SchedulingTypeOK ==
  /\ \A s \in {plan, before, working, best, stable} : IsSchedule(s)
  /\ mode \in {"idle", "annealing", "climbing", "annealed", "climbed"}
  /\ iteration \in 0..max_iterations /\ calls \in 0..MaxCalls
  /\ schedule_now \in 0..MaxScheduleTime /\ version \in 0..MaxCalls
  /\ \A a \in analysis : a.enters \in BOOLEAN /\ a.loss \in 0..typical_loss_duration_s

Shared(p, q) == ToSet(DevicesListed(p)) \cap ToSet(DevicesListed(q)) # {}

\* check_conflicts() against its definition: two passes are reported exactly when
\* they overlap and share a device, a shadow receiver that another pass uses as
\* its own included; a pass is reported with itself when it lists a device twice.
ConflictsAreFound ==
  \A i, j \in DOMAIN plan :
    /\ i < j => (<<i, j>> \in check_conflicts(plan)
                 <=> windows_overlap(plan[i], plan[j]) /\ Shared(plan[i], plan[j]))
    /\ <<i, i>> \in check_conflicts(plan) <=> ~IsInjective(DevicesListed(plan[i]))

Times(s, id) == Cardinality({i \in DOMAIN s : s[i].request = id})
Lengths(s, id) == {s[i].end - s[i].start : i \in {i \in DOMAIN s : s[i].request = id}}
AskedLengths(id) == {r.end - r.start : r \in {r \in ToSet(asked) : r.id = id}}

\* What optimize() returns is no worse than what it was given, and drops, repeats
\* or shortens nothing, however many worse schedules it went through: every pass
\* is still there, a request asked for has at most one pass more than before, and
\* windows keep their lengths.  Its rollback is never needed: the best schedule
\* is at no iteration worse than the first or than the one the loop is at.
AnnealingKeepsThePlan ==
  /\ mode = "annealing" =>
       \A s \in {before, working} : evaluate_schedule(best) >= evaluate_schedule(s)
  /\ mode = "annealed" =>
    /\ evaluate_schedule(plan) >= evaluate_schedule(before)
    /\ \A id \in Ids(plan) \cup Ids(before) :
         /\ Times(plan, id) >= Times(before, id)
         /\ Times(plan, id) > Times(before, id) => Times(plan, id) = 1
         /\ Lengths(plan, id) \subseteq Lengths(before, id) \cup AskedLengths(id)

\* What incremental_optimize() returns begins with the passes already begun, as
\* they were, in their order; nothing is dropped, and the rest is no worse than
\* the rest with the new requests appended.
CommittedPassesStay ==
  mode = "climbed" =>
    /\ IsPrefix(Committed(before), plan)
    /\ \A id \in Ids(before) : Times(plan, id) >= Times(before, id)
    /\ evaluate_schedule(working) >= evaluate_schedule(best)
    /\ \A i \in DOMAIN plan : i > Len(stable) =>
         \/ plan[i].start > schedule_now
         \/ plan[i].request \in {r.id : r \in ToSet(asked)}

\* Elevations that rise and then fall, as those of one pass do.
OnePass(samples) ==
  \A i, j, k \in DOMAIN samples :
    i < j /\ j < k => ~(in_keyhole(samples[i].elevation) /\ ~in_keyhole(samples[j].elevation)
                        /\ in_keyhole(samples[k].elevation))

\* The analysis of a pass agrees with the quick test on its highest elevation when
\* the samples are a second apart or more, and the entry and exit it reports
\* enclose the whole stay in the keyhole.
KeyholeIsCovered ==
  \A a \in analysis :
    /\ Len(profile) >= 2 /\ (\A i \in 2..Len(profile) : profile[i].at - profile[i - 1].at >= 2)
       => (a.enters <=> LikelyKeyhole(profile))
    /\ OnePass(profile) =>
         \A i \in DOMAIN profile : in_keyhole(profile[i].elevation) =>
           /\ \A t \in a.entry : t < profile[i].at
           /\ \A t \in a.exit : profile[i].at < t

\* The scheduler keeps what it was given.
PassSchedulingIsSound ==
  ConflictsAreFound /\ AnnealingKeepsThePlan /\ CommittedPassesStay /\ KeyholeIsCovered

=============================================================================
