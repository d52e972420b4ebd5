----------------------------- MODULE OpticalLink -----------------------------
(***************************************************************************)
(* An optical link (optical/src/link): its phases and what survives a save *)
(* and load, the bounded history of its metrics with the detector of a     *)
(* degradation that reads it, and the hand-offs a failover manager tracks. *)
(* The three share no state: a caller feeds one's answers to the other.    *)
(*                                                                         *)
(* A reading is a MetricSnapshot; its gap is the half seconds since the    *)
(* one before, so that what num_seconds() cuts off is seen.  At the end,   *)
(* the search of a route over such links (optical/src/routing), and what   *)
(* an optical terminal promises with all its parts.                        *)
(***************************************************************************)
EXTENDS PatCoordinator, PointingModel

CONSTANTS
  LinkPlans, LinkCauses, LinkQualities,  \* acquisition plans, failure causes, link qualities
  link_snapshots,                    \* kept by the link's SnapshotManager; 10 in the code
  Readings, HistorySizes,
  healthy_ber, healthy_snr,          \* of LinkQuality::is_healthy(); a BER is its exponent
  threshold_ber, threshold_snr, threshold_pointing,  \* DegradationDetector::new()
  Strategies,
  MaxLinkCalls, MaxReadings, MaxLinkHandoffs, MaxLinkTime

ASSUME OpticalLinkAssumption ==
  /\ {MaxLinkCalls, MaxReadings, MaxLinkHandoffs, MaxLinkTime} \subseteq Nat
  /\ link_snapshots \in Nat \ {0} /\ HistorySizes \subseteq Nat
  /\ {healthy_ber, healthy_snr, threshold_ber, threshold_snr, threshold_pointing} \subseteq Int
  /\ healthy_ber <= threshold_ber /\ healthy_snr >= threshold_snr
  /\ \A r \in Readings : r.snr \in Int /\ r.pointing \in Int /\ r.gap \in Nat
  /\ \A q \in LinkQualities : q.ber \in Int /\ q.snr \in Int /\ q.pointing \in Int

VARIABLES
  link,                  \* OpticalLink
  established,           \* the times it was established
  link_calls,
  metric_history, max_size,     \* BoundedHistory
  measured,              \* all the readings pushed
  active_handoffs,       \* FailoverManager
  initiated, completed,  \* the hand-offs ever initiated, and those ever completed
  link_now

phaseVars == <<link, established, link_calls>>
metricVars == <<metric_history, max_size, measured>>
failoverVars == <<active_handoffs, initiated, completed>>
opticalLinkVars == <<phaseVars, metricVars, failoverVars, link_now>>

\* OpticalLink::new(): a link begins as failed.
OpticalLinkInit ==
  /\ link = [phase |-> [is |-> "Failed", cause |-> "AcquisitionTimeout"], established_at |-> {},
             snapshots |-> {<<>>}]
  /\ established = {}
  /\ link_calls = 0
  /\ metric_history = <<>>
  /\ max_size \in HistorySizes
  /\ measured = <<>>
  /\ active_handoffs = <<>>
  /\ initiated = {}
  /\ completed = {}
  /\ link_now = 0

LinkTimePasses == link_now < MaxLinkTime /\ link_now' = link_now + 1

-----------------------------------------------------------------------------
(* The phases: no transition asks which phase the link is in *)

LinkCall == link_calls < MaxLinkCalls /\ link_calls' = link_calls + 1 /\ UNCHANGED link_now

ScheduleLink(plan) ==
  /\ LinkCall
  /\ link' = [link EXCEPT !.phase = [is |-> "Scheduled", acquisition_plan |-> plan]]
  /\ UNCHANGED established

TransitionToAcquiring ==
  /\ LinkCall
  /\ link' = [link EXCEPT !.phase = [is |-> "Acquiring", since |-> link_now]]
  /\ UNCHANGED established

TransitionToEstablished(q) ==
  /\ LinkCall
  /\ link' = [link EXCEPT !.phase = [is |-> "Established", since |-> link_now, quality |-> q],
                          !.established_at = {link_now}]
  /\ established' = established \cup {link_now}

TransitionToDegrading(report) ==
  /\ LinkCall
  /\ link' = [link EXCEPT !.phase = [is |-> "Degrading", report |-> report]]
  /\ UNCHANGED established

TransitionToFailed(cause) ==
  /\ LinkCall
  /\ link' = [link EXCEPT !.phase = [is |-> "Failed", cause |-> cause]]
  /\ UNCHANGED established

\* snapshot(): the phase is the snapshot; without a manager it answers Ok as well.
SnapshotLink ==
  /\ LinkCall
  /\ link' = [link EXCEPT !.snapshots =
                {IF Len(s) < link_snapshots THEN Append(s, link.phase) ELSE Append(Tail(s), link.phase) : s \in @}]
  /\ UNCHANGED established

\* The link is saved and loaded: the manager is not serialized.
SaveAndLoadLink ==
  /\ LinkCall
  /\ link' = [link EXCEPT !.snapshots = {}]
  /\ UNCHANGED established

QualityIsHealthy(q) == q.ber < healthy_ber /\ q.snr > healthy_snr

is_healthy == link.phase.is = "Established" /\ QualityIsHealthy(link.phase.quality)

-----------------------------------------------------------------------------
(* BoundedHistory *)

\* push(): one goes when the history is full, even when nothing may be kept.
Push(reading) ==
  /\ Len(measured) < MaxReadings
  /\ LET at == reading.gap + (IF measured = <<>> THEN 0 ELSE Last(measured).at)
         item == [at |-> at, snr |-> reading.snr, pointing |-> reading.pointing]
         kept == IF Len(metric_history) >= max_size /\ metric_history # <<>> THEN Tail(metric_history) ELSE metric_history
     IN  metric_history' = Append(kept, item) /\ measured' = Append(measured, item)
  /\ UNCHANGED <<max_size, link_now>>

TrendOf(delta, unit) == IF delta > unit THEN "Improving" ELSE IF delta < -unit THEN "Degrading" ELSE "Stable"

\* trend(): the mean of the last five against the mean of the first five; both
\* are sums of the same number of readings.
trend(h) ==
  LET n == Min({5, Len(h)})
      SnrTotal(from) == Total([i \in 1..n |-> h[from + i - 1].snr])
  IN  IF Len(h) < 2 THEN "Stable" ELSE TrendOf(SnrTotal(Len(h) - n + 1) - SnrTotal(1), n)

-----------------------------------------------------------------------------
(* DegradationDetector *)

\* The first five readings in place of the last
TrendOfFirst(h) ==
  IF Len(h) < 2 THEN "Stable" ELSE TrendOf(h[Min({5, Len(h)})].snr - h[1].snr, 1)

calculate_trend(h) ==
  IF Len(h) < 2 THEN "Stable"
  ELSE LET recent == SubSeq(h, Max({1, Len(h) - 4}), Len(h))
       IN  TrendOf(Last(recent).snr - Head(recent).snr, 1)

\* estimate_drift_rate(), as <<change, whole seconds>>
estimate_drift_rate(h) ==
  IF Len(h) < 2 THEN <<0, 1>>
  ELSE <<Last(h).pointing - Head(h).pointing, Max({1, (Last(h).at - Head(h).at) \div 2})>>

Found(reason, action, by) == {[reason |-> reason, action |-> action, by |-> by]}

detect_degradation(q, h) ==
  LET far == q.pointing > threshold_pointing
      drift == Found("PointingDrift", "InitiateHandoff", estimate_drift_rate(h))
  IN  CASE q.ber > threshold_ber -> Found("FecOverwhelmed", "InitiateHandoff", <<0, 1>>)
        [] q.ber <= threshold_ber /\ q.snr < threshold_snr ->
             IF calculate_trend(h) = "Degrading"
             THEN IF far THEN drift ELSE Found("AtmosphericTurbulence", "Monitor", <<0, 1>>)
             ELSE Found("UnexplainedSnrDrop", "Monitor", <<threshold_snr - q.snr, 1>>)
        [] OTHER -> IF far THEN drift ELSE {}

-----------------------------------------------------------------------------
(* FailoverManager *)

InitiateLinkHandoff(strategy) ==
  /\ Cardinality(initiated) < MaxLinkHandoffs
  /\ LET id == Cardinality(initiated) + 1
     IN  /\ active_handoffs' = Append(active_handoffs,
              [handoff_id |-> id, strategy |-> strategy, initiated_at |-> link_now,
               completed_at |-> {}, success |-> FALSE])
         /\ initiated' = initiated \cup {id}
  /\ UNCHANGED <<completed, link_now>>

\* complete_handoff(): one that was completed before is completed again; one
\* that was cleaned up is refused.
CompleteLinkHandoff(id, success) ==
  /\ \E i \in DOMAIN active_handoffs :
       /\ active_handoffs[i].handoff_id = id
       /\ active_handoffs' = [active_handoffs EXCEPT ![i].completed_at = {link_now}, ![i].success = success]
  /\ completed' = completed \cup {id}
  /\ UNCHANGED <<initiated, link_now>>

CleanupCompleted ==
  /\ active_handoffs' = Keep(active_handoffs, {h \in ToSet(active_handoffs) : h.completed_at = {}})
  /\ UNCHANGED <<initiated, completed, link_now>>

-----------------------------------------------------------------------------
PhaseNext ==
  \/ \E plan \in LinkPlans : ScheduleLink(plan)
  \/ TransitionToAcquiring
  \/ \E q \in LinkQualities : TransitionToEstablished(q)
  \/ \E q \in LinkQualities : \E report \in detect_degradation(q, <<>>) : TransitionToDegrading(report)
  \/ \E cause \in LinkCauses : TransitionToFailed(cause)
  \/ SnapshotLink
  \/ SaveAndLoadLink
  \/ LinkTimePasses /\ UNCHANGED phaseVars

MetricNext == \E reading \in Readings : Push(reading)

FailoverNext ==
  \/ \E strategy \in Strategies : InitiateLinkHandoff(strategy)
  \/ \E id \in initiated, success \in BOOLEAN : CompleteLinkHandoff(id, success)
  \/ CleanupCompleted
  \/ LinkTimePasses /\ UNCHANGED failoverVars

OpticalLinkNext ==
  \/ PhaseNext /\ UNCHANGED <<metricVars, failoverVars>>
  \/ MetricNext /\ UNCHANGED <<phaseVars, failoverVars>>
  \/ FailoverNext /\ UNCHANGED <<phaseVars, metricVars>>

OpticalLinkSpec == OpticalLinkInit /\ [][OpticalLinkNext]_opticalLinkVars

-----------------------------------------------------------------------------
(* What an optical link promises *)

OpticalLinkTypeOK ==
  /\ link.phase.is \in {"Scheduled", "Acquiring", "Established", "Degrading", "Failed"}
  /\ \A s \in link.snapshots : Len(s) <= link_snapshots
  /\ Len(metric_history) <= Max({1, max_size})
  /\ completed \subseteq initiated
  /\ link_now \in 0..MaxLinkTime

\* Through failures, degradations, reschedulings and loads a link knows when it was
\* last established, and one that is up is up since then; only such a link is
\* called healthy.
LinkKnowsWhenItWasUp ==
  /\ link.established_at = IF established = {} THEN {} ELSE {Max(established)}
  /\ link.phase.is = "Established" => link.established_at = {link.phase.since}
  /\ is_healthy => established # {} /\ ~\E r \in detect_degradation(link.phase.quality, <<>>) :
                                           r.reason # "PointingDrift"

\* Whatever the history has dropped, it ends with the latest readings, and the
\* detector reports exactly when a threshold is crossed.  A hand-off is asked for
\* only when the errors overwhelm the correction or the terminal is far off, and
\* always in the first case and, in the second, if the signal is strong or fell
\* over the last five readings; of a far terminal whose signal is weak and did not
\* fall nothing is claimed.  Neither trend goes against readings that only rise or
\* only fall, and a terminal that only drifts away is never reported as coming back.
DetectionIsExact ==
  LET kept == Len(metric_history)
      n == Len(measured)
      Monotone(Leq(_, _)) == \A i \in 1..(kept - 1) : Leq(metric_history[i], metric_history[i + 1])
      rising == Monotone(LAMBDA a, b : a.snr <= b.snr)
      falling == Monotone(LAMBDA a, b : a.snr >= b.snr)
      drifting == Monotone(LAMBDA a, b : a.pointing <= b.pointing)
      back == Min({5, kept}) - 1
      fell == kept > 1 /\ measured[n].snr < measured[n - back].snr - 1
  IN  /\ kept = Min({n, Max({1, max_size})})
      /\ \A i \in 1..kept : metric_history[i] = measured[n - kept + i]
      /\ rising => "Degrading" \notin {calculate_trend(metric_history), trend(metric_history)}
      /\ falling => "Improving" \notin {calculate_trend(metric_history), trend(metric_history)}
      /\ \A q \in LinkQualities :
           LET weak == q.snr < threshold_snr
               far == q.pointing > threshold_pointing
               reports == detect_degradation(q, metric_history)
           IN  /\ reports = {} <=> q.ber <= threshold_ber /\ ~weak /\ ~far
               /\ \A r \in reports :
                    /\ r.action = "InitiateHandoff" => q.ber > threshold_ber \/ far
                    /\ q.ber > threshold_ber \/ (far /\ (weak => fell)) => r.action = "InitiateHandoff"
                    /\ r.reason = "PointingDrift" /\ drifting => r.by[1] >= 0

\* A hand-off that was initiated is tracked until it was completed, whatever
\* clean-up comes between, and a success was completed.
HandoffsAreTracked ==
  LET tracked == {active_handoffs[i].handoff_id : i \in DOMAIN active_handoffs}
  IN  /\ Cardinality(tracked) = Len(active_handoffs)
      /\ initiated \ completed \subseteq tracked /\ tracked \subseteq initiated
      /\ \A i \in DOMAIN active_handoffs :
           LET h == active_handoffs[i]
           IN  /\ h.completed_at # {} <=> h.handoff_id \in completed
               /\ h.success => h.completed_at # {}
               /\ \A t \in h.completed_at : t >= h.initiated_at

\* An optical link knows when it was up, its degradations are reported when a
\* threshold is crossed and its hand-offs are tracked.
OpticalLinkIsSound == LinkKnowsWhenItWasUp /\ DetectionIsExact /\ HandoffsAreTracked

-----------------------------------------------------------------------------
(***************************************************************************)
(* Routes over optical links, optical/src/routing/path_finder.rs, on the   *)
(* topology of routing/topology.rs.  The topology is built edge by edge    *)
(* and then owned by the PathFinder.  find_route() is a breadth-first      *)
(* search; each turn of its loop is one step.  It reads neither the        *)
(* RouteConstraints nor what a link needs to be acquired in time: whether  *)
(* a link would meet them is known to the properties only.                 *)
(***************************************************************************)

CONSTANTS
  Nodes,
  Links,                \* the edges that may be pushed
  Source, Destination,  \* of the call of find_route()
  max_hops,             \* of its constraints, or max_latency_ms at 10 ms a hop
  MaxEdges              \* bound on the edges of the topology

NoParent == "none"

ASSUME RoutingAssumption ==
  /\ IsFiniteSet(Nodes) /\ NoParent \notin Nodes
  /\ Source \in Nodes /\ Destination \in Nodes /\ {max_hops, MaxEdges} \subseteq Nat
  /\ Links \subseteq [from : Nodes, to : Nodes, visible : BOOLEAN, meets : BOOLEAN]

VARIABLES
  edges,       \* from, to, is_visible_at() the time of the call, and whether the
               \* link meets the constraints and can be acquired in time
  search,      \* the state of the call: "none", "running", "found", "exhausted"
  frontier,    \* its queue
  visited,
  parent_map,  \* the edge each visited node was reached by
  route        \* the path it returned

routingVars == <<edges, search, frontier, visited, parent_map, route>>

Edges == [from : Nodes, to : Nodes, visible : BOOLEAN, meets : BOOLEAN]

\* The search has its type; the source has no parent, or a path would not end.
RoutingTypeOK ==
  /\ edges \in SUBSET Edges
  /\ search \in {"none", "running", "found", "exhausted"}
  /\ frontier \in Seq(Nodes)
  /\ visited \in SUBSET Nodes
  /\ parent_map \in [Nodes -> Nodes \cup {NoParent}]
  /\ \A n \in Nodes : parent_map[n] # NoParent => n \in visited \ {Source}
  /\ route \in Seq(Nodes \X Nodes)

RoutingInit ==
  /\ edges = {}
  /\ search = "none"
  /\ frontier = <<>>
  /\ visited = {}
  /\ parent_map = [n \in Nodes |-> NoParent]
  /\ route = <<>>

\* add_edge(), before the topology is given to the PathFinder: any edge, to its own
\* end or beside another as well.  One that is like another changes no search.
AddEdge(e) ==
  /\ search = "none"
  /\ Cardinality(edges) < MaxEdges
  /\ edges' = edges \cup {e}
  /\ UNCHANGED <<search, frontier, visited, parent_map, route>>

\* The search begins at the source, which counts as visited.
FindRoute ==
  /\ search = "none"
  /\ search' = "running"
  /\ frontier' = <<Source>>
  /\ visited' = {Source}
  /\ UNCHANGED <<edges, parent_map, route>>

\* The nodes a turn of the loop adds, in the order of the topology's edges,
\* which may be any.
Orders(S) == {s \in [1..Cardinality(S) -> S] : \A i, j \in DOMAIN s : s[i] = s[j] => i = j}

\* find_edges_from(), is_visible_at() and the test for a visit.
Neighbors(n) == {e.to : e \in {f \in edges : f.from = n /\ f.visible}} \ visited

\* The ends of all edges, visible or not.
MarkedUnseen(n) == {e.to : e \in {f \in edges : f.from = n}} \ visited

\* What becomes visited with it.
Marked(n) == Neighbors(n)

\* A turn of the loop that looks at the neighbours of a node.
Explore ==
  /\ search = "running"
  /\ frontier # <<>>
  /\ Head(frontier) # Destination
  /\ LET current == Head(frontier)
         new == Neighbors(current)
     IN  /\ \E order \in Orders(new) : frontier' = Tail(frontier) \o order
         /\ visited' = visited \cup Marked(current)
         /\ parent_map' = [n \in Nodes |-> IF n \in new THEN current ELSE parent_map[n]]
  /\ UNCHANGED <<edges, search, route>>

\* The path back to the source, reversed; a node without a parent ends it too.
PathTo[n \in Nodes] ==
  IF n = Source \/ parent_map[n] = NoParent THEN <<>>
  ELSE Append(PathTo[parent_map[n]], <<parent_map[n], n>>)

\* The turn that finds the destination at the head of the queue.
Return ==
  /\ search = "running"
  /\ frontier # <<>>
  /\ Head(frontier) = Destination
  /\ search' = "found"
  /\ route' = PathTo[Destination]
  /\ UNCHANGED <<edges, frontier, visited, parent_map>>

\* The queue is empty: None.
Exhaust ==
  /\ search = "running"
  /\ frontier = <<>>
  /\ search' = "exhausted"
  /\ UNCHANGED <<edges, frontier, visited, parent_map, route>>

RoutingNext ==
  \/ FindRoute \/ Explore \/ Return \/ Exhaust
  \/ \E e \in Links : AddEdge(e)

RoutingSpec == RoutingInit /\ [][RoutingNext]_routingVars

-----------------------------------------------------------------------------
(* Properties *)

\* The links a route may use by the constraints and the time an acquisition takes.
Meeting == {e \in edges : e.meets}

\* The nodes within k hops of the source over visible links of that kind.
Within[k \in Nat] ==
  IF k = 0 THEN {Source}
  ELSE Within[k - 1] \cup {e.to : e \in {f \in Meeting : f.visible /\ f.from \in Within[k - 1]}}

\* A route is a path of visible links from the source to the destination, and no
\* path that meets the constraints has fewer hops.  That the route meets them is
\* not claimed.
RouteIsShortest ==
  search = "found" =>
    /\ \A i \in DOMAIN route : \E e \in edges : e.visible /\ <<e.from, e.to>> = route[i]
    /\ \A i \in 1..(Len(route) - 1) : route[i][2] = route[i + 1][1]
    /\ IF route = <<>> THEN Source = Destination
       ELSE route[1][1] = Source /\ route[Len(route)][2] = Destination
    /\ \A k \in 0..(Len(route) - 1) : Destination \notin Within[k]

\* None means that no visible path meets the constraints.
NoneMeansUnreachable == search = "exhausted" => Destination \notin Within[max_hops]

\* What find_route() returns is a visible path to the destination and, of the paths
\* that meet the constraints, none is shorter; where it returns None there is none.
RouteIsExact == RouteIsShortest /\ NoneMeansUnreachable

-----------------------------------------------------------------------------
\* The optical terminal keeps its promises: every acquisition asked for waits, was
\* handed out or cancelled; the pointing model neither applies what is too old nor
\* rejects what is ordinary; no path that meets the constraints is shorter than a
\* route, or missed; and the link knows when it was up, reports a degradation exactly
\* when a threshold is crossed and tracks its hand-offs.
OpticalTerminalIsSound ==
  EveryRequestIsAccountedFor /\ CorrectionIsSound /\ RouteIsExact /\ OpticalLinkIsSound

==============================================================================
