---------------------------- MODULE ControlNodes ----------------------------
(***************************************************************************)
(* The ground stations that run control planes: the handoffs of satellites *)
(* between them (oisl/src/federation/control_plane_handoff.rs), the        *)
(* federation plane that binds satellites to them and links terminals of   *)
(* other operators (federation/mod.rs), the choice of the stations         *)
(* (topology/control_node_placement.rs) and the prediction of handoffs     *)
(* (resource/control_node_assignment.rs).                                  *)
(*                                                                         *)
(* The plane is called with &mut self, but a HandoffRequest is a value its *)
(* caller keeps, clones and sends: it may be completed late, after others  *)
(* and twice.  Distances are whole numbers, ratios and scores tenths.      *)
(***************************************************************************)
EXTENDS Integers, Sequences, FiniteSets, FiniteSetsExt

(***************************************************************************)
(* Control-plane handoffs of satellites between ground control nodes,      *)
(* oisl/src/federation/control_plane_handoff.rs: the HandoffManager's list *)
(* of handoffs, oldest first, and each handoff's state and recorded        *)
(* transitions.  Every method takes &mut self and is one action; the calls *)
(* come from satellites, control nodes and operators in any order, and a   *)
(* failure may be reported at any time.  Metrics and times are left out.   *)
(***************************************************************************)

CONSTANTS
  Spacecraft,
  Steps,           \* the HandoffSteps before HandoffComplete
  MaxHandoffs,     \* bound on the length of the list
  MaxTransitions   \* bound on the recorded transitions of one handoff

ASSUME HandoffAssumption ==
  /\ "HandoffComplete" \notin Steps
  /\ MaxHandoffs \in Nat \ {0}
  /\ MaxTransitions \in Nat \ {0}

VARIABLE active_handoffs

handoffVars == <<active_handoffs>>

Idle == [name |-> "Idle"]
Initiated == [name |-> "Initiated"]
Processing(step) == [name |-> "Processing", step |-> step]
Complete == [name |-> "Complete"]
Failed == [name |-> "Failed"]

HandoffState ==
  {Idle, Initiated, Complete, Failed}
  \cup {Processing(step) : step \in Steps \cup {"HandoffComplete"}}

IsInProgress(h) == h.state.name \in {"Initiated", "Processing"}

IsComplete(h) == h.state = Complete

HandoffInit == active_handoffs = <<>>

TransitionUnlinked(h, new) ==
  [h EXCEPT !.state = new,
            !.state_history = Append(@, [from |-> new, to |-> new])]

\* transition_to(): mem::replace puts the new state in place and hands the old
\* one to the record.
TransitionTo(h, new) ==
  [h EXCEPT !.state = new,
            !.state_history = Append(@, [from |-> h.state, to |-> new])]

NewHandoff(sat) == [satellite_id |-> sat, state |-> Idle, state_history |-> <<>>]

Of(sat) == {i \in DOMAIN active_handoffs : active_handoffs[i].satellite_id = sat}

\* find(): the oldest handoff of the satellite, whatever its state.
Found(sat) == CHOOSE i \in Of(sat) : \A j \in Of(sat) : i <= j

\* initiate_handoff(): refused while one is in progress.
InitiateHandoff(sat) ==
  /\ Len(active_handoffs) < MaxHandoffs
  /\ \A i \in Of(sat) : ~ IsInProgress(active_handoffs[i])
  /\ active_handoffs' = Append(active_handoffs, TransitionTo(NewHandoff(sat), Initiated))

Recordable(i, n) == Len(active_handoffs[i].state_history) + n <= MaxTransitions

\* advance_handoff(): to any step the caller names; the last one completes.
AdvanceHandoff(sat, step) ==
  /\ Of(sat) # {}
  /\ Recordable(Found(sat), 2)
  /\ IsInProgress(active_handoffs[Found(sat)])
  /\ active_handoffs' = [active_handoffs EXCEPT ![Found(sat)] =
       IF step = "HandoffComplete"
       THEN TransitionTo(TransitionTo(@, Processing(step)), Complete)
       ELSE TransitionTo(@, Processing(step))]

\* complete_handoff(): whatever the state of the handoff.
CompleteHandoff(sat) ==
  /\ Of(sat) # {}
  /\ Recordable(Found(sat), 1)
  /\ active_handoffs' = [active_handoffs EXCEPT ![Found(sat)] = TransitionTo(@, Complete)]

\* fail_handoff(): whatever the state of the handoff.
FailHandoff(sat) ==
  /\ Of(sat) # {}
  /\ Recordable(Found(sat), 1)
  /\ active_handoffs' = [active_handoffs EXCEPT ![Found(sat)] = TransitionTo(@, Failed)]

\* cleanup_completed(): those that are not complete stay, in their order, the
\* failed ones too.
CleanupCompleted ==
  LET kept == {i \in DOMAIN active_handoffs : ~ IsComplete(active_handoffs[i])} IN
  /\ kept # DOMAIN active_handoffs
  /\ \E order \in [1..Cardinality(kept) -> kept] :
       /\ \A m, n \in DOMAIN order : m < n => order[m] < order[n]
       /\ active_handoffs' = [n \in DOMAIN order |-> active_handoffs[order[n]]]

HandoffNext ==
  \/ \E sat \in Spacecraft :
       \/ InitiateHandoff(sat) \/ CompleteHandoff(sat) \/ FailHandoff(sat)
       \/ \E step \in Steps \cup {"HandoffComplete"} : AdvanceHandoff(sat, step)
  \/ CleanupCompleted

HandoffSpec == HandoffInit /\ [][HandoffNext]_handoffVars

-----------------------------------------------------------------------------
(* Properties *)

\* Every handoff has its type, and none is left in the state it is created in.
HandoffTypeOK ==
  /\ Len(active_handoffs) <= MaxHandoffs
  /\ \A i \in DOMAIN active_handoffs :
       /\ active_handoffs[i].satellite_id \in Spacecraft
       /\ active_handoffs[i].state \in HandoffState \ {Idle}

\* A satellite is in one handoff at most: two control nodes are never both
\* taking it over, however failures, completions and clean-ups interleave.
OneInProgress ==
  \A sat \in Spacecraft :
    Cardinality({i \in Of(sat) : active_handoffs[i].state \notin {Complete, Failed}}) <= 1

\* The record of a handoff is one unbroken path from Idle to its state: what
\* the post-incident analysis the module promises has to rely on.
HistoryIsAPath ==
  \A i \in DOMAIN active_handoffs :
    LET h == active_handoffs[i].state_history IN
    /\ h[1].from = Idle
    /\ \A k \in 1..(Len(h) - 1) : h[k].to = h[k + 1].from
    /\ h[Len(h)].to = active_handoffs[i].state

\* One handoff at a time, each with an unbroken record.
HandoffsAreSound == OneInProgress /\ HistoryIsAPath

-----------------------------------------------------------------------------
(* Control nodes.                                                          *)

CONSTANTS
  Sites,                    \* NodeIds of ground stations
  Managed,                  \* satellites
  Operators, Trusts,        \* federation peers and the scores they are given
  Validity,                 \* the 24 hours of an attestation
  MaxRequests,              \* bound on the handoff requests
  MaxHistory,               \* bound on handovers, links and points
  MaxPlaneTime,             \* bound on the time
  PlacementForecasts,       \* sequences of [feature, distance], a table for the sites present
  num_clusters, local_search_iterations,
  Distances,                \* from a satellite to a control node
  handoff_threshold_ratio   \* in tenths

ASSUME ControlNodeAssumption ==
  /\ Trusts \subseteq 0..10 /\ Distances \subseteq Nat
  /\ {Validity, num_clusters} \subseteq Nat \ {0}
  /\ {MaxRequests, MaxHistory, MaxPlaneTime, local_search_iterations} \subseteq Nat
  /\ handoff_threshold_ratio \in 0..10
  /\ IsFiniteSet(Sites)
  /\ \A f \in PlacementForecasts :
       /\ Len(f) \in Nat /\ DOMAIN f = 1..Len(f)
       /\ \A j \in DOMAIN f :
            /\ f[j].feature \in Nat
            /\ \A n \in DOMAIN f[j].distance, s \in Managed : f[j].distance[n][s] \in Nat

VARIABLES
  control_nodes, satellite_bindings,
  requests,              \* HandoffRequests in the hands of callers
  federation_peers, attestation_cache, cross_operator_links, plane_now,
  placement,             \* the running or last call of select_control_nodes()
  current_node, handoff_events, last_point  \* of identify_handoff_events()

bindingVars == <<control_nodes, satellite_bindings, requests>>
linkVars == <<federation_peers, attestation_cache, cross_operator_links, plane_now>>
assignmentVars == <<current_node, handoff_events, last_point>>
controlNodeVars == <<bindingVars, linkVars, placement, assignmentVars>>

NotCalled == [phase |-> "idle", topologies |-> {}, remaining |-> {}, k |-> 0,
              selected |-> {}, rounds |-> 0]

ControlNodesInit ==
  /\ control_nodes = {} /\ satellite_bindings = << >> /\ requests = {}
  /\ federation_peers = << >> /\ attestation_cache = << >>
  /\ cross_operator_links = << >> /\ plane_now = 0
  /\ placement = NotCalled
  /\ current_node = {} /\ handoff_events = << >> /\ last_point = << >>

\* HashMap::insert()
Insert(map, key, value) ==
  [k \in DOMAIN map \cup {key} |-> IF k = key THEN value ELSE map[k]]

-----------------------------------------------------------------------------
(* Bindings of satellites.                                                 *)

AddControlNode(n) ==
  /\ control_nodes' = control_nodes \cup {n}
  /\ UNCHANGED <<satellite_bindings, requests>>

\* bind_satellite() forgets an earlier binding and its history.
BindSatellite(s, n) ==
  /\ n \in control_nodes
  /\ satellite_bindings' =
       Insert(satellite_bindings, s, [node |-> n, state |-> "Bound", history |-> << >>])
  /\ UNCHANGED <<control_nodes, requests>>

RequestHandoff(s, n) ==
  /\ n \in control_nodes /\ s \in DOMAIN satellite_bindings
  /\ Cardinality(requests) < MaxRequests
  /\ requests' = requests \cup
       {[id |-> Cardinality(requests), satellite |-> s, target |-> n,
         source |-> satellite_bindings[s].node]}
  /\ satellite_bindings' = [satellite_bindings EXCEPT ![s].state = "Binding"]
  /\ UNCHANGED control_nodes

HandoverFromRequest(b, r) == [from |-> r.source, to |-> r.target]

\* The record names the node the satellite is bound to by then, which need not
\* be the one the request was made for.
Handover(b, r) == [from |-> b.node, to |-> r.target]

FinishHandoff(r) ==
  LET b == satellite_bindings[r.satellite] IN
  /\ Len(b.history) < MaxHistory
  /\ satellite_bindings' = [satellite_bindings EXCEPT ![r.satellite] =
       [node |-> r.target, state |-> "Bound", history |-> Append(b.history, Handover(b, r))]]
  /\ UNCHANGED <<control_nodes, requests>>

-----------------------------------------------------------------------------
(* Links with other operators.                                             *)

AddPeer(o, trust, allows) ==
  /\ federation_peers' = Insert(federation_peers, o, [trust |-> trust, allows |-> allows])
  /\ UNCHANGED <<attestation_cache, cross_operator_links, plane_now>>

AttestOnce(o) ==
  IF o \in DOMAIN attestation_cache THEN attestation_cache
  ELSE Insert(attestation_cache, o, plane_now + Validity)

\* A valid record is used again, an expired one is replaced.
AttestPeer(o) ==
  IF o \in DOMAIN attestation_cache /\ plane_now < attestation_cache[o] THEN attestation_cache
  ELSE Insert(attestation_cache, o, plane_now + Validity)

EstablishLink(o) ==
  /\ o \in DOMAIN federation_peers
  /\ federation_peers[o].trust >= 5 /\ federation_peers[o].allows
  /\ Len(cross_operator_links) < MaxHistory
  /\ attestation_cache' = AttestPeer(o)
  /\ cross_operator_links' = Append(cross_operator_links, [peer |-> o, at |-> plane_now])
  /\ UNCHANGED <<federation_peers, plane_now>>

PlaneTick ==
  /\ plane_now < MaxPlaneTime
  /\ plane_now' = plane_now + 1
  /\ UNCHANGED <<federation_peers, attestation_cache, cross_operator_links>>

-----------------------------------------------------------------------------
(* Placement: a greedy k-center over representative topologies, refined by *)
(* swaps of one station.                                                   *)

\* The snapshots of cluster i of a forecast: equal parts in time, the last one
\* with what is left.
Cluster(f, i) ==
  LET size == Len(f) \div num_clusters
  IN  (i * size + 1)..(IF i = num_clusters - 1 THEN Len(f) ELSE (i + 1) * size)

\* The earliest of the snapshots closest to the centroid of a cluster; the
\* feature vector by one of its coordinates.
Representative(f, C) ==
  LET total == Cardinality(UNION {{j} \X (1..f[j].feature) : j \in C})
      off(j) == LET d == Cardinality(C) * f[j].feature - total IN IF d < 0 THEN -d ELSE d
  IN  Min({j \in C : \A l \in C : off(j) <= off(l)})

SelectRepresentatives(f) ==
  IF Len(f) <= num_clusters THEN {f[j] : j \in DOMAIN f}
  ELSE {f[Representative(f, Cluster(f, i))] : i \in 0..(num_clusters - 1)}

Far == 1000  \* f64::MAX

\* The least distance of a satellite to the selected stations of a topology.
MinDistance(t, s, S) == Min({t.distance[n][s] : n \in S \cap DOMAIN t.distance} \cup {Far})

EvaluatePlacement(topologies, S) ==
  Max({0} \cup UNION {{MinDistance(t, s, S) : s \in Managed} : t \in topologies})

SelectControlNodes(f, candidates, k) ==
  /\ placement.phase \in {"idle", "done"}
  /\ candidates # {} /\ k <= Cardinality(candidates) /\ f # << >>
  /\ \E first \in candidates :
       placement' = [phase |-> "greedy", topologies |-> SelectRepresentatives(f), k |-> k,
                     selected |-> {first}, remaining |-> candidates \ {first}, rounds |-> 0]

\* select_best_station(): a score of f64::MAX is no improvement on none.
BestStations ==
  LET score(n) == EvaluatePlacement(placement.topologies, placement.selected \cup {n})
  IN  {n \in placement.remaining :
         score(n) < Far /\ \A m \in placement.remaining : score(n) <= score(m)}

AddStation(n) ==
  /\ placement.phase = "greedy" /\ Cardinality(placement.selected) < placement.k
  /\ n \in BestStations
  /\ placement' = [placement EXCEPT !.selected = @ \cup {n}, !.remaining = @ \ {n}]

GreedyEnds ==
  /\ placement.phase = "greedy"
  /\ Cardinality(placement.selected) >= placement.k \/ BestStations = {}
  /\ placement' = [placement EXCEPT !.phase = "refine"]

Candidates == placement.selected \cup placement.remaining

\* Replacements of one station by another that score better.
ImprovingFrom(S) ==
  {T \in SUBSET Candidates :
     /\ \E out \in S, in \in Candidates \ S : T = (S \ {out}) \cup {in}
     /\ EvaluatePlacement(placement.topologies, T) < EvaluatePlacement(placement.topologies, S)}

\* One iteration of local_search_refinement(): the hash order of the stations
\* decides which improvement is met first.
Swap ==
  /\ placement.phase = "refine" /\ placement.rounds < local_search_iterations
  /\ \E T \in ImprovingFrom(placement.selected) :
       placement' = [placement EXCEPT !.selected = T, !.remaining = Candidates \ T,
                                      !.rounds = @ + 1]

RefinementEndsAfterOne ==
  /\ placement.phase = "refine"
  /\ ImprovingFrom(placement.selected) = {} \/ placement.rounds > 0
  /\ placement' = [placement EXCEPT !.phase = "done"]

RefinementEnds ==
  /\ placement.phase = "refine"
  /\ ImprovingFrom(placement.selected) = {} \/ placement.rounds = local_search_iterations
  /\ placement' = [placement EXCEPT !.phase = "done"]

-----------------------------------------------------------------------------
(* Prediction of handoffs, a point of the prediction at a time.            *)

ClearlyNearer(d, n, m) == 10 * d[n] < (10 - handoff_threshold_ratio) * d[m]

\* current_node is a set of at most one node; d has the distances of the point.
PredictPoint(d, nearest) ==
  /\ \A n \in Sites : d[nearest] <= d[n]
  /\ last_point' = d
  /\ \/ /\ current_node = {}
        /\ current_node' = {nearest}
        /\ UNCHANGED handoff_events
     \/ \E m \in current_node :
          IF ClearlyNearer(d, nearest, m)
          THEN /\ current_node' = {nearest}
               /\ handoff_events' = Append(handoff_events, [from |-> m, to |-> nearest])
          ELSE UNCHANGED <<current_node, handoff_events>>

-----------------------------------------------------------------------------
BindingNext ==
  /\ \/ \E n \in Sites : AddControlNode(n)
     \/ \E s \in Managed, n \in Sites : BindSatellite(s, n) \/ RequestHandoff(s, n)
     \/ \E r \in requests : FinishHandoff(r)
  /\ UNCHANGED <<linkVars, placement, assignmentVars>>

LinkNext ==
  /\ \/ \E o \in Operators, trust \in Trusts, allows \in BOOLEAN : AddPeer(o, trust, allows)
     \/ \E o \in Operators : EstablishLink(o)
     \/ PlaneTick
  /\ UNCHANGED <<bindingVars, placement, assignmentVars>>

PlacementNext ==
  /\ \/ \E f \in PlacementForecasts, c \in SUBSET Sites, k \in 0..Cardinality(Sites) :
          SelectControlNodes(f, c, k)
     \/ \E n \in placement.remaining : AddStation(n)
     \/ GreedyEnds \/ Swap \/ RefinementEnds
  /\ UNCHANGED <<bindingVars, linkVars, assignmentVars>>

AssignmentNext ==
  /\ Len(handoff_events) < MaxHistory
  /\ \E d \in [Sites -> Distances], n \in Sites : PredictPoint(d, n)
  /\ UNCHANGED <<bindingVars, linkVars, placement>>

ControlNodesSpec ==
  ControlNodesInit /\ [][BindingNext \/ LinkNext \/ PlacementNext \/ AssignmentNext]_controlNodeVars

-----------------------------------------------------------------------------
Bindings == [node : Sites, state : {"Bound", "Binding"}, history : Seq([from : Sites, to : Sites])]

\* The state of the plane, of the placement and of the prediction has its type.
ControlNodesTypeOK ==
  /\ control_nodes \subseteq Sites
  /\ DOMAIN satellite_bindings \subseteq Managed
  /\ \A s \in DOMAIN satellite_bindings : satellite_bindings[s] \in Bindings
  /\ requests \subseteq [id : Nat, satellite : Managed, source : Sites, target : Sites]
  /\ \A o \in DOMAIN federation_peers :
       federation_peers[o] \in [trust : Trusts, allows : BOOLEAN]
  /\ \A o \in DOMAIN attestation_cache : attestation_cache[o] \in Nat
  /\ cross_operator_links \in Seq([peer : Operators, at : Nat])
  /\ plane_now \in Nat
  /\ placement.selected \subseteq Sites /\ placement.remaining \subseteq Sites
  /\ current_node \subseteq Sites /\ Cardinality(current_node) <= 1
  /\ handoff_events \in Seq([from : Sites, to : Sites])

\* However late, often or interleaved requests are completed, the handovers of
\* a satellite lead from node to node without a gap and end where it is bound,
\* at a registered node.
HandoversLeadToTheNode ==
  \A s \in DOMAIN satellite_bindings :
    LET b == satellite_bindings[s] h == b.history IN
    /\ b.node \in control_nodes
    /\ \A i \in 1..(Len(h) - 1) : h[i].to = h[i + 1].from
    /\ h # << >> => h[Len(h)].to = b.node

\* No link was made on an attestation that had expired.
LinksWereAttested ==
  \A i \in DOMAIN cross_operator_links :
    LET l == cross_operator_links[i] IN
    l.peer \in DOMAIN attestation_cache /\ l.at < attestation_cache[l.peer]

\* A finished placement has the stations it was asked for, as far as any other
\* would have helped, and unless the iterations ran out no exchange of one
\* station brings the farthest satellite nearer.
PlacementIsLocallyBest ==
  placement.phase = "done" =>
    /\ placement.rounds < local_search_iterations => ImprovingFrom(placement.selected) = {}
    /\ Cardinality(placement.selected) <= Max({1, placement.k})
    /\ \/ Cardinality(placement.selected) = Max({1, placement.k})
       \/ EvaluatePlacement(placement.topologies, placement.selected) = Far

\* The node a prediction follows is never farther than the threshold allows from
\* being the nearest, and the events lead from one node to the next.
AssignmentFollows ==
  /\ \A m \in current_node : \A n \in Sites : ~ ClearlyNearer(last_point, n, m)
  /\ \A i \in DOMAIN handoff_events :
       LET e == handoff_events[i] IN
       /\ e.from # e.to
       /\ IF i < Len(handoff_events) THEN e.to = handoff_events[i + 1].from
          ELSE current_node = {e.to}

\* Control nodes are chosen, followed and handed over soundly.
ControlNodesAreSound ==
  HandoversLeadToTheNode /\ LinksWereAttested /\ PlacementIsLocallyBest /\ AssignmentFollows

\* The control of a satellite is in one place: its hand-offs follow each other one
\* at a time along a path, and the bindings, links, placement and assignments of
\* the control nodes are sound.
ControlPlaneIsSound == HandoffsAreSound /\ ControlNodesAreSound

=============================================================================
