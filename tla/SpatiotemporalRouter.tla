------------------------ MODULE SpatiotemporalRouter ------------------------
(***************************************************************************)
(* Routes through a time-varying graph, oisl/src/topology/routing.rs, over *)
(* the forecast of topology/forecast.rs.  Time counts the 30 s of a hop.   *)
(* compute_route() is a Dijkstra search whose states are places at times;  *)
(* each turn of its loop is one step.  A call owns the router: the intent  *)
(* compiler keeps it in a Mutex.  Costs are whole numbers, and may be zero *)
(* or negative: calculate_hop_cost() subtracts for a quality above 1.      *)
(* Capacities and confidences are left out.  The cache never fills (256).  *)
(***************************************************************************)
EXTENDS Integers, Sequences, SequencesExt, FiniteSets

CONSTANTS
  Craft,      \* the nodes
  Forecasts,  \* [start, end, snapshots], a set of edges for each time of a snapshot
  Latencies,  \* what a caller may set as max_latency, in hops
  Unbounded,  \* no max_latency
  Bucket,     \* ROUTE_CACHE_BUCKET_SECS
  Nothing

ASSUME RouterAssumption ==
  /\ Latencies \subseteq Nat /\ Unbounded \notin Nat
  /\ Nothing \notin Seq([from : Craft, to : Craft, cost : Int, use_window : [start : Nat, end : Nat]])
  /\ Bucket \in Nat \ {0}
  /\ \A f \in Forecasts :
       /\ f.start \in Nat /\ f.end \in Nat
       /\ DOMAIN f.snapshots \subseteq Nat /\ IsFiniteSet(DOMAIN f.snapshots)
       /\ \A t \in DOMAIN f.snapshots : IsFiniteSet(f.snapshots[t])
       /\ \A t \in DOMAIN f.snapshots : \A e \in f.snapshots[t] :
            e.from \in Craft /\ e.to \in Craft /\ e.cost \in Int
            /\ e.window.start \in Nat /\ e.window.end \in Nat

VARIABLES
  route_cache,  \* the route of a (source, destination, bucket), or Nothing, with the
                \* query it was searched for, which the properties look at
  query,        \* the running call of compute_route(), or Nothing
  heap,         \* its RouteStates
  visited,      \* its set of (node, time)
  answer        \* what the last call returned, until its caller has used it

routerVars == <<route_cache, query, heap, visited, answer>>

Starts == {f.start : f \in Forecasts}
Keys == Craft \X Craft \X {s \div Bucket : s \in Starts}

RouterInit ==
  /\ route_cache = [k \in Keys |-> [hops |-> Nothing, query |-> Nothing]]
  /\ query = Nothing
  /\ heap = {}
  /\ visited = {}
  /\ answer = Nothing

\* get_at(): the snapshot of that time, else the nearest one, the later of two
\* equally near; every method of interpolation falls back to this.
QueryAt(f, t) ==
  LET times == DOMAIN f.snapshots
      before == {s \in times : s <= t}
      after == {s \in times : s >= t}
  IN  IF times = {} THEN {}
      ELSE IF after = {} THEN f.snapshots[Max(before)]
      ELSE IF before = {} THEN f.snapshots[Min(after)]
      ELSE IF t - Max(before) < Min(after) - t THEN f.snapshots[Max(before)]
      ELSE f.snapshots[Min(after)]

InWindow(w, t) == w.start <= t /\ t <= w.end

\* The edges a search at a node may take at a time.
Usable(f, node, t) == {e \in QueryAt(f, t) : e.from = node /\ InWindow(e.window, t)}

CacheKey(q) == <<q.source, q.destination, q.topology.start \div Bucket>>

\* The key ignores the topology and the constraints of the call.
ComputeRoute(q) ==
  LET cached == route_cache[CacheKey(q)] IN
  /\ query = Nothing /\ answer = Nothing
  /\ \/ /\ cached.hops # Nothing
        /\ answer' = [query |-> q, hops |-> cached.hops, found_for |-> cached.query]
        /\ UNCHANGED <<query, heap, visited>>
     \/ /\ cached.hops = Nothing
        /\ query' = q
        /\ heap' = {[cost |-> 0, node |-> q.source, time |-> q.topology.start, hops |-> <<>>]}
        /\ visited' = {}
        /\ UNCHANGED answer
  /\ UNCHANGED route_cache

\* satisfies_constraints(): every hop's use window is one unit long.
SatisfiesConstraints(hops, max) == max # Unbounded => Len(hops) <= max

\* What a turn pushes.
Successors(state) ==
  {[cost |-> state.cost + e.cost, node |-> e.to, time |-> state.time + 1,
    hops |-> Append(state.hops, [from |-> e.from, to |-> e.to, cost |-> e.cost,
                                 use_window |-> [start |-> state.time, end |-> state.time + 1]])]
   : e \in Usable(query.topology, state.node, state.time)}

StateKeyOfNode(state) == <<state.node, query.topology.start>>

StateKey(state) == <<state.node, state.time>>

Popped(state) == state \in heap /\ \A other \in heap : state.cost <= other.cost

Skip(state) ==
  /\ query # Nothing /\ Popped(state)
  /\ StateKey(state) \in visited
  /\ heap' = heap \ {state}
  /\ UNCHANGED <<route_cache, query, visited, answer>>

Arrived(state) ==
  state.node = query.destination /\ SatisfiesConstraints(state.hops, query.max_latency)

\* A place that is not the destination, or is it too late, is explored.
Explore(state) ==
  /\ query # Nothing /\ Popped(state)
  /\ StateKey(state) \notin visited
  /\ ~ Arrived(state)
  /\ visited' = visited \cup {StateKey(state)}
  /\ heap' = (heap \ {state}) \cup Successors(state)
  /\ UNCHANGED <<route_cache, query, answer>>

Return(hops) ==
  /\ answer' = [query |-> query, hops |-> hops, found_for |-> query]
  /\ query' = Nothing
  /\ heap' = {}
  /\ visited' = {}

ReturnRoute(state) ==
  /\ query # Nothing /\ Popped(state)
  /\ StateKey(state) \notin visited
  /\ Arrived(state)
  /\ Return(state.hops)
  /\ route_cache' = [route_cache EXCEPT ![CacheKey(query)] = [hops |-> state.hops, query |-> query]]

\* The heap is empty: NoRouteFound.
ReturnNoRoute ==
  /\ query # Nothing /\ heap = {}
  /\ Return(Nothing)
  /\ UNCHANGED route_cache

SearchNext ==
  \/ \E state \in heap : Skip(state) \/ Explore(state) \/ ReturnRoute(state)
  \/ ReturnNoRoute

-----------------------------------------------------------------------------
(* Properties *)

\* The last moment at which some edge can be taken.
LastUse(f) == Max({0} \cup {e.window.end : e \in UNION Range(f.snapshots)})

\* Every walk of k hops that leaves the source when the horizon begins, takes each
\* edge at a time it can be used and the next as soon as it is there, with its cost
\* and the node it reaches.
WalksWithoutWaits(f, s) ==
  LET walks[k \in Nat] ==
        IF k = 0 THEN {[cost |-> 0, node |-> s]}
        ELSE UNION {{[cost |-> w.cost + e.cost, node |-> e.to] : e \in Usable(f, w.node, f.start + k - 1)}
                    : w \in walks[k - 1]}
  IN  walks

\* The costs of those that arrive in time.
Arrivals(q) ==
  LET last == LastUse(q.topology) + 1
      most == IF q.max_latency = Unbounded \/ q.max_latency > last THEN last ELSE q.max_latency
  IN  {w.cost : w \in {x \in UNION {WalksWithoutWaits(q.topology, q.source)[k] : k \in 0..most} :
                       x.node = q.destination}}

TotalCost(hops) == FoldLeft(LAMBDA total, h : total + h.cost, 0, hops)

EndOfRoute(q, hops) == IF hops = <<>> THEN q.source ELSE hops[Len(hops)].to

\* The route leads hop by hop from the source of a query to its destination.
Leads(q, hops) ==
  /\ EndOfRoute(q, hops) = q.destination
  /\ \A i \in DOMAIN hops : hops[i].from = IF i = 1 THEN q.source ELSE hops[i - 1].to

\* It is within the latency, no hop begins before the one before it has ended, and
\* each takes a link of the forecast that can be used when it begins.
Flies(q, hops) ==
  /\ SatisfiesConstraints(hops, q.max_latency)
  /\ \A i \in DOMAIN hops :
       LET h == hops[i] IN
       /\ h.use_window.start >= IF i = 1 THEN q.topology.start ELSE hops[i - 1].use_window.end
       /\ \E e \in Usable(q.topology, h.from, h.use_window.start) : e.to = h.to /\ e.cost = h.cost

NonNegative(f) == \A e \in UNION Range(f.snapshots) : e.cost >= 0

\* Every route compute_route() returns leads from its source to its destination.
\* One that was searched for, and one the cache returns for an identical query,
\* can be flown, and costs no more than any walk without waits unless some link
\* costs less than nothing; and NoRouteFound is not the answer when such a walk
\* would do: being at a node later is another place than being there earlier, and
\* a late arrival does not end the search.  Nothing is claimed of walks that wait
\* at a node, nor of a route the cache returns for another forecast or latency.
RouteIsCheapest ==
  answer # Nothing =>
    LET q == answer.query
        hops == answer.hops
    IN  /\ hops # Nothing => Leads(q, hops)
        /\ answer.found_for = q =>
             IF hops = Nothing THEN Arrivals(q) = {}
             ELSE /\ Flies(q, hops)
                  /\ NonNegative(q.topology) => \A c \in Arrivals(q) : TotalCost(hops) <= c

=============================================================================
