----------------------------- MODULE OislProofs -----------------------------
(***************************************************************************)
(* The control of the satellites, for every number of satellites,          *)
(* handoffs, ground stations, requests, operators and points of a          *)
(* prediction: the handoffs between control nodes, the bindings, the links *)
(* with other operators, the placement of the nodes and the prediction of  *)
(* handoffs between them; the routes the router finds through time and the *)
(* missions compiled and scheduled over them; and the types of the whole   *)
(* satellite side.                                                         *)
(***************************************************************************)
EXTENDS MCSatellites, SatelliteProofs

-----------------------------------------------------------------------------
(* Control-plane handoffs.                                                   *)

Unfinished(h) == h.state \notin {Complete, Failed}

Histories == Seq([from : HandoffState, to : HandoffState])

Handoff == [satellite_id : Spacecraft, state : HandoffState, state_history : Histories]

\* What holds of one handoff: its record is an unbroken path from Idle to the state
\* it is in, which is none that it is created in.
HandoffIsSound(h) ==
  /\ h \in Handoff
  /\ h.state # Idle
  /\ h.state_history # <<>>
  /\ h.state_history[1].from = Idle
  /\ \A k \in 1..(Len(h.state_history) - 1) : h.state_history[k].to = h.state_history[k + 1].from
  /\ h.state_history[Len(h.state_history)].to = h.state

\* The inductive invariant.  That one handoff of a satellite is unfinished at most
\* needs that no handoff is Idle: an Idle one is not finished, and initiate_handoff()
\* would not take it for one in progress.
HandoffIInv ==
  /\ active_handoffs \in Seq(Handoff)
  /\ Len(active_handoffs) <= MaxHandoffs
  /\ \A i \in DOMAIN active_handoffs : HandoffIsSound(active_handoffs[i])
  /\ \A i, j \in DOMAIN active_handoffs :
       /\ active_handoffs[i].satellite_id = active_handoffs[j].satellite_id
       /\ Unfinished(active_handoffs[i]) /\ Unfinished(active_handoffs[j])
       => i = j

LEMMA InitHandoff == HandoffInit => HandoffIInv
BY HandoffAssumption DEF HandoffInit, HandoffIInv

LEMMA StatesDiffer ==
  /\ Complete # Failed /\ Complete # Idle /\ Failed # Idle /\ Initiated \notin {Idle, Complete, Failed}
  /\ \A step : Processing(step) \notin {Idle, Complete, Failed}
  /\ {Idle, Initiated, Complete, Failed} \subseteq HandoffState
  /\ \A step \in Steps \cup {"HandoffComplete"} : Processing(step) \in HandoffState
BY DEF Complete, Failed, Idle, Initiated, Processing, HandoffState

\* transition_to() extends the record by one transition that begins where it ended.
LEMMA TransitionIsSound ==
  ASSUME NEW h, HandoffIsSound(h), NEW new \in HandoffState \ {Idle}
  PROVE  /\ HandoffIsSound(TransitionTo(h, new))
         /\ TransitionTo(h, new).satellite_id = h.satellite_id
         /\ TransitionTo(h, new).state = new
<1> DEFINE r == h.state_history
           x == [from |-> h.state, to |-> new]
           q == Append(r, x)
           g == TransitionTo(h, new)
<1>1. /\ h \in Handoff
      /\ r \in Histories /\ r # <<>> /\ h.state \in HandoffState /\ h.satellite_id \in Spacecraft
      /\ r[1].from = Idle /\ r[Len(r)].to = h.state
      /\ \A k \in 1..(Len(r) - 1) : r[k].to = r[k + 1].from
  BY DEF HandoffIsSound, Handoff
<1>2. x.from = h.state /\ x.to = new /\ x \in [from : HandoffState, to : HandoffState]
  BY <1>1
<1> HIDE DEF x
<1>3. g = [satellite_id |-> h.satellite_id, state |-> new, state_history |-> q]
  <2>1. g = [h EXCEPT !.state = new, !.state_history = Append(h.state_history, x)]
    BY Zenon DEF TransitionTo, x
  <2> QED BY <1>1, <2>1 DEF Handoff
<1> HIDE DEF q, r, g
<1>4. /\ q \in Histories /\ Len(q) = Len(r) + 1 /\ Len(r) \in Nat /\ Len(r) >= 1
      /\ \A k \in 1..Len(r) : q[k] = r[k]
      /\ q[Len(r) + 1] = x
  <2> DEFINE T == [from : HandoffState, to : HandoffState]
  <2>1. r \in Seq(T) /\ x \in T /\ r # <<>>
    BY <1>1, <1>2 DEF Histories
  <2> HIDE DEF T
  <2>2. /\ q \in Seq(T) /\ Len(q) = Len(r) + 1 /\ Len(r) \in Nat /\ Len(r) >= 1
        /\ \A k \in 1..Len(r) : q[k] = r[k]
        /\ q[Len(r) + 1] = x
    BY <2>1 DEF q
  <2> QED BY <2>2 DEF Histories, T
<1>5. q[1].from = Idle
  BY <1>1, <1>4
<1>6. q[Len(q)].to = new /\ q # <<>>
  BY <1>2, <1>4
<1>7. ASSUME NEW k \in 1..(Len(q) - 1) PROVE q[k].to = q[k + 1].from
  <2>1. k \in 1..Len(r) /\ q[k] = r[k]
    BY <1>4
  <2>2. CASE k = Len(r)
    BY <1>1, <1>2, <1>4, <2>1, <2>2
  <2>3. CASE k # Len(r)
    <3>1. k \in 1..(Len(r) - 1) /\ k + 1 \in 1..Len(r)
      BY <1>4, <2>1, <2>3
    <3> QED BY <1>1, <1>4, <2>1, <3>1
  <2> QED BY <2>2, <2>3
<1>8. g \in Handoff /\ g.satellite_id = h.satellite_id /\ g.state = new /\ g.state_history = q
  BY <1>1, <1>3, <1>4 DEF Handoff
<1>9. HandoffIsSound(g)
  BY <1>5, <1>6, <1>7, <1>8 DEF HandoffIsSound
<1> QED BY <1>8, <1>9 DEF g

\* initiate_handoff() makes a handoff whose record has one transition.
LEMMA NewHandoffIsSound ==
  ASSUME NEW sat \in Spacecraft
  PROVE  /\ HandoffIsSound(TransitionTo(NewHandoff(sat), Initiated))
         /\ TransitionTo(NewHandoff(sat), Initiated).satellite_id = sat
<1> DEFINE x == [from |-> Idle, to |-> Initiated]
           T == [from : HandoffState, to : HandoffState]
           new == NewHandoff(sat)
           g == TransitionTo(new, Initiated)
<1>1. x \in T /\ x.from = Idle /\ x.to = Initiated
  BY StatesDiffer
<1>2. new = [satellite_id |-> sat, state |-> Idle, state_history |-> <<>>] /\ new.state = Idle
  BY DEF NewHandoff
<1>3. g = [new EXCEPT !.state = Initiated, !.state_history = Append(new.state_history, x)]
  BY <1>2, Zenon DEF TransitionTo
<1> HIDE DEF x, g, new, T
<1>4. Append(<<>>, x) = <<x>> /\ <<x>> \in Seq(T)
  BY <1>1
<1>5. g = [satellite_id |-> sat, state |-> Initiated, state_history |-> <<x>>]
  BY <1>2, <1>3, <1>4
<1>6. <<x>> \in Histories
  BY <1>4 DEF Histories, T
<1>7. g \in Handoff /\ g.satellite_id = sat /\ g.state = Initiated /\ g.state_history = <<x>>
  BY <1>5, <1>6, StatesDiffer DEF Handoff
<1>8. Len(<<x>>) = 1 /\ <<x>>[1] = x /\ <<x>> # <<>>
  OBVIOUS
<1>9. HandoffIsSound(g)
  BY <1>1, <1>7, <1>8, StatesDiffer DEF HandoffIsSound
<1> QED BY <1>7, <1>9 DEF g, new

\* find() finds a handoff of the satellite when there is one.
LEMMA FoundIsOf ==
  ASSUME HandoffIInv, NEW sat, Of(sat) # {}
  PROVE  Found(sat) \in Of(sat)
<1>1. Of(sat) \in SUBSET Nat
  BY DEF HandoffIInv, Of
<1>2. \E i \in Of(sat) : \A j \in Of(sat) : i <= j
  BY <1>1, LeastNatural
<1> QED BY <1>2 DEF Found

\* What the operations on a handoff that was found have in common.
LEMMA UpdatePreserves ==
  ASSUME HandoffIInv, NEW i \in DOMAIN active_handoffs, NEW h, HandoffIsSound(h),
         h.satellite_id = active_handoffs[i].satellite_id,
         Unfinished(h) => Unfinished(active_handoffs[i]),
         active_handoffs' = [active_handoffs EXCEPT ![i] = h]
  PROVE  HandoffIInv'
<1>1. h \in Handoff
  BY DEF HandoffIsSound
<1>2. /\ active_handoffs' \in Seq(Handoff) /\ Len(active_handoffs') = Len(active_handoffs)
      /\ DOMAIN active_handoffs' = DOMAIN active_handoffs
      /\ \A j \in DOMAIN active_handoffs : active_handoffs'[j] = IF j = i THEN h ELSE active_handoffs[j]
  BY <1>1 DEF HandoffIInv
<1>3. \A j \in DOMAIN active_handoffs' : HandoffIsSound(active_handoffs'[j])
  BY <1>2 DEF HandoffIInv
<1>4. ASSUME NEW j \in DOMAIN active_handoffs', NEW k \in DOMAIN active_handoffs',
             active_handoffs'[j].satellite_id = active_handoffs'[k].satellite_id,
             Unfinished(active_handoffs'[j]), Unfinished(active_handoffs'[k])
      PROVE  j = k
  <2>1. \A x \in {j, k} : /\ active_handoffs'[x].satellite_id = active_handoffs[x].satellite_id
                          /\ Unfinished(active_handoffs[x])
    BY <1>2, <1>4
  <2> QED BY <1>2, <1>4, <2>1 DEF HandoffIInv
<1> QED BY <1>2, <1>3, <1>4 DEF HandoffIInv

LEMMA InitiatePreserves ==
  ASSUME HandoffIInv, NEW sat \in Spacecraft, InitiateHandoff(sat)
  PROVE  HandoffIInv'
<1> DEFINE h == TransitionTo(NewHandoff(sat), Initiated)
           n == Len(active_handoffs)
<1>1. HandoffIsSound(h) /\ h.satellite_id = sat
  BY NewHandoffIsSound
<1>2. /\ n < MaxHandoffs /\ active_handoffs' = Append(active_handoffs, h)
      /\ \A i \in Of(sat) : ~ IsInProgress(active_handoffs[i])
  BY DEF InitiateHandoff
<1> HIDE DEF h
<1>3. h \in Handoff
  BY <1>1 DEF HandoffIsSound
<1>4. /\ active_handoffs' \in Seq(Handoff) /\ Len(active_handoffs') = n + 1 /\ n \in Nat
      /\ DOMAIN active_handoffs' = 1..(n + 1) /\ DOMAIN active_handoffs = 1..n
      /\ \A j \in 1..n : active_handoffs'[j] = active_handoffs[j]
      /\ active_handoffs'[n + 1] = h
  BY <1>2, <1>3 DEF HandoffIInv
<1> HIDE DEF n
<1>5. \A j \in 1..(n + 1) : j \in 1..n \/ j = n + 1
  BY <1>4
<1>6. \A j \in DOMAIN active_handoffs' : HandoffIsSound(active_handoffs'[j])
  BY <1>1, <1>4, <1>5 DEF HandoffIInv
<1>7. ASSUME NEW j \in 1..n, active_handoffs[j].satellite_id = sat
      PROVE  ~ Unfinished(active_handoffs[j])
  <2>1. active_handoffs[j].state \in HandoffState \ {Idle}
    BY <1>4 DEF HandoffIInv, HandoffIsSound, Handoff
  <2>2. active_handoffs[j].state.name \notin {"Initiated", "Processing"}
    BY <1>2, <1>4, <1>7 DEF Of, IsInProgress
  <2> QED BY <2>1, <2>2 DEF Unfinished, HandoffState, Idle, Initiated, Complete, Failed, Processing
<1>8. ASSUME NEW j \in DOMAIN active_handoffs', NEW k \in DOMAIN active_handoffs',
             active_handoffs'[j].satellite_id = active_handoffs'[k].satellite_id,
             Unfinished(active_handoffs'[j]), Unfinished(active_handoffs'[k])
      PROVE  j = k
  <2>1. CASE j \in 1..n /\ k \in 1..n
    BY <1>4, <1>8, <2>1 DEF HandoffIInv
  <2>2. CASE j = n + 1 /\ k \in 1..n
    BY <1>1, <1>4, <1>7, <1>8, <2>2
  <2>3. CASE j \in 1..n /\ k = n + 1
    BY <1>1, <1>4, <1>7, <1>8, <2>3
  <2> QED BY <1>4, <1>5, <2>1, <2>2, <2>3
<1>9. n + 1 <= MaxHandoffs
  BY <1>2, <1>4, HandoffAssumption DEF n
<1> QED BY <1>4, <1>6, <1>8, <1>9 DEF HandoffIInv

LEMMA CleanupPreserves ==
  ASSUME HandoffIInv, CleanupCompleted
  PROVE  HandoffIInv'
<1> DEFINE kept == {i \in DOMAIN active_handoffs : ~ IsComplete(active_handoffs[i])}
           n == Len(active_handoffs)
           m == Cardinality(kept)
<1>1. PICK order \in [1..m -> kept] :
        /\ \A x, y \in DOMAIN order : x < y => order[x] < order[y]
        /\ active_handoffs' = [x \in DOMAIN order |-> active_handoffs[order[x]]]
  BY DEF CleanupCompleted
<1>2. n \in Nat /\ DOMAIN active_handoffs = 1..n /\ n <= MaxHandoffs /\ kept \in SUBSET (1..n)
  BY DEF HandoffIInv
<1> HIDE DEF kept, n
<1>3. IsFiniteSet(1..n) /\ Cardinality(1..n) = n
  BY <1>2, FS_Interval
<1>4. m \in Nat /\ m <= n
  <2>1. IsFiniteSet(kept) /\ Cardinality(kept) <= Cardinality(1..n)
    BY <1>2, <1>3, FS_Subset
  <2>2. Cardinality(kept) \in Nat
    BY <2>1, FS_CardinalityType
  <2> QED BY <1>3, <2>1, <2>2
<1> HIDE DEF m
<1>5. /\ DOMAIN order = 1..m
      /\ \A x \in 1..m : order[x] \in 1..n
      /\ \A x, y \in 1..m : order[x] = order[y] => x = y
  <2>1. DOMAIN order = 1..m /\ \A x \in 1..m : order[x] \in kept
    BY <1>1
  <2>2. \A x \in 1..m : order[x] \in 1..n
    BY <1>2, <2>1
  <2>3. \A x \in 1..m : order[x] \in Int
    BY <1>2, <2>2
  <2>4. ASSUME NEW x \in 1..m, NEW y \in 1..m, order[x] = order[y]
        PROVE  x = y
    <3>1. ~ (x < y)
      BY <1>1, <2>1, <2>3, <2>4
    <3>2. ~ (y < x)
      BY <1>1, <2>1, <2>3, <2>4
    <3>3. x \in Int /\ y \in Int
      BY <1>4
    <3> QED BY <3>1, <3>2, <3>3
  <2> QED BY <2>1, <2>2, <2>4
<1>6. \A x \in 1..m : active_handoffs[order[x]] \in Handoff
  BY <1>2, <1>5 DEF HandoffIInv
<1>7. /\ active_handoffs' \in Seq(Handoff) /\ Len(active_handoffs') = m
      /\ DOMAIN active_handoffs' = 1..m
      /\ \A x \in 1..m : active_handoffs'[x] = active_handoffs[order[x]]
  <2> DEFINE f(x) == active_handoffs[order[x]]
  <2>1. active_handoffs' = [x \in 1..m |-> f(x)] /\ \A x \in 1..m : f(x) \in Handoff
    BY <1>1, <1>5, <1>6
  <2> HIDE DEF f
  <2>2. /\ active_handoffs' \in Seq(Handoff) /\ Len(active_handoffs') = m
        /\ DOMAIN active_handoffs' = 1..m
        /\ \A x \in 1..m : active_handoffs'[x] = f(x)
    BY <1>4, <2>1
  <2> QED BY <2>2 DEF f
<1>8. \A x \in 1..m : HandoffIsSound(active_handoffs'[x])
  BY <1>2, <1>5, <1>7 DEF HandoffIInv
<1>9. ASSUME NEW x \in 1..m, NEW y \in 1..m,
             active_handoffs'[x].satellite_id = active_handoffs'[y].satellite_id,
             Unfinished(active_handoffs'[x]), Unfinished(active_handoffs'[y])
      PROVE  x = y
  BY <1>2, <1>5, <1>7, <1>9 DEF HandoffIInv
<1>10. m <= MaxHandoffs
  BY <1>2, <1>4, HandoffAssumption
<1> QED BY <1>7, <1>8, <1>9, <1>10 DEF HandoffIInv

LEMMA NextHandoff == HandoffIInv /\ [HandoffNext]_handoffVars => HandoffIInv'
<1> SUFFICES ASSUME HandoffIInv, [HandoffNext]_handoffVars PROVE HandoffIInv'
  OBVIOUS
<1>1. ASSUME NEW sat \in Spacecraft, InitiateHandoff(sat) PROVE HandoffIInv'
  BY <1>1, InitiatePreserves
<1>2. ASSUME NEW sat \in Spacecraft, Of(sat) # {}
      PROVE  Found(sat) \in DOMAIN active_handoffs /\ HandoffIsSound(active_handoffs[Found(sat)])
  BY <1>2, FoundIsOf DEF Of, HandoffIInv
<1>3. ASSUME NEW sat \in Spacecraft, CompleteHandoff(sat) \/ FailHandoff(sat) PROVE HandoffIInv'
  <2> DEFINE i == Found(sat)
  <2>1. PICK end \in {Complete, Failed} :
          active_handoffs' = [active_handoffs EXCEPT ![i] = TransitionTo(active_handoffs[i], end)]
    BY <1>3 DEF CompleteHandoff, FailHandoff
  <2>2. i \in DOMAIN active_handoffs /\ HandoffIsSound(active_handoffs[i])
    BY <1>2, <1>3 DEF CompleteHandoff, FailHandoff
  <2>3. end \in HandoffState \ {Idle}
    BY StatesDiffer
  <2> DEFINE h == TransitionTo(active_handoffs[i], end)
  <2>4. HandoffIsSound(h) /\ h.satellite_id = active_handoffs[i].satellite_id /\ h.state = end
    BY <2>2, <2>3, TransitionIsSound
  <2> HIDE DEF h, i
  <2> QED BY <2>1, <2>2, <2>4, UpdatePreserves DEF Unfinished, h
<1>4. ASSUME NEW sat \in Spacecraft, NEW step \in Steps \cup {"HandoffComplete"},
             AdvanceHandoff(sat, step)
      PROVE  HandoffIInv'
  <2> DEFINE i == Found(sat)
             h == TransitionTo(active_handoffs[i], Processing(step))
             g == TransitionTo(h, Complete)
  <2>1. i \in DOMAIN active_handoffs /\ HandoffIsSound(active_handoffs[i])
    BY <1>2, <1>4 DEF AdvanceHandoff
  <2>2. Unfinished(active_handoffs[i])
    BY <1>4 DEF AdvanceHandoff, IsInProgress, Unfinished, Complete, Failed
  <2>3. HandoffIsSound(h) /\ h.satellite_id = active_handoffs[i].satellite_id
    BY <2>1, StatesDiffer, TransitionIsSound
  <2>4. active_handoffs' = [active_handoffs EXCEPT ![i] = IF step = "HandoffComplete" THEN g ELSE h]
    BY <1>4 DEF AdvanceHandoff
  <2> HIDE DEF h, i
  <2>5. HandoffIsSound(g) /\ g.satellite_id = active_handoffs[i].satellite_id
    BY <2>3, StatesDiffer, TransitionIsSound
  <2> HIDE DEF g
  <2>6. CASE step = "HandoffComplete"
    BY <2>1, <2>2, <2>4, <2>5, <2>6, UpdatePreserves
  <2>7. CASE step # "HandoffComplete"
    BY <2>1, <2>2, <2>3, <2>4, <2>7, UpdatePreserves
  <2> QED BY <2>6, <2>7
<1>5. CASE CleanupCompleted
  BY <1>5, CleanupPreserves
<1>6. CASE UNCHANGED handoffVars
  BY <1>6 DEF handoffVars, HandoffIInv
<1> QED BY <1>1, <1>3, <1>4, <1>5, <1>6 DEF HandoffNext

\* A satellite is in one handoff at most, and the record of every handoff is one
\* unbroken path from Idle to its state, however initiations, failures, completions
\* and clean-ups of any number of satellites interleave.
THEOREM HandoffsStaySound == HandoffSpec => []HandoffsAreSound
<1>1. ASSUME HandoffIInv, NEW sat \in Spacecraft
      PROVE  Cardinality({i \in Of(sat) : active_handoffs[i].state \notin {Complete, Failed}}) <= 1
  <2> DEFINE S == {i \in Of(sat) : active_handoffs[i].state \notin {Complete, Failed}}
  <2>1. \A i, j \in S : i = j
    BY <1>1 DEF HandoffIInv, Of, Unfinished
  <2> HIDE DEF S
  <2>2. Cardinality(S) <= 1
    BY <2>1, AtMostOne
  <2> QED BY <2>2 DEF S
<1>2. HandoffIInv => HandoffsAreSound
  BY <1>1 DEF HandoffIInv, HandoffIsSound, HandoffsAreSound, OneInProgress, HistoryIsAPath
<1> QED BY <1>2, InitHandoff, NextHandoff, PTL DEF HandoffSpec


-----------------------------------------------------------------------------
(* Bindings of satellites to control nodes.                                  *)

HandoverLists == Seq([from : Sites, to : Sites])

\* A binding's handovers lead from node to node and end where it is.
BindingIsSound(b) ==
  /\ b \in [node : Sites, state : {"Bound", "Binding"}, history : HandoverLists]
  /\ \A i \in 1..(Len(b.history) - 1) : b.history[i].to = b.history[i + 1].from
  /\ b.history # << >> => b.history[Len(b.history)].to = b.node

\* A request may be completed at any later time because nodes are never removed and
\* satellites never unbound.
BindingIInv ==
  /\ control_nodes \subseteq Sites
  /\ \A r \in requests : r.satellite \in DOMAIN satellite_bindings /\ r.target \in control_nodes
  /\ satellite_bindings = [s \in DOMAIN satellite_bindings |-> satellite_bindings[s]]
  /\ \A s \in DOMAIN satellite_bindings :
       BindingIsSound(satellite_bindings[s]) /\ satellite_bindings[s].node \in control_nodes

\* complete_handoff() continues the history of the binding where it ended.
LEMMA FinishIsSound ==
  ASSUME NEW b, BindingIsSound(b), NEW r, r.target \in Sites,
         NEW new, new = [node |-> r.target, state |-> "Bound", history |-> Append(b.history, Handover(b, r))]
  PROVE  BindingIsSound(new)
<1> DEFINE h == b.history
           v == Handover(b, r)
           n == Len(h)
<1>1. /\ h \in HandoverLists /\ b.node \in Sites
      /\ \A i \in 1..(Len(h) - 1) : h[i].to = h[i + 1].from
      /\ h # << >> => h[Len(h)].to = b.node
  BY DEF BindingIsSound
<1>2. v \in [from : Sites, to : Sites] /\ v.from = b.node /\ v.to = r.target
  BY <1>1 DEF Handover
<1> DEFINE g == Append(h, v)
<1>3. new.node = r.target /\ new.state = "Bound" /\ new.history = g
  OBVIOUS
<1> HIDE DEF h, v
<1>4. /\ g \in HandoverLists /\ n \in Nat /\ Len(g) = n + 1 /\ g[n + 1] = v
      /\ \A i \in 1..n : g[i] = h[i]
      /\ n = 0 <=> h = << >>
  BY <1>1, <1>2 DEF HandoverLists
<1> HIDE DEF g, n
<1>5. new \in [node : Sites, state : {"Bound", "Binding"}, history : HandoverLists]
  <2>1. new = [node |-> r.target, state |-> "Bound", history |-> g]
    BY Zenon DEF g, h, v
  <2>2. [node |-> r.target, state |-> "Bound", history |-> g]
          \in [node : Sites, state : {"Bound", "Binding"}, history : HandoverLists]
    BY <1>4
  <2> QED BY <2>1, <2>2, Zenon
<1>6. ASSUME NEW i \in 1..(Len(g) - 1) PROVE g[i].to = g[i + 1].from
  <2>1. i \in Nat /\ (i < n \/ i = n) /\ i >= 1
    BY <1>4
  <2>2. CASE i < n
    <3>1. i \in 1..(n - 1) /\ i \in 1..n /\ i + 1 \in 1..n
      BY <1>4, <2>1, <2>2
    <3> QED BY <1>1, <1>4, <3>1 DEF n
  <2>3. CASE i = n
    <3>1. h # << >> /\ n \in 1..n
      BY <1>4, <2>1, <2>3
    <3> QED BY <1>1, <1>2, <1>4, <2>3, <3>1 DEF n
  <2> QED BY <2>1, <2>2, <2>3
<1>7. g[Len(g)].to = new.node
  BY <1>2, <1>3, <1>4
<1> QED BY <1>3, <1>5, <1>6, <1>7 DEF BindingIsSound

LEMMA BindingPreserves == ASSUME BindingIInv, BindingNext PROVE BindingIInv'
<1>1. ASSUME NEW n \in Sites, AddControlNode(n) PROVE BindingIInv'
  <2>1. control_nodes' = control_nodes \cup {n} /\ UNCHANGED <<satellite_bindings, requests>>
    BY <1>1 DEF AddControlNode
  <2> QED BY <2>1 DEF BindingIInv
<1>2. ASSUME NEW s \in Managed, NEW n \in Sites, BindSatellite(s, n) PROVE BindingIInv'
  <2> DEFINE b == [node |-> n, state |-> "Bound", history |-> << >>]
  <2>1. n \in control_nodes /\ satellite_bindings' = Insert(satellite_bindings, s, b)
        /\ UNCHANGED <<control_nodes, requests>>
    BY <1>2 DEF BindSatellite
  <2>2. BindingIsSound(b) /\ b.node = n
    BY DEF BindingIsSound, HandoverLists
  <2> HIDE DEF b
  <2>3. /\ DOMAIN satellite_bindings' = DOMAIN satellite_bindings \cup {s}
        /\ satellite_bindings'[s] = b
        /\ \A u \in DOMAIN satellite_bindings : u # s => satellite_bindings'[u] = satellite_bindings[u]
        /\ satellite_bindings' = [u \in DOMAIN satellite_bindings' |-> satellite_bindings'[u]]
    BY <2>1 DEF Insert
  <2> QED BY <2>1, <2>2, <2>3 DEF BindingIInv
<1>3. ASSUME NEW s \in DOMAIN satellite_bindings, NEW b, BindingIsSound(b), b.node \in control_nodes,
             satellite_bindings' = [satellite_bindings EXCEPT ![s] = b], control_nodes' = control_nodes,
             \A r \in requests' : r \in requests \/ (r.satellite = s /\ r.target \in control_nodes)
      PROVE  BindingIInv'
  <2>1. /\ DOMAIN satellite_bindings' = DOMAIN satellite_bindings
        /\ satellite_bindings'[s] = b
        /\ \A u \in DOMAIN satellite_bindings : u # s => satellite_bindings'[u] = satellite_bindings[u]
        /\ satellite_bindings' = [u \in DOMAIN satellite_bindings' |-> satellite_bindings'[u]]
    BY <1>3 DEF BindingIInv
  <2> QED BY <1>3, <2>1 DEF BindingIInv
<1>4. ASSUME NEW s \in Managed, NEW n \in Sites, RequestHandoff(s, n) PROVE BindingIInv'
  <2> DEFINE old == satellite_bindings[s]
             b == [old EXCEPT !.state = "Binding"]
             r == [id |-> Cardinality(requests), satellite |-> s, target |-> n, source |-> old.node]
  <2>1. /\ n \in control_nodes /\ s \in DOMAIN satellite_bindings
        /\ satellite_bindings' = [satellite_bindings EXCEPT ![s] = b]
        /\ control_nodes' = control_nodes
    BY <1>4 DEF RequestHandoff
  <2>7. requests' = requests \cup {r}
    BY <1>4 DEF RequestHandoff
  <2>2. BindingIsSound(old) /\ old.node \in control_nodes
    BY <2>1 DEF BindingIInv
  <2> HIDE DEF old
  <2>3. BindingIsSound(b) /\ b.node = old.node
    <3>1. old \in [node : Sites, state : {"Bound", "Binding"}, history : HandoverLists]
      BY <2>2 DEF BindingIsSound
    <3> HIDE DEF HandoverLists
    <3>2. /\ b \in [node : Sites, state : {"Bound", "Binding"}, history : HandoverLists]
          /\ b.node = old.node /\ b.history = old.history
      BY <3>1
    <3> HIDE DEF b
    <3> QED BY <2>2, <3>2 DEF BindingIsSound
  <2>4. r.satellite = s /\ r.target = n
    OBVIOUS
  <2> HIDE DEF b, r
  <2>5. b.node \in control_nodes /\ BindingIsSound(b)
    BY <2>2, <2>3
  <2>6. \A q \in requests' : q \in requests \/ (q.satellite = s /\ q.target \in control_nodes)
    BY <2>1, <2>4, <2>7
  <2> QED BY <1>3, <2>1, <2>5, <2>6, Zenon
<1>5. ASSUME NEW r \in requests, FinishHandoff(r) PROVE BindingIInv'
  <2> DEFINE old == satellite_bindings[r.satellite]
             b == [node |-> r.target, state |-> "Bound", history |-> Append(old.history, Handover(old, r))]
  <2>1. /\ r.satellite \in DOMAIN satellite_bindings /\ r.target \in control_nodes /\ r.target \in Sites
        /\ BindingIsSound(old)
    BY DEF BindingIInv
  <2>2. /\ satellite_bindings' = [satellite_bindings EXCEPT ![r.satellite] = b]
        /\ control_nodes' = control_nodes
    BY <1>5 DEF FinishHandoff
  <2>7. requests' = requests
    BY <1>5 DEF FinishHandoff
  <2>3. b.node = r.target
    OBVIOUS
  <2> HIDE DEF old
  <2>4. BindingIsSound(b)
    BY <2>1, FinishIsSound
  <2> HIDE DEF b
  <2>5. b.node \in control_nodes
    BY <2>1, <2>3
  <2>6. \A q \in requests' : q \in requests \/ (q.satellite = r.satellite /\ q.target \in control_nodes)
    BY <2>7
  <2> QED BY <1>3, <2>1, <2>2, <2>4, <2>5, <2>6, Zenon
<1> QED BY <1>1, <1>2, <1>4, <1>5 DEF BindingNext

-----------------------------------------------------------------------------
(* Links with other operators.                                               *)

LinkIInv ==
  /\ plane_now \in Nat
  /\ \A o \in DOMAIN attestation_cache : attestation_cache[o] \in Nat
  /\ cross_operator_links \in Seq([peer : Operators, at : Nat])
  /\ LinksWereAttested

LEMMA LinkPreserves == ASSUME LinkIInv, LinkNext PROVE LinkIInv'
<1>1. ASSUME NEW o \in Operators, NEW trust \in Trusts, NEW allows \in BOOLEAN, AddPeer(o, trust, allows)
      PROVE  LinkIInv'
  BY <1>1 DEF AddPeer, LinkIInv, LinksWereAttested
<1>2. CASE PlaneTick
  BY <1>2 DEF PlaneTick, LinkIInv, LinksWereAttested
<1>3. ASSUME NEW o \in Operators, EstablishLink(o) PROVE LinkIInv'
  <2> DEFINE l == [peer |-> o, at |-> plane_now]
             n == Len(cross_operator_links)
  <2>1. /\ attestation_cache' = AttestPeer(o) /\ plane_now' = plane_now
        /\ cross_operator_links' = Append(cross_operator_links, l)
    BY <1>3 DEF EstablishLink
  <2>2. /\ \A p \in DOMAIN attestation_cache' : attestation_cache'[p] \in Nat
        /\ o \in DOMAIN attestation_cache' /\ plane_now < attestation_cache'[o]
        /\ \A p \in DOMAIN attestation_cache :
             p \in DOMAIN attestation_cache' /\ attestation_cache[p] <= attestation_cache'[p]
    <3>1. CASE o \in DOMAIN attestation_cache /\ plane_now < attestation_cache[o]
      BY <2>1, <3>1 DEF AttestPeer, LinkIInv
    <3>2. CASE ~ (o \in DOMAIN attestation_cache /\ plane_now < attestation_cache[o])
      <4>1. attestation_cache' = Insert(attestation_cache, o, plane_now + Validity)
        BY <2>1, <3>2 DEF AttestPeer
      <4>2. /\ DOMAIN attestation_cache' = DOMAIN attestation_cache \cup {o}
            /\ attestation_cache'[o] = plane_now + Validity
            /\ \A p \in DOMAIN attestation_cache : p # o => attestation_cache'[p] = attestation_cache[p]
        BY <4>1 DEF Insert
      <4>3. plane_now \in Nat /\ Validity \in Nat /\ Validity > 0
        BY ControlNodeAssumption DEF LinkIInv
      <4> QED BY <3>2, <4>2, <4>3 DEF LinkIInv
    <3> QED BY <3>1, <3>2
  <2>3. l \in [peer : Operators, at : Nat] /\ l.peer = o /\ l.at = plane_now
    BY DEF LinkIInv
  <2> HIDE DEF l
  <2>4. /\ cross_operator_links' \in Seq([peer : Operators, at : Nat])
        /\ n \in Nat /\ DOMAIN cross_operator_links' = 1..(n + 1) /\ DOMAIN cross_operator_links = 1..n
        /\ cross_operator_links'[n + 1] = l
        /\ \A i \in 1..n : cross_operator_links'[i] = cross_operator_links[i]
    BY <2>1, <2>3 DEF LinkIInv
  <2>5. \A i \in 1..n : cross_operator_links[i].at \in Nat
    <3> SUFFICES ASSUME NEW i \in DOMAIN cross_operator_links PROVE cross_operator_links[i].at \in Nat
      BY <2>4
    <3>1. cross_operator_links[i] \in [peer : Operators, at : Nat]
      <4> DEFINE R == [peer : Operators, at : Nat]
      <4>1. cross_operator_links \in Seq(R)
        BY DEF LinkIInv
      <4> HIDE DEF R
      <4>2. cross_operator_links[i] \in R
        BY <4>1
      <4> QED BY <4>2 DEF R
    <3> QED BY <3>1
  <2> HIDE DEF n
  <2>6. LinksWereAttested'
    <3> SUFFICES ASSUME NEW i \in 1..(n + 1)
                 PROVE  /\ cross_operator_links'[i].peer \in DOMAIN attestation_cache'
                        /\ cross_operator_links'[i].at < attestation_cache'[cross_operator_links'[i].peer]
      BY <2>4 DEF LinksWereAttested
    <3>1. CASE i = n + 1
      BY <2>2, <2>3, <2>4, <3>1
    <3>2. CASE i \in 1..n
      <4> DEFINE k == cross_operator_links[i]
      <4>1. k.peer \in DOMAIN attestation_cache /\ k.at < attestation_cache[k.peer] /\ k.at \in Nat
        BY <2>4, <2>5, <3>2 DEF LinkIInv, LinksWereAttested
      <4>2. attestation_cache[k.peer] \in Nat /\ attestation_cache'[k.peer] \in Nat
        BY <2>2, <4>1 DEF LinkIInv
      <4>3. cross_operator_links'[i] = k
        BY <2>4, <3>2
      <4> HIDE DEF k
      <4> QED BY <2>2, <4>1, <4>2, <4>3
    <3>3. i = n + 1 \/ i \in 1..n
      BY <2>4
    <3> QED BY <3>1, <3>2, <3>3
  <2> QED BY <2>1, <2>2, <2>4, <2>6 DEF LinkIInv
<1> QED BY <1>1, <1>2, <1>3 DEF LinkNext

-----------------------------------------------------------------------------
(* Prediction of handoffs.                                                   *)

EventLists == Seq([from : Sites, to : Sites])

AssignmentIInv ==
  /\ current_node \subseteq Sites
  /\ \A m, n \in current_node : m = n
  /\ handoff_events \in EventLists
  /\ AssignmentFollows

\* The threshold makes a node clearly nearer only when it is nearer.
LEMMA ClearlyNearerIsNearer ==
  ASSUME NEW d \in [Sites -> Distances], NEW n \in Sites, NEW m \in Sites, ClearlyNearer(d, n, m)
  PROVE  d[n] < d[m]
<1> DEFINE x == d[n]
           y == d[m]
           c == 10 - handoff_threshold_ratio
<1> Distances \subseteq Nat /\ handoff_threshold_ratio \in 0..10
  BY ControlNodeAssumption
<1>0. x \in Distances /\ y \in Distances
  OBVIOUS
<1>6. c \in 0..10
  OBVIOUS
<1>7. x \in Nat /\ y \in Nat
  BY <1>0
<1>1. x \in Nat /\ y \in Nat /\ c \in 0..10
  BY <1>6, <1>7
<1>2. 10 * x < c * y
  BY DEF ClearlyNearer
<1> HIDE DEF x, y, c
<1>3. c * y <= 10 * y
  BY <1>1
<1>4. c * y \in Nat
  BY <1>1
<1>5. x < y
  BY <1>1, <1>2, <1>3, <1>4
<1> QED BY <1>5 DEF x, y

\* Nothing is clearly nearer than a node when the nearest is not.
LEMMA NearestDecides ==
  ASSUME NEW d \in [Sites -> Distances], NEW nearest \in Sites, NEW m \in Sites, NEW n \in Sites,
         d[nearest] <= d[n], ~ ClearlyNearer(d, nearest, m)
  PROVE  ~ ClearlyNearer(d, n, m)
<1> DEFINE x == d[nearest]
           z == d[n]
           y == (10 - handoff_threshold_ratio) * d[m]
<1> Distances \subseteq Nat /\ handoff_threshold_ratio \in 0..10
  BY ControlNodeAssumption
<1>0. d[nearest] \in Nat /\ d[n] \in Nat /\ d[m] \in Nat
  OBVIOUS
<1>1. x \in Nat /\ z \in Nat /\ y \in Int /\ x <= z
  BY <1>0
<1>2. ~ (10 * x < y)
  BY DEF ClearlyNearer
<1> HIDE DEF x, y, z
<1>3. ~ (10 * z < y)
  BY <1>1, <1>2
<1> QED BY <1>3 DEF ClearlyNearer, y, z

LEMMA AssignmentPreserves == ASSUME AssignmentIInv, AssignmentNext PROVE AssignmentIInv'
<1>1. PICK d \in [Sites -> Distances], nearest \in Sites : PredictPoint(d, nearest)
  BY DEF AssignmentNext
<1>2. last_point' = d /\ \A n \in Sites : d[nearest] <= d[n]
  BY <1>1 DEF PredictPoint
<1>3. \A n \in Sites : ~ ClearlyNearer(d, n, nearest)
  <2> SUFFICES ASSUME NEW n \in Sites, ClearlyNearer(d, n, nearest) PROVE FALSE
    OBVIOUS
  <2>1. d[n] < d[nearest] /\ d[nearest] <= d[n]
    BY <1>2, ClearlyNearerIsNearer
  <2>2. d[n] \in Nat /\ d[nearest] \in Nat
    BY ControlNodeAssumption
  <2> QED BY <2>1, <2>2
<1> DEFINE n == Len(handoff_events)
<1>4. n \in Nat /\ DOMAIN handoff_events = 1..n
  BY DEF AssignmentIInv, EventLists
<1>5. CASE current_node = {} /\ current_node' = {nearest} /\ handoff_events' = handoff_events
  <2>1. \A i \in DOMAIN handoff_events : FALSE
    <3> SUFFICES ASSUME NEW i \in DOMAIN handoff_events PROVE FALSE
      OBVIOUS
    <3>1. n \in DOMAIN handoff_events /\ ~ (n < n)
      BY <1>4
    <3> QED BY <1>5, <3>1 DEF AssignmentIInv, AssignmentFollows
  <2> QED BY <1>2, <1>3, <1>5, <2>1 DEF AssignmentIInv, AssignmentFollows
<1>6. ASSUME NEW m \in current_node, ~ ClearlyNearer(d, nearest, m),
             current_node' = current_node, handoff_events' = handoff_events
      PROVE  AssignmentIInv'
  <2>1. m \in Sites /\ \A k \in Sites : ~ ClearlyNearer(d, k, m)
    BY <1>2, <1>6, NearestDecides DEF AssignmentIInv
  <2>2. \A k \in current_node : k = m
    BY <1>6 DEF AssignmentIInv
  <2>3. \A k \in current_node' : \A l \in Sites : ~ ClearlyNearer(last_point', l, k)
    BY <1>2, <1>6, <2>1, <2>2
  <2> QED BY <1>6, <2>3 DEF AssignmentIInv, AssignmentFollows
<1>7. ASSUME NEW m \in current_node, ClearlyNearer(d, nearest, m), current_node' = {nearest},
             handoff_events' = Append(handoff_events, [from |-> m, to |-> nearest])
      PROVE  AssignmentIInv'
  <2> DEFINE e == [from |-> m, to |-> nearest]
  <2>1. m \in Sites /\ m # nearest /\ current_node = {m}
    BY <1>3, <1>7 DEF AssignmentIInv
  <2>2. e \in [from : Sites, to : Sites] /\ e.from = m /\ e.to = nearest
    BY <2>1
  <2> HIDE DEF e
  <2>3. /\ handoff_events' \in EventLists /\ Len(handoff_events') = n + 1
        /\ DOMAIN handoff_events' = 1..(n + 1)
        /\ handoff_events'[n + 1] = e
        /\ \A i \in 1..n : handoff_events'[i] = handoff_events[i]
    BY <1>7, <2>2 DEF AssignmentIInv, EventLists, e
  <2> HIDE DEF n
  <2>4. ASSUME NEW i \in 1..(n + 1)
        PROVE  /\ handoff_events'[i].from # handoff_events'[i].to
               /\ i < n + 1 => handoff_events'[i].to = handoff_events'[i + 1].from
               /\ i = n + 1 => handoff_events'[i].to = nearest
    <3>1. CASE i = n + 1
      BY <1>4, <2>1, <2>2, <2>3, <3>1
    <3>2. CASE i < n
      <4>1. i \in 1..n /\ i + 1 \in 1..n /\ i < n + 1 /\ i # n + 1
        BY <1>4, <3>2
      <4>2. handoff_events[i].from # handoff_events[i].to
            /\ handoff_events[i].to = handoff_events[i + 1].from
        BY <1>4, <3>2, <4>1 DEF AssignmentIInv, AssignmentFollows, n
      <4> QED BY <2>3, <4>1, <4>2
    <3>3. CASE i = n
      <4>1. i \in 1..n /\ ~ (i < n) /\ i # n + 1
        BY <1>4, <3>3
      <4>2. handoff_events[i].from # handoff_events[i].to /\ current_node = {handoff_events[i].to}
        BY <1>4, <4>1 DEF AssignmentIInv, AssignmentFollows, n
      <4>3. handoff_events[i].to = m
        BY <2>1, <4>2
      <4> QED BY <2>2, <2>3, <3>3, <4>1, <4>2, <4>3
    <3> QED BY <1>4, <3>1, <3>2, <3>3
  <2>5. \A i \in DOMAIN handoff_events' :
          /\ handoff_events'[i].from # handoff_events'[i].to
          /\ IF i < Len(handoff_events') THEN handoff_events'[i].to = handoff_events'[i + 1].from
             ELSE current_node' = {handoff_events'[i].to}
    BY <1>4, <1>7, <2>3, <2>4
  <2>6. \A k \in current_node' : \A l \in Sites : ~ ClearlyNearer(last_point', l, k)
    BY <1>2, <1>3, <1>7
  <2> QED BY <1>7, <2>3, <2>5, <2>6 DEF AssignmentIInv, AssignmentFollows
<1> QED BY <1>1, <1>5, <1>6, <1>7 DEF PredictPoint

-----------------------------------------------------------------------------
(* Placement.                                                                *)

\* A topology gives the distance of every satellite from the stations it has.
GoodTopology(t) == \A n \in DOMAIN t.distance, s \in Managed : t.distance[n][s] \in Nat

\* More control nodes are never farther away.
LEMMA MinDistanceShrinks ==
  ASSUME NEW t, GoodTopology(t), NEW s \in Managed, NEW S, NEW T, S \subseteq T
  PROVE  /\ MinDistance(t, s, S) \in 0..Far
         /\ MinDistance(t, s, T) <= MinDistance(t, s, S)
<1> DEFINE D(X) == {t.distance[n][s] : n \in X \cap DOMAIN t.distance} \cup {Far}
<1>1. ASSUME NEW X PROVE D(X) \in SUBSET Nat /\ Far \in D(X)
  BY DEF GoodTopology, Far
<1>2. D(S) \subseteq D(T)
  OBVIOUS
<1>3. MinDistance(t, s, S) = Min(D(S)) /\ MinDistance(t, s, T) = Min(D(T))
  BY DEF MinDistance
<1> HIDE DEF D
<1>4. Min(D(S)) \in D(S) /\ \A x \in D(S) : Min(D(S)) <= x
  BY <1>1, MinIsLeast
<1>5. Min(D(T)) \in D(T) /\ \A x \in D(T) : Min(D(T)) <= x
  BY <1>1, MinIsLeast
<1>6. Min(D(S)) \in Nat /\ Min(D(S)) <= Far
  BY <1>1, <1>4
<1>7. Min(D(S)) \in 0..Far
  BY <1>6 DEF Far
<1>8. Min(D(T)) <= Min(D(S))
  BY <1>2, <1>4, <1>5
<1> QED BY <1>3, <1>7, <1>8

\* A placement scores no worse with more stations.
LEMMA EvaluationShrinks ==
  ASSUME NEW topologies, \A t \in topologies : GoodTopology(t), NEW S, NEW T, S \subseteq T
  PROVE  /\ EvaluatePlacement(topologies, S) \in 0..Far
         /\ EvaluatePlacement(topologies, T) \in 0..Far
         /\ EvaluatePlacement(topologies, T) <= EvaluatePlacement(topologies, S)
<1> DEFINE W(t, X) == {MinDistance(t, s, X) : s \in Managed}
           F(X) == {W(t, X) : t \in topologies}
           V(X) == {0} \cup UNION F(X)
<1>0. Far \in Nat
  BY DEF Far
<1>4. EvaluatePlacement(topologies, S) = Max(V(S)) /\ EvaluatePlacement(topologies, T) = Max(V(T))
  BY DEF EvaluatePlacement
<1>9. ASSUME NEW X, NEW x PROVE x \in V(X) <=> x = 0 \/ \E t \in topologies : x \in W(t, X)
  <2>1. \A w : w \in F(X) <=> \E t \in topologies : w = W(t, X)
    OBVIOUS
  <2> HIDE DEF F
  <2>2. x \in V(X) <=> x = 0 \/ \E w \in F(X) : x \in w
    OBVIOUS
  <2> HIDE DEF V, W
  <2> QED BY <2>1, <2>2
<1> HIDE DEF F, V
<1>1. ASSUME NEW X PROVE V(X) \in SUBSET (0..Far) /\ 0 \in V(X)
  <2>1. \A t \in topologies, s \in Managed : MinDistance(t, s, X) \in 0..Far
    BY MinDistanceShrinks
  <2>2. 0 \in 0..Far
    BY <1>0
  <2>3. ASSUME NEW x \in V(X) PROVE x \in 0..Far
    <3>1. CASE x = 0
      BY <2>2, <3>1
    <3>2. ASSUME NEW t \in topologies, x \in W(t, X) PROVE x \in 0..Far
      BY <2>1, <3>2
    <3> QED BY <1>9, <3>1, <3>2
  <2>4. 0 \in V(X)
    BY <1>9
  <2> QED BY <2>3, <2>4
<1>2. ASSUME NEW X, NEW x \in V(X)
      PROVE  x = 0 \/ \E t \in topologies, s \in Managed : x = MinDistance(t, s, X)
  <2>1. ASSUME NEW t \in topologies, x \in W(t, X) PROVE \E s \in Managed : x = MinDistance(t, s, X)
    BY <2>1
  <2> QED BY <1>2, <1>9, <2>1
<1>3. ASSUME NEW X, NEW t \in topologies, NEW s \in Managed PROVE MinDistance(t, s, X) \in V(X)
  <2>1. MinDistance(t, s, X) \in W(t, X)
    OBVIOUS
  <2> QED BY <1>9, <2>1
<1> HIDE DEF W
<1>5. Max(V(S)) \in V(S) /\ \A x \in V(S) : x <= Max(V(S))
  BY <1>0, <1>1, MaxIsGreatest
<1>6. Max(V(T)) \in V(T)
  BY <1>0, <1>1, MaxIsGreatest
<1>7. Max(V(S)) \in 0..Far /\ Max(V(T)) \in 0..Far
  BY <1>1, <1>5, <1>6
<1>8. Max(V(T)) <= Max(V(S))
  <2>1. CASE Max(V(T)) = 0
    BY <1>0, <1>7, <2>1
  <2>2. ASSUME NEW t \in topologies, NEW s \in Managed, Max(V(T)) = MinDistance(t, s, T)
        PROVE  Max(V(T)) <= Max(V(S))
    <3>1. /\ MinDistance(t, s, S) \in 0..Far
          /\ MinDistance(t, s, T) <= MinDistance(t, s, S)
      BY MinDistanceShrinks
    <3>2. MinDistance(t, s, S) <= Max(V(S))
      BY <1>3, <1>5
    <3> QED BY <1>0, <1>7, <2>2, <3>1, <3>2
  <2> QED BY <1>2, <1>6, <2>1, <2>2
<1> QED BY <1>4, <1>7, <1>8

LEMMA ClusterIsInTheForecast ==
  ASSUME NEW f, Len(f) \in Nat, Len(f) > num_clusters, NEW i \in 0..(num_clusters - 1)
  PROVE  /\ Cluster(f, i) \subseteq 1..Len(f)
         /\ Cluster(f, i) # {}
         /\ IsFiniteSet(Cluster(f, i))
<1> DEFINE c == num_clusters
           n == Len(f)
           size == n \div c
           last == IF i = c - 1 THEN n ELSE (i + 1) * size
<1>1. c \in Nat /\ c > 0
  BY ControlNodeAssumption
<1>2. Cluster(f, i) = (i * size + 1)..last
  BY DEF Cluster
<1>3. n \in Nat /\ n > c /\ i \in Nat /\ i <= c - 1
  BY <1>1
<1> HIDE DEF c, n
<1>4. size \in Nat /\ size >= 1 /\ c * size <= n
  BY <1>1, <1>3
<1> HIDE DEF size
<1>5. i * size \in Nat /\ (i + 1) * size = i * size + size
  BY <1>3, <1>4
<1>6. (i + 1) * size <= c * size
  BY <1>1, <1>3, <1>4
<1>7. last \in Nat /\ last <= n /\ i * size + 1 <= last
  <2> DEFINE a == i * size
             b == c * size
  <2>1. a \in Nat /\ a + size <= b /\ b \in Nat /\ b <= n
    BY <1>1, <1>4, <1>5, <1>6
  <2>2. last = IF i = c - 1 THEN n ELSE a + size
    BY <1>5
  <2> HIDE DEF a, b, last
  <2>3. last \in Nat /\ last <= n /\ a + 1 <= last
    BY <1>3, <1>4, <2>1, <2>2
  <2> QED BY <2>3 DEF a
<1> HIDE DEF last
<1>8. (i * size + 1)..last \subseteq 1..n
  BY <1>3, <1>5, <1>7
<1>9. (i * size + 1)..last # {}
  BY <1>5, <1>7
<1>10. IsFiniteSet((i * size + 1)..last)
  BY <1>5, <1>7, FS_Interval
<1> QED BY <1>2, <1>8, <1>9, <1>10, Zenon DEF n

\* A cluster is represented by one of its snapshots.
LEMMA RepresentativeIsInTheCluster ==
  ASSUME NEW f, NEW C \in SUBSET Nat, C # {}, IsFiniteSet(C), \A j \in C : f[j].feature \in Nat
  PROVE  Representative(f, C) \in C
<1> DEFINE total == Cardinality(UNION {{j} \X (1..f[j].feature) : j \in C})
           dist(j) == Cardinality(C) * f[j].feature - total
           off(j) == IF dist(j) < 0 THEN -dist(j) ELSE dist(j)
           B == {j \in C : \A l \in C : off(j) <= off(l)}
           O == {off(j) : j \in C}
<1>1. total \in Nat
  <2> DEFINE count == [j \in C |-> f[j].feature]
  <2>1. count \in [C -> Nat]
    OBVIOUS
  <2>2. UNION {{j} \X (1..f[j].feature) : j \in C} = Units(count)
    BY DEF Units
  <2> HIDE DEF count
  <2>3. Cardinality(Units(count)) \in Nat
    BY <2>1, UnitsAreFinite
  <2> QED BY <2>2, <2>3, Zenon
<1>2. Cardinality(C) \in Nat
  BY FS_CardinalityType
<1>3. Representative(f, C) = Min(B)
  BY DEF Representative
<1> HIDE DEF total
<1>4. \A j \in C : dist(j) \in Int
  BY <1>1, <1>2
<1> HIDE DEF dist
<1>5. \A j \in C : off(j) \in Nat
  BY <1>4
<1> HIDE DEF off
<1>6. O \in SUBSET Nat /\ O # {}
  BY <1>5
<1>7. \E m \in O : \A x \in O : m <= x
  BY <1>6, LeastNatural
<1>8. B # {}
  BY <1>7
<1>9. B \in SUBSET Nat /\ B \subseteq C
  OBVIOUS
<1> HIDE DEF B
<1>10. Min(B) \in B
  BY <1>8, <1>9, MinIsLeast
<1> QED BY <1>3, <1>9, <1>10

LEMMA RepresentativesAreGood ==
  ASSUME NEW f \in PlacementForecasts, f # << >>, NEW t \in SelectRepresentatives(f)
  PROVE  GoodTopology(t)
<1> DEFINE n == Len(f)
<1>1. n \in Nat /\ DOMAIN f = 1..n
  BY ControlNodeAssumption
<1>2. \A j \in 1..n : f[j].feature \in Nat /\ GoodTopology(f[j])
  BY <1>1, ControlNodeAssumption DEF GoodTopology
<1>3. CASE n <= num_clusters
  <2>1. SelectRepresentatives(f) = {f[j] : j \in DOMAIN f}
    BY <1>3 DEF SelectRepresentatives
  <2> QED BY <1>1, <1>2, <2>1
<1>4. CASE ~ (n <= num_clusters)
  <2>1. SelectRepresentatives(f) = {f[Representative(f, Cluster(f, i))] : i \in 0..(num_clusters - 1)}
    BY <1>4 DEF SelectRepresentatives
  <2>2. PICK i \in 0..(num_clusters - 1) : t = f[Representative(f, Cluster(f, i))]
    BY <2>1
  <2> DEFINE C == Cluster(f, i)
  <2>3. num_clusters \in Nat
    BY ControlNodeAssumption
  <2>4. n > num_clusters
    BY <1>1, <1>4, <2>3
  <2>5. C \subseteq 1..n /\ C # {} /\ IsFiniteSet(C)
    BY <1>1, <2>4, ClusterIsInTheForecast
  <2> HIDE DEF C, n
  <2>6. C \in SUBSET Nat /\ \A j \in C : f[j].feature \in Nat
    BY <1>1, <1>2, <2>5
  <2>7. Representative(f, C) \in C
    BY <2>5, <2>6, RepresentativeIsInTheCluster
  <2> QED BY <1>2, <2>2, <2>5, <2>7 DEF C
<1> QED BY <1>3, <1>4

\* A call is a record of its fields.
IsCall(p) ==
  p = [phase |-> p.phase, topologies |-> p.topologies, remaining |-> p.remaining, k |-> p.k,
       selected |-> p.selected, rounds |-> p.rounds]

Wanted(p) == IF p.k > 1 THEN p.k ELSE 1

\* A further station would be in vain.
Stuck(p) ==
  /\ EvaluatePlacement(p.topologies, p.selected) = Far
  /\ \A n \in p.remaining : EvaluatePlacement(p.topologies, p.selected \cup {n}) = Far

\* A call of select_control_nodes(): the stations chosen are never more than asked
\* for, and when the greedy phase ended with fewer, every candidate left would have
\* been in vain, so that no exchange helps either.
CallIsSound(p) ==
  /\ p.phase \in {"idle", "greedy", "refine", "done"}
  /\ \A t \in p.topologies : GoodTopology(t)
  /\ p.selected \subseteq Sites /\ p.remaining \subseteq Sites
  /\ \A n \in p.selected : n \notin p.remaining
  /\ p.k \in Nat /\ p.rounds \in Nat
  /\ p.phase # "idle" =>
       /\ 1 <= Cardinality(p.selected) /\ Cardinality(p.selected) <= Wanted(p)
       /\ p.k <= Cardinality(p.selected \cup p.remaining)
  /\ p.phase \in {"refine", "done"} => Cardinality(p.selected) = Wanted(p) \/ Stuck(p)
  /\ p.rounds <= local_search_iterations

PlacementIInv ==
  /\ IsCall(placement) /\ CallIsSound(placement)
  /\ placement.phase = "done" /\ placement.rounds < local_search_iterations =>
       ImprovingFrom(placement.selected) = {}

LEMMA SitesAreFinite ==
  ASSUME NEW S \in SUBSET Sites PROVE IsFiniteSet(S) /\ Cardinality(S) \in Nat
<1>1. IsFiniteSet(Sites)
  BY ControlNodeAssumption
<1>2. IsFiniteSet(S)
  BY <1>1, FS_Subset
<1> QED BY <1>2, FS_CardinalityType

LEMMA CallStarts ==
  ASSUME NEW f \in PlacementForecasts, NEW c \in SUBSET Sites, NEW k \in 0..Cardinality(Sites),
         f # << >>, k <= Cardinality(c), NEW first \in c, NEW q,
         q = [phase |-> "greedy", topologies |-> SelectRepresentatives(f), k |-> k,
              selected |-> {first}, remaining |-> c \ {first}, rounds |-> 0]
  PROVE  IsCall(q) /\ CallIsSound(q) /\ q.phase = "greedy"
<1>1. /\ q.phase = "greedy" /\ q.topologies = SelectRepresentatives(f) /\ q.k = k
      /\ q.selected = {first} /\ q.remaining = c \ {first} /\ q.rounds = 0
  OBVIOUS
<1>2. IsCall(q)
  BY DEF IsCall
<1>3. Cardinality(Sites) \in Nat
  BY SitesAreFinite
<1>4. k \in Nat
  BY <1>3
<1>5. Cardinality(q.selected) = 1
  BY <1>1, FS_Singleton, Zenon
<1>6. q.selected \cup q.remaining = c
  BY <1>1
<1>7. q.k <= Cardinality(q.selected \cup q.remaining)
  BY <1>1, <1>6, Zenon
<1>8. \A t \in q.topologies : GoodTopology(t)
  BY <1>1, RepresentativesAreGood
<1>9. local_search_iterations \in Nat
  BY ControlNodeAssumption
<1> QED BY <1>1, <1>2, <1>4, <1>5, <1>7, <1>8, <1>9 DEF CallIsSound, Wanted

LEMMA StationIsAdded ==
  ASSUME NEW p, IsCall(p), CallIsSound(p), p.phase = "greedy", Cardinality(p.selected) < p.k,
         NEW n \in p.remaining, NEW q,
         q = [p EXCEPT !.selected = @ \cup {n}, !.remaining = @ \ {n}]
  PROVE  IsCall(q) /\ CallIsSound(q) /\ q.phase = "greedy"
<1>1. q = [phase |-> p.phase, topologies |-> p.topologies, remaining |-> p.remaining \ {n}, k |-> p.k,
           selected |-> p.selected \cup {n}, rounds |-> p.rounds]
  BY Zenon DEF IsCall
<1>2. /\ q.phase = p.phase /\ q.topologies = p.topologies /\ q.k = p.k
      /\ q.selected = p.selected \cup {n} /\ q.remaining = p.remaining \ {n} /\ q.rounds = p.rounds
  BY <1>1
<1>3. IsCall(q)
  BY <1>1 DEF IsCall
<1>4. IsFiniteSet(p.selected) /\ Cardinality(p.selected) \in Nat /\ n \notin p.selected
  BY SitesAreFinite DEF CallIsSound
<1>5. Cardinality(q.selected) = Cardinality(p.selected) + 1
  BY <1>2, <1>4, FS_AddElement
<1>6. q.selected \cup q.remaining = p.selected \cup p.remaining
  BY <1>2
<1>7. Cardinality(q.selected \cup q.remaining) = Cardinality(p.selected \cup p.remaining)
  BY <1>6, Zenon
<1>8. /\ \A t \in q.topologies : GoodTopology(t)
      /\ q.selected \subseteq Sites /\ q.remaining \subseteq Sites
      /\ \A x \in q.selected : x \notin q.remaining
  BY <1>2 DEF CallIsSound
<1>9. p.k \in Nat /\ 1 <= Cardinality(q.selected) /\ Cardinality(q.selected) <= Wanted(q)
  BY <1>2, <1>4, <1>5 DEF CallIsSound, Wanted
<1> QED BY <1>2, <1>3, <1>7, <1>8, <1>9 DEF CallIsSound

\* Greedy choice stops early only when no candidate left scores at all.
LEMMA GreedyIsSound ==
  ASSUME PlacementIInv, GreedyEnds
  PROVE  Cardinality(placement.selected) = Wanted(placement) \/ Stuck(placement)
<1> DEFINE p == placement
           score(n) == EvaluatePlacement(p.topologies, p.selected \cup {n})
           size == Cardinality(p.selected)
<1>1. CallIsSound(p) /\ p.phase = "greedy" /\ (size >= p.k \/ BestStations = {})
  BY DEF PlacementIInv, GreedyEnds
<1>2. size \in Nat /\ 1 <= size /\ size <= Wanted(p) /\ p.k \in Nat
  BY <1>1, SitesAreFinite DEF CallIsSound
<1>3. CASE size >= p.k
  BY <1>2, <1>3 DEF Wanted
<1>4. CASE size < p.k
  <2>1. BestStations = {}
    BY <1>1, <1>2, <1>4
  <2>2. PICK n : n \in p.remaining
    <3> SUFFICES ASSUME p.remaining = {} PROVE FALSE
      OBVIOUS
    <3>1. p.selected \cup p.remaining = p.selected
      OBVIOUS
    <3>2. Cardinality(p.selected \cup p.remaining) = size
      BY <3>1, Zenon
    <3>3. p.k <= Cardinality(p.selected \cup p.remaining)
      BY <1>1 DEF CallIsSound
    <3> QED BY <1>2, <1>4, <3>2, <3>3
  <2>3. ASSUME NEW m PROVE score(m) \in 0..Far /\ score(m) <= EvaluatePlacement(p.topologies, p.selected)
    BY <1>1, EvaluationShrinks DEF CallIsSound
  <2>4. EvaluatePlacement(p.topologies, p.selected) \in 0..Far
    BY <1>1, EvaluationShrinks DEF CallIsSound
  <2>5. BestStations = {m \in p.remaining : score(m) < Far /\ \A l \in p.remaining : score(m) <= score(l)}
    BY DEF BestStations
  <2> HIDE DEF score
  <2>6. ASSUME NEW m \in p.remaining PROVE score(m) = Far
    <3> DEFINE V == {score(l) : l \in p.remaining}
    <3>1. V \in SUBSET Nat /\ V # {}
      BY <2>2, <2>3
    <3>2. \E v \in V : \A x \in V : v <= x
      BY <3>1, LeastNatural
    <3>3. PICK l \in p.remaining : \A x \in p.remaining : score(l) <= score(x)
      BY <3>2
    <3>4. ~ (score(l) < Far)
      BY <2>1, <2>5, <3>3
    <3>5. score(l) <= score(m)
      BY <3>3
    <3> QED BY <2>3, <3>4, <3>5 DEF Far
  <2>7. score(n) = Far
    BY <2>2, <2>6
  <2>8. EvaluatePlacement(p.topologies, p.selected) = Far
    BY <2>3, <2>4, <2>7 DEF Far
  <2> QED BY <2>6, <2>8 DEF Stuck, score
<1> QED BY <1>2, <1>3, <1>4

\* An exchange keeps the number of stations, and is never possible when stuck.
LEMMA SwapIsSound ==
  ASSUME PlacementIInv, placement.phase = "refine", placement.rounds < local_search_iterations,
         NEW T \in ImprovingFrom(placement.selected), NEW q, NEW left, left = Candidates \ T,
         q = [phase |-> placement.phase, topologies |-> placement.topologies, remaining |-> left,
              k |-> placement.k, selected |-> T, rounds |-> placement.rounds + 1]
  PROVE  IsCall(q) /\ CallIsSound(q) /\ q.phase = "refine"
<1> DEFINE p == placement
           S == p.selected
           C == p.selected \cup p.remaining
<1>0. IsCall(p) /\ CallIsSound(p)
  BY DEF PlacementIInv
<1>1. left = C \ T
  BY DEF Candidates
<1>2. /\ q.phase = p.phase /\ q.topologies = p.topologies /\ q.k = p.k
      /\ q.selected = T /\ q.remaining = C \ T /\ q.rounds = p.rounds + 1
  BY <1>1
<1>3. IsCall(q)
  BY DEF IsCall
<1>4. /\ T \subseteq C
      /\ \E out \in S, in \in C \ S : T = (S \ {out}) \cup {in}
      /\ EvaluatePlacement(p.topologies, T) < EvaluatePlacement(p.topologies, S)
  BY DEF ImprovingFrom, Candidates
<1>5. PICK out \in S, in \in C \ S : T = (S \ {out}) \cup {in}
  BY <1>4
<1>6. IsFiniteSet(S) /\ Cardinality(S) \in Nat
  BY <1>0, SitesAreFinite DEF CallIsSound
<1>7. Cardinality(T) = Cardinality(S)
  <2>1. IsFiniteSet(S \ {out}) /\ Cardinality(S \ {out}) = Cardinality(S) - 1
    BY <1>6, FS_RemoveElement
  <2>2. in \notin S \ {out}
    BY <1>5
  <2>3. Cardinality((S \ {out}) \cup {in}) = Cardinality(S \ {out}) + 1
    BY <2>1, <2>2, FS_AddElement
  <2>4. Cardinality((S \ {out}) \cup {in}) = Cardinality(S)
    BY <1>6, <2>1, <2>3
  <2> QED BY <1>5, <2>4, Zenon
<1>8. q.selected \cup q.remaining = p.selected \cup p.remaining
  BY <1>2, <1>4
<1>9. Cardinality(q.selected \cup q.remaining) = Cardinality(p.selected \cup p.remaining)
  BY <1>8, Zenon
<1>10. ~ Stuck(p)
  <2> SUFFICES ASSUME Stuck(p) PROVE FALSE
    OBVIOUS
  <2>1. in \in p.remaining
    BY <1>5
  <2>2. /\ EvaluatePlacement(p.topologies, S) = Far
        /\ EvaluatePlacement(p.topologies, S \cup {in}) = Far
    BY <2>1 DEF Stuck
  <2>3. T \subseteq S \cup {in}
    BY <1>5
  <2>4. /\ EvaluatePlacement(p.topologies, S \cup {in}) <= EvaluatePlacement(p.topologies, T)
        /\ EvaluatePlacement(p.topologies, T) \in 0..Far
    BY <1>0, <2>3, EvaluationShrinks DEF CallIsSound
  <2> QED BY <1>4, <2>2, <2>4 DEF Far
<1>11. Cardinality(q.selected) = Wanted(q)
  BY <1>0, <1>2, <1>7, <1>10 DEF CallIsSound, Wanted
<1>12. q.selected \subseteq Sites /\ q.remaining \subseteq Sites /\ \A x \in q.selected : x \notin q.remaining
  BY <1>0, <1>2, <1>4 DEF CallIsSound
<1>13. local_search_iterations \in Nat /\ p.rounds \in Nat
  BY <1>0, ControlNodeAssumption DEF CallIsSound
<1>14. q.rounds \in Nat /\ q.rounds <= local_search_iterations
  BY <1>2, <1>13
<1>15. 1 <= Cardinality(q.selected) /\ Cardinality(q.selected) <= Wanted(q)
  BY <1>0, <1>2, <1>7 DEF CallIsSound, Wanted
<1>16. (\A t \in q.topologies : GoodTopology(t)) /\ q.k \in Nat
  BY <1>0, <1>2 DEF CallIsSound
<1>17. q.k <= Cardinality(q.selected \cup q.remaining)
  BY <1>0, <1>2, <1>9 DEF CallIsSound
<1> QED BY <1>2, <1>3, <1>11, <1>12, <1>14, <1>15, <1>16, <1>17 DEF CallIsSound

\* The end of a phase changes nothing else.
LEMMA PhaseEnds ==
  ASSUME PlacementIInv, NEW phase \in {"refine", "done"}, placement.phase # "idle",
         placement' = [placement EXCEPT !.phase = phase],
         Cardinality(placement.selected) = Wanted(placement) \/ Stuck(placement)
  PROVE  /\ IsCall(placement)' /\ CallIsSound(placement)'
         /\ placement'.phase = phase /\ placement'.rounds = placement.rounds
         /\ ImprovingFrom(placement.selected)' = ImprovingFrom(placement.selected)
<1> DEFINE p == placement
<1>0. IsCall(p) /\ CallIsSound(p)
  BY DEF PlacementIInv
<1>1. p' = [phase |-> phase, topologies |-> p.topologies, remaining |-> p.remaining, k |-> p.k,
            selected |-> p.selected, rounds |-> p.rounds]
  BY <1>0, Zenon DEF IsCall
<1>2. /\ p'.phase = phase /\ p'.topologies = p.topologies /\ p'.k = p.k
      /\ p'.selected = p.selected /\ p'.remaining = p.remaining /\ p'.rounds = p.rounds
  BY <1>1
<1>3. IsCall(p)'
  BY <1>1 DEF IsCall
<1>4. CallIsSound(p)'
  BY <1>0, <1>2 DEF CallIsSound, Wanted, Stuck
<1>5. ImprovingFrom(p.selected)' = ImprovingFrom(p.selected)
  BY <1>2 DEF ImprovingFrom, Candidates
<1> QED BY <1>2, <1>3, <1>4, <1>5

LEMMA PlacementPreserves == ASSUME PlacementIInv, PlacementNext PROVE PlacementIInv'
<1>0. IsCall(placement) /\ CallIsSound(placement)
  BY DEF PlacementIInv
<1>1. ASSUME NEW f \in PlacementForecasts, NEW c \in SUBSET Sites, NEW k \in 0..Cardinality(Sites),
             SelectControlNodes(f, c, k)
      PROVE  PlacementIInv'
  <2>1. PICK first \in c :
          placement' = [phase |-> "greedy", topologies |-> SelectRepresentatives(f), k |-> k,
                        selected |-> {first}, remaining |-> c \ {first}, rounds |-> 0]
    BY <1>1 DEF SelectControlNodes
  <2>2. f # << >> /\ k <= Cardinality(c)
    BY <1>1 DEF SelectControlNodes
  <2>3. IsCall(placement') /\ CallIsSound(placement') /\ placement'.phase = "greedy"
    BY <2>1, <2>2, CallStarts
  <2> QED BY <2>3 DEF PlacementIInv, IsCall, CallIsSound, Wanted, Stuck
<1>2. ASSUME NEW n \in placement.remaining, AddStation(n) PROVE PlacementIInv'
  <2>1. /\ placement.phase = "greedy" /\ Cardinality(placement.selected) < placement.k
        /\ placement' = [placement EXCEPT !.selected = @ \cup {n}, !.remaining = @ \ {n}]
    BY <1>2 DEF AddStation
  <2>2. IsCall(placement') /\ CallIsSound(placement') /\ placement'.phase = "greedy"
    BY <1>0, <2>1, StationIsAdded
  <2> QED BY <2>2 DEF PlacementIInv, IsCall, CallIsSound, Wanted, Stuck
<1>3. CASE GreedyEnds
  <2>1. placement.phase = "greedy" /\ placement' = [placement EXCEPT !.phase = "refine"]
    BY <1>3 DEF GreedyEnds
  <2>2. IsCall(placement)' /\ CallIsSound(placement)' /\ placement'.phase = "refine"
    BY <1>3, <2>1, GreedyIsSound, PhaseEnds
  <2> QED BY <2>2 DEF PlacementIInv
<1>4. CASE Swap
  <2>1. PICK T \in ImprovingFrom(placement.selected) :
          placement' = [placement EXCEPT !.selected = T, !.remaining = Candidates \ T, !.rounds = @ + 1]
    BY <1>4 DEF Swap
  <2>2. placement.phase = "refine" /\ placement.rounds < local_search_iterations
    BY <1>4 DEF Swap
  <2>3. IsCall(placement') /\ CallIsSound(placement') /\ placement'.phase = "refine"
    <3>1. placement' = [phase |-> placement.phase, topologies |-> placement.topologies,
                        remaining |-> Candidates \ T, k |-> placement.k, selected |-> T,
                        rounds |-> placement.rounds + 1]
      BY <1>0, <2>1, Zenon DEF IsCall
    <3> QED BY <2>2, <3>1, SwapIsSound
  <2> QED BY <2>3 DEF PlacementIInv, IsCall, CallIsSound, Wanted, Stuck
<1>5. CASE RefinementEnds
  <2>1. /\ placement.phase = "refine" /\ placement' = [placement EXCEPT !.phase = "done"]
        /\ ImprovingFrom(placement.selected) = {} \/ placement.rounds = local_search_iterations
    BY <1>5 DEF RefinementEnds
  <2>2. Cardinality(placement.selected) = Wanted(placement) \/ Stuck(placement)
    BY <1>0, <2>1 DEF CallIsSound
  <2>3. /\ IsCall(placement)' /\ CallIsSound(placement)' /\ placement'.phase = "done"
        /\ placement'.rounds = placement.rounds
        /\ ImprovingFrom(placement.selected)' = ImprovingFrom(placement.selected)
    BY <2>1, <2>2, PhaseEnds
  <2>4. local_search_iterations \in Nat /\ placement.rounds \in Nat
    BY <1>0, ControlNodeAssumption DEF CallIsSound
  <2> QED BY <2>1, <2>3, <2>4 DEF PlacementIInv
<1> QED BY <1>1, <1>2, <1>3, <1>4, <1>5 DEF PlacementNext

-----------------------------------------------------------------------------
ControlNodesIInv == BindingIInv /\ LinkIInv /\ PlacementIInv /\ AssignmentIInv

LEMMA InitControlNodes == ControlNodesInit => ControlNodesIInv
<1> SUFFICES ASSUME ControlNodesInit PROVE ControlNodesIInv
  OBVIOUS
<1>1. BindingIInv
  BY DEF ControlNodesInit, BindingIInv
<1>2. LinkIInv
  BY DEF ControlNodesInit, LinkIInv, LinksWereAttested
<1>3. PlacementIInv
  <2>1. /\ placement = NotCalled
        /\ placement.phase = "idle" /\ placement.topologies = {} /\ placement.remaining = {}
        /\ placement.k = 0 /\ placement.selected = {} /\ placement.rounds = 0
    BY DEF ControlNodesInit, NotCalled
  <2>2. IsCall(placement)
    BY <2>1 DEF IsCall, NotCalled
  <2>3. local_search_iterations \in Nat
    BY ControlNodeAssumption
  <2>4. CallIsSound(placement)
    BY <2>1, <2>3 DEF CallIsSound
  <2> QED BY <2>1, <2>2, <2>4 DEF PlacementIInv
<1>4. AssignmentIInv
  BY DEF ControlNodesInit, AssignmentIInv, AssignmentFollows, EventLists
<1> QED BY <1>1, <1>2, <1>3, <1>4 DEF ControlNodesIInv

LEMMA NextControlNodes ==
  ControlNodesIInv /\ [BindingNext \/ LinkNext \/ PlacementNext \/ AssignmentNext]_controlNodeVars
    => ControlNodesIInv'
<1> SUFFICES ASSUME ControlNodesIInv,
                    [BindingNext \/ LinkNext \/ PlacementNext \/ AssignmentNext]_controlNodeVars
             PROVE  ControlNodesIInv'
  OBVIOUS
<1>0. BindingIInv /\ LinkIInv /\ PlacementIInv /\ AssignmentIInv
  BY DEF ControlNodesIInv
<1>1. UNCHANGED bindingVars => BindingIInv'
  BY <1>0 DEF bindingVars, BindingIInv
<1>2. UNCHANGED linkVars => LinkIInv'
  BY <1>0 DEF linkVars, LinkIInv, LinksWereAttested
<1>3. UNCHANGED placement => PlacementIInv'
  BY <1>0 DEF PlacementIInv, IsCall, CallIsSound, Wanted, Stuck, ImprovingFrom, Candidates
<1>4. UNCHANGED assignmentVars => AssignmentIInv'
  BY <1>0 DEF assignmentVars, AssignmentIInv, AssignmentFollows
<1>5. CASE BindingNext
  <2>1. BindingIInv' /\ UNCHANGED <<linkVars, placement, assignmentVars>>
    BY <1>0, <1>5, BindingPreserves DEF BindingNext
  <2> QED BY <1>2, <1>3, <1>4, <2>1 DEF ControlNodesIInv
<1>6. CASE LinkNext
  <2>1. LinkIInv' /\ UNCHANGED <<bindingVars, placement, assignmentVars>>
    BY <1>0, <1>6, LinkPreserves DEF LinkNext
  <2> QED BY <1>1, <1>3, <1>4, <2>1 DEF ControlNodesIInv
<1>7. CASE PlacementNext
  <2>1. PlacementIInv' /\ UNCHANGED <<bindingVars, linkVars, assignmentVars>>
    BY <1>0, <1>7, PlacementPreserves DEF PlacementNext
  <2> QED BY <1>1, <1>2, <1>4, <2>1 DEF ControlNodesIInv
<1>8. CASE AssignmentNext
  <2>1. AssignmentIInv' /\ UNCHANGED <<bindingVars, linkVars, placement>>
    BY <1>0, <1>8, AssignmentPreserves DEF AssignmentNext
  <2> QED BY <1>1, <1>2, <1>3, <2>1 DEF ControlNodesIInv
<1>9. CASE UNCHANGED controlNodeVars
  BY <1>1, <1>2, <1>3, <1>4, <1>9 DEF controlNodeVars, ControlNodesIInv
<1> QED BY <1>5, <1>6, <1>7, <1>8, <1>9

\* Handovers lead without a gap to the node a satellite is bound to, links were made
\* on valid attestations, a placement is full or no further station helps and no
\* exchange improves it, and a prediction follows a node no other is clearly nearer than.
LEMMA ControlNodesStaySound == ControlNodesSpec => []ControlNodesAreSound
<1>1. ASSUME ControlNodesIInv PROVE ControlNodesAreSound
  <2>0. BindingIInv /\ LinkIInv /\ PlacementIInv /\ AssignmentIInv
    BY <1>1 DEF ControlNodesIInv
  <2>1. HandoversLeadToTheNode
    BY <2>0 DEF BindingIInv, BindingIsSound, HandoversLeadToTheNode
  <2>2. PlacementIsLocallyBest
    <3> DEFINE p == placement
               size == Cardinality(p.selected)
    <3> SUFFICES ASSUME p.phase = "done"
                 PROVE  /\ p.rounds < local_search_iterations => ImprovingFrom(p.selected) = {}
                        /\ size <= Max({1, p.k})
                        /\ \/ size = Max({1, p.k})
                           \/ EvaluatePlacement(p.topologies, p.selected) = Far
      BY DEF PlacementIsLocallyBest
    <3>1. CallIsSound(p) /\ (p.rounds < local_search_iterations => ImprovingFrom(p.selected) = {})
      BY <2>0 DEF PlacementIInv
    <3>2. p.k \in Nat /\ size <= Wanted(p) /\ (size = Wanted(p) \/ Stuck(p))
      BY <3>1 DEF CallIsSound
    <3>3. Max({1, p.k}) = Wanted(p)
      BY <3>2 DEF Max, Wanted
    <3> QED BY <3>1, <3>2, <3>3 DEF Stuck
  <2> QED BY <2>0, <2>1, <2>2 DEF LinkIInv, AssignmentIInv, ControlNodesAreSound
<1> QED BY <1>1, InitControlNodes, NextControlNodes, PTL DEF ControlNodesSpec

\* The control of a satellite is in one place whatever the numbers of satellites,
\* stations, requests and handoffs: hand-offs follow each other one at a time along a
\* path, bindings and links are sound, a placement is locally best and a prediction
\* follows a node that no other is clearly nearer than.
THEOREM ControlPlaneStaysSound == HandoffSpec /\ ControlNodesSpec => []ControlPlaneIsSound
<1>1. HandoffsAreSound /\ ControlNodesAreSound => ControlPlaneIsSound
  BY DEF ControlPlaneIsSound
<1> QED BY <1>1, HandoffsStaySound, ControlNodesStaySound, PTL

-----------------------------------------------------------------------------
(* The router.                                                               *)

Queries ==
  [source : Craft, destination : Craft, topology : Forecasts,
   max_latency : Latencies \cup {Unbounded}]

Reached == [cost : Int, node : Craft]

\* An edge that can be taken is one of the forecast, whose window has not ended.
LEMMA UsableEdges ==
  ASSUME NEW f \in Forecasts, NEW n, NEW t \in Nat, NEW e \in Usable(f, n, t)
  PROVE  /\ e.from = n /\ n \in Craft /\ e.to \in Craft /\ e.cost \in Int
         /\ e.window.end \in Nat /\ t <= e.window.end
         /\ e \in UNION Range(f.snapshots)
<1> DEFINE times == DOMAIN f.snapshots
           before == {s \in times : s <= t}
           after == {s \in times : s >= t}
<1>1. times \in SUBSET Nat
  BY RouterAssumption
<1>2. before # {} => Max(before) \in times
  <2>1. before \in SUBSET (0..t)
    BY <1>1
  <2>2. before \in SUBSET times
    OBVIOUS
  <2> HIDE DEF before, times
  <2> QED BY <2>1, <2>2, MaxIsGreatest
<1>3. after # {} => Min(after) \in times
  <2>1. after \in SUBSET Nat /\ after \in SUBSET times
    BY <1>1
  <2> HIDE DEF after, times
  <2> QED BY <2>1, MinIsLeast
<1>4. times # {} /\ after = {} => before # {}
  BY <1>1
<1>5. e \in QueryAt(f, t) /\ e.from = n /\ InWindow(e.window, t)
  BY DEF Usable
<1>6. \E s \in times : e \in f.snapshots[s]
  BY <1>2, <1>3, <1>4, <1>5 DEF QueryAt
<1>7. e.from \in Craft /\ e.to \in Craft /\ e.cost \in Int /\ e.window.end \in Nat
  BY <1>6, RouterAssumption
<1>8. e \in UNION Range(f.snapshots)
  BY <1>6 DEF Range
<1> QED BY <1>5, <1>7, <1>8 DEF InWindow

\* The walks one hop longer than those of W, leaving at t.
Onward(f, t, W) ==
  UNION {{[cost |-> w.cost + e.cost, node |-> e.to] : e \in Usable(f, w.node, t)} : w \in W}

LEMMA OnwardIsWalks ==
  ASSUME NEW f \in Forecasts, NEW t \in Nat, NEW W \in SUBSET Reached
  PROVE  Onward(f, t, W) \in SUBSET Reached
<1> SUFFICES ASSUME NEW w \in W, NEW e \in Usable(f, w.node, t)
             PROVE  [cost |-> w.cost + e.cost, node |-> e.to] \in Reached
  BY DEF Onward
<1>1. w.cost \in Int
  BY DEF Reached
<1>2. e.to \in Craft /\ e.cost \in Int
  BY UsableEdges
<1>3. w.cost + e.cost \in Int
  BY <1>1, <1>2
<1> QED BY <1>2, <1>3 DEF Reached

\* The walks satisfy the equation that defines them.
LEMMA WalksEquation ==
  ASSUME NEW f \in Forecasts, NEW s \in Craft
  PROVE  /\ WalksWithoutWaits(f, s)[0] = {[cost |-> 0, node |-> s]}
         /\ \A k \in Nat : WalksWithoutWaits(f, s)[k] \in SUBSET Reached
         /\ \A k \in Nat : WalksWithoutWaits(f, s)[k + 1] = Onward(f, f.start + k, WalksWithoutWaits(f, s)[k])
<1> DEFINE V == SUBSET Reached
           base == {[cost |-> 0, node |-> s]}
           step == [k \in Nat |-> [W \in V |-> Onward(f, f.start + k, W)]]
           Solves(g) == g = [k \in Nat |-> IF k = 0 THEN base ELSE Onward(f, f.start + k - 1, g[k - 1])]
<1>0. f.start \in Nat
  BY RouterAssumption
<1>1. base \in V
  BY DEF Reached
<1>2. step \in IterationSteps(V)
  <2>1. \A k \in Nat : \A W \in V : Onward(f, f.start + k, W) \in V
    BY <1>0, OnwardIsWalks
  <2> HIDE DEF V
  <2> QED BY <2>1 DEF IterationSteps
<1>3. PICK g : Iterates(g, V, base, step)
  <2> HIDE DEF V, base, step
  <2> QED BY <1>1, <1>2, Iteration, Zenon
<1>4. g \in [Nat -> V] /\ g[0] = base /\ \A n \in Nat : g[n + 1] = Onward(f, f.start + n, g[n])
  <2>1. g \in [Nat -> V] /\ g[0] = base /\ \A n \in Nat : g[n + 1] = step[n][g[n]]
    BY <1>3 DEF Iterates
  <2> HIDE DEF V
  <2> QED BY <2>1
<1>5. Solves(g)
  <2>1. ASSUME NEW k \in Nat, k # 0 PROVE g[k] = Onward(f, f.start + k - 1, g[k - 1])
    <3>1. k - 1 \in Nat /\ (k - 1) + 1 = k /\ f.start + (k - 1) = f.start + k - 1
      BY <1>0, <2>1
    <3>2. g[(k - 1) + 1] = Onward(f, f.start + (k - 1), g[k - 1])
      BY <1>4, <3>1
    <3> QED BY <3>1, <3>2
  <2> HIDE DEF base
  <2> QED BY <1>4, <2>1
<1>6. WalksWithoutWaits(f, s) = CHOOSE h : Solves(h)
  BY DEF WalksWithoutWaits, Onward
<1>7. Solves(WalksWithoutWaits(f, s))
  <2> HIDE DEF Solves
  <2> QED BY <1>5, <1>6, Zenon
<1> DEFINE w == WalksWithoutWaits(f, s)
<1> HIDE DEF w
<1>8. Solves(w)
  BY <1>7 DEF w
<1>9. w[0] = base
  BY <1>8
<1>10. ASSUME NEW k \in Nat PROVE w[k + 1] = Onward(f, f.start + k, w[k])
  <2>1. k + 1 \in Nat /\ k + 1 # 0 /\ (k + 1) - 1 = k /\ f.start + (k + 1) - 1 = f.start + k
    BY <1>0
  <2>2. w[k + 1] = Onward(f, f.start + (k + 1) - 1, w[(k + 1) - 1])
    <3> HIDE DEF base
    <3> QED BY <1>8, <2>1
  <2> QED BY <2>1, <2>2
<1> DEFINE S == {k \in Nat : w[k] \in V}
<1>11. 0 \in S
  BY <1>1, <1>9
<1>12. ASSUME NEW k \in Nat, k \in S PROVE k + 1 \in S
  <2>1. w[k] \in SUBSET Reached /\ f.start + k \in Nat /\ k + 1 \in Nat
    BY <1>0, <1>12
  <2>2. w[k + 1] \in SUBSET Reached
    BY <1>10, <2>1, OnwardIsWalks
  <2> QED BY <2>1, <2>2
<1> HIDE DEF S
<1>13. \A k \in Nat : k \in S
  BY <1>11, <1>12, ForAll
<1>14. \A k \in Nat : w[k] \in V
  BY <1>13 DEF S
<1> QED BY <1>9, <1>10, <1>14 DEF w

\* A walk, and what it is the continuation of.
LEMMA WalkGoesOn ==
  ASSUME NEW f \in Forecasts, NEW s \in Craft, NEW k \in Nat, NEW w \in WalksWithoutWaits(f, s)[k],
         NEW e \in Usable(f, w.node, f.start + k)
  PROVE  [cost |-> w.cost + e.cost, node |-> e.to] \in WalksWithoutWaits(f, s)[k + 1]
<1>1. WalksWithoutWaits(f, s)[k + 1] = Onward(f, f.start + k, WalksWithoutWaits(f, s)[k])
  BY WalksEquation
<1> QED BY <1>1 DEF Onward

\* A walk of k + 1 hops is one of k hops and a usable link.
LEMMA WalkCameFrom ==
  ASSUME NEW f \in Forecasts, NEW s \in Craft, NEW k \in Nat, NEW x \in WalksWithoutWaits(f, s)[k + 1]
  PROVE  \E w \in WalksWithoutWaits(f, s)[k] : \E e \in Usable(f, w.node, f.start + k) :
           x = [cost |-> w.cost + e.cost, node |-> e.to]
<1>1. WalksWithoutWaits(f, s)[k + 1] = Onward(f, f.start + k, WalksWithoutWaits(f, s)[k])
  BY WalksEquation
<1> QED BY <1>1 DEF Onward

\* No walk leaves after the last window has ended.
LEMMA WalksEnd ==
  ASSUME NEW f \in Forecasts, NEW s \in Craft, NEW k \in Nat, WalksWithoutWaits(f, s)[k] # {}
  PROVE  LastUse(f) \in Nat /\ k <= LastUse(f) + 1
<1> DEFINE edges == UNION Range(f.snapshots)
           ends == {e.window.end : e \in edges}
           all == {0} \cup ends
<1>1. IsFiniteSet(Range(f.snapshots))
  <2>1. IsFiniteSet(DOMAIN f.snapshots)
    BY RouterAssumption
  <2> QED BY <2>1, FiniteValues DEF Range
<1>2. IsFiniteSet(edges)
  <2>1. \A T \in Range(f.snapshots) : IsFiniteSet(T)
    BY RouterAssumption DEF Range
  <2> QED BY <1>1, <2>1, FS_UNION
<1>3. \A e \in edges : e.window.end \in Nat
  BY RouterAssumption DEF Range
<1>4. IsFiniteSet(ends)
  <2> DEFINE g == [e \in edges |-> e.window.end]
  <2> HIDE DEF edges
  <2>1. IsFiniteSet({g[e] : e \in edges})
    BY <1>2, FiniteValues
  <2>2. {g[e] : e \in edges} = ends
    OBVIOUS
  <2> QED BY <2>1, <2>2, Zenon
<1>5. IsFiniteSet(all) /\ all \in SUBSET Nat /\ 0 \in all
  <2>1. IsFiniteSet({0})
    BY FS_Singleton
  <2>2. all \in SUBSET Nat
    <3> HIDE DEF edges
    <3> QED BY <1>3
  <2> HIDE DEF ends
  <2> QED BY <1>4, <2>1, <2>2, FS_Union
<1>6. LastUse(f) = Max(all)
  BY DEF LastUse
<1>7. Max(all) \in Nat /\ \A e \in edges : e.window.end <= Max(all)
  <2>1. \A e \in edges : e.window.end \in all
    OBVIOUS
  <2> HIDE DEF all, edges
  <2> QED BY <1>5, <2>1, FiniteHasGreatest
<1> HIDE DEF all
<1>8. CASE k = 0
  BY <1>6, <1>7, <1>8
<1>9. CASE k # 0
  <2>1. k - 1 \in Nat /\ (k - 1) + 1 = k /\ f.start \in Nat
    BY <1>9, RouterAssumption
  <2>2. PICK x : x \in WalksWithoutWaits(f, s)[(k - 1) + 1]
    BY <2>1
  <2>3. PICK n : \E e \in Usable(f, n, f.start + (k - 1)) : TRUE
    BY <2>1, <2>2, WalkCameFrom
  <2>7. PICK e \in Usable(f, n, f.start + (k - 1)) : TRUE
    BY <2>3
  <2>4. f.start + (k - 1) \in Nat
    BY <2>1
  <2>5. e.window.end \in Nat /\ f.start + (k - 1) <= e.window.end /\ e \in edges
    BY <2>4, <2>7, UsableEdges
  <2>6. e.window.end <= Max(all)
    BY <1>7, <2>5
  <2> HIDE DEF edges
  <2> QED BY <1>6, <1>7, <2>1, <2>5, <2>6
<1> QED BY <1>8, <1>9

\* The cost of a query's answers is that of its walks within the latency, whatever
\* their number of hops.
LEMMA ArrivalsAre ==
  ASSUME NEW q \in Queries
  PROVE  /\ Arrivals(q) \in SUBSET Int
         /\ \A c : c \in Arrivals(q) <=>
              \E k \in Nat : \E w \in WalksWithoutWaits(q.topology, q.source)[k] :
                w.node = q.destination /\ w.cost = c /\ (q.max_latency # Unbounded => k <= q.max_latency)
<1> DEFINE f == q.topology
           s == q.source
           last == LastUse(f) + 1
           most == IF q.max_latency = Unbounded \/ q.max_latency > last THEN last ELSE q.max_latency
<1>1. f \in Forecasts /\ s \in Craft /\ (q.max_latency # Unbounded => q.max_latency \in Nat)
  BY RouterAssumption DEF Queries
<1>2. WalksWithoutWaits(f, s)[0] # {}
  <2>1. WalksWithoutWaits(f, s)[0] = {[cost |-> 0, node |-> s]}
    BY <1>1, WalksEquation
  <2> HIDE DEF f, s
  <2> QED BY <2>1
<1>3. LastUse(f) \in Nat
  BY <1>1, <1>2, WalksEnd
<1>4. Arrivals(q) = {w.cost : w \in {x \in UNION {WalksWithoutWaits(f, s)[k] : k \in 0..most} : x.node = q.destination}}
  BY DEF Arrivals
<1>5. \A k \in Nat : WalksWithoutWaits(f, s)[k] # {} => (k \in 0..most <=> (q.max_latency # Unbounded => k <= q.max_latency))
  <2> SUFFICES ASSUME NEW k \in Nat, WalksWithoutWaits(f, s)[k] # {}
               PROVE  k \in 0..most <=> (q.max_latency # Unbounded => k <= q.max_latency)
    OBVIOUS
  <2>1. k <= last
    BY <1>1, WalksEnd
  <2> QED BY <1>1, <1>3, <2>1
<1>6. most \in Nat
  BY <1>1, <1>3
<1> HIDE DEF most, f, s
<1>7. \A k \in Nat : \A w \in WalksWithoutWaits(f, s)[k] : w.cost \in Int
  BY <1>1, WalksEquation DEF Reached
<1>8. \A k \in 0..most : k \in Nat
  BY <1>6
<1>9. \A c : c \in Arrivals(q) <=>
              \E k \in Nat : \E w \in WalksWithoutWaits(f, s)[k] :
                w.node = q.destination /\ w.cost = c /\ (q.max_latency # Unbounded => k <= q.max_latency)
  <2> SUFFICES ASSUME NEW c PROVE c \in Arrivals(q) <=>
              \E k \in Nat : \E w \in WalksWithoutWaits(f, s)[k] :
                w.node = q.destination /\ w.cost = c /\ (q.max_latency # Unbounded => k <= q.max_latency)
    OBVIOUS
  <2>1. c \in Arrivals(q) <=> \E k \in 0..most : \E w \in WalksWithoutWaits(f, s)[k] : w.node = q.destination /\ w.cost = c
    BY <1>4
  <2>2. ASSUME NEW k \in 0..most, NEW w \in WalksWithoutWaits(f, s)[k]
        PROVE  q.max_latency # Unbounded => k <= q.max_latency
    BY <1>5, <1>8
  <2>3. ASSUME NEW k \in Nat, NEW w \in WalksWithoutWaits(f, s)[k], q.max_latency # Unbounded => k <= q.max_latency
        PROVE  k \in 0..most
    BY <1>5, <2>3
  <2> QED BY <1>8, <2>1, <2>2, <2>3
<1>10. Arrivals(q) \in SUBSET Int
  BY <1>7, <1>9
<1> QED BY <1>9, <1>10 DEF f, s

Hop == [from : Craft, to : Craft, cost : Int, use_window : [start : Nat, end : Nat]]

\* The sums that the fold of a route's cost goes through.
Sums(h, hops) ==
  /\ h \in [0..Len(hops) -> Int] /\ h[0] = 0
  /\ \A k \in 1..Len(hops) : h[k] = h[k - 1] + hops[k].cost

\* The cost of a route, hop by hop.
LEMMA CostIsSum ==
  ASSUME NEW hops \in Seq(Hop)
  PROVE  \E h : Sums(h, hops) /\ TotalCost(hops) = h[Len(hops)]
<1> DEFINE n == Len(hops)
           Solves(g) == g = [t \in SUBSET (1..n) |->
                              IF t = {} THEN 0 ELSE g[t \ {Max(t)}] + hops[Max(t)].cost]
           f == CHOOSE g : Solves(g)
           step == [k \in 1..n |-> [v \in Int |-> v + hops[k].cost]]
<1>1. n \in Nat /\ DOMAIN hops = 1..n /\ \A k \in 1..n : hops[k].cost \in Int
  <2>1. \A k \in 1..n : hops[k] \in Hop
    OBVIOUS
  <2> QED BY <2>1 DEF Hop
<1>2. TotalCost(hops) = f[1..n]
  BY <1>1 DEF TotalCost, FoldLeft, MapThenFoldSet
<1> HIDE DEF n
<1>3. step \in FoldSteps(n, Int)
  BY <1>1 DEF FoldSteps
<1>4. PICK e : Folds(e, n, Int, 0, step)
  <2> HIDE DEF step
  <2>1. 0 \in Int
    OBVIOUS
  <2> QED BY <1>1, <1>3, <2>1, FoldExists, Zenon
<1>5. Solves(e)
  BY <1>1, <1>4, TopIsThere DEF Folds
<1> HIDE DEF step
<1>6. Solves(f)
  <2> HIDE DEF Solves
  <2> QED BY <1>5, Zenon
<1> DEFINE h == [k \in 0..n |-> f[1..k]]
<1> HIDE DEF f
<1>7. h[0] = 0
  BY <1>1, <1>6
<1>8. ASSUME NEW k \in 1..n PROVE h[k] = h[k - 1] + hops[k].cost
  <2>1. /\ Max(1..k) = k /\ (1..k) \ {k} = 1..(k - 1)
        /\ 1..k \in SUBSET (1..n) /\ 1..k # {} /\ k \in 0..n /\ k - 1 \in 0..n
    BY <1>1, IntervalTop
  <2>2. f[1..k] = f[(1..k) \ {Max(1..k)}] + hops[Max(1..k)].cost
    BY <1>6, <2>1
  <2> QED BY <2>1, <2>2
<1> DEFINE S == {k \in 0..n : h[k] \in Int}
<1>9. 0 \in S
  BY <1>1, <1>7
<1>10. ASSUME NEW k \in 1..n, k - 1 \in S PROVE k \in S
  <2> HIDE DEF h
  <2>1. h[k - 1] \in Int /\ hops[k].cost \in Int /\ k \in 0..n
    BY <1>1, <1>10
  <2> QED BY <1>8, <2>1
<1> HIDE DEF S
<1>11. \A k \in 0..n : k \in S
  BY <1>1, <1>9, <1>10, UpTo
<1>12. h \in [0..n -> Int]
  BY <1>11 DEF S
<1>13. h[n] = f[1..n]
  BY <1>1
<1> HIDE DEF h
<1>14. Sums(h, hops)
  BY <1>7, <1>8, <1>12 DEF Sums, n
<1> QED BY <1>2, <1>13, <1>14 DEF n

\* A route costs what its hops do, one by one.
LEMMA CostOfRoute ==
  /\ TotalCost(<<>>) = 0
  /\ \A hops \in Seq(Hop), x \in Hop :
       TotalCost(hops) \in Int /\ TotalCost(Append(hops, x)) = TotalCost(hops) + x.cost
<1>1. TotalCost(<<>>) = 0
  <2>1. <<>> \in Seq(Hop) /\ Len(<<>>) = 0
    OBVIOUS
  <2> QED BY <2>1, CostIsSum DEF Sums
<1>2. ASSUME NEW hops \in Seq(Hop), NEW x \in Hop
      PROVE  TotalCost(hops) \in Int /\ TotalCost(Append(hops, x)) = TotalCost(hops) + x.cost
  <2> DEFINE n == Len(hops)
             more == Append(hops, x)
  <2>1. /\ more \in Seq(Hop) /\ Len(more) = n + 1 /\ n \in Nat
        /\ more[n + 1] = x /\ \A k \in 1..n : more[k] = hops[k]
    OBVIOUS
  <2> HIDE DEF more
  <2>2. PICK h : Sums(h, hops) /\ TotalCost(hops) = h[n]
    BY CostIsSum
  <2>3. PICK g : Sums(g, more) /\ TotalCost(more) = g[n + 1]
    BY <2>1, CostIsSum
  <2> HIDE DEF n
  <2>4. /\ h \in [0..n -> Int] /\ h[0] = 0 /\ \A k \in 1..n : h[k] = h[k - 1] + hops[k].cost
    BY <2>2 DEF Sums, n
  <2>5. /\ g[0] = 0 /\ \A k \in 1..(n + 1) : g[k] = g[k - 1] + more[k].cost
    BY <2>1, <2>3 DEF Sums
  <2> DEFINE S == {k \in 0..n : g[k] = h[k]}
  <2>6. 0 \in S
    BY <2>1, <2>4, <2>5
  <2>7. ASSUME NEW k \in 1..n, k - 1 \in S PROVE k \in S
    <3>1. k \in 1..(n + 1) /\ k \in 0..n /\ g[k - 1] = h[k - 1]
      BY <2>1, <2>7
    <3> QED BY <2>1, <2>4, <2>5, <3>1
  <2> HIDE DEF S
  <2>8. \A k \in 0..n : k \in S
    BY <2>1, <2>6, <2>7, UpTo
  <2>9. g[n] = h[n] /\ h[n] \in Int
    BY <2>1, <2>4, <2>8 DEF S
  <2>10. n + 1 \in 1..(n + 1) /\ (n + 1) - 1 = n
    BY <2>1
  <2>11. g[n + 1] = g[n] + more[n + 1].cost
    BY <2>5, <2>10
  <2> QED BY <2>1, <2>2, <2>3, <2>9, <2>11 DEF more
<1> QED BY <1>1, <1>2

\* The hops of a route follow each other from the source, one each unit of time, by
\* links that can be used then.
Connected(q, hops) ==
  \A i \in DOMAIN hops :
    /\ hops[i].use_window.start = q.topology.start + i - 1
    /\ hops[i].use_window.end = q.topology.start + i
    /\ hops[i].from = IF i = 1 THEN q.source ELSE hops[i - 1].to
    /\ \E e \in Usable(q.topology, hops[i].from, hops[i].use_window.start) :
         e.to = hops[i].to /\ e.cost = hops[i].cost

RouteState == [cost : Int, node : Craft, time : Nat, hops : Seq(Hop)]

\* What the search knows of a state in its heap: it is the end of a walk.
StateIsSound(q, x) ==
  /\ x \in RouteState
  /\ x.time = q.topology.start + Len(x.hops)
  /\ [cost |-> x.cost, node |-> x.node] \in WalksWithoutWaits(q.topology, q.source)[Len(x.hops)]
  /\ TotalCost(x.hops) = x.cost
  /\ Connected(q, x.hops)
  /\ x.node = EndOfRoute(q, x.hops)

\* What it knows of a place it was at after k hops, and left for c: no walk there is
\* cheaper if no link costs less than nothing, what follows was pushed, and the destination was reached too late.
Settled(q, H, V, n, k, c) ==
  /\ NonNegative(q.topology) =>
       \A w \in WalksWithoutWaits(q.topology, q.source)[k] : w.node = n => c <= w.cost
  /\ \A e \in Usable(q.topology, n, q.topology.start + k) :
       \/ <<e.to, q.topology.start + k + 1>> \in V
       \/ \E x \in H : /\ x.node = e.to /\ x.time = q.topology.start + k + 1
                       /\ x.cost <= c + e.cost
  /\ n = q.destination => q.max_latency # Unbounded /\ k > q.max_latency

\* The inductive invariant of a search with heap H and visited places V.
SearchIsSound(q, H, V) ==
  /\ \A x \in H : StateIsSound(q, x)
  /\ \A n \in Craft, k \in Nat :
       <<n, q.topology.start + k>> \in V => \E c \in Int : Settled(q, H, V, n, k, c)
  /\ \/ <<q.source, q.topology.start>> \in V
     \/ \E x \in H : x.node = q.source /\ x.time = q.topology.start /\ x.cost = 0

LEMMA QueryHas ==
  ASSUME NEW q \in Queries
  PROVE  /\ q.topology \in Forecasts /\ q.source \in Craft /\ q.destination \in Craft
         /\ q.topology.start \in Nat /\ (q.max_latency # Unbounded => q.max_latency \in Nat)
  BY RouterAssumption DEF Queries

LEMMA WalksAreReached ==
  ASSUME NEW f \in Forecasts, NEW s \in Craft, NEW k \in Nat, NEW w \in WalksWithoutWaits(f, s)[k]
  PROVE  w.cost \in Int /\ w.node \in Craft
<1>1. w \in Reached
  BY WalksEquation
<1> QED BY <1>1 DEF Reached

\* Dijkstra's argument: a walk that costs less than all of the heap was followed.
LEMMA CheaperWalksWereFollowed ==
  ASSUME NEW q \in Queries, NEW H, NEW V, SearchIsSound(q, H, V),
         NonNegative(q.topology), NEW m \in Int, \A x \in H : m <= x.cost,
         NEW k \in Nat, NEW w \in WalksWithoutWaits(q.topology, q.source)[k], w.cost < m
  PROVE  <<w.node, q.topology.start + k>> \in V
<1> DEFINE f == q.topology
           s == q.source
           W == WalksWithoutWaits(f, s)
           S == {j \in Nat : \A v \in W[j] : v.cost < m => <<v.node, f.start + j>> \in V}
<1>0. f \in Forecasts /\ s \in Craft /\ f.start \in Nat
  BY QueryHas
<1>1. \A x \in H : x.cost \in Int
  BY DEF SearchIsSound, StateIsSound, RouteState
<1>2. 0 \in S
  <2> SUFFICES ASSUME NEW v \in W[0], v.cost < m PROVE <<v.node, f.start + 0>> \in V
    OBVIOUS
  <2>1. W[0] = {[cost |-> 0, node |-> s]}
    BY <1>0, WalksEquation
  <2>2. v.cost = 0 /\ v.node = s /\ f.start + 0 = f.start
    <3> HIDE DEF f, s, W
    <3> QED BY <1>0, <2>1
  <2>3. <<s, f.start>> \in V \/ \E x \in H : x.cost = 0
    BY DEF SearchIsSound
  <2>4. ~ \E x \in H : x.cost = 0
    BY <2>2
  <2> HIDE DEF f, s, W
  <2> QED BY <2>2, <2>3, <2>4
<1>3. ASSUME NEW j \in Nat, j \in S PROVE j + 1 \in S
  <2> SUFFICES ASSUME NEW v \in W[j + 1], v.cost < m PROVE <<v.node, f.start + (j + 1)>> \in V
    OBVIOUS
  <2>1. PICK u \in W[j] : \E e \in Usable(f, u.node, f.start + j) :
           v = [cost |-> u.cost + e.cost, node |-> e.to]
    BY <1>0, WalkCameFrom
  <2>2. PICK e \in Usable(f, u.node, f.start + j) : v = [cost |-> u.cost + e.cost, node |-> e.to]
    BY <2>1
  <2>3. u.cost \in Int /\ u.node \in Craft /\ f.start + j \in Nat
    BY <1>0, WalksAreReached
  <2>4. e.cost \in Int /\ e.cost >= 0
    BY <1>0, <2>3, UsableEdges DEF NonNegative
  <2>5. v.cost = u.cost + e.cost /\ v.node = e.to /\ u.cost < m
    <3>1. v.cost = u.cost + e.cost /\ v.node = e.to
      BY <2>2
    <3> QED BY <2>3, <2>4, <3>1
  <2>6. <<u.node, f.start + j>> \in V
    BY <1>3, <2>5
  <2>7. PICK c \in Int : Settled(q, H, V, u.node, j, c)
    BY <2>3, <2>6 DEF SearchIsSound
  <2>8. c <= u.cost
    BY <2>7 DEF Settled
  <2>9. <<e.to, f.start + j + 1>> \in V \/ \E x \in H : x.cost <= c + e.cost
    BY <2>7 DEF Settled
  <2>10. ~ \E x \in H : x.cost <= c + e.cost
    <3> SUFFICES ASSUME NEW x \in H, x.cost <= c + e.cost PROVE FALSE
      OBVIOUS
    <3>1. x.cost \in Int /\ m <= x.cost
      BY <1>1
    <3> QED BY <2>3, <2>4, <2>5, <2>8, <3>1
  <2>11. f.start + j + 1 = f.start + (j + 1)
    BY <1>0
  <2> QED BY <2>5, <2>9, <2>10, <2>11
<1> HIDE DEF S
<1>4. k \in S
  BY <1>2, <1>3, ForAll
<1> QED BY <1>4 DEF S

\* When the heap is empty, every walk was followed, whatever the links cost.
LEMMA AllWalksWereFollowed ==
  ASSUME NEW q \in Queries, NEW V, SearchIsSound(q, {}, V),
         NEW k \in Nat, NEW w \in WalksWithoutWaits(q.topology, q.source)[k]
  PROVE  <<w.node, q.topology.start + k>> \in V
<1> DEFINE f == q.topology
           s == q.source
           W == WalksWithoutWaits(f, s)
           S == {j \in Nat : \A v \in W[j] : <<v.node, f.start + j>> \in V}
<1>0. f \in Forecasts /\ s \in Craft /\ f.start \in Nat
  BY QueryHas
<1>1. 0 \in S
  <2> SUFFICES ASSUME NEW v \in W[0] PROVE <<v.node, f.start + 0>> \in V
    OBVIOUS
  <2>1. W[0] = {[cost |-> 0, node |-> s]}
    BY <1>0, WalksEquation
  <2>2. v.node = s /\ f.start + 0 = f.start
    <3> HIDE DEF f, s, W
    <3> QED BY <1>0, <2>1
  <2>3. <<s, f.start>> \in V
    BY DEF SearchIsSound
  <2> HIDE DEF f, s, W
  <2> QED BY <2>2, <2>3
<1>2. ASSUME NEW j \in Nat, j \in S PROVE j + 1 \in S
  <2> SUFFICES ASSUME NEW v \in W[j + 1] PROVE <<v.node, f.start + (j + 1)>> \in V
    OBVIOUS
  <2>1. PICK u \in W[j] : \E e \in Usable(f, u.node, f.start + j) :
           v = [cost |-> u.cost + e.cost, node |-> e.to]
    BY <1>0, WalkCameFrom
  <2>2. PICK e \in Usable(f, u.node, f.start + j) : v = [cost |-> u.cost + e.cost, node |-> e.to]
    BY <2>1
  <2>3. u.node \in Craft /\ v.node = e.to /\ <<u.node, f.start + j>> \in V
    BY <1>0, <1>2, <2>2, WalksAreReached
  <2>4. PICK c \in Int : Settled(q, {}, V, u.node, j, c)
    BY <2>3 DEF SearchIsSound
  <2>5. <<e.to, f.start + j + 1>> \in V
    BY <2>4 DEF Settled
  <2>6. f.start + j + 1 = f.start + (j + 1)
    BY <1>0
  <2> QED BY <2>3, <2>5, <2>6
<1> HIDE DEF S
<1>3. k \in S
  BY <1>1, <1>2, ForAll
<1> QED BY <1>3 DEF S

\* What a turn pushes is sound.
LEMMA SuccessorIsSound ==
  ASSUME NEW q \in Queries, NEW x, StateIsSound(q, x), NEW e \in Usable(q.topology, x.node, x.time)
  PROVE  StateIsSound(q, [cost |-> x.cost + e.cost, node |-> e.to, time |-> x.time + 1,
           hops |-> Append(x.hops, [from |-> e.from, to |-> e.to, cost |-> e.cost,
                                    use_window |-> [start |-> x.time, end |-> x.time + 1]])])
<1> DEFINE hop == [from |-> e.from, to |-> e.to, cost |-> e.cost,
                   use_window |-> [start |-> x.time, end |-> x.time + 1]]
           hops == Append(x.hops, hop)
           y == [cost |-> x.cost + e.cost, node |-> e.to, time |-> x.time + 1, hops |-> hops]
           n == Len(x.hops)
<1>0. q.topology \in Forecasts /\ q.source \in Craft /\ q.topology.start \in Nat
  BY QueryHas
<1>1. /\ x.cost \in Int /\ x.node \in Craft /\ x.time \in Nat /\ x.hops \in Seq(Hop)
      /\ x.time = q.topology.start + n /\ TotalCost(x.hops) = x.cost
      /\ x.node = EndOfRoute(q, x.hops) /\ Connected(q, x.hops)
      /\ [cost |-> x.cost, node |-> x.node] \in WalksWithoutWaits(q.topology, q.source)[n]
  BY DEF StateIsSound, RouteState
<1>2. e.from = x.node /\ e.to \in Craft /\ e.cost \in Int
  BY <1>0, <1>1, UsableEdges
<1>3. hop \in Hop
  BY <1>1, <1>2 DEF Hop
<1>4. /\ hops \in Seq(Hop) /\ Len(hops) = n + 1 /\ n \in Nat /\ DOMAIN hops = 1..(n + 1)
      /\ hops[n + 1] = hop /\ (\A i \in 1..n : hops[i] = x.hops[i]) /\ hops # <<>>
  <2> HIDE DEF hop
  <2> QED BY <1>1, <1>3
<1>5. TotalCost(hops) = x.cost + e.cost
  <2>1. TotalCost(hops) = TotalCost(x.hops) + hop.cost
    <3> HIDE DEF hop
    <3> QED BY <1>1, <1>3, CostOfRoute
  <2> QED BY <1>1, <2>1
<1>6. [cost |-> x.cost + e.cost, node |-> e.to] \in WalksWithoutWaits(q.topology, q.source)[n + 1]
  <2> DEFINE w == [cost |-> x.cost, node |-> x.node]
  <2>1. w.cost = x.cost /\ w.node = x.node /\ w \in WalksWithoutWaits(q.topology, q.source)[n]
    BY <1>1
  <2>2. e \in Usable(q.topology, w.node, q.topology.start + n)
    BY <1>1
  <2> HIDE DEF w
  <2>3. [cost |-> w.cost + e.cost, node |-> e.to] \in WalksWithoutWaits(q.topology, q.source)[n + 1]
    BY <1>0, <1>4, <2>1, <2>2, WalkGoesOn
  <2> QED BY <2>1, <2>3
<1> HIDE DEF hops
<1>7. EndOfRoute(q, hops) = e.to
  BY <1>4 DEF EndOfRoute
<1>8. Connected(q, hops)
  <2> SUFFICES ASSUME NEW i \in 1..(n + 1)
               PROVE  /\ hops[i].use_window.start = q.topology.start + i - 1
                      /\ hops[i].use_window.end = q.topology.start + i
                      /\ hops[i].from = IF i = 1 THEN q.source ELSE hops[i - 1].to
                      /\ \E d \in Usable(q.topology, hops[i].from, hops[i].use_window.start) :
                           d.to = hops[i].to /\ d.cost = hops[i].cost
    BY <1>4 DEF Connected
  <2>1. CASE i = n + 1
    <3>1. /\ hops[i].use_window.start = x.time /\ hops[i].from = x.node
          /\ hops[i].use_window.end = x.time + 1 /\ hops[i].to = e.to /\ hops[i].cost = e.cost
      BY <1>2, <1>4, <2>1
    <3>2. x.time = q.topology.start + i - 1 /\ x.time + 1 = q.topology.start + i
      <4>1. x.time = q.topology.start + n /\ n \in Nat /\ i = n + 1
        BY <1>1, <1>4, <2>1
      <4> HIDE DEF n
      <4> QED BY <1>0, <4>1
    <3>3. x.node = IF i = 1 THEN q.source ELSE hops[i - 1].to
      <4>1. CASE i = 1
        <5>1. x.hops = <<>>
          BY <1>1, <1>4, <2>1, <4>1
        <5> QED BY <1>1, <4>1, <5>1 DEF EndOfRoute
      <4>2. CASE i # 1
        <5>1. x.hops # <<>> /\ n \in 1..n /\ i - 1 = n
          BY <1>1, <1>4, <2>1, <4>2
        <5>2. hops[i - 1] = x.hops[n]
          BY <1>4, <5>1
        <5> QED BY <1>1, <4>2, <5>1, <5>2 DEF EndOfRoute
      <4> QED BY <4>1, <4>2
    <3> QED BY <3>1, <3>2, <3>3
  <2>2. CASE i # n + 1
    <3>1. i \in 1..n /\ (i # 1 => i - 1 \in 1..n) /\ DOMAIN x.hops = 1..n
      BY <1>1, <1>4, <2>2
    <3>2. /\ x.hops[i].use_window.start = q.topology.start + i - 1
          /\ x.hops[i].use_window.end = q.topology.start + i
          /\ x.hops[i].from = IF i = 1 THEN q.source ELSE x.hops[i - 1].to
          /\ \E d \in Usable(q.topology, x.hops[i].from, x.hops[i].use_window.start) :
               d.to = x.hops[i].to /\ d.cost = x.hops[i].cost
      BY <1>1, <3>1 DEF Connected
    <3> QED BY <1>4, <3>1, <3>2
  <2> QED BY <2>1, <2>2
<1>9. /\ y.cost = x.cost + e.cost /\ y.node = e.to /\ y.time = x.time + 1 /\ y.hops = hops
  OBVIOUS
<1>10. y \in RouteState
  BY <1>1, <1>2, <1>4 DEF RouteState
<1>11. x.time + 1 = q.topology.start + (n + 1)
  <2>1. x.time = q.topology.start + n /\ n \in Nat
    BY <1>1, <1>4
  <2> HIDE DEF n
  <2> QED BY <1>0, <2>1
<1> HIDE DEF y, n
<1>12. StateIsSound(q, y)
  BY <1>4, <1>5, <1>6, <1>7, <1>8, <1>9, <1>10, <1>11 DEF StateIsSound
<1> QED BY <1>12 DEF y, hops

\* Taking a visited place out of the heap.
LEMMA SkipKeepsSearch ==
  ASSUME NEW q \in Queries, NEW H, NEW V, SearchIsSound(q, H, V), NEW x \in H,
         <<x.node, x.time>> \in V
  PROVE  SearchIsSound(q, H \ {x}, V)
<1> DEFINE G == H \ {x}
           t == q.topology.start
<1>1. \A y \in G : StateIsSound(q, y)
  BY DEF SearchIsSound
<1>2. ASSUME NEW n \in Craft, NEW k \in Nat, <<n, t + k>> \in V
      PROVE  \E c \in Int : Settled(q, G, V, n, k, c)
  <2>1. PICK c \in Int : Settled(q, H, V, n, k, c)
    BY <1>2 DEF SearchIsSound
  <2>2. ASSUME NEW e \in Usable(q.topology, n, t + k)
        PROVE  \/ <<e.to, t + k + 1>> \in V
               \/ \E y \in G : y.node = e.to /\ y.time = t + k + 1 /\ y.cost <= c + e.cost
    <3>1. \/ <<e.to, t + k + 1>> \in V
          \/ \E y \in H : y.node = e.to /\ y.time = t + k + 1 /\ y.cost <= c + e.cost
      BY <2>1 DEF Settled
    <3> HIDE DEF t
    <3> QED BY <3>1
  <2> HIDE DEF G
  <2>3. Settled(q, G, V, n, k, c)
    BY <2>1, <2>2 DEF Settled
  <2> QED BY <2>3
<1>3. <<q.source, t>> \in V \/ \E y \in G : y.node = q.source /\ y.time = t /\ y.cost = 0
  BY DEF SearchIsSound
<1> HIDE DEF G
<1>4. SearchIsSound(q, G, V)
  BY <1>1, <1>2, <1>3 DEF SearchIsSound
<1> QED BY <1>4 DEF G

\* Leaving a place.
LEMMA ExploreKeepsSearch ==
  ASSUME NEW q \in Queries, NEW H, NEW V, SearchIsSound(q, H, V), NEW x \in H,
         \A y \in H : x.cost <= y.cost, <<x.node, x.time>> \notin V,
         ~ (x.node = q.destination /\ SatisfiesConstraints(x.hops, q.max_latency)),
         NEW N, \A y \in N : StateIsSound(q, y),
         \A e \in Usable(q.topology, x.node, x.time) : \E y \in N :
           y.node = e.to /\ y.time = x.time + 1 /\ y.cost = x.cost + e.cost
  PROVE  SearchIsSound(q, (H \ {x}) \cup N, V \cup {<<x.node, x.time>>})
<1> DEFINE G == (H \ {x}) \cup N
           U == V \cup {<<x.node, x.time>>}
           t == q.topology.start
           f == q.topology
           W == WalksWithoutWaits(f, q.source)
           j == Len(x.hops)
<1>0. f \in Forecasts /\ q.source \in Craft /\ t \in Nat /\ (q.max_latency # Unbounded => q.max_latency \in Nat)
  BY QueryHas
<1>1. \A y \in G : StateIsSound(q, y)
  BY DEF SearchIsSound
<1>2. x.cost \in Int /\ x.node \in Craft /\ x.time = t + j /\ j \in Nat
  <2>1. StateIsSound(q, x)
    BY DEF SearchIsSound
  <2> QED BY <2>1 DEF StateIsSound, RouteState
<1> HIDE DEF j
<1>3. ASSUME NonNegative(f), NEW w \in W[j], w.node = x.node PROVE x.cost <= w.cost
  <2>1. w.cost \in Int
    BY <1>0, <1>2, WalksAreReached
  <2>2. w.cost < x.cost => <<w.node, t + j>> \in V
    BY <1>2, <1>3, CheaperWalksWereFollowed
  <2> QED BY <1>2, <1>3, <2>1, <2>2
<1>4. Settled(q, G, U, x.node, j, x.cost)
  <2>1. ASSUME NEW e \in Usable(f, x.node, t + j)
        PROVE  \E y \in G : y.node = e.to /\ y.time = t + j + 1 /\ y.cost <= x.cost + e.cost
    <3>1. PICK y \in N : y.node = e.to /\ y.time = x.time + 1 /\ y.cost = x.cost + e.cost
      BY <1>2
    <3>2. e.cost \in Int
      BY <1>0, <1>2, UsableEdges
    <3>3. y.cost <= x.cost + e.cost /\ y.time = t + j + 1
      BY <1>2, <3>1, <3>2
    <3> QED BY <3>1, <3>3
  <2>2. x.node = q.destination => q.max_latency # Unbounded /\ j > q.max_latency
    <3> SUFFICES ASSUME x.node = q.destination PROVE q.max_latency # Unbounded /\ j > q.max_latency
      OBVIOUS
    <3>1. ~ (q.max_latency # Unbounded => j <= q.max_latency)
      BY DEF SatisfiesConstraints, j
    <3> QED BY <1>0, <1>2, <3>1
  <2> HIDE DEF G, U
  <2> QED BY <1>3, <2>1, <2>2 DEF Settled
<1>5. ASSUME NEW n \in Craft, NEW k \in Nat, <<n, t + k>> \in U
      PROVE  \E c \in Int : Settled(q, G, U, n, k, c)
  <2>1. CASE <<n, t + k>> \in V
    <3>1. PICK c \in Int : Settled(q, H, V, n, k, c)
      BY <2>1 DEF SearchIsSound
    <3>2. ASSUME NEW e \in Usable(f, n, t + k)
          PROVE  \/ <<e.to, t + k + 1>> \in U
                 \/ \E y \in G : y.node = e.to /\ y.time = t + k + 1 /\ y.cost <= c + e.cost
      <4>1. \/ <<e.to, t + k + 1>> \in V
            \/ \E y \in H : y.node = e.to /\ y.time = t + k + 1 /\ y.cost <= c + e.cost
        BY <3>1 DEF Settled
      <4> HIDE DEF t, f
      <4> QED BY <4>1
    <3> HIDE DEF G, U
    <3>3. Settled(q, G, U, n, k, c)
      BY <3>1, <3>2 DEF Settled
    <3> QED BY <3>3
  <2>2. CASE <<n, t + k>> = <<x.node, x.time>>
    <3>1. n = x.node /\ k = j
      BY <1>0, <1>2, <2>2
    <3> HIDE DEF G, U
    <3> QED BY <1>2, <1>4, <3>1
  <2> QED BY <1>5, <2>1, <2>2
<1>6. <<q.source, t>> \in U \/ \E y \in G : y.node = q.source /\ y.time = t /\ y.cost = 0
  BY DEF SearchIsSound
<1> HIDE DEF G, U
<1>7. SearchIsSound(q, G, U)
  BY <1>1, <1>5, <1>6 DEF SearchIsSound
<1> QED BY <1>7 DEF G, U

\* The start of a search.
LEMMA StartOfSearch ==
  ASSUME NEW q \in Queries
  PROVE  SearchIsSound(q, {[cost |-> 0, node |-> q.source, time |-> q.topology.start, hops |-> <<>>]}, {})
<1> DEFINE x == [cost |-> 0, node |-> q.source, time |-> q.topology.start, hops |-> <<>>]
<1>0. q.topology \in Forecasts /\ q.source \in Craft /\ q.topology.start \in Nat
  BY QueryHas
<1>1. x \in RouteState /\ x.cost = 0 /\ x.node = q.source /\ x.time = q.topology.start /\ x.hops = <<>>
  BY <1>0 DEF RouteState
<1>2. [cost |-> 0, node |-> q.source] \in WalksWithoutWaits(q.topology, q.source)[0]
  <2>1. WalksWithoutWaits(q.topology, q.source)[0] = {[cost |-> 0, node |-> q.source]}
    BY <1>0, WalksEquation
  <2> QED BY <2>1
<1> HIDE DEF x
<1>3. Len(<<>>) = 0 /\ DOMAIN <<>> = {} /\ q.topology.start = q.topology.start + 0
  BY <1>0
<1>4. TotalCost(<<>>) = 0
  BY CostOfRoute
<1>5. StateIsSound(q, x)
  BY <1>1, <1>2, <1>3, <1>4 DEF StateIsSound, Connected, EndOfRoute
<1>6. SearchIsSound(q, {x}, {})
  BY <1>1, <1>5 DEF SearchIsSound
<1> QED BY <1>6 DEF x

\* What a search that took the destination from the heap in time has found.
FoundRoute(q, hops) ==
  /\ hops \in Seq(Hop) /\ Leads(q, hops) /\ Flies(q, hops)
  /\ NonNegative(q.topology) => \A c \in Arrivals(q) : TotalCost(hops) <= c

LEMMA FoundIsCheapest ==
  ASSUME NEW q \in Queries, NEW H, NEW V, SearchIsSound(q, H, V), NEW x \in H,
         \A y \in H : x.cost <= y.cost,
         x.node = q.destination, SatisfiesConstraints(x.hops, q.max_latency)
  PROVE  FoundRoute(q, x.hops)
<1> DEFINE W == WalksWithoutWaits(q.topology, q.source)
<1>0. /\ q.topology \in Forecasts /\ q.source \in Craft /\ q.destination \in Craft /\ q.topology.start \in Nat
      /\ q.max_latency # Unbounded => q.max_latency \in Nat
  BY QueryHas
<1>1. StateIsSound(q, x)
  BY DEF SearchIsSound
<1>2. /\ x.cost \in Int /\ x.hops \in Seq(Hop) /\ TotalCost(x.hops) = x.cost
      /\ x.node = EndOfRoute(q, x.hops) /\ Connected(q, x.hops)
  BY <1>1 DEF StateIsSound, RouteState
<1>3. Leads(q, x.hops)
  BY <1>2 DEF Leads, Connected
<1>4. Flies(q, x.hops)
  <2> DEFINE hops == x.hops
  <2> HIDE DEF hops
  <2>1. Connected(q, hops) /\ hops \in Seq(Hop)
    BY <1>2 DEF hops
  <2>2. ASSUME NEW i \in DOMAIN hops
        PROVE  /\ hops[i].use_window.start >= IF i = 1 THEN q.topology.start ELSE hops[i - 1].use_window.end
               /\ \E e \in Usable(q.topology, hops[i].from, hops[i].use_window.start) :
                    e.to = hops[i].to /\ e.cost = hops[i].cost
    <3>1. i \in Nat \ {0} /\ (i # 1 => i - 1 \in DOMAIN hops)
      BY <2>1
    <3>2. hops[i].use_window.start = q.topology.start + i - 1
      BY <2>1 DEF Connected
    <3>3. i # 1 => hops[i - 1].use_window.end = q.topology.start + (i - 1)
      BY <2>1, <3>1 DEF Connected
    <3>4. hops[i].use_window.start >= IF i = 1 THEN q.topology.start ELSE hops[i - 1].use_window.end
      BY <1>0, <3>1, <3>2, <3>3
    <3> QED BY <2>1, <3>4 DEF Connected
  <2>3. SatisfiesConstraints(hops, q.max_latency)
    BY DEF hops
  <2>4. Flies(q, hops)
    BY <2>2, <2>3 DEF Flies
  <2> QED BY <2>4 DEF hops
<1>5. ASSUME NonNegative(q.topology), NEW c \in Arrivals(q) PROVE x.cost <= c
  <2>1. PICK k \in Nat : \E w \in W[k] :
          w.node = q.destination /\ w.cost = c /\ (q.max_latency # Unbounded => k <= q.max_latency)
    BY ArrivalsAre
  <2>2. PICK w \in W[k] :
          w.node = q.destination /\ w.cost = c /\ (q.max_latency # Unbounded => k <= q.max_latency)
    BY <2>1
  <2>3. w.cost \in Int
    BY <1>0, WalksAreReached
  <2>4. w.cost < x.cost => <<w.node, q.topology.start + k>> \in V
    BY <1>2, <1>5, CheaperWalksWereFollowed
  <2>5. <<q.destination, q.topology.start + k>> \in V => q.max_latency # Unbounded /\ k > q.max_latency
    BY <1>0 DEF SearchIsSound, Settled
  <2>6. ~ (w.cost < x.cost)
    <3>1. ~ (q.max_latency # Unbounded /\ k > q.max_latency)
      BY <1>0, <2>2
    <3> QED BY <2>2, <2>4, <2>5, <3>1, Zenon
  <2> QED BY <1>2, <2>2, <2>3, <2>6
<1> QED BY <1>2, <1>3, <1>4, <1>5 DEF FoundRoute

\* When the heap is empty, no walk arrives: what NoRouteFound says.
LEMMA NoneIsFound ==
  ASSUME NEW q \in Queries, NEW V, SearchIsSound(q, {}, V)
  PROVE  Arrivals(q) = {}
<1> DEFINE W == WalksWithoutWaits(q.topology, q.source)
<1>0. /\ q.topology \in Forecasts /\ q.source \in Craft /\ q.destination \in Craft
      /\ q.max_latency # Unbounded => q.max_latency \in Nat
  BY QueryHas
<1> SUFFICES ASSUME NEW c \in Arrivals(q) PROVE FALSE
  OBVIOUS
<1>1. PICK k \in Nat : \E w \in W[k] :
        w.node = q.destination /\ w.cost = c /\ (q.max_latency # Unbounded => k <= q.max_latency)
  BY ArrivalsAre
<1>2. PICK w \in W[k] :
        w.node = q.destination /\ w.cost = c /\ (q.max_latency # Unbounded => k <= q.max_latency)
  BY <1>1
<1>3. <<w.node, q.topology.start + k>> \in V
  BY AllWalksWereFollowed
<1>4. <<q.destination, q.topology.start + k>> \in V => q.max_latency # Unbounded /\ k > q.max_latency
  BY <1>0 DEF SearchIsSound, Settled
<1> QED BY <1>0, <1>2, <1>3, <1>4

\* The inductive invariant of the router, with a search under way or not: what the
\* cache holds was found for a query of its key.
CacheIsSound(cache) ==
  /\ DOMAIN cache = Keys
  /\ \A key \in Keys :
       cache[key].hops # Nothing =>
         /\ cache[key].query \in Queries /\ CacheKey(cache[key].query) = key
         /\ FoundRoute(cache[key].query, cache[key].hops)

AnswerIsSound(a) ==
  a # Nothing =>
    /\ a.query \in Queries
    /\ a.hops # Nothing => /\ a.hops \in Seq(Hop) /\ Leads(a.query, a.hops)
                           /\ FoundRoute(a.found_for, a.hops)
    /\ a.hops = Nothing => Arrivals(a.query) = {}

RouterIInv ==
  /\ CacheIsSound(route_cache)
  /\ query # Nothing => query \in Queries /\ SearchIsSound(query, heap, visited)
  /\ AnswerIsSound(answer)

\* Queries with one cache key have the same ends.
LEMMA KeysOfQueries ==
  ASSUME NEW q \in Queries
  PROVE  /\ CacheKey(q) \in Keys
         /\ \A other \in Queries : \A hops : CacheKey(other) = CacheKey(q) /\ Leads(other, hops) => Leads(q, hops)
<1>1. q.source \in Craft /\ q.destination \in Craft /\ q.topology \in Forecasts
  BY DEF Queries
<1>2. CacheKey(q) \in Keys
  BY <1>1 DEF CacheKey, Keys, Starts
<1>3. ASSUME NEW other \in Queries, NEW hops, CacheKey(other) = CacheKey(q), Leads(other, hops)
      PROVE  Leads(q, hops)
  <2>1. other.source = q.source /\ other.destination = q.destination
    BY <1>3 DEF CacheKey
  <2> QED BY <1>3, <2>1 DEF Leads, EndOfRoute
<1> QED BY <1>2, <1>3

LEMMA ComputeRouteKeeps ==
  ASSUME RouterIInv, NEW q \in Queries, ComputeRoute(q)
  PROVE  RouterIInv'
<1> DEFINE cached == route_cache[CacheKey(q)]
<1>0. CacheIsSound(route_cache) /\ CacheKey(q) \in Keys
  BY KeysOfQueries DEF RouterIInv
<1>1. UNCHANGED route_cache
  BY DEF ComputeRoute
<1>2. CASE cached.hops # Nothing
  <2> DEFINE a == [query |-> q, hops |-> cached.hops, found_for |-> cached.query]
  <2>1. answer' = a /\ query' = query /\ query = Nothing
    BY <1>2 DEF ComputeRoute
  <2>2. a.query = q /\ a.hops = cached.hops /\ a.found_for = cached.query
    OBVIOUS
  <2> HIDE DEF a
  <2>3. cached.query \in Queries /\ CacheKey(cached.query) = CacheKey(q) /\ FoundRoute(cached.query, cached.hops)
    BY <1>0, <1>2 DEF CacheIsSound
  <2> HIDE DEF cached
  <2>4. cached.hops \in Seq(Hop) /\ Leads(q, cached.hops)
    BY <2>3, KeysOfQueries DEF FoundRoute
  <2>5. AnswerIsSound(a)
    BY <1>2, <2>2, <2>3, <2>4 DEF AnswerIsSound
  <2> QED BY <1>0, <1>1, <2>1, <2>5 DEF RouterIInv
<1>3. CASE cached.hops = Nothing
  <2> DEFINE x == [cost |-> 0, node |-> q.source, time |-> q.topology.start, hops |-> <<>>]
  <2>1. query' = q /\ heap' = {x} /\ visited' = {} /\ answer' = answer /\ answer = Nothing
    BY <1>3 DEF ComputeRoute
  <2>2. SearchIsSound(q, {x}, {})
    BY StartOfSearch
  <2> HIDE DEF x
  <2>3. AnswerIsSound(answer')
    BY <2>1 DEF AnswerIsSound
  <2> QED BY <1>0, <1>1, <2>1, <2>2, <2>3 DEF RouterIInv
<1> QED BY <1>2, <1>3

LEMMA SearchKeeps ==
  ASSUME RouterIInv, SearchNext
  PROVE  RouterIInv'
<1> DEFINE q == query
<1>0. CacheIsSound(route_cache) /\ AnswerIsSound(answer)
  BY DEF RouterIInv
<1>00. q # Nothing /\ q \in Queries /\ SearchIsSound(q, heap, visited)
  BY DEF RouterIInv, SearchNext, Skip, Explore, ReturnRoute, ReturnNoRoute
<1>1. ASSUME NEW x \in heap, Skip(x) PROVE RouterIInv'
  <2>1. <<x.node, x.time>> \in visited
    BY <1>1 DEF Skip, StateKey
  <2>2. SearchIsSound(q, heap \ {x}, visited)
    BY <1>00, <2>1, SkipKeepsSearch
  <2>3. query' = query /\ heap' = heap \ {x} /\ UNCHANGED <<visited, route_cache, answer>>
    BY <1>1 DEF Skip
  <2> QED BY <1>0, <1>00, <2>2, <2>3 DEF RouterIInv
<1>2. ASSUME NEW x \in heap, Explore(x) PROVE RouterIInv'
  <2> DEFINE N == Successors(x)
  <2>1. /\ <<x.node, x.time>> \notin visited /\ \A y \in heap : x.cost <= y.cost
        /\ ~ (x.node = q.destination /\ SatisfiesConstraints(x.hops, q.max_latency))
        /\ visited' = visited \cup {<<x.node, x.time>>} /\ heap' = (heap \ {x}) \cup N
        /\ UNCHANGED <<route_cache, query, answer>>
    BY <1>2 DEF Explore, StateKey, Popped, Arrived
  <2>2. StateIsSound(q, x)
    BY <1>00 DEF SearchIsSound
  <2>3. \A y \in N : StateIsSound(q, y)
    BY <1>00, <2>2, SuccessorIsSound DEF Successors
  <2>4. \A e \in Usable(q.topology, x.node, x.time) : \E y \in N :
           y.node = e.to /\ y.time = x.time + 1 /\ y.cost = x.cost + e.cost
    <3> SUFFICES ASSUME NEW e \in Usable(q.topology, x.node, x.time)
                 PROVE  \E y \in N : y.node = e.to /\ y.time = x.time + 1 /\ y.cost = x.cost + e.cost
      OBVIOUS
    <3> DEFINE y == [cost |-> x.cost + e.cost, node |-> e.to, time |-> x.time + 1,
           hops |-> Append(x.hops, [from |-> e.from, to |-> e.to, cost |-> e.cost,
                                    use_window |-> [start |-> x.time, end |-> x.time + 1]])]
    <3>1. y \in N
      BY DEF Successors
    <3>2. y.node = e.to /\ y.time = x.time + 1 /\ y.cost = x.cost + e.cost
      OBVIOUS
    <3> QED BY <3>1, <3>2
  <2> HIDE DEF N
  <2>5. SearchIsSound(q, (heap \ {x}) \cup N, visited \cup {<<x.node, x.time>>})
    BY <1>00, <2>1, <2>3, <2>4, ExploreKeepsSearch
  <2> QED BY <1>0, <1>00, <2>1, <2>5 DEF RouterIInv
<1>3. ASSUME NEW x \in heap, ReturnRoute(x) PROVE RouterIInv'
  <2> DEFINE a == [query |-> q, hops |-> x.hops, found_for |-> q]
             entry == [hops |-> x.hops, query |-> q]
  <2>1. /\ \A y \in heap : x.cost <= y.cost
        /\ x.node = q.destination /\ SatisfiesConstraints(x.hops, q.max_latency)
        /\ answer' = a /\ query' = Nothing
        /\ route_cache' = [route_cache EXCEPT ![CacheKey(q)] = entry]
    BY <1>3 DEF ReturnRoute, Popped, Arrived, Return
  <2>2. FoundRoute(q, x.hops)
    BY <1>00, <2>1, FoundIsCheapest
  <2>3. x.hops # Nothing /\ x.hops \in Seq(Hop) /\ Leads(q, x.hops)
    BY <2>2, RouterAssumption DEF FoundRoute, Hop
  <2>4. a.query = q /\ a.hops = x.hops /\ a.found_for = q /\ entry.hops = x.hops /\ entry.query = q
    OBVIOUS
  <2> HIDE DEF a, entry
  <2>5. AnswerIsSound(a)
    BY <1>00, <2>2, <2>3, <2>4 DEF AnswerIsSound
  <2>6. CacheKey(q) \in Keys
    BY <1>00, KeysOfQueries
  <2>7. CacheIsSound(route_cache')
    <3> DEFINE cache == route_cache'
    <3>1. DOMAIN cache = Keys /\ cache[CacheKey(q)] = entry
          /\ \A key \in Keys : key # CacheKey(q) => cache[key] = route_cache[key]
      BY <1>0, <2>1, <2>6 DEF CacheIsSound
    <3> HIDE DEF cache
    <3>2. CacheIsSound(cache)
      <4> SUFFICES ASSUME NEW key \in Keys, cache[key].hops # Nothing
                   PROVE  /\ cache[key].query \in Queries /\ CacheKey(cache[key].query) = key
                          /\ FoundRoute(cache[key].query, cache[key].hops)
        BY <3>1 DEF CacheIsSound
      <4>1. CASE key = CacheKey(q)
        BY <1>00, <2>2, <2>4, <3>1, <4>1
      <4>2. CASE key # CacheKey(q)
        BY <1>0, <3>1, <4>2 DEF CacheIsSound
      <4> QED BY <4>1, <4>2
    <3> QED BY <3>2 DEF cache
  <2> QED BY <2>1, <2>5, <2>7 DEF RouterIInv
<1>4. CASE ReturnNoRoute
  <2> DEFINE a == [query |-> q, hops |-> Nothing, found_for |-> q]
  <2>1. heap = {} /\ answer' = a /\ query' = Nothing /\ UNCHANGED route_cache
    BY <1>4 DEF ReturnNoRoute, Return
  <2>2. Arrivals(q) = {}
    BY <1>00, <2>1, NoneIsFound
  <2>3. a.query = q /\ a.hops = Nothing
    OBVIOUS
  <2> HIDE DEF a
  <2>4. AnswerIsSound(a)
    BY <1>00, <2>2, <2>3 DEF AnswerIsSound
  <2> QED BY <1>0, <2>1, <2>4 DEF RouterIInv
<1> QED BY <1>1, <1>2, <1>3, <1>4 DEF SearchNext

-----------------------------------------------------------------------------
(* Missions.                                                                 *)

TaskWindows == [start : Nat, end : Nat]

PlannedTask ==
  [satellite_id : Craft, kind : {"link", "observation", "downlink"}, peer : Craft \cup {Nothing},
   scheduled_window : TaskWindows, dependencies : {D \in SUBSET Nat : IsFiniteSet(D)}]

LEMMA FewDependencies ==
  ASSUME NEW d \in Nat
  PROVE  {d} \in {D \in SUBSET Nat : IsFiniteSet(D)} /\ {} \in {D \in SUBSET Nat : IsFiniteSet(D)}
<1>1. IsFiniteSet({d}) /\ IsFiniteSet({})
  BY FS_Singleton, FS_EmptySet
<1> QED BY <1>1

LEMMA TaskIsPlanned ==
  ASSUME NEW s \in Craft, NEW kind \in {"link", "observation", "downlink"},
         NEW partner \in Craft \cup {Nothing}, NEW w \in TaskWindows,
         NEW deps \in {D \in SUBSET Nat : IsFiniteSet(D)}
  PROVE  Task(s, kind, partner, w, deps) \in PlannedTask
  BY DEF Task, PlannedTask

\* compile_data_relay() makes well-formed tasks of a route.
LEMMA RelayIsPlanned ==
  ASSUME NEW hops \in Seq(Hop), Len(tasks) \in Nat
  PROVE  RelayTasks(hops) \in Seq(PlannedTask)
<1> DEFINE n == Len(hops)
           Dep(i) == IF i > 1 THEN {Len(tasks) + i - 1} ELSE {}
           T(i) == Task(hops[i].from, "link", hops[i].to, hops[i].use_window, Dep(i))
<1>1. n \in Nat /\ DOMAIN hops = 1..n /\ \A i \in 1..n : hops[i] \in Hop
  OBVIOUS
<1>2. RelayTasks(hops) = [i \in 1..n |-> T(i)]
  BY <1>1 DEF RelayTasks
<1> HIDE DEF n
<1>3. ASSUME NEW i \in 1..n PROVE T(i) \in PlannedTask
  <2>1. hops[i].from \in Craft /\ hops[i].to \in Craft \cup {Nothing} /\ hops[i].use_window \in TaskWindows
    BY <1>1 DEF Hop, TaskWindows
  <2>2. Dep(i) \in {D \in SUBSET Nat : IsFiniteSet(D)}
    <3>1. i > 1 => Len(tasks) + i - 1 \in Nat
      BY <1>1
    <3>2. CASE i > 1
      BY <3>1, <3>2, FewDependencies
    <3>3. CASE ~ (i > 1)
      <4>1. 0 \in Nat
        OBVIOUS
      <4>2. {} \in {D \in SUBSET Nat : IsFiniteSet(D)}
        BY <4>1, FewDependencies
      <4> QED BY <3>3, <4>2
    <3> QED BY <3>2, <3>3
  <2> HIDE DEF Dep
  <2> QED BY <2>1, <2>2, TaskIsPlanned
<1> HIDE DEF T
<1> QED BY <1>1, <1>2, <1>3

LEMMA MaxOfTwo ==
  ASSUME NEW a \in Int, NEW b \in Int
  PROVE  Max({a, b}) \in {a, b} /\ Max({a, b}) >= a /\ Max({a, b}) >= b
<1>1. CASE a >= b
  <2>1. a \in {a, b} /\ \A y \in {a, b} : a >= y
    BY <1>1
  <2> QED BY <2>1, MaxIsOne
<1>2. CASE ~ (a >= b)
  <2>1. b \in {a, b} /\ \A y \in {a, b} : b >= y
    BY <1>2
  <2> QED BY <2>1, MaxIsOne
<1> QED BY <1>1, <1>2

LEMMA MinOfTwo ==
  ASSUME NEW a \in Int, NEW b \in Int
  PROVE  Min({a, b}) \in {a, b}
<1>1. \E m \in {a, b} : \A y \in {a, b} : m <= y
  BY SMT
<1> QED BY <1>1 DEF Min

\* The candidates of a plan, in turn.
LEMMA InTurn ==
  ASSUME NEW S \in SUBSET Craft, IsFiniteSet(S), S # {}, NEW order \in SetToSeqs(S), NEW i \in Nat
  PROVE  order[(i % Len(order)) + 1] \in S
<1>1. Cardinality(S) \in Nat
  BY FS_CardinalityType
<1>2. Cardinality(S) # 0
  BY FS_EmptySet
<1> DEFINE n == Cardinality(S)
<1>3. order \in [1..n -> S]
  BY DEF SetToSeqs
<1> HIDE DEF n
<1>4. n \in Nat \ {0}
  BY <1>1, <1>2 DEF n
<1>5. Len(order) = n
  BY <1>3, <1>4
<1>6. (i % n) + 1 \in 1..n
  BY <1>4
<1> QED BY <1>3, <1>5, <1>6

\* So does compile_custody() of its segments,
LEMMA CustodyIsPlanned ==
  ASSUME NEW S \in SUBSET Craft, IsFiniteSet(S), S # {}, NEW order \in SetToSeqs(S),
         NEW target \in Craft, NEW intent \in Intents, intent.kind = "custody", NEW f \in Forecasts,
         Len(tasks) \in Nat
  PROVE  CustodyTasks(target, intent, f, order) \in Seq(PlannedTask)
<1> DEFINE horizon == Min({f.end - f.start, intent.persistence})
           n == Max({(horizon + 19) \div 20, 1})
           Dep(i) == IF i > 1 THEN {Len(tasks) + i - 1} ELSE {}
           Segment(i) == [start |-> f.start + i * 18, end |-> f.start + i * 18 + 20]
           T(i) == Task(order[((i - 1) % Len(order)) + 1], "link", target, Segment(i - 1), Dep(i))
<1>0. f.start \in Nat /\ f.end \in Nat /\ intent.persistence \in Nat
  BY RouterAssumption, MissionAssumption
<1>1. horizon \in Int
  <2>1. f.end - f.start \in Int /\ intent.persistence \in Int
    BY <1>0
  <2>2. horizon \in {f.end - f.start, intent.persistence}
    BY <2>1, MinOfTwo
  <2> HIDE DEF horizon
  <2> QED BY <2>1, <2>2
<1> HIDE DEF horizon
<1>2. n \in Nat
  <2> DEFINE m == (horizon + 19) \div 20
  <2>1. m \in Int /\ 1 \in Int
    BY <1>1
  <2> HIDE DEF m
  <2>3. Max({m, 1}) \in {m, 1} /\ Max({m, 1}) >= 1
    BY <2>1, MaxOfTwo
  <2>4. Max({m, 1}) \in Nat
    BY <2>1, <2>3
  <2> QED BY <2>4 DEF m
<1>3. CustodyTasks(target, intent, f, order) = [i \in 1..n |-> T(i)]
  BY DEF CustodyTasks, horizon
<1> HIDE DEF n
<1>4. ASSUME NEW i \in 1..n PROVE T(i) \in PlannedTask
  <2>1. i - 1 \in Nat
    BY <1>2
  <2>2. order[((i - 1) % Len(order)) + 1] \in Craft
    BY <2>1, InTurn
  <2>3. Segment(i - 1) \in TaskWindows
    <3> DEFINE a == f.start + (i - 1) * 18
    <3>1. a \in Nat
      BY <1>0, <2>1
    <3> HIDE DEF a
    <3>2. [start |-> a, end |-> a + 20] \in TaskWindows
      BY <3>1 DEF TaskWindows
    <3> QED BY <3>2 DEF a
  <2>4. Dep(i) \in {D \in SUBSET Nat : IsFiniteSet(D)}
    <3>1. i > 1 => Len(tasks) + i - 1 \in Nat
      BY <2>1
    <3>2. CASE i > 1
      BY <3>1, <3>2, FewDependencies
    <3>3. CASE ~ (i > 1)
      <4>1. 0 \in Nat
        OBVIOUS
      <4>2. {} \in {D \in SUBSET Nat : IsFiniteSet(D)}
        BY <4>1, FewDependencies
      <4> QED BY <3>3, <4>2
    <3> QED BY <3>2, <3>3
  <2> HIDE DEF Dep, Segment
  <2> QED BY <2>2, <2>3, <2>4, TaskIsPlanned
<1> HIDE DEF T
<1> QED BY <1>2, <1>3, <1>4

\* and compile_observation() of its windows.
LEMMA ObservationIsPlanned ==
  ASSUME NEW S \in SUBSET Craft, IsFiniteSet(S), S # {}, NEW order \in SetToSeqs(S),
         NEW intent \in Intents, intent.kind = "observation", NEW f \in Forecasts,
         Len(tasks) \in Nat
  PROVE  ObservationTasks(intent, f, order) \in Seq(PlannedTask)
<1> DEFINE revisit == Max({intent.revisit, 2})
           Turn(plan, i) == ObservationTurn(plan, i, revisit, f, order)
           n == Max({(f.end - f.start) \div revisit, 1})
           seq == [i \in 1..n |-> i - 1]
           V == Seq(PlannedTask)
           Solves(g) == g = [t \in SUBSET (1..n) |->
                              IF t = {} THEN <<>> ELSE Turn(g[t \ {Max(t)}], seq[Max(t)])]
           fold == CHOOSE g : Solves(g)
           step == [k \in 1..n |-> [v \in V |-> Turn(v, seq[k])]]
<1>0. f.start \in Nat /\ f.end \in Nat /\ intent.revisit \in Nat
  BY RouterAssumption, MissionAssumption
<1>1. revisit \in Nat \ {0}
  <2>1. intent.revisit \in Int /\ 2 \in Int
    BY <1>0
  <2>2. revisit \in {intent.revisit, 2} /\ revisit >= 2
    BY <2>1, MaxOfTwo
  <2> HIDE DEF revisit
  <2> QED BY <2>1, <2>2
<1> HIDE DEF revisit
<1>2. n \in Nat
  <2> DEFINE m == (f.end - f.start) \div revisit
  <2>1. m \in Int /\ 1 \in Int
    BY <1>0, <1>1
  <2> HIDE DEF m
  <2>3. Max({m, 1}) \in {m, 1} /\ Max({m, 1}) >= 1
    BY <2>1, MaxOfTwo
  <2>4. Max({m, 1}) \in Nat
    BY <2>1, <2>3
  <2> QED BY <2>4 DEF m
<1>4. DOMAIN seq = 1..n /\ \A k \in 1..n : seq[k] \in Nat
  <2> HIDE DEF n
  <2> QED BY <1>2
<1>3. ObservationTasks(intent, f, order) = fold[1..n]
  BY <1>4 DEF ObservationTasks, FoldLeft, MapThenFoldSet, revisit
<1> HIDE DEF n
<1> HIDE DEF seq
<1>6. ASSUME NEW plan \in V, NEW i \in Nat PROVE Turn(plan, i) \in V
  <2> DEFINE at == order[(i % Len(order)) + 1]
             obs == [start |-> f.start + i * revisit,
                     end |-> f.start + i * revisit + Min({revisit, 20})]
             down == [start |-> obs.end, end |-> obs.end + 10]
             observe == Task(at, "observation", Nothing, obs, {})
             downlink == Task(at, "downlink", Nothing, down, {NextId(plan)})
  <2>0. Turn(plan, i) = IF HasStation(at, down) THEN plan \o <<observe, downlink>> ELSE Append(plan, observe)
    BY DEF ObservationTurn
  <2>1. at \in Craft
    BY InTurn
  <2>2. obs \in TaskWindows /\ down \in TaskWindows
    <3> DEFINE a == f.start + i * revisit
               b == a + Min({revisit, 20})
    <3>1. a \in Nat
      BY <1>0, <1>1
    <3>2. Min({revisit, 20}) \in Nat
      <4>1. revisit \in Int /\ 20 \in Int
        BY <1>1
      <4>2. Min({revisit, 20}) \in {revisit, 20}
        BY <4>1, MinOfTwo
      <4> QED BY <1>1, <4>2
    <3> HIDE DEF a
    <3>3. b \in Nat
      BY <3>1, <3>2
    <3> HIDE DEF b
    <3>4. [start |-> a, end |-> b] \in TaskWindows /\ [start |-> b, end |-> b + 10] \in TaskWindows
      BY <3>1, <3>3 DEF TaskWindows
    <3>5. obs = [start |-> a, end |-> b]
      BY DEF a, b
    <3>6. down = [start |-> b, end |-> b + 10]
      BY <3>5
    <3> QED BY <3>4, <3>5, <3>6
  <2> HIDE DEF at, obs, down, Turn
  <2>3. NextId(plan) \in Nat
    BY DEF NextId
  <2>4. {NextId(plan)} \in {D \in SUBSET Nat : IsFiniteSet(D)} /\ {} \in {D \in SUBSET Nat : IsFiniteSet(D)}
    BY <2>3, FewDependencies
  <2>5. observe \in PlannedTask
    BY <2>1, <2>2, <2>4, TaskIsPlanned
  <2>6. downlink \in PlannedTask
    BY <2>1, <2>2, <2>4, TaskIsPlanned
  <2> HIDE DEF observe, downlink
  <2>7. plan \o <<observe, downlink>> \in V /\ Append(plan, observe) \in V
    BY <2>5, <2>6
  <2> QED BY <2>0, <2>7
<1> HIDE DEF Turn
<1>8. step \in FoldSteps(n, V)
  <2> HIDE DEF V
  <2> QED BY <1>4, <1>6 DEF FoldSteps
<1>9. PICK e : Folds(e, n, V, <<>>, step)
  <2> HIDE DEF step
  <2>1. <<>> \in V
    OBVIOUS
  <2> HIDE DEF V
  <2> QED BY <1>2, <1>8, <2>1, FoldExists, Zenon
<1> HIDE DEF V
<1>10. Solves(e)
  BY <1>2, <1>9, TopIsThere DEF Folds
<1> HIDE DEF step
<1>11. Solves(fold)
  <2> HIDE DEF Solves
  <2> QED BY <1>10, Zenon
<1> HIDE DEF fold
<1> DEFINE A == {k \in 0..n : fold[1..k] \in V}
<1>12. 0 \in A
  <2>1. 1..0 = {} /\ 0 \in 0..n /\ {} \in SUBSET (1..n)
    BY <1>2
  <2>2. fold[{}] = <<>>
    BY <1>11, <2>1
  <2>3. fold[1..0] \in V
    <3>1. fold[1..0] = <<>>
      BY <2>1, <2>2, Zenon
    <3>2. <<>> \in V
      BY DEF V
    <3> QED BY <3>1, <3>2, Zenon
  <2> QED BY <2>1, <2>3
<1>13. ASSUME NEW k \in 1..n, k - 1 \in A PROVE k \in A
  <2>1. /\ Max(1..k) = k /\ (1..k) \ {k} = 1..(k - 1)
        /\ 1..k \in SUBSET (1..n) /\ 1..k # {} /\ k \in 0..n /\ k - 1 \in 0..n
    BY <1>2, IntervalTop
  <2>2. fold[1..k] = Turn(fold[(1..k) \ {Max(1..k)}], seq[Max(1..k)])
    BY <1>11, <2>1
  <2>3. fold[1..(k - 1)] \in V /\ seq[k] \in Nat
    BY <1>4, <1>13
  <2>4. Turn(fold[1..(k - 1)], seq[k]) \in V
    BY <1>6, <2>3
  <2>5. fold[1..k] = Turn(fold[1..(k - 1)], seq[k])
    BY <2>1, <2>2
  <2> QED BY <2>1, <2>4, <2>5
<1> HIDE DEF A
<1>14. \A k \in 0..n : k \in A
  BY <1>2, <1>12, <1>13, UpTo
<1>15. n \in A
  BY <1>2, <1>14
<1> QED BY <1>3, <1>15 DEF A, V

\* What a queue holds when something is put into it or taken from it.
LEMMA QueueAppend ==
  ASSUME NEW q \in Seq(Nat), IsInjective(q), NEW i \in Nat, i \notin Range(q)
  PROVE  /\ Append(q, i) \in Seq(Nat) /\ IsInjective(Append(q, i))
         /\ Range(Append(q, i)) = Range(q) \cup {i}
<1> DEFINE n == Len(q)
           p == Append(q, i)
<1>1. /\ n \in Nat /\ DOMAIN q = 1..n /\ p \in Seq(Nat) /\ DOMAIN p = 1..(n + 1)
      /\ p[n + 1] = i /\ \A k \in 1..n : p[k] = q[k]
  OBVIOUS
<1> HIDE DEF p, n
<1>2. \A k \in 1..n : q[k] \in Range(q)
  BY <1>1 DEF Range
<1>3. \A k \in 1..(n + 1) : k = n + 1 \/ k \in 1..n
  BY <1>1
<1>4. IsInjective(p)
  <2> SUFFICES ASSUME NEW a \in 1..(n + 1), NEW b \in 1..(n + 1), p[a] = p[b] PROVE a = b
    BY <1>1 DEF IsInjective
  <2>1. a \in 1..n /\ b \in 1..n => a = b
    BY <1>1 DEF IsInjective
  <2>2. ~ (a = n + 1 /\ b \in 1..n) /\ ~ (b = n + 1 /\ a \in 1..n)
    BY <1>1, <1>2
  <2> QED BY <1>3, <2>1, <2>2
<1>5. Range(p) = Range(q) \cup {i}
  <2>1. \A k \in 1..n : k \in 1..(n + 1)
    BY <1>1
  <2>2. n + 1 \in 1..(n + 1)
    BY <1>1
  <2> QED BY <1>1, <1>3, <2>1, <2>2 DEF Range
<1> QED BY <1>1, <1>4, <1>5 DEF p

\* pop() takes one task out of the queue and no other.
LEMMA QueueTail ==
  ASSUME NEW q \in Seq(Nat), IsInjective(q), q # <<>>
  PROVE  /\ Tail(q) \in Seq(Nat) /\ IsInjective(Tail(q))
         /\ Range(Tail(q)) = Range(q) \ {Head(q)} /\ Head(q) \in Range(q) /\ Head(q) \in Nat
<1> DEFINE n == Len(q)
           p == Tail(q)
<1>1. /\ n \in Nat /\ n >= 1 /\ DOMAIN q = 1..n /\ p \in Seq(Nat) /\ DOMAIN p = 1..(n - 1)
      /\ Head(q) = q[1] /\ \A k \in 1..(n - 1) : p[k] = q[k + 1]
  OBVIOUS
<1>2. q[1] \in Nat
  BY <1>1
<1> HIDE DEF p, n
<1>3. \A a, b \in 1..n : q[a] = q[b] => a = b
  BY <1>1 DEF IsInjective
<1>4. \A k \in 1..(n - 1) : k + 1 \in 1..n /\ k + 1 # 1
  BY <1>1
<1>5. IsInjective(p)
  <2> SUFFICES ASSUME NEW a \in 1..(n - 1), NEW b \in 1..(n - 1), p[a] = p[b] PROVE a = b
    BY <1>1 DEF IsInjective
  <2>1. a + 1 = b + 1
    BY <1>1, <1>3, <1>4
  <2> QED BY <1>1, <2>1
<1>6. Range(p) = Range(q) \ {q[1]}
  <2>1. ASSUME NEW x \in Range(p) PROVE x \in Range(q) \ {q[1]}
    <3>1. PICK k \in 1..(n - 1) : x = q[k + 1]
      BY <1>1 DEF Range
    <3>2. k + 1 \in 1..n /\ q[k + 1] # q[1]
      BY <1>1, <1>3, <1>4
    <3> QED BY <1>1, <3>1, <3>2 DEF Range
  <2>2. ASSUME NEW x \in Range(q) \ {q[1]} PROVE x \in Range(p)
    <3>1. PICK k \in 1..n : x = q[k] /\ k # 1
      BY <1>1 DEF Range
    <3>2. k - 1 \in 1..(n - 1) /\ (k - 1) + 1 = k
      BY <1>1, <3>1
    <3>3. x = p[k - 1]
      BY <1>1, <3>1, <3>2
    <3> QED BY <1>1, <3>2, <3>3 DEF Range
  <2> QED BY <2>1, <2>2
<1>7. q[1] \in Range(q)
  <2>1. 1 \in DOMAIN q
    BY <1>1
  <2> QED BY <2>1, Zenon DEF Range
<1> QED BY <1>1, <1>2, <1>5, <1>6, <1>7 DEF p

\* The inductive invariant of the tasks: the four books share them out between them.
SharedOut(all, a, b, c, d) ==
  /\ a \cup b \cup c \cup d = all
  /\ a \cap b = {} /\ a \cap c = {} /\ a \cap d = {} /\ b \cap c = {} /\ b \cap d = {} /\ c \cap d = {}

TaskIInv ==
  /\ tasks \in Seq(PlannedTask)
  /\ scheduled_tasks \in Seq(TaskWindows \cup {Nothing}) /\ Len(scheduled_tasks) = Len(tasks)
  /\ task_queue \in Seq(Nat) /\ IsInjective(task_queue)
  /\ SharedOut(DOMAIN tasks, unsubmitted, Range(task_queue), Scheduled, refused)
  /\ TimelineKeepsOrder
  /\ ContentionIsRecorded

LEMMA Concatenation ==
  ASSUME NEW S, NEW a \in Seq(S), NEW b \in Seq(S)
  PROVE  /\ a \o b \in Seq(S) /\ Len(a \o b) = Len(a) + Len(b)
         /\ \A i \in 1..Len(a) : (a \o b)[i] = a[i]
         /\ \A i \in (Len(a) + 1)..(Len(a) + Len(b)) : (a \o b)[i] = b[i - Len(a)]
  OBVIOUS

LEMMA DeliverKeeps ==
  ASSUME TaskIInv, NEW plan \in Seq(PlannedTask), Deliver(plan),
         UNCHANGED <<task_queue, resource_conflicts, refused>>
  PROVE  TaskIInv'
<1> DEFINE n == Len(tasks)
           m == Len(plan)
           none == [i \in DOMAIN plan |-> Nothing]
           more == {n + i : i \in DOMAIN plan}
<1>1. /\ tasks \in Seq(PlannedTask) /\ scheduled_tasks \in Seq(TaskWindows \cup {Nothing})
      /\ Len(scheduled_tasks) = n /\ n \in Nat /\ m \in Nat /\ DOMAIN plan = 1..m
  BY DEF TaskIInv
<1>2. /\ tasks' = tasks \o plan /\ scheduled_tasks' = scheduled_tasks \o none
      /\ unsubmitted' = unsubmitted \cup more
  BY DEF Deliver
<1>3. none \in Seq(TaskWindows \cup {Nothing}) /\ Len(none) = m /\ \A i \in 1..m : none[i] = Nothing
  <2> HIDE DEF m
  <2> QED BY <1>1
<1> HIDE DEF none
<1>4. /\ tasks' \in Seq(PlannedTask) /\ Len(tasks') = n + m /\ DOMAIN tasks' = 1..(n + m) /\ DOMAIN tasks = 1..n
      /\ \A i \in 1..n : tasks'[i] = tasks[i]
  BY <1>1, <1>2
<1>5. /\ scheduled_tasks' \in Seq(TaskWindows \cup {Nothing}) /\ Len(scheduled_tasks') = n + m
      /\ \A i \in 1..n : scheduled_tasks'[i] = scheduled_tasks[i]
      /\ \A i \in (n + 1)..(n + m) : scheduled_tasks'[i] = Nothing
  <2>1. /\ scheduled_tasks' \in Seq(TaskWindows \cup {Nothing}) /\ Len(scheduled_tasks') = n + m
        /\ \A i \in 1..n : scheduled_tasks'[i] = scheduled_tasks[i]
        /\ \A i \in (n + 1)..(n + m) : scheduled_tasks'[i] = none[i - n]
    <3> DEFINE S == TaskWindows \cup {Nothing}
               a == scheduled_tasks
    <3>1. a \in Seq(S) /\ none \in Seq(S)
      BY <1>1, <1>3
    <3> HIDE DEF S, a
    <3>2. /\ a \o none \in Seq(S) /\ Len(a \o none) = Len(a) + Len(none)
          /\ \A i \in 1..Len(a) : (a \o none)[i] = a[i]
          /\ \A i \in (Len(a) + 1)..(Len(a) + Len(none)) : (a \o none)[i] = none[i - Len(a)]
      BY <3>1, Concatenation, Zenon
    <3>3. Len(a) = n /\ Len(none) = m /\ scheduled_tasks' = a \o none
      BY <1>1, <1>2, <1>3 DEF a
    <3> HIDE DEF n, m
    <3>4. /\ scheduled_tasks' \in Seq(S) /\ Len(scheduled_tasks') = n + m
          /\ \A i \in 1..n : scheduled_tasks'[i] = a[i]
          /\ \A i \in (n + 1)..(n + m) : scheduled_tasks'[i] = none[i - n]
      BY <3>2, <3>3, Zenon
    <3> QED BY <3>4 DEF S, a
  <2>2. ASSUME NEW i \in (n + 1)..(n + m) PROVE scheduled_tasks'[i] = Nothing
    <3>1. i - n \in 1..m
      BY <1>1
    <3> QED BY <1>3, <2>1, <3>1
  <2> QED BY <2>1, <2>2
<1> HIDE DEF n, m
<1>6. \A i \in 1..(n + m) : i \in 1..n \/ i \in (n + 1)..(n + m)
  BY <1>1
<1>7. \A i \in 1..n : i \in 1..(n + m)
  BY <1>1
<1>8. Scheduled' = Scheduled
  BY <1>4, <1>5, <1>6, <1>7 DEF Scheduled
<1>9. more = (n + 1)..(n + m)
  <2>1. \A i \in 1..m : n + i \in (n + 1)..(n + m)
    BY <1>1
  <2>2. ASSUME NEW j \in (n + 1)..(n + m) PROVE \E i \in 1..m : j = n + i
    <3>1. j - n \in 1..m /\ j = n + (j - n)
      BY <1>1
    <3> QED BY <3>1
  <2>3. DOMAIN plan = 1..m
    BY <1>1
  <2> QED BY <2>1, <2>2, <2>3, Zenon
<1> HIDE DEF more
<1>10. \A i \in 1..n : i \notin more
  BY <1>1, <1>9
<1>11. \A i \in more : i \in 1..(n + m)
  BY <1>1, <1>9
<1>12. SharedOut(DOMAIN tasks, unsubmitted, Range(task_queue), Scheduled, refused)
  BY DEF TaskIInv
<1>13. SharedOut(DOMAIN tasks', unsubmitted', Range(task_queue'), Scheduled', refused')
  <2>1. task_queue' = task_queue /\ refused' = refused
    OBVIOUS
  <2>2. Range(task_queue') = Range(task_queue)
    BY <2>1
  <2>3. DOMAIN tasks' = DOMAIN tasks \cup more /\ DOMAIN tasks \cap more = {}
    BY <1>4, <1>6, <1>7, <1>9, <1>10, <1>11
  <2> QED BY <1>2, <1>8, <1>12, <2>1, <2>2, <2>3, Zenon DEF SharedOut
<1>14. TimelineKeepsOrder'
  <2>1. ASSUME NEW i \in Scheduled PROVE i \in 1..n
    BY <1>4 DEF Scheduled
  <2> SUFFICES ASSUME NEW i \in Scheduled
               PROVE  /\ scheduled_tasks'[i].start >= tasks'[i].scheduled_window.start
                      /\ scheduled_tasks'[i].end <= tasks'[i].scheduled_window.end
                      /\ \A d \in tasks'[i].dependencies :
                           d \in Scheduled /\ scheduled_tasks'[d].end <= scheduled_tasks'[i].start
    BY <1>8 DEF TimelineKeepsOrder
  <2>2. tasks'[i] = tasks[i] /\ scheduled_tasks'[i] = scheduled_tasks[i]
    BY <1>4, <1>5, <2>1
  <2>3. /\ scheduled_tasks[i].start >= tasks[i].scheduled_window.start
        /\ scheduled_tasks[i].end <= tasks[i].scheduled_window.end
        /\ \A d \in tasks[i].dependencies :
             d \in Scheduled /\ scheduled_tasks[d].end <= scheduled_tasks[i].start
    BY DEF TaskIInv, TimelineKeepsOrder
  <2>4. \A d \in Scheduled : scheduled_tasks'[d] = scheduled_tasks[d]
    BY <1>5, <2>1
  <2> QED BY <2>2, <2>3, <2>4
<1>15. ContentionIsRecorded'
  <2>1. \A i \in Scheduled : tasks'[i] = tasks[i]
    BY <1>4 DEF Scheduled
  <2>2. \A i, j \in Scheduled : (j \in Rivals(i))' <=> j \in Rivals(i)
    BY <1>8, <2>1 DEF Rivals
  <2>3. resource_conflicts' = resource_conflicts
    OBVIOUS
  <2> SUFFICES ASSUME NEW i \in Scheduled', NEW j \in Scheduled', i # j, (j \in Rivals(i))'
               PROVE  \E c \in resource_conflicts' : c[1] \in {i, j}
    BY DEF ContentionIsRecorded
  <2>4. j \in Rivals(i) /\ i \in Scheduled /\ j \in Scheduled
    BY <1>8, <2>2
  <2> QED BY <2>3, <2>4 DEF TaskIInv, ContentionIsRecorded
<1>16. task_queue' \in Seq(Nat) /\ IsInjective(task_queue')
  BY DEF TaskIInv
<1>17. Len(scheduled_tasks') = Len(tasks')
  BY <1>4, <1>5
<1> QED BY <1>4, <1>5, <1>13, <1>14, <1>15, <1>16, <1>17 DEF TaskIInv

\* A task that can be placed begins in its window and after what it depends on.
LEMMA StartIsLatest ==
  ASSUME TaskIInv, NEW i \in DOMAIN tasks, tasks[i].dependencies \subseteq Scheduled
  PROVE  /\ StartOf(i) \in Nat /\ EndOf(i) \in Nat
         /\ StartOf(i) >= tasks[i].scheduled_window.start
         /\ \A d \in tasks[i].dependencies : scheduled_tasks[d].end <= StartOf(i)
<1> DEFINE D == tasks[i].dependencies
           s == tasks[i].scheduled_window.start
           ends == {scheduled_tasks[d].end : d \in D}
           all == {s} \cup ends
<1>1. tasks[i] \in PlannedTask
  BY DEF TaskIInv
<1>2. IsFiniteSet(D) /\ s \in Nat /\ tasks[i].kind \in {"link", "observation", "downlink"}
  BY <1>1 DEF PlannedTask, TaskWindows
<1>3. \A d \in Scheduled : scheduled_tasks[d] \in TaskWindows
  BY DEF TaskIInv, Scheduled
<1>4. \A d \in D : scheduled_tasks[d].end \in Nat
  BY <1>3 DEF TaskWindows
<1> HIDE DEF D, s
<1>5. IsFiniteSet(ends)
  <2> DEFINE g == [d \in D |-> scheduled_tasks[d].end]
  <2>1. IsFiniteSet({g[d] : d \in D})
    BY <1>2, FiniteValues
  <2>2. {g[d] : d \in D} = ends
    OBVIOUS
  <2> QED BY <2>1, <2>2, Zenon
<1>6. IsFiniteSet(all)
  <2>1. IsFiniteSet({s})
    BY FS_Singleton
  <2> HIDE DEF ends
  <2> QED BY <1>5, <2>1, FS_Union
<1>7. all \in SUBSET Nat /\ s \in all /\ \A d \in D : scheduled_tasks[d].end \in all
  BY <1>2, <1>4
<1>8. StartOf(i) = Max(all)
  BY DEF StartOf, D, s
<1> HIDE DEF all
<1>9. Max(all) \in Nat /\ \A x \in all : x <= Max(all)
  BY <1>6, <1>7, FiniteHasGreatest
<1>10. StartOf(i) \in Nat /\ s <= StartOf(i) /\ \A d \in D : scheduled_tasks[d].end <= StartOf(i)
  BY <1>7, <1>8, <1>9
<1>11. TaskDuration[tasks[i].kind] \in Nat
  BY <1>2 DEF TaskDuration
<1>12. EndOf(i) \in Nat
  BY <1>10, <1>11 DEF EndOf
<1>13. StartOf(i) >= s
  BY <1>2, <1>10
<1> QED BY <1>10, <1>12, <1>13 DEF D, s

\* The properties of the timeline follow the tasks and their places only.
LEMMA TimelineStays ==
  ASSUME UNCHANGED <<tasks, scheduled_tasks, resource_conflicts>>
  PROVE  /\ TimelineKeepsOrder => TimelineKeepsOrder'
         /\ ContentionIsRecorded => ContentionIsRecorded'
         /\ Scheduled' = Scheduled
  BY DEF TimelineKeepsOrder, ContentionIsRecorded, Scheduled, Rivals, Overlapping

LEMMA EnqueueKeeps ==
  ASSUME TaskIInv, NEW i \in unsubmitted, Enqueue(i)
  PROVE  TaskIInv'
<1>1. /\ task_queue' = Append(task_queue, i) /\ unsubmitted' = unsubmitted \ {i}
      /\ UNCHANGED <<tasks, scheduled_tasks, resource_conflicts, refused>>
  BY DEF Enqueue
<1>2. SharedOut(DOMAIN tasks, unsubmitted, Range(task_queue), Scheduled, refused)
  BY DEF TaskIInv
<1>3. i \in DOMAIN tasks /\ i \notin Range(task_queue)
  BY <1>2 DEF SharedOut
<1>4. i \in Nat
  BY <1>3 DEF TaskIInv
<1>5. /\ task_queue' \in Seq(Nat) /\ IsInjective(task_queue')
      /\ Range(task_queue') = Range(task_queue) \cup {i}
  BY <1>1, <1>3, <1>4, QueueAppend DEF TaskIInv
<1>6. TimelineKeepsOrder' /\ ContentionIsRecorded' /\ Scheduled' = Scheduled
  BY <1>1, TimelineStays DEF TaskIInv
<1>7. SharedOut(DOMAIN tasks', unsubmitted', Range(task_queue'), Scheduled', refused')
  <2>1. DOMAIN tasks' = DOMAIN tasks /\ refused' = refused
    BY <1>1
  <2>2. unsubmitted' = unsubmitted \ {i} /\ Range(task_queue') = Range(task_queue) \cup {i}
        /\ i \in unsubmitted
    BY <1>1, <1>5
  <2> DEFINE a == unsubmitted
             b == Range(task_queue)
             all == DOMAIN tasks
  <2>3. SharedOut(all, a, b, Scheduled, refused) /\ i \in a
    BY <1>2
  <2> HIDE DEF a, b, all
  <2>4. SharedOut(all, a \ {i}, b \cup {i}, Scheduled, refused)
    BY <2>3 DEF SharedOut
  <2> QED BY <1>6, <2>1, <2>2, <2>4, Zenon DEF a, b, all
<1> QED BY <1>1, <1>5, <1>6, <1>7 DEF TaskIInv

LEMMA RequeueKeeps ==
  ASSUME TaskIInv, Requeue
  PROVE  TaskIInv'
<1> DEFINE i == Head(task_queue)
           rest == Tail(task_queue)
<1>1. /\ task_queue # <<>> /\ task_queue' = Append(rest, i)
      /\ UNCHANGED <<tasks, unsubmitted, scheduled_tasks, resource_conflicts, refused>>
  BY DEF Requeue, planVars
<1>2. SharedOut(DOMAIN tasks, unsubmitted, Range(task_queue), Scheduled, refused)
  BY DEF TaskIInv
<1>3. /\ rest \in Seq(Nat) /\ IsInjective(rest) /\ i \in Nat /\ i \in Range(task_queue)
      /\ Range(rest) = Range(task_queue) \ {i}
  BY <1>1, QueueTail DEF TaskIInv
<1> HIDE DEF i, rest
<1>4. /\ task_queue' \in Seq(Nat) /\ IsInjective(task_queue')
      /\ Range(task_queue') = Range(rest) \cup {i}
  BY <1>1, <1>3, QueueAppend
<1>5. Range(task_queue') = Range(task_queue)
  BY <1>3, <1>4
<1>6. TimelineKeepsOrder' /\ ContentionIsRecorded' /\ Scheduled' = Scheduled
  BY <1>1, TimelineStays DEF TaskIInv
<1> QED BY <1>1, <1>2, <1>4, <1>5, <1>6 DEF TaskIInv

LEMMA RefuseKeeps ==
  ASSUME TaskIInv, Refuse
  PROVE  TaskIInv'
<1> DEFINE i == Head(task_queue)
           rest == Tail(task_queue)
<1>1. /\ task_queue # <<>> /\ task_queue' = rest /\ refused' = refused \cup {i}
      /\ UNCHANGED <<tasks, unsubmitted, scheduled_tasks, resource_conflicts>>
  BY DEF Refuse, planVars
<1>2. SharedOut(DOMAIN tasks, unsubmitted, Range(task_queue), Scheduled, refused)
  BY DEF TaskIInv
<1>3. /\ rest \in Seq(Nat) /\ IsInjective(rest) /\ i \in Range(task_queue)
      /\ Range(rest) = Range(task_queue) \ {i}
  BY <1>1, QueueTail DEF TaskIInv
<1> HIDE DEF i, rest
<1>4. TimelineKeepsOrder' /\ ContentionIsRecorded' /\ Scheduled' = Scheduled
  BY <1>1, TimelineStays DEF TaskIInv
<1>5. SharedOut(DOMAIN tasks', unsubmitted', Range(task_queue'), Scheduled', refused')
  <2>1. DOMAIN tasks' = DOMAIN tasks /\ unsubmitted' = unsubmitted /\ Range(task_queue') = Range(task_queue) \ {i}
    BY <1>1, <1>3
  <2> QED BY <1>1, <1>2, <1>3, <1>4, <2>1, Zenon DEF SharedOut
<1> QED BY <1>1, <1>3, <1>4, <1>5 DEF TaskIInv

LEMMA PlaceKeeps ==
  ASSUME TaskIInv, Place
  PROVE  TaskIInv'
<1> DEFINE i == Head(task_queue)
           rest == Tail(task_queue)
           w == [start |-> StartOf(i), end |-> EndOf(i)]
<1>1. /\ task_queue # <<>> /\ task_queue' = rest
      /\ tasks[i].dependencies \subseteq Scheduled /\ FitsWindow(i)
      /\ scheduled_tasks' = [scheduled_tasks EXCEPT ![i] = w]
      /\ UNCHANGED <<tasks, unsubmitted, refused>>
  BY DEF Place, planVars
<1>2. resource_conflicts \subseteq resource_conflicts'
      /\ (Rivals(i) # {} => \E j : <<i, j>> \in resource_conflicts')
  BY DEF Place
<1>3. SharedOut(DOMAIN tasks, unsubmitted, Range(task_queue), Scheduled, refused)
  BY DEF TaskIInv
<1>4. /\ rest \in Seq(Nat) /\ IsInjective(rest) /\ i \in Range(task_queue)
      /\ Range(rest) = Range(task_queue) \ {i}
  BY <1>1, QueueTail DEF TaskIInv
<1>5. i \in DOMAIN tasks /\ i \notin Scheduled
  BY <1>3, <1>4 DEF SharedOut
<1> HIDE DEF i, rest
<1>6. /\ StartOf(i) \in Nat /\ EndOf(i) \in Nat
      /\ StartOf(i) >= tasks[i].scheduled_window.start
      /\ \A d \in tasks[i].dependencies : scheduled_tasks[d].end <= StartOf(i)
  BY <1>1, <1>5, StartIsLatest
<1>7. w \in TaskWindows /\ w.start = StartOf(i) /\ w.end = EndOf(i)
  BY <1>6 DEF TaskWindows
<1> HIDE DEF w
<1>8. w # Nothing
  BY <1>7, MissionAssumption DEF TaskWindows
<1>9. /\ scheduled_tasks' \in Seq(TaskWindows \cup {Nothing}) /\ Len(scheduled_tasks') = Len(tasks)
      /\ scheduled_tasks'[i] = w
      /\ \A j \in DOMAIN tasks : j # i => scheduled_tasks'[j] = scheduled_tasks[j]
  <2>1. /\ scheduled_tasks \in Seq(TaskWindows \cup {Nothing}) /\ Len(scheduled_tasks) = Len(tasks)
        /\ DOMAIN tasks = 1..Len(tasks) /\ DOMAIN scheduled_tasks = DOMAIN tasks
    BY DEF TaskIInv
  <2> QED BY <1>1, <1>5, <1>7, <2>1
<1>10. Scheduled' = Scheduled \cup {i} /\ \A j \in Scheduled : scheduled_tasks'[j] = scheduled_tasks[j]
  BY <1>1, <1>5, <1>8, <1>9 DEF Scheduled
<1>11. TimelineKeepsOrder'
  <2> SUFFICES ASSUME NEW j \in Scheduled \cup {i}
               PROVE  /\ scheduled_tasks'[j].start >= tasks[j].scheduled_window.start
                      /\ scheduled_tasks'[j].end <= tasks[j].scheduled_window.end
                      /\ \A d \in tasks[j].dependencies :
                           d \in Scheduled \cup {i} /\ scheduled_tasks'[d].end <= scheduled_tasks'[j].start
    BY <1>1, <1>10 DEF TimelineKeepsOrder
  <2>1. CASE j = i
    <3>1. \A d \in tasks[i].dependencies : d \in Scheduled /\ scheduled_tasks'[d].end <= StartOf(i)
      BY <1>1, <1>6, <1>10
    <3> QED BY <1>1, <1>6, <1>7, <1>9, <2>1, <3>1 DEF FitsWindow
  <2>2. CASE j \in Scheduled
    <3>1. /\ scheduled_tasks[j].start >= tasks[j].scheduled_window.start
          /\ scheduled_tasks[j].end <= tasks[j].scheduled_window.end
          /\ \A d \in tasks[j].dependencies :
               d \in Scheduled /\ scheduled_tasks[d].end <= scheduled_tasks[j].start
      BY <2>2 DEF TaskIInv, TimelineKeepsOrder
    <3> QED BY <1>10, <2>2, <3>1
  <2> QED BY <2>1, <2>2
<1>12. ContentionIsRecorded'
  <2> SUFFICES ASSUME NEW j \in Scheduled \cup {i}, NEW k \in Scheduled \cup {i}, j # k, (k \in Rivals(j))'
               PROVE  \E c \in resource_conflicts' : c[1] \in {j, k}
    BY <1>10 DEF ContentionIsRecorded
  <2>1. /\ tasks[j].kind = "link" /\ tasks[k].kind = "link" /\ tasks[j].peer = tasks[k].peer
        /\ Overlapping(tasks[j].scheduled_window, tasks[k].scheduled_window)
    BY <1>1 DEF Rivals
  <2>2. CASE j = i
    <3>1. k \in Rivals(i)
      BY <2>1, <2>2 DEF Rivals
    <3>2. PICK l : <<i, l>> \in resource_conflicts'
      BY <1>2, <3>1
    <3>3. <<i, l>>[1] = i
      OBVIOUS
    <3> QED BY <2>2, <3>2, <3>3
  <2>3. CASE k = i
    <3>1. Overlapping(tasks[i].scheduled_window, tasks[j].scheduled_window)
      <4>1. tasks[i] \in PlannedTask /\ tasks[j] \in PlannedTask
        BY <1>5 DEF TaskIInv, Scheduled
      <4>2. /\ tasks[i].scheduled_window.start \in Nat /\ tasks[i].scheduled_window.end \in Nat
            /\ tasks[j].scheduled_window.start \in Nat /\ tasks[j].scheduled_window.end \in Nat
        BY <4>1 DEF PlannedTask, TaskWindows
      <4> QED BY <2>1, <2>3, <4>2 DEF Overlapping
    <3>2. j \in Rivals(i)
      BY <2>1, <2>3, <3>1 DEF Rivals
    <3>3. PICK l : <<i, l>> \in resource_conflicts'
      BY <1>2, <3>2
    <3>4. <<i, l>>[1] = i
      OBVIOUS
    <3> QED BY <2>3, <3>3, <3>4
  <2>4. CASE j \in Scheduled /\ k \in Scheduled
    <3>1. k \in Rivals(j)
      BY <2>1, <2>4 DEF Rivals
    <3>2. PICK c \in resource_conflicts : c[1] \in {j, k}
      BY <2>4, <3>1 DEF TaskIInv, ContentionIsRecorded
    <3> QED BY <1>2, <3>2
  <2> QED BY <2>2, <2>3, <2>4
<1>13. SharedOut(DOMAIN tasks', unsubmitted', Range(task_queue'), Scheduled', refused')
  <2>1. /\ DOMAIN tasks' = DOMAIN tasks /\ unsubmitted' = unsubmitted /\ refused' = refused
        /\ Range(task_queue') = Range(task_queue) \ {i}
    BY <1>1, <1>4
  <2> QED BY <1>3, <1>4, <1>10, <2>1, Zenon DEF SharedOut
<1> QED BY <1>1, <1>4, <1>9, <1>11, <1>12, <1>13 DEF TaskIInv

\* The inductive invariant of mission planning.
FleetIsSound ==
  /\ satellites \in SUBSET Craft /\ IsFiniteSet(satellites)
  /\ optical_terminals \in SUBSET TerminalAssets

MissionIInv == RouterIInv /\ TaskIInv /\ FleetIsSound

LEMMA InitMission == MissionInit => MissionIInv
<1> SUFFICES ASSUME MissionInit PROVE MissionIInv
  OBVIOUS
<1> USE DEF MissionInit, RouterInit
<1>1. RouterIInv
  BY DEF RouterIInv, CacheIsSound, AnswerIsSound
<1>2. FleetIsSound
  BY FS_EmptySet DEF FleetIsSound
<1>3. DOMAIN tasks = {} /\ Range(task_queue) = {} /\ Scheduled = {}
  BY DEF Range, Scheduled
<1>4. SharedOut(DOMAIN tasks, unsubmitted, Range(task_queue), Scheduled, refused)
  BY <1>3 DEF SharedOut
<1>5. TimelineKeepsOrder /\ ContentionIsRecorded
  BY <1>3 DEF TimelineKeepsOrder, ContentionIsRecorded
<1>6. IsInjective(task_queue)
  BY DEF IsInjective
<1> QED BY <1>1, <1>2, <1>4, <1>5, <1>6 DEF MissionIInv, TaskIInv

LEMMA TasksStay ==
  ASSUME TaskIInv, UNCHANGED <<tasks, unsubmitted, task_queue, scheduled_tasks, resource_conflicts, refused>>
  PROVE  TaskIInv'
<1>1. TimelineKeepsOrder' /\ ContentionIsRecorded' /\ Scheduled' = Scheduled
  BY TimelineStays DEF TaskIInv
<1> QED BY <1>1 DEF TaskIInv

LEMMA CompileDirectlyKeeps ==
  ASSUME MissionIInv, NEW intent \in Intents, NEW f \in Forecasts, CompileDirectly(intent, f)
  PROVE  TaskIInv'
<1> DEFINE target == Resolve(intent.target)
           others == satellites \ {target}
<1>0. /\ TaskIInv /\ satellites \in SUBSET Craft /\ IsFiniteSet(satellites)
      /\ optical_terminals \in SUBSET TerminalAssets
  BY DEF MissionIInv, FleetIsSound
<1>1. Len(tasks) \in Nat
  BY <1>0 DEF TaskIInv
<1>2. UNCHANGED <<task_queue, resource_conflicts, refused>>
  BY DEF CompileDirectly
<1>3. CASE CompileFails
  <2>1. UNCHANGED <<tasks, unsubmitted, scheduled_tasks>>
    BY <1>3 DEF CompileFails
  <2> QED BY <1>0, <1>2, <2>1, TasksStay
<1>4. ASSUME intent.kind = "observation", satellites # {}, NEW order \in SetToSeqs(satellites),
             Deliver(ObservationTasks(intent, f, order))
      PROVE  TaskIInv'
  <2>1. ObservationTasks(intent, f, order) \in Seq(PlannedTask)
    BY <1>0, <1>1, <1>4, ObservationIsPlanned
  <2> QED BY <1>0, <1>2, <1>4, <2>1, DeliverKeeps
<1>5. ASSUME intent.kind = "custody", others # {}, target # Nothing, NEW order \in SetToSeqs(others),
             Deliver(CustodyTasks(target, intent, f, order))
      PROVE  TaskIInv'
  <2>1. target \in Craft
    BY <1>0, <1>5, MissionAssumption DEF Resolve
  <2>2. others \in SUBSET Craft /\ IsFiniteSet(others)
    BY <1>0, FS_Subset
  <2> HIDE DEF target, others
  <2>3. CustodyTasks(target, intent, f, order) \in Seq(PlannedTask)
    BY <1>1, <1>5, <2>1, <2>2, CustodyIsPlanned
  <2> QED BY <1>0, <1>2, <1>5, <2>3, DeliverKeeps
<1>6. ASSUME intent.kind = "downlink", HasStation(intent.satellite, intent.ground_window),
             Deliver(<<Task(intent.satellite, "downlink", Nothing, intent.ground_window, {})>>)
      PROVE  TaskIInv'
  <2> DEFINE t == Task(intent.satellite, "downlink", Nothing, intent.ground_window, {})
  <2>1. intent.satellite \in Craft
    BY <1>0, <1>6 DEF HasStation
  <2>2. intent.ground_window \in TaskWindows
    BY <1>6, MissionAssumption DEF TaskWindows
  <2>3. 0 \in Nat
    OBVIOUS
  <2>4. {} \in {D \in SUBSET Nat : IsFiniteSet(D)}
    BY <2>3, FewDependencies
  <2>5. t \in PlannedTask
    BY <2>1, <2>2, <2>4, TaskIsPlanned
  <2>6. Deliver(<<t>>)
    BY <1>6
  <2> HIDE DEF t
  <2>7. <<t>> \in Seq(PlannedTask)
    BY <2>5
  <2> QED BY <1>0, <1>2, <2>6, <2>7, DeliverKeeps
<1> QED BY <1>3, <1>4, <1>5, <1>6 DEF CompileDirectly

LEMMA NextMission == MissionIInv /\ [MissionNext]_missionVars => MissionIInv'
<1> SUFFICES ASSUME MissionIInv, [MissionNext]_missionVars PROVE MissionIInv'
  OBVIOUS
<1>0. RouterIInv /\ TaskIInv /\ FleetIsSound
  BY DEF MissionIInv
<1>1. UNCHANGED routerVars => RouterIInv'
  BY <1>0 DEF routerVars, RouterIInv
<1>2. UNCHANGED <<tasks, unsubmitted, task_queue, scheduled_tasks, resource_conflicts, refused>> => TaskIInv'
  BY <1>0, TasksStay
<1>3. UNCHANGED constellationVars => FleetIsSound'
  BY <1>0 DEF constellationVars, FleetIsSound
<1> USE DEF planVars, taskingVars
<1>4. ASSUME NEW s \in Craft, UpdateSatellite(s) PROVE MissionIInv'
  <2>1. /\ satellites' = satellites \cup {s} /\ UNCHANGED routerVars /\ UNCHANGED optical_terminals
        /\ UNCHANGED <<tasks, unsubmitted, task_queue, scheduled_tasks, resource_conflicts, refused>>
    BY <1>4 DEF UpdateSatellite
  <2>2. IsFiniteSet(satellites \cup {s})
    BY <1>0, FS_AddElement DEF FleetIsSound
  <2>3. FleetIsSound'
    BY <1>0, <2>1, <2>2 DEF FleetIsSound
  <2> QED BY <1>1, <1>2, <2>1, <2>3 DEF MissionIInv
<1>5. ASSUME NEW a \in TerminalAssets, UpdateTerminal(a) PROVE MissionIInv'
  <2>1. /\ optical_terminals' = optical_terminals \cup {a} /\ UNCHANGED routerVars /\ UNCHANGED satellites
        /\ UNCHANGED <<tasks, unsubmitted, task_queue, scheduled_tasks, resource_conflicts, refused>>
    BY <1>5 DEF UpdateTerminal
  <2>2. FleetIsSound'
    BY <1>0, <2>1 DEF FleetIsSound
  <2> QED BY <1>1, <1>2, <2>1, <2>2 DEF MissionIInv
<1>6. ASSUME NEW intent \in Intents, NEW f \in Forecasts, CompileRelay(intent, f) PROVE MissionIInv'
  <2> DEFINE source == Resolve(intent.source)
             destination == Resolve(intent.destination)
             q == [source |-> source, destination |-> destination, topology |-> f,
                   max_latency |-> intent.max_latency]
  <2>1. /\ UNCHANGED constellationVars
        /\ UNCHANGED <<tasks, unsubmitted, task_queue, scheduled_tasks, resource_conflicts, refused>>
    BY <1>6 DEF CompileRelay
  <2>2. UNCHANGED routerVars \/ (Nothing \notin {source, destination} /\ ComputeRoute(q))
    BY <1>6 DEF CompileRelay
  <2>3. ASSUME Nothing \notin {source, destination}, ComputeRoute(q) PROVE RouterIInv'
    <3>1. source \in Craft /\ destination \in Craft
      BY <1>0, <2>3, MissionAssumption DEF Resolve, FleetIsSound
    <3>2. intent.max_latency \in Latencies \cup {Unbounded}
      BY <1>6, MissionAssumption DEF CompileRelay
    <3> HIDE DEF source, destination
    <3>3. q \in Queries
      BY <3>1, <3>2 DEF Queries
    <3> HIDE DEF q
    <3> QED BY <1>0, <2>3, <3>3, ComputeRouteKeeps
  <2> HIDE DEF q, source, destination
  <2> QED BY <1>1, <1>2, <1>3, <2>1, <2>2, <2>3 DEF MissionIInv
<1>7. ASSUME NEW intent \in Intents, NEW f \in Forecasts, CompileDirectly(intent, f) PROVE MissionIInv'
  <2>1. TaskIInv'
    BY <1>7, CompileDirectlyKeeps
  <2>2. UNCHANGED routerVars /\ UNCHANGED constellationVars
    BY <1>7 DEF CompileDirectly
  <2> QED BY <1>1, <1>3, <2>1, <2>2 DEF MissionIInv
<1>8. CASE SearchRoute
  <2>1. SearchNext /\ UNCHANGED constellationVars
        /\ UNCHANGED <<tasks, unsubmitted, task_queue, scheduled_tasks, resource_conflicts, refused>>
    BY <1>8 DEF SearchRoute
  <2>2. RouterIInv'
    BY <1>0, <2>1, SearchKeeps
  <2> QED BY <1>2, <1>3, <2>1, <2>2 DEF MissionIInv
<1>9. CASE CompileRoute
  <2>1. /\ answer' = Nothing /\ UNCHANGED <<route_cache, query, heap, visited>> /\ UNCHANGED constellationVars
        /\ UNCHANGED <<task_queue, resource_conflicts, refused>> /\ answer # Nothing
        /\ (answer.hops # Nothing /\ Deliver(RelayTasks(answer.hops))) \/ CompileFails
    BY <1>9 DEF CompileRoute
  <2>2. RouterIInv'
    BY <1>0, <2>1 DEF RouterIInv, AnswerIsSound
  <2>3. CASE CompileFails
    BY <1>2, <1>3, <2>1, <2>2, <2>3 DEF CompileFails, MissionIInv
  <2>4. CASE answer.hops # Nothing /\ Deliver(RelayTasks(answer.hops))
    <3>1. answer.hops \in Seq(Hop)
      BY <1>0, <2>1, <2>4 DEF RouterIInv, AnswerIsSound
    <3>2. Len(tasks) \in Nat
      BY <1>0 DEF TaskIInv
    <3>3. RelayTasks(answer.hops) \in Seq(PlannedTask)
      BY <3>1, <3>2, RelayIsPlanned
    <3>4. TaskIInv'
      BY <1>0, <2>1, <2>4, <3>3, DeliverKeeps
    <3> QED BY <1>3, <2>1, <2>2, <3>4 DEF MissionIInv
  <2> QED BY <2>1, <2>3, <2>4
<1>10. ASSUME NEW i \in unsubmitted, Enqueue(i) PROVE MissionIInv'
  <2>1. TaskIInv'
    BY <1>0, <1>10, EnqueueKeeps
  <2> QED BY <1>1, <1>3, <1>10, <2>1 DEF Enqueue, MissionIInv
<1>11. CASE Schedule
  BY <1>1, <1>2, <1>3, <1>11 DEF Schedule, MissionIInv
<1>12. CASE Requeue
  <2>1. TaskIInv'
    BY <1>0, <1>12, RequeueKeeps
  <2> QED BY <1>1, <1>3, <1>12, <2>1 DEF Requeue, MissionIInv
<1>13. CASE Place
  <2>1. TaskIInv'
    BY <1>0, <1>13, PlaceKeeps
  <2> QED BY <1>1, <1>3, <1>13, <2>1 DEF Place, MissionIInv
<1>14. CASE Refuse
  <2>1. TaskIInv'
    BY <1>0, <1>14, RefuseKeeps
  <2> QED BY <1>1, <1>3, <1>14, <2>1 DEF Refuse, MissionIInv
<1>15. CASE ScheduleDone
  BY <1>1, <1>2, <1>3, <1>15 DEF ScheduleDone, MissionIInv
<1>16. CASE UNCHANGED missionVars
  BY <1>1, <1>2, <1>3, <1>16 DEF missionVars, MissionIInv
<1> QED BY <1>4, <1>5, <1>6, <1>7, <1>8, <1>9, <1>10, <1>11, <1>12, <1>13, <1>14, <1>15, <1>16 DEF MissionNext

\* Whatever the forecasts and the costs of links, every route compute_route() returns
\* leads from its source to its destination; a search, and a hit for the query that
\* was searched, returns one that can be flown, cheapest among the walks without waits
\* by Dijkstra's argument over places at times (if no link costs less than nothing),
\* and finds none only where no such walk arrives.
THEOREM RoutesStayCheapest == MissionSpec => []RouteIsCheapest
<1>1. MissionIInv => RouteIsCheapest
  BY DEF MissionIInv, RouterIInv, AnswerIsSound, FoundRoute, RouteIsCheapest
<1> QED BY <1>1, InitMission, NextMission, PTL DEF MissionSpec

\* Whatever the intents, the forecasts and the order of the calls, the tasks of
\* missions are placed in their windows and after what they depend on, none is lost
\* between the caller, the queue, the timeline and the refusals, and contention for a
\* peer is recorded.
THEOREM MissionsStaySound == MissionSpec => []MissionsAreSound
<1>1. ASSUME MissionIInv PROVE MissionsAreSound
  <2>0. /\ TimelineKeepsOrder /\ ContentionIsRecorded /\ IsInjective(task_queue)
        /\ SharedOut(DOMAIN tasks, unsubmitted, Queued, Scheduled, refused)
    BY <1>1 DEF MissionIInv, TaskIInv, Queued
  <2>1. ASSUME NEW i \in DOMAIN tasks
        PROVE  Cardinality({k \in 1..4 : i \in <<unsubmitted, Queued, Scheduled, refused>>[k]}) = 1
    <3> DEFINE K == {k \in 1..4 : i \in <<unsubmitted, Queued, Scheduled, refused>>[k]}
    <3>1. \A k \in 1..4 : k = 1 \/ k = 2 \/ k = 3 \/ k = 4
      OBVIOUS
    <3>2. /\ i \in unsubmitted => i \notin Queued /\ i \notin Scheduled /\ i \notin refused
          /\ i \in Queued => i \notin Scheduled /\ i \notin refused
          /\ i \in Scheduled => i \notin refused
          /\ i \in unsubmitted \/ i \in Queued \/ i \in Scheduled \/ i \in refused
      BY <2>0 DEF SharedOut
    <3>3. \E k \in 1..4 : K = {k}
      <4>1. CASE i \in unsubmitted
        <5>1. K = {1}
          BY <3>1, <3>2, <4>1
        <5> QED BY <5>1
      <4>2. CASE i \in Queued
        <5>1. K = {2}
          BY <3>1, <3>2, <4>2
        <5> QED BY <5>1
      <4>3. CASE i \in Scheduled
        <5>1. K = {3}
          BY <3>1, <3>2, <4>3
        <5> QED BY <5>1
      <4>4. CASE i \in refused
        <5>1. K = {4}
          BY <3>1, <3>2, <4>4
        <5> QED BY <5>1
      <4> QED BY <3>2, <4>1, <4>2, <4>3, <4>4
    <3> HIDE DEF K
    <3>4. PICK k : K = {k}
      BY <3>3
    <3>5. Cardinality(K) = 1
      BY <3>4, FS_Singleton, Zenon
    <3> QED BY <3>5 DEF K
  <2>2. NoTaskIsLost
    BY <2>0, <2>1 DEF NoTaskIsLost
  <2> QED BY <2>0, <2>2 DEF MissionsAreSound
<1> QED BY <1>1, InitMission, NextMission, PTL DEF MissionSpec

-----------------------------------------------------------------------------
(* Types.                                                                    *)

\* The router answers one call at a time, and only the compiler calls it.
PlannerIInv ==
  /\ planner \in {"idle", "routing", "scheduling"}
  /\ planner # "routing" => query = Nothing /\ answer = Nothing
  /\ query = Nothing \/ answer = Nothing

LEMMA PlannerPreserves == PlannerIInv /\ [MissionNext]_missionVars => PlannerIInv'
<1> SUFFICES ASSUME PlannerIInv, [MissionNext]_missionVars PROVE PlannerIInv'
  OBVIOUS
<1> USE DEF PlannerIInv
<1>1. UNCHANGED <<planner, query, answer>> => PlannerIInv'
  OBVIOUS
<1>2. ASSUME NEW s \in Craft, UpdateSatellite(s) PROVE PlannerIInv'
  BY <1>1, <1>2 DEF UpdateSatellite, routerVars
<1>3. ASSUME NEW a \in TerminalAssets, UpdateTerminal(a) PROVE PlannerIInv'
  BY <1>1, <1>3 DEF UpdateTerminal, routerVars
<1>4. ASSUME NEW intent \in Intents, NEW f \in Forecasts, CompileRelay(intent, f) PROVE PlannerIInv'
  <2>1. CASE UNCHANGED <<routerVars, planner>>
    BY <1>1, <2>1 DEF routerVars
  <2>2. ASSUME NEW q, ComputeRoute(q), planner' = "routing" PROVE PlannerIInv'
    BY <2>2 DEF ComputeRoute
  <2> QED BY <1>4, <2>1, <2>2 DEF CompileRelay
<1>5. ASSUME NEW intent \in Intents, NEW f \in Forecasts, CompileDirectly(intent, f) PROVE PlannerIInv'
  BY <1>1, <1>5 DEF CompileDirectly, routerVars
<1>6. CASE SearchRoute
  <2>1. planner' = planner /\ planner = "routing" /\ SearchNext
    BY <1>6 DEF SearchRoute
  <2>2. ASSUME NEW state, Skip(state) \/ Explore(state) PROVE PlannerIInv'
    BY <1>1, <2>1, <2>2 DEF Skip, Explore
  <2>3. ASSUME NEW state, ReturnRoute(state) PROVE PlannerIInv'
    BY <2>1, <2>3 DEF ReturnRoute, Return
  <2>4. CASE ReturnNoRoute
    BY <2>1, <2>4 DEF ReturnNoRoute, Return
  <2> QED BY <2>1, <2>2, <2>3, <2>4 DEF SearchNext
<1>7. CASE CompileRoute
  BY <1>7 DEF CompileRoute
<1>8. ASSUME NEW i \in unsubmitted, Enqueue(i) PROVE PlannerIInv'
  BY <1>1, <1>8 DEF Enqueue, routerVars
<1>9. CASE Schedule
  BY <1>9 DEF Schedule, routerVars
<1>10. CASE Requeue \/ Place
  BY <1>1, <1>10 DEF Requeue, Place, routerVars
<1>11. CASE Refuse \/ ScheduleDone
  BY <1>11 DEF Refuse, ScheduleDone, routerVars
<1>12. CASE UNCHANGED missionVars
  BY <1>1, <1>12 DEF missionVars, routerVars
<1> QED BY <1>2, <1>3, <1>4, <1>5, <1>6, <1>7, <1>8, <1>9, <1>10, <1>11, <1>12 DEF MissionNext

LEMMA MissionIsTyped == MissionIInv /\ PlannerIInv => MissionTypeOK
<1> SUFFICES ASSUME MissionIInv, PlannerIInv PROVE MissionTypeOK
  OBVIOUS
<1>1. RouterIInv /\ TaskIInv /\ FleetIsSound
  BY DEF MissionIInv
<1>2. \A i \in DOMAIN tasks : tasks[i].kind \in DOMAIN TaskDuration
  <2>1. DOMAIN TaskDuration = {"link", "observation", "downlink"}
    BY DEF TaskDuration
  <2>2. \A i \in DOMAIN tasks : tasks[i] \in PlannedTask
    BY <1>1 DEF TaskIInv
  <2> QED BY <2>1, <2>2 DEF PlannedTask
<1>3. DOMAIN scheduled_tasks = DOMAIN tasks
  <2>1. /\ tasks \in Seq(PlannedTask) /\ scheduled_tasks \in Seq(TaskWindows \cup {Nothing})
        /\ Len(scheduled_tasks) = Len(tasks)
    BY <1>1 DEF TaskIInv
  <2>2. DOMAIN scheduled_tasks = 1..Len(scheduled_tasks) /\ DOMAIN tasks = 1..Len(tasks)
    BY <2>1
  <2> QED BY <2>1, <2>2
<1>4. unsubmitted \cup Queued \cup refused \subseteq DOMAIN tasks
  BY <1>1 DEF TaskIInv, SharedOut, Queued
<1>5. DOMAIN route_cache = Keys
  BY <1>1 DEF RouterIInv, CacheIsSound
<1> QED BY <1>1, <1>2, <1>3, <1>4, <1>5 DEF MissionTypeOK, FleetIsSound, PlannerIInv

\* Bindings, requests and peers are of known satellites, nodes and operators.
NodesIInv ==
  /\ DOMAIN satellite_bindings \subseteq Managed
  /\ requests \subseteq [id : Nat, satellite : Managed, source : Sites, target : Sites]
  /\ IsFiniteSet(requests)
  /\ \A o \in DOMAIN federation_peers : federation_peers[o] \in [trust : Trusts, allows : BOOLEAN]

LEMMA NodesPreserve ==
  ASSUME ControlNodesIInv, NodesIInv,
         [BindingNext \/ LinkNext \/ PlacementNext \/ AssignmentNext]_controlNodeVars
  PROVE  NodesIInv'
<1> USE DEF NodesIInv
<1>1. UNCHANGED <<satellite_bindings, requests, federation_peers>> => NodesIInv'
  OBVIOUS
<1>2. CASE BindingNext
  <2>0. UNCHANGED federation_peers
    BY <1>2 DEF BindingNext, linkVars
  <2>1. ASSUME NEW n \in Sites, AddControlNode(n) PROVE NodesIInv'
    BY <1>1, <2>0, <2>1 DEF AddControlNode
  <2>2. ASSUME NEW s \in Managed, NEW n \in Sites, BindSatellite(s, n) PROVE NodesIInv'
    <3>1. DOMAIN satellite_bindings' = DOMAIN satellite_bindings \cup {s} /\ requests' = requests
      BY <2>2 DEF BindSatellite, Insert
    <3> QED BY <2>0, <3>1
  <2>3. ASSUME NEW s \in Managed, NEW n \in Sites, RequestHandoff(s, n) PROVE NodesIInv'
    <3> DEFINE r == [id |-> Cardinality(requests), satellite |-> s, target |-> n,
                     source |-> satellite_bindings[s].node]
    <3>1. requests' = requests \cup {r} /\ DOMAIN satellite_bindings' = DOMAIN satellite_bindings
          /\ s \in DOMAIN satellite_bindings
      BY <2>3 DEF RequestHandoff
    <3>2. Cardinality(requests) \in Nat
      BY FS_CardinalityType
    <3>3. satellite_bindings[s].node \in Sites
      BY <3>1 DEF ControlNodesIInv, BindingIInv
    <3>4. r \in [id : Nat, satellite : Managed, source : Sites, target : Sites]
      BY <3>2, <3>3
    <3> HIDE DEF r
    <3>5. IsFiniteSet(requests \cup {r})
      BY FS_AddElement
    <3> QED BY <2>0, <3>1, <3>4, <3>5
  <2>4. ASSUME NEW r \in requests, FinishHandoff(r) PROVE NodesIInv'
    <3>1. DOMAIN satellite_bindings' = DOMAIN satellite_bindings /\ requests' = requests
      BY <2>4 DEF FinishHandoff
    <3> QED BY <2>0, <3>1
  <2> QED BY <1>2, <2>1, <2>2, <2>3, <2>4 DEF BindingNext
<1>3. CASE LinkNext
  <2>0. UNCHANGED <<satellite_bindings, requests>>
    BY <1>3 DEF LinkNext, bindingVars
  <2>1. ASSUME NEW o \in Operators, NEW trust \in Trusts, NEW allows \in BOOLEAN, AddPeer(o, trust, allows)
        PROVE  NodesIInv'
    <3> DEFINE p == [trust |-> trust, allows |-> allows]
    <3>1. federation_peers' = Insert(federation_peers, o, p) /\ p \in [trust : Trusts, allows : BOOLEAN]
      BY <2>1 DEF AddPeer
    <3> HIDE DEF p
    <3>2. \A k \in DOMAIN federation_peers' : federation_peers'[k] \in [trust : Trusts, allows : BOOLEAN]
      BY <3>1 DEF Insert
    <3> QED BY <2>0, <3>2
  <2>2. ASSUME NEW o \in Operators, EstablishLink(o) PROVE NodesIInv'
    BY <1>1, <2>0, <2>2 DEF EstablishLink
  <2>3. CASE PlaneTick
    BY <1>1, <2>0, <2>3 DEF PlaneTick
  <2> QED BY <1>3, <2>1, <2>2, <2>3 DEF LinkNext
<1>4. CASE PlacementNext
  BY <1>1, <1>4 DEF PlacementNext, bindingVars, linkVars
<1>5. CASE AssignmentNext
  BY <1>1, <1>5 DEF AssignmentNext, bindingVars, linkVars
<1>6. CASE UNCHANGED controlNodeVars
  BY <1>1, <1>6 DEF controlNodeVars, bindingVars, linkVars
<1> QED BY <1>2, <1>3, <1>4, <1>5, <1>6

LEMMA ControlNodesAreTyped == ControlNodesIInv /\ NodesIInv => ControlNodesTypeOK
<1> SUFFICES ASSUME ControlNodesIInv, NodesIInv PROVE ControlNodesTypeOK
  OBVIOUS
<1>0. BindingIInv /\ LinkIInv /\ PlacementIInv /\ AssignmentIInv
  BY DEF ControlNodesIInv
<1>1. control_nodes \subseteq Sites /\ \A s \in DOMAIN satellite_bindings : satellite_bindings[s] \in Bindings
  BY <1>0 DEF BindingIInv, BindingIsSound, Bindings, HandoverLists
<1>2. /\ \A o \in DOMAIN attestation_cache : attestation_cache[o] \in Nat
      /\ cross_operator_links \in Seq([peer : Operators, at : Nat])
      /\ plane_now \in Nat
  BY <1>0 DEF LinkIInv
<1>3. placement.selected \subseteq Sites /\ placement.remaining \subseteq Sites
  BY <1>0 DEF PlacementIInv, CallIsSound
<1>4. current_node \subseteq Sites /\ handoff_events \in Seq([from : Sites, to : Sites])
  BY <1>0 DEF AssignmentIInv, EventLists
<1>5. Cardinality(current_node) <= 1
  <2>1. \A m, n \in current_node : m = n
    BY <1>0 DEF AssignmentIInv
  <2> QED BY <2>1, AtMostOne
<1> QED BY <1>1, <1>2, <1>3, <1>4, <1>5 DEF ControlNodesTypeOK, NodesIInv

\* Whatever is asked of the allocator, the hand-offs, the planner, the control nodes
\* and the constellation, their state keeps its type: every record is of a satellite,
\* node, tenant or peer there is, every task is in one of the planner's books, and the
\* router is at work only while the compiler waits for it.
THEOREM SatellitesTypeCorrect ==
  Spec /\ HandoffSpec /\ MissionSpec /\ ControlNodesSpec /\ ConstellationSpec => []SatellitesTypeOK
<1>1. HandoffIInv => HandoffTypeOK
  BY DEF HandoffIInv, HandoffIsSound, Handoff, HandoffTypeOK
<1>2. HandoffSpec => []HandoffTypeOK
  BY <1>1, InitHandoff, NextHandoff, PTL DEF HandoffSpec
<1>3. MissionInit => PlannerIInv
  BY DEF MissionInit, RouterInit, PlannerIInv
<1>4. MissionSpec => []MissionTypeOK
  BY <1>3, InitMission, NextMission, PlannerPreserves, MissionIsTyped, PTL DEF MissionSpec
<1>5. ControlNodesInit => NodesIInv
  BY FS_EmptySet DEF ControlNodesInit, NodesIInv
<1>6. ControlNodesIInv /\ NodesIInv /\ [BindingNext \/ LinkNext \/ PlacementNext \/ AssignmentNext]_controlNodeVars
        => NodesIInv'
  BY NodesPreserve
<1>7. ControlNodesSpec => []ControlNodesTypeOK
  BY <1>5, <1>6, InitControlNodes, NextControlNodes, ControlNodesAreTyped, PTL DEF ControlNodesSpec
<1>8. ConstellationSpec => []ConstellationTypeOK
  BY ConstellationInitially, ConstellationPreserves, ConstellationIsTyped, PTL DEF ConstellationSpec
<1>9. TypeOK /\ HandoffTypeOK /\ MissionTypeOK /\ ControlNodesTypeOK /\ ConstellationTypeOK => SatellitesTypeOK
  BY DEF SatellitesTypeOK
<1> QED BY <1>2, <1>4, <1>7, <1>8, <1>9, TypeCorrect, PTL

=============================================================================
