------------------------ MODULE SpectrumCoordination ------------------------
(***************************************************************************)
(* Bilateral spectrum coordination between federated stations,             *)
(* federation/src/spectrum.rs: every station runs a SpectrumCoordinator.   *)
(* It sends a peer its schedule, the peer answers with the conflicts it    *)
(* sees, and each side keeps the last schedule the other has sent.         *)
(*                                                                         *)
(* How messages travel is not part of the repository.  The network here    *)
(* reorders them and may lose them; a response does not say which of two   *)
(* requests it answers, for receive_response() does not look.              *)
(***************************************************************************)
EXTENDS Integers, FiniteSets

CONSTANTS
  Stations,
  Schedules,    \* per station: the schedules it may come to have, sets of entries
  MaxMessages   \* bound on the messages on their way

Others(s) == Stations \ {s}

Pairs == {sp \in Stations \X Stations : sp[1] # sp[2]}

Entries == UNION UNION {Schedules[s] : s \in Stations}

\* A pass ends after it has begun: time_overlap() relies on it and does not look.
\* A coordinator begins with an empty schedule.
ASSUME SpectrumAssumption ==
  /\ Schedules \in [Stations -> SUBSET SUBSET [start : Int, end : Int, low : Int, high : Int]]
  /\ \A s \in Stations : {} \in Schedules[s]
  /\ \A entry \in Entries : entry.start < entry.end
  /\ MaxMessages \in Nat

VARIABLES
  our_schedule,      \* of each station
  peer_state,        \* registered pairs: <<s, p>> when s has a state for p
  their_schedule,    \* the schedule s keeps of p
  active_conflicts,  \* the conflicts p has reported to s
  trusted,           \* pairs <<s, p>> where p is a Trusted peer of s
  messages           \* requests and responses on their way

spectrumVars ==
  <<our_schedule, peer_state, their_schedule, active_conflicts, trusted, messages>>

SpectrumInit ==
  /\ our_schedule = [s \in Stations |-> {}]
  /\ peer_state = {}
  /\ their_schedule = [sp \in Pairs |-> {}]
  /\ active_conflicts = [sp \in Pairs |-> {}]
  /\ trusted = {}
  /\ messages = {}

-----------------------------------------------------------------------------
(* CoordinationBand, PassScheduleEntry *)

\* time_overlap(): half-open windows, so adjacent passes do not meet.
TimeOverlap(a, b) == a.start < b.end /\ b.start < a.end

FrequencyOverlapOfOurs(a, b) == a.low <= b.low /\ b.low < a.high

\* overlap_hz() is not zero: the lower of the upper ends is above the higher of
\* the lower ends, which no band without width is with any other.
FrequencyOverlap(a, b) == \A low \in {a.low, b.low}, high \in {a.high, b.high} : low < high

\* detect_conflicts(): pairs of our entry and theirs.
DetectConflicts(ours, theirs) ==
  {c \in ours \X theirs : TimeOverlap(c[1], c[2]) /\ FrequencyOverlap(c[1], c[2])}

\* check_our_schedule(), the part that is about one peer
CheckOurSchedule(s, p) == DetectConflicts(our_schedule[s], their_schedule[<<s, p>>])

-----------------------------------------------------------------------------
(* SpectrumCoordinator *)

\* Verifications make a peer trusted, and end that: see PeerTrust.
TrustChanges(s, p) ==
  /\ \/ trusted' = trusted \cup {<<s, p>>}
     \/ trusted' = trusted \ {<<s, p>>}
  /\ trusted' # trusted
  /\ UNCHANGED <<our_schedule, peer_state, their_schedule, active_conflicts, messages>>

\* register_peer(): a state that is there already is kept.
RegisterPeer(s, p) ==
  /\ <<s, p>> \in trusted
  /\ peer_state' = peer_state \cup {<<s, p>>}
  /\ UNCHANGED <<our_schedule, their_schedule, active_conflicts, trusted, messages>>

\* update_our_schedule()
UpdateOurSchedule(s, schedule) ==
  /\ our_schedule' = [our_schedule EXCEPT ![s] = schedule]
  /\ UNCHANGED <<peer_state, their_schedule, active_conflicts, trusted, messages>>

\* build_request(), and the request is sent.
BuildRequest(s, p) ==
  /\ <<s, p>> \in peer_state
  /\ Cardinality(messages) < MaxMessages
  /\ messages' = messages \cup
       {[type |-> "request", from |-> s, to |-> p, entries |-> our_schedule[s]]}
  /\ UNCHANGED <<our_schedule, peer_state, their_schedule, active_conflicts, trusted>>

Response(m, conflicts, accepted) ==
  [type |-> "response", from |-> m.to, to |-> m.from,
   conflicts |-> conflicts, accepted |-> accepted]

\* receive_request(): an untrusted peer is refused; the schedule of a trusted one
\* is kept if it is registered, and the conflicts go back to it either way.
ReceiveRequest(m) ==
  LET s == m.to
      p == m.from
      accepted == <<s, p>> \in trusted
      conflicts == IF accepted THEN DetectConflicts(our_schedule[s], m.entries) ELSE {}
  IN /\ their_schedule' = IF accepted /\ <<s, p>> \in peer_state
                          THEN [their_schedule EXCEPT ![<<s, p>>] = m.entries]
                          ELSE their_schedule
     /\ messages' = (messages \ {m}) \cup {Response(m, conflicts, accepted)}
     /\ UNCHANGED <<our_schedule, peer_state, active_conflicts, trusted>>

\* receive_response(): the conflicts of the response replace what is there, of a
\* refusal too.
ReceiveResponse(m) ==
  LET sp == <<m.to, m.from>> IN
  /\ active_conflicts' = IF sp \in peer_state
                         THEN [active_conflicts EXCEPT ![sp] = m.conflicts]
                         ELSE active_conflicts
  /\ messages' = messages \ {m}
  /\ UNCHANGED <<our_schedule, peer_state, their_schedule, trusted>>

\* A message is lost on the way.
Lose(m) ==
  /\ messages' = messages \ {m}
  /\ UNCHANGED <<our_schedule, peer_state, their_schedule, active_conflicts, trusted>>

SpectrumNext ==
  \/ \E s \in Stations : \E schedule \in Schedules[s] : UpdateOurSchedule(s, schedule)
  \/ \E sp \in Pairs : TrustChanges(sp[1], sp[2])
  \/ \E sp \in Pairs : RegisterPeer(sp[1], sp[2])
  \/ \E sp \in Pairs : BuildRequest(sp[1], sp[2])
  \/ \E m \in messages : m.type = "request" /\ ReceiveRequest(m)
  \/ \E m \in messages : m.type = "response" /\ ReceiveResponse(m)
  \/ \E m \in messages : Lose(m)

SpectrumSpec == SpectrumInit /\ [][SpectrumNext]_spectrumVars

-----------------------------------------------------------------------------
(* Properties *)

\* Every field of a coordinator and every message has its type.
SpectrumTypeOK ==
  /\ \A s \in Stations : our_schedule[s] \in Schedules[s]
  /\ peer_state \subseteq Pairs
  /\ \A sp \in Pairs : their_schedule[sp] \in Schedules[sp[2]]
  /\ \A sp \in Pairs : active_conflicts[sp] \subseteq Entries \X Entries
  /\ trusted \subseteq Pairs
  /\ \A m \in messages : <<m.from, m.to>> \in Pairs

\* When two stations hold each other's current schedules, each sees exactly the
\* conflicts the other sees: no pass is cleared on one side only.
BothSidesAgree ==
  \A s \in Stations : \A p \in Others(s) :
    their_schedule[<<s, p>>] = our_schedule[p] /\ their_schedule[<<p, s>>] = our_schedule[s]
    => CheckOurSchedule(p, s) = {<<c[2], c[1]>> : c \in CheckOurSchedule(s, p)}

\* The schedule of a peer is taken over only while the peer is trusted and
\* registered: a request that arrives after the trust was lost changes nothing.
OnlyTrustedSchedulesAreKept ==
  [][\A sp \in Pairs : their_schedule'[sp] # their_schedule[sp]
                       => sp \in trusted /\ sp \in peer_state]_spectrumVars

\* Every conflict a station is told of is a real one: its two entries do meet in
\* time and in frequency, the first is the peer's and the second its own.
ReportedConflictsAreReal ==
  \A sp \in Pairs : \A c \in active_conflicts[sp] :
    /\ \E schedule \in Schedules[sp[2]] : c[1] \in schedule
    /\ \E schedule \in Schedules[sp[1]] : c[2] \in schedule
    /\ \E t \in c[1].start..(c[1].end - 1) : t \in c[2].start..(c[2].end - 1)
    /\ \E f \in c[1].low..(c[1].high - 1) : f \in c[2].low..(c[2].high - 1)

\* Stations that know each other's schedules agree on the conflicts, report real
\* ones only, and take no schedule from a peer they do not trust.
CoordinationIsSound ==
  [](BothSidesAgree /\ ReportedConflictsAreReal) /\ OnlyTrustedSchedulesAreKept

==============================================================================
