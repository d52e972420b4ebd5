---------------------------- MODULE BoundedStores ----------------------------
(***************************************************************************)
(* The stores other components share: the caches of caching/src, the       *)
(* snapshotters of snapshotting/src and the batchers of batching/src, the  *)
(* last as the RF pipeline (rf-layer/src/pipeline.rs) and the refresh of   *)
(* orbital elements (tracking/src/tle.rs) drive them.  Each is owned and   *)
(* called by one task.                                                     *)
(*                                                                         *)
(* The time counts half seconds, so that what num_seconds() cuts off is    *)
(* seen.  A clock may read the same twice.  A satellite in the propagation *)
(* cache moves one unit of distance in a unit of time.                     *)
(***************************************************************************)
EXTENDS Integers, Sequences, FiniteSets, SequencesExt

CONSTANTS
  Entries,      \* keys of the caches
  max_size,     \* of LruCache
  ttl_seconds, MaxValue,
  Moments, interpolation_window, max_age,  \* of PropagationCache; seconds, max_age in units
  ImmutableFor, max_fragments, FragmentPasses,
  SnapshotLimit, MaxTaken,
  batch_size, MaxSymbols, MaxBurstSymbols,
  Birds, BatchSizes,
  MaxStoreTime

ASSUME StoresAssumption ==
  /\ {max_size, ttl_seconds, MaxValue, interpolation_window, max_age, ImmutableFor,
      max_fragments, SnapshotLimit, MaxTaken, MaxSymbols, MaxBurstSymbols, MaxStoreTime}
     \subseteq Nat
  /\ batch_size \in Nat \ {0} /\ Moments \subseteq Nat /\ BatchSizes \subseteq Nat
  /\ IsFiniteSet(Birds)

VARIABLES
  store_now,
  lru, last_use,          \* LruCache, and when each key that was put was used last
  timed, timed_answer,    \* TimeBasedCache, and what get() returned last
  orbit, state_answer,    \* PropagationCache, and what lookup_or_compute() returned last
  fragments, committed,   \* ScheduleFragmentCache, and when each list of passes came last
  schedules, demods, peers_taken,  \* the three snapshotters of a SnapshotManager
  taken,                  \* the snapshots taken so far
  pipeline, sample_buffer, pending_symbols, batches, decoded,
  refreshed               \* the last refresh of orbital elements

lruVars == <<lru, last_use>>
timedVars == <<timed, timed_answer>>
orbitVars == <<orbit, state_answer>>
fragmentVars == <<fragments, committed>>
snapshotVars == <<schedules, demods, peers_taken, taken>>
pipelineVars == <<pipeline, sample_buffer, pending_symbols, batches, decoded>>
storeVars == <<store_now, lruVars, timedVars, orbitVars, fragmentVars, snapshotVars, pipelineVars,
               refreshed>>

StoresInit ==
  /\ store_now = 0
  /\ lru = << >> /\ last_use = << >>
  /\ timed = << >> /\ timed_answer = {}
  /\ orbit = {} /\ state_answer = {}
  /\ fragments = {} /\ committed = << >>
  /\ schedules = <<>> /\ demods = <<>> /\ peers_taken = <<>> /\ taken = 0
  /\ pipeline = "stopped" /\ sample_buffer = <<>> /\ pending_symbols = <<>>
  /\ batches = <<>> /\ decoded = 0
  /\ refreshed = {}

StoreTimePasses == store_now < MaxStoreTime /\ store_now' = store_now + 1

With(f, key, value) == [k \in DOMAIN f \cup {key} |-> IF k = key THEN value ELSE f[k]]
Without(f, keys) == [k \in DOMAIN f \ keys |-> f[k]]

num_seconds(duration) == duration \div 2

-----------------------------------------------------------------------------
(* LruCache: an entry is the time of its last access.                      *)

Oldest(f) == {k \in DOMAIN f : \A j \in DOMAIN f : f[k] <= f[j]}

\* The latest access instead of the earliest.
EvictLatest(f) == {{k} : k \in {k \in DOMAIN f : \A j \in DOMAIN f : f[k] >= f[j]}}

\* evict_lru(): an entry of the earliest access, any of several.
EvictLru(f) == {{k} : k \in Oldest(f)}

GetEntry(k) ==
  /\ k \in DOMAIN lru
  /\ lru' = [lru EXCEPT ![k] = store_now]
  /\ last_use' = With(last_use, k, store_now)

\* put(): at capacity an entry goes first, also when the key is there already.
PutEntry(k) ==
  /\ \E evicted \in IF Cardinality(DOMAIN lru) >= max_size /\ lru # << >>
                      THEN EvictLru(lru) ELSE {{}} :
       lru' = With(Without(lru, evicted), k, store_now)
  /\ last_use' = With(last_use, k, store_now)

RemoveEntry(k) == lru' = Without(lru, {k}) /\ last_use' = Without(last_use, {k})

ClearEntries == lru' = << >> /\ last_use' = << >>

LruNext ==
  \/ /\ \/ \E k \in Entries : GetEntry(k) \/ PutEntry(k) \/ RemoveEntry(k)
        \/ ClearEntries
     /\ UNCHANGED store_now
  \/ StoreTimePasses /\ UNCHANGED lruVars

-----------------------------------------------------------------------------
(* TimeBasedCache.                                                         *)

Expired(entry) == num_seconds(store_now - entry.created_at) > ttl_seconds

PutTimed(k, value) ==
  /\ timed' = With(timed, k, [value |-> value, created_at |-> store_now])
  /\ timed_answer' = {}

\* get(): an expired entry is removed.
GetTimed(k) ==
  /\ k \in DOMAIN timed
  /\ timed' = IF Expired(timed[k]) THEN Without(timed, {k}) ELSE timed
  /\ timed_answer' = IF Expired(timed[k]) THEN {} ELSE {timed[k]}

RemoveExpired ==
  /\ timed' = Without(timed, {k \in DOMAIN timed : Expired(timed[k])})
  /\ timed_answer' = {}

TimedNext ==
  \/ /\ \/ \E k \in Entries : GetTimed(k) \/ \E value \in 1..MaxValue : PutTimed(k, value)
        \/ RemoveExpired
     /\ UNCHANGED store_now
  \/ StoreTimePasses /\ timed_answer' = {} /\ UNCHANGED timed

-----------------------------------------------------------------------------
(* PropagationCache: an entry is the time it is for, which is the position *)
(* then.                                                                   *)

\* A position numerator / denominator, or not a number when the denominator is 0.
At(numerator, denominator) == [numerator |-> numerator, denominator |-> denominator]

\* Without the window.
AnyDistance(t, time) == TRUE

\* Within the window, in whole seconds.
Near(t, time) == num_seconds(IF t < time THEN time - t ELSE t - time) <= interpolation_window

\* lookup_interpolatable(): nothing, the neighbour within the window when there is
\* one on one side only, or the linear interpolation between the two, by the
\* whole seconds.
LookupInterpolatable(cached, time) ==
  LET earlier == {t \in cached : t <= time}
      later == {t \in cached : t >= time}
  IN  IF earlier = {} /\ later = {} THEN {}
      ELSE IF later = {} THEN {At(t, 1) : t \in {t \in {Max(earlier)} : Near(t, time)}}
      ELSE IF earlier = {} THEN {At(t, 1) : t \in {t \in {Min(later)} : Near(t, time)}}
      ELSE LET before == Max(earlier)
               after == Min(later)
               total == num_seconds(after - before)
           IN  IF Near(before, time) /\ Near(after, time)
                 THEN {At(before * total + (after - before) * num_seconds(time - before), total)}
                 ELSE {}

\* lookup_or_compute(), with the cleanup it begins with.
LookupOrCompute(time) ==
  LET kept == {t \in orbit : store_now - t < max_age}
      found == LookupInterpolatable(kept, time)
  IN  /\ orbit' = IF found # {} THEN kept ELSE kept \cup {time}
      /\ state_answer' = {[time |-> time, position |-> IF found # {} THEN found ELSE {At(time, 1)}]}

InvalidateAll == orbit' = {} /\ state_answer' = {}

OrbitNext ==
  \/ ((\E time \in Moments : LookupOrCompute(time)) \/ InvalidateAll) /\ UNCHANGED store_now
  \/ StoreTimePasses /\ state_answer' = {} /\ UNCHANGED orbit

-----------------------------------------------------------------------------
(* ScheduleFragmentCache: a fragment is known by its passes.               *)

IsImmutable(f) == store_now < f.immutable_until

AddFragmentEvictsFirst(passes) ==
  LET others == {f \in fragments : f.passes # passes}
      fresh == [passes |-> passes, committed_at |-> store_now,
                immutable_until |-> store_now + ImmutableFor]
  IN  \E kept \in SUBSET others :
        /\ Cardinality(kept) = Min({Cardinality(others), max_fragments})
        /\ \A f \in kept, g \in others \ kept : g.committed_at <= f.committed_at
        /\ fragments' = kept \cup {fresh}
        /\ committed' = With(committed, passes, store_now)

\* add_fragment(): one of the same passes is replaced, and the oldest ones go.
AddFragment(passes) ==
  LET fresh == [passes |-> passes, committed_at |-> store_now,
                immutable_until |-> store_now + ImmutableFor]
      all == {f \in fragments : f.passes # passes} \cup {fresh}
  IN  \E kept \in SUBSET all :
        /\ Cardinality(kept) = Min({Cardinality(all), max_fragments})
        /\ \A f \in kept, g \in all \ kept : g.committed_at <= f.committed_at
        /\ fragments' = kept
        /\ committed' = With(committed, passes, store_now)

InvalidateExpired ==
  fragments' = {f \in fragments : IsImmutable(f)} /\ UNCHANGED committed

FragmentNext ==
  \/ ((\E passes \in FragmentPasses : AddFragment(passes)) \/ InvalidateExpired) /\ UNCHANGED store_now
  \/ StoreTimePasses /\ UNCHANGED fragmentVars

-----------------------------------------------------------------------------
(* Snapshotters: a snapshot is the number it was taken as.                 *)

Take == taken < MaxTaken /\ taken' = taken + 1

\* ScheduleSnapshotter::snapshot(): the oldest go.
SnapshotSchedule ==
  /\ Take
  /\ LET all == Append(schedules, taken) IN
     schedules' = SubSeq(all, 1 + Max({0, Len(all) - SnapshotLimit}), Len(all))
  /\ UNCHANGED <<demods, peers_taken>>

SnapshotDemodulator(pass) ==
  /\ Take
  /\ demods' = Append(demods, [pass |-> pass, taken |-> taken])
  /\ UNCHANGED <<schedules, peers_taken>>

\* retain(): the elements of s that are in T, in their order.
Keep(s, T) == FoldLeft(LAMBDA kept, x : IF x \in T THEN Append(kept, x) ELSE kept, <<>>, s)

RemovePass(pass) ==
  /\ demods' = Keep(demods, {s \in ToSet(demods) : s.pass # pass})
  /\ UNCHANGED <<schedules, peers_taken, taken>>

\* FederationSnapshotter::snapshot(): the version is the number kept, and none
\* is ever dropped.
SnapshotFederation ==
  /\ Take
  /\ peers_taken' = Append(peers_taken, [version |-> Len(peers_taken), taken |-> taken])
  /\ UNCHANGED <<schedules, demods>>

\* get_for_pass(): the first one found.
GetForPass(pass) ==
  LET found == {i \in DOMAIN demods : demods[i].pass = pass}
  IN  {demods[i] : i \in {i \in found : \A j \in found : i <= j}}

SnapshotNext ==
  \/ SnapshotSchedule
  \/ SnapshotFederation
  \/ \E pass \in Entries : SnapshotDemodulator(pass) \/ RemovePass(pass)

-----------------------------------------------------------------------------
(* The RF pipeline and its batcher; symbols are numbered as decoded.       *)

StartPipeline ==
  /\ pipeline = "stopped" /\ pipeline' = "running"
  /\ UNCHANGED <<sample_buffer, pending_symbols, batches, decoded>>

\* read_samples(): what the samples will decode to; none, and the loop sleeps.
ReadSamples ==
  /\ pipeline = "running" /\ sample_buffer = <<>>
  /\ \E n \in 0..MaxBurstSymbols :
       decoded + n <= MaxSymbols /\ sample_buffer' = [i \in 1..n |-> decoded + i]
  /\ UNCHANGED <<pipeline, pending_symbols, batches, decoded>>

\* flush()
Flushed(symbols, done) ==
  IF symbols = <<>> THEN done
  ELSE Append(done, [symbols |-> symbols, sequence |-> Len(done)])

\* A symbol is decoded and added, and a full batch flushed.
ProcessSample ==
  /\ pipeline = "running" /\ sample_buffer # <<>>
  /\ decoded' = decoded + 1
  /\ sample_buffer' = Tail(sample_buffer)
  /\ LET symbols == Append(pending_symbols, decoded + 1) IN
     IF Len(symbols) >= batch_size
       THEN pending_symbols' = <<>> /\ batches' = Flushed(symbols, batches)
       ELSE pending_symbols' = symbols /\ UNCHANGED batches
  /\ UNCHANGED pipeline

\* start() returns an error of the device, or is cancelled where it awaits the
\* demodulator: the rest of the buffer is dropped, and nothing is flushed.
\* (stop() needs the pipeline that start() borrows until it returns.)
PipelineEnds ==
  /\ pipeline = "running" /\ pipeline' = "stopped"
  /\ sample_buffer' = <<>>
  /\ UNCHANGED <<pending_symbols, batches, decoded>>

\* flush() of an owner between two calls of start().
ForceFlush ==
  /\ pipeline = "stopped"
  /\ batches' = Flushed(pending_symbols, batches) /\ pending_symbols' = <<>>
  /\ UNCHANGED <<pipeline, sample_buffer, decoded>>

PipelineNext == StartPipeline \/ ReadSamples \/ ProcessSample \/ PipelineEnds \/ ForceFlush

-----------------------------------------------------------------------------
(* batch_refresh() of orbital elements: TRUE is a new set of elements.     *)

\* One satellite: fetched or not, added, and a full batch applied.
RefreshOne(acc, bird, answers, size) ==
  LET pending == IF bird \in answers THEN acc.pending \cup {bird} ELSE acc.pending IN
  IF bird \in answers /\ Cardinality(pending) >= size
    THEN [pending |-> {}, tles |-> [b \in Birds |-> acc.tles[b] \/ b \in pending]]
    ELSE [acc EXCEPT !.pending = pending]

BatchRefresh(order, answers, size) ==
  LET done == FoldLeft(LAMBDA acc, bird : RefreshOne(acc, bird, answers, size),
                       [pending |-> {}, tles |-> [b \in Birds |-> FALSE]], order)
  IN  [b \in Birds |-> done.tles[b] \/ b \in done.pending]

RefreshNext ==
  \E order \in SetToSeqs(Birds), answers \in SUBSET Birds, size \in BatchSizes :
    refreshed' = {[answers |-> answers, tles |-> BatchRefresh(order, answers, size)]}

-----------------------------------------------------------------------------
\* The stores together, on one clock.
StoresSpec ==
  /\ StoresInit
  /\ [][LruNext]_<<store_now, lruVars>>
  /\ [][TimedNext]_<<store_now, timedVars>>
  /\ [][OrbitNext]_<<store_now, orbitVars>>
  /\ [][FragmentNext]_<<store_now, fragmentVars>>
  /\ [][SnapshotNext]_snapshotVars
  /\ [][PipelineNext]_pipelineVars
  /\ [][RefreshNext]_refreshed

-----------------------------------------------------------------------------
(* Properties.                                                             *)

\* The stores have their types.
StoresTypeOK ==
  /\ DOMAIN lru \subseteq Entries /\ DOMAIN timed \subseteq Entries /\ orbit \subseteq Moments
  /\ Cardinality(DOMAIN lru) <= Max({max_size, 1})
  /\ Cardinality(fragments) <= max_fragments /\ Len(schedules) <= SnapshotLimit
  /\ pipeline \in {"stopped", "running"} /\ decoded \in 0..MaxSymbols

\* Whatever the order of calls, an entry is evicted only when none that is left
\* was used before it.
RecentEntriesStay ==
  \A k \in DOMAIN last_use \ DOMAIN lru : \A j \in DOMAIN lru : last_use[k] <= last_use[j]

\* A timed entry is served for less than a second more than its time to live.
TimedIsFresh ==
  \A a \in timed_answer : store_now - a.created_at < 2 * (ttl_seconds + 1)

\* A state is served from the cache only when an entry lies within the window of
\* its time, and by no entry past its age: right after a lookup there is one near
\* the time asked for, and all others are young enough.  How close the
\* interpolated state is to the true one is not claimed.
StatesAreCovered ==
  \A a \in state_answer :
    /\ \E t \in orbit : num_seconds(IF t < a.time THEN a.time - t ELSE t - a.time) <= interpolation_window
    /\ \A t \in orbit \ {a.time} : store_now - t < max_age

\* A list of passes that is still immutable is missing only when the fragments that
\* are there came no earlier.
FragmentsStay ==
  \A passes \in DOMAIN committed :
    \/ \E f \in fragments : f.passes = passes /\ f.committed_at = committed[passes]
    \/ store_now >= committed[passes] + ImmutableFor
    \/ \A f \in fragments : committed[passes] <= f.committed_at

\* Snapshots are kept in the order they were taken, no version is given twice, and
\* a pass is restored from its earliest one.
SnapshotsAreOrdered ==
  /\ \A i, j \in DOMAIN schedules : i < j => schedules[i] < schedules[j]
  /\ \A i, j \in DOMAIN peers_taken :
       i < j => peers_taken[i].version < peers_taken[j].version
                /\ peers_taken[i].taken < peers_taken[j].taken
  /\ \A pass \in Entries : \A s \in GetForPass(pass), i \in DOMAIN demods :
       demods[i].pass = pass => s.taken <= demods[i].taken

\* The symbols of the batches, one batch after the other.
Joined(done) == FoldLeft(LAMBDA all, b : all \o b.symbols, <<>>, done)

\* Every symbol decoded is in one batch or pending, once and in order, through
\* failures and restarts of the pipeline, and batches are numbered without a gap.
SymbolsAreKept ==
  /\ Joined(batches) \o pending_symbols = [i \in 1..decoded |-> i]
  /\ \A i \in DOMAIN batches : batches[i].sequence = i - 1 /\ Len(batches[i].symbols) <= batch_size

\* No elements that were fetched are lost in the batches: for every size of a batch
\* and every order, a satellite that answered has new elements.  Of those that
\* did not answer nothing is claimed.
NothingFetchedIsLost == \A r \in refreshed : \A b \in r.answers : r.tles[b]

\* The stores keep what they should and give what they hold.
StoresAreSound ==
  RecentEntriesStay /\ TimedIsFresh /\ StatesAreCovered /\ FragmentsStay
  /\ SnapshotsAreOrdered /\ SymbolsAreKept /\ NothingFetchedIsLost

=============================================================================
