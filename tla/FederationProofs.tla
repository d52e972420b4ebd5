-------------------------- MODULE FederationProofs --------------------------
(***************************************************************************)
(* What a federated station keeps, for every number of entries, passes,    *)
(* peers, stations and licences: the hash-chained log with its snapshots,  *)
(* the provenance chains, the trust in a peer, the spectrum coordination   *)
(* and the licences.                                                       *)
(***************************************************************************)
EXTENDS MCFederation, ProofLemmas

-----------------------------------------------------------------------------
(* The log and its snapshots.                                                *)

\* No two entries have one hash.
HashesDiffer == \A i, j \in DOMAIN log : log[i].hash = log[j].hash => i = j

\* A snapshot is a state its pass went through.
SnapshotsArePrefixes ==
  \A i \in DOMAIN snapshots : IsPrefix(snapshots[i].entries, pass_entries[snapshots[i].pass])

\* The inductive invariant.  That snapshots extend each other is inductive only
\* with what relates each of them to the pass as it is now, and the index of the
\* passes only with the hashes being different.
LogIInv ==
  /\ LogTypeOK
  /\ snapshots \in Seq([pass : Passes, entries : Seq(Hashes)])
  /\ NoForkNoGap
  /\ HashesDiffer
  /\ PassIndexIsComplete
  /\ SnapshotsArePrefixes
  /\ SnapshotsExtendEachOther

LEMMA InitLog == LogInit => LogIInv
BY LogAssumption
   DEF LogInit, LogIInv, LogTypeOK, NoForkNoGap, HashesDiffer, PassIndexIsComplete,
       SnapshotsArePrefixes, SnapshotsExtendEachOther

\* The prefixes of a sequence that is extended.
LEMMA PrefixOfAppend ==
  ASSUME NEW S, NEW s \in Seq(S), NEW t \in Seq(S), NEW e \in S, IsPrefix(s, t)
  PROVE  IsPrefix(s, Append(t, e))
<1>1. Append(t, e) \in Seq(S) /\ Len(Append(t, e)) = Len(t) + 1 /\ Len(s) \in Nat /\ Len(t) \in Nat
  OBVIOUS
<1>2. \A i \in 1..Len(t) : Append(t, e)[i] = t[i]
  OBVIOUS
<1>3. SubSeq(Append(t, e), 1, Len(s)) = SubSeq(t, 1, Len(s))
  BY <1>1, <1>2 DEF IsPrefix
<1> QED BY <1>1, <1>3 DEF IsPrefix

LEMMA PrefixOfItself ==
  ASSUME NEW S, NEW s \in Seq(S)
  PROVE  IsPrefix(s, s)
BY DEF IsPrefix

\* A snapshot is of a pass and has its entries.
LEMMA SnapshotFields ==
  ASSUME NEW s \in Seq([pass : Passes, entries : Seq(Hashes)]), NEW i \in DOMAIN s
  PROVE  s[i].pass \in Passes /\ s[i].entries \in Seq(Hashes)
<1> DEFINE Snapshots == [pass : Passes, entries : Seq(Hashes)]
<1>1. s \in Seq(Snapshots)
  OBVIOUS
<1> HIDE DEF Snapshots
<1>2. s[i] \in Snapshots
  BY <1>1
<1> QED BY <1>2 DEF Snapshots

\* append() preserves it.
LEMMA AppendEntryPreserves ==
  ASSUME LogIInv, NEW e \in LogEntry, AppendEntry(e)
  PROVE  LogIInv'
<1> USE DEF LogIInv
<1>1. /\ e.hash \in Hashes /\ e.pass \in Passes /\ e.previous \in Hashes \cup {NoHash}
      /\ log \in Seq(LogEntry) /\ Len(log) \in Nat
      /\ pass_entries \in [Passes -> Seq(Hashes)]
  BY DEF LogEntry, LogTypeOK
<1>2. /\ log' = Append(log, e) /\ log' \in Seq(LogEntry)
      /\ Len(log') = Len(log) + 1
      /\ log'[Len(log) + 1] = e
      /\ \A i \in DOMAIN log : log'[i] = log[i]
      /\ DOMAIN log = 1..Len(log) /\ DOMAIN log' = 1..(Len(log) + 1)
  BY <1>1 DEF AppendEntry
<1>3. \A p \in Passes :
        pass_entries'[p] = IF p = e.pass THEN Append(pass_entries[p], e.hash) ELSE pass_entries[p]
  BY <1>1 DEF AppendEntry
<1>4. LogTypeOK' /\ snapshots' \in Seq([pass : Passes, entries : Seq(Hashes)])
  BY <1>1, <1>2 DEF LogTypeOK, AppendEntry
<1>5. NoForkNoGap'
  <2>1. latest_hash' = log'[Len(log')].hash /\ log' # <<>>
    <3>1. latest_hash' = e.hash
      BY DEF AppendEntry
    <3>2. log'[Len(log')] = e
      BY <1>2, Zenon
    <3>3. log' # <<>>
      <4>1. Len(log) + 1 # 0
        BY <1>1
      <4>2. Len(<<>>) = 0
        OBVIOUS
      <4> QED BY <1>2, <4>1, <4>2, Zenon
    <3> QED BY <3>1, <3>2, <3>3
  <2>2. ASSUME NEW i \in 2..Len(log') PROVE log'[i].previous = log'[i - 1].hash
    <3>1. CASE i \in 2..Len(log)
      BY <1>2, <3>1 DEF NoForkNoGap
    <3>2. CASE i = Len(log) + 1
      <4>1. Len(log) \in DOMAIN log /\ log # <<>> /\ log[Len(log)] \in LogEntry
        BY <1>1, <1>2, <3>2
      <4>2. latest_hash = log[Len(log)].hash /\ latest_hash # NoHash
        BY <4>1, LogAssumption DEF NoForkNoGap, LogEntry
      <4>3. e.previous = latest_hash
        BY <4>2 DEF AppendEntry, Appends
      <4> QED BY <1>1, <1>2, <3>2, <4>1, <4>2, <4>3
    <3>3. i \in 2..Len(log) \/ i = Len(log) + 1
      BY <1>1, <1>2
    <3> QED BY <3>1, <3>2, <3>3
  <2> QED BY <2>1, <2>2 DEF NoForkNoGap
<1>6. HashesDiffer'
  BY <1>1, <1>2 DEF HashesDiffer, AppendEntry, Fresh
<1>7. PassIndexIsComplete'
  <2> SUFFICES ASSUME NEW p \in Passes
               PROVE  /\ {pass_entries'[p][k] : k \in DOMAIN pass_entries'[p]}
                           = {log'[i].hash : i \in {i \in DOMAIN log' : log'[i].pass = p}}
                      /\ \A k, l \in DOMAIN pass_entries'[p] : \A i, j \in DOMAIN log' :
                           pass_entries'[p][k] = log'[i].hash /\ pass_entries'[p][l] = log'[j].hash
                           => (k < l <=> i < j)
    BY DEF PassIndexIsComplete
  <2> DEFINE index == pass_entries[p]
             at == Len(log) + 1
             last == Len(index) + 1
  <2>1. index \in Seq(Hashes) /\ Len(index) \in Nat /\ DOMAIN index = 1..Len(index)
    BY <1>1
  <2>2. /\ {index[k] : k \in DOMAIN index} = {log[i].hash : i \in {i \in DOMAIN log : log[i].pass = p}}
        /\ \A k, l \in DOMAIN index : \A i, j \in DOMAIN log :
             index[k] = log[i].hash /\ index[l] = log[j].hash => (k < l <=> i < j)
    BY DEF PassIndexIsComplete
  <2>3. \A i \in DOMAIN log : log[i].hash # e.hash
    BY DEF AppendEntry, Fresh
  <2>4. \A k \in DOMAIN index : index[k] # e.hash
    BY <2>2, <2>3
  <2>5. DOMAIN log' = DOMAIN log \cup {at} /\ at \notin DOMAIN log
    BY <1>1, <1>2
  <2>6. CASE p # e.pass
    <3>1. pass_entries'[p] = index
      BY <1>3, <2>6
    <3>2. \A i \in DOMAIN log' : log'[i].pass = p => i \in DOMAIN log /\ log[i].pass = p
      BY <1>2, <2>5, <2>6
    <3>3. {log'[i].hash : i \in {i \in DOMAIN log' : log'[i].pass = p}}
            = {log[i].hash : i \in {i \in DOMAIN log : log[i].pass = p}}
      BY <1>2, <2>5, <3>2
    <3>4. ASSUME NEW k \in DOMAIN index, NEW i \in DOMAIN log', index[k] = log'[i].hash
          PROVE  i \in DOMAIN log /\ log'[i] = log[i]
      BY <1>2, <2>4, <2>5, <3>4
    <3>5. ASSUME NEW k \in DOMAIN index, NEW l \in DOMAIN index,
                 NEW i \in DOMAIN log', NEW j \in DOMAIN log',
                 index[k] = log'[i].hash, index[l] = log'[j].hash
          PROVE  k < l <=> i < j
      BY <2>2, <3>4, <3>5
    <3> HIDE DEF index
    <3> QED BY <2>2, <3>1, <3>3, <3>5
  <2>7. CASE p = e.pass
    <3>0. pass_entries'[p] = Append(index, e.hash)
      BY <1>3, <2>7
    <3>1. /\ DOMAIN pass_entries'[p] = DOMAIN index \cup {last}
          /\ \A k \in DOMAIN index : pass_entries'[p][k] = index[k]
          /\ pass_entries'[p][last] = e.hash
      <4> HIDE DEF index
      <4>1. Append(index, e.hash) \in Seq(Hashes) /\ Len(Append(index, e.hash)) = last
        BY <1>1, <2>1
      <4>2. \A k \in 1..Len(index) : Append(index, e.hash)[k] = index[k]
        BY <1>1, <2>1
      <4>3. DOMAIN Append(index, e.hash) = 1..last /\ 1..last = 1..Len(index) \cup {last}
        BY <1>1, <2>1, <4>1
      <4>4. Append(index, e.hash)[last] = e.hash
        BY <1>1, <2>1
      <4> QED BY <2>1, <3>0, <4>2, <4>3, <4>4
    <3>2. {pass_entries'[p][k] : k \in DOMAIN pass_entries'[p]} = {index[k] : k \in DOMAIN index} \cup {e.hash}
      BY <3>1
    <3>3. {log'[i].hash : i \in {i \in DOMAIN log' : log'[i].pass = p}}
            = {log[i].hash : i \in {i \in DOMAIN log : log[i].pass = p}} \cup {e.hash}
      BY <1>2, <2>5, <2>7
    <3>4. ASSUME NEW k \in DOMAIN pass_entries'[p], NEW i \in DOMAIN log',
                 pass_entries'[p][k] = log'[i].hash
          PROVE  \/ k \in DOMAIN index /\ i \in DOMAIN log /\ index[k] = log[i].hash
                 \/ k = last /\ i = at
      BY <1>2, <2>3, <2>4, <2>5, <3>1, <3>4
    <3>5. \A k \in DOMAIN index : k \in Nat /\ k < last
      BY <2>1
    <3>6. \A i \in DOMAIN log : i \in Nat /\ i < at
      BY <1>1, <1>2
    <3>7. ASSUME NEW k \in DOMAIN pass_entries'[p], NEW l \in DOMAIN pass_entries'[p],
                 NEW i \in DOMAIN log', NEW j \in DOMAIN log',
                 pass_entries'[p][k] = log'[i].hash, pass_entries'[p][l] = log'[j].hash
          PROVE  k < l <=> i < j
      <4>1. \/ k \in DOMAIN index /\ i \in DOMAIN log /\ index[k] = log[i].hash
            \/ k = last /\ i = at
        BY <3>4, <3>7
      <4>2. \/ l \in DOMAIN index /\ j \in DOMAIN log /\ index[l] = log[j].hash
            \/ l = last /\ j = at
        BY <3>4, <3>7
      <4>3. at \in Nat /\ last \in Nat
        BY <1>1, <2>1
      <4> HIDE DEF at, last, index
      <4> QED BY <2>2, <3>5, <3>6, <4>1, <4>2, <4>3
    <3> QED BY <2>2, <3>2, <3>3, <3>7
  <2> QED BY <2>6, <2>7
<1>8. SnapshotsArePrefixes'
  <2> SUFFICES ASSUME NEW i \in DOMAIN snapshots
               PROVE  IsPrefix(snapshots[i].entries, pass_entries'[snapshots[i].pass])
    BY DEF SnapshotsArePrefixes, AppendEntry
  <2>1. snapshots[i].pass \in Passes /\ snapshots[i].entries \in Seq(Hashes)
    BY SnapshotFields
  <2>2. IsPrefix(snapshots[i].entries, pass_entries[snapshots[i].pass])
    BY DEF SnapshotsArePrefixes
  <2>3. CASE snapshots[i].pass = e.pass
    <3>1. pass_entries'[snapshots[i].pass] = Append(pass_entries[snapshots[i].pass], e.hash)
      BY <1>3, <2>1, <2>3
    <3>2. pass_entries[snapshots[i].pass] \in Seq(Hashes)
      BY <1>1, <2>1
    <3> QED BY <1>1, <2>1, <2>2, <3>1, <3>2, PrefixOfAppend
  <2>4. CASE snapshots[i].pass # e.pass
    BY <1>3, <2>1, <2>2, <2>4
  <2> QED BY <2>3, <2>4
<1>9. SnapshotsExtendEachOther'
  BY DEF SnapshotsExtendEachOther, AppendEntry
<1> QED BY <1>4, <1>5, <1>6, <1>7, <1>8, <1>9

\* The snapshots from the m-th on are what the manager keeps of a sequence of
\* snapshots when it evicts or prunes.
KeptFrom(s, m, t) ==
  /\ t \in Seq([pass : Passes, entries : Seq(Hashes)])
  /\ Len(t) = Len(s) - m
  /\ \A i \in DOMAIN t : t[i] = s[i + m]

\* Snapshots of which each is a prefix of its pass and of the later ones of the
\* pass are so from any of them on.
LEMMA KeptSnapshots ==
  ASSUME NEW s \in Seq([pass : Passes, entries : Seq(Hashes)]), NEW m \in 0..Len(s), NEW t,
         KeptFrom(s, m, t),
         NEW index,
         \A i \in DOMAIN s : IsPrefix(s[i].entries, index[s[i].pass]),
         \A i, j \in DOMAIN s : i < j /\ s[i].pass = s[j].pass => IsPrefix(s[i].entries, s[j].entries)
  PROVE  /\ \A i \in DOMAIN t : IsPrefix(t[i].entries, index[t[i].pass])
         /\ \A i, j \in DOMAIN t : i < j /\ t[i].pass = t[j].pass => IsPrefix(t[i].entries, t[j].entries)
<1>1. Len(s) \in Nat /\ DOMAIN s = 1..Len(s) /\ DOMAIN t = 1..(Len(s) - m)
  BY DEF KeptFrom
<1>2. \A i \in 1..(Len(s) - m) : i \in Nat /\ i + m \in 1..Len(s)
  BY <1>1
<1>3. \A i \in DOMAIN t : t[i] = s[i + m]
  BY DEF KeptFrom
<1>4. \A i \in DOMAIN t : i \in Nat /\ i + m \in DOMAIN s /\ t[i] = s[i + m]
  BY <1>1, <1>2, <1>3
<1>5. \A i, j \in DOMAIN t : i < j => i + m < j + m
  BY <1>4
<1> QED BY <1>4, <1>5

\* What changes neither the log nor its index leaves their part alone.
LEMMA LogStays ==
  ASSUME LogIInv, UNCHANGED <<log, pass_entries, latest_hash>>, Len(snapshots') <= max_snapshots
  PROVE  LogTypeOK' /\ NoForkNoGap' /\ HashesDiffer' /\ PassIndexIsComplete'
<1>1. LogTypeOK'
  BY DEF LogIInv, LogTypeOK
<1>2. NoForkNoGap'
  BY DEF LogIInv, NoForkNoGap
<1>3. HashesDiffer'
  BY DEF LogIInv, HashesDiffer
<1>4. PassIndexIsComplete'
  <2>1. log' = log /\ pass_entries' = pass_entries /\ PassIndexIsComplete
    BY DEF LogIInv
  <2> SUFFICES ASSUME NEW p \in Passes
               PROVE  /\ {pass_entries[p][k] : k \in DOMAIN pass_entries[p]}
                           = {log[i].hash : i \in {i \in DOMAIN log : log[i].pass = p}}
                      /\ \A k, l \in DOMAIN pass_entries[p] : \A i, j \in DOMAIN log :
                           pass_entries[p][k] = log[i].hash /\ pass_entries[p][l] = log[j].hash
                           => (k < l <=> i < j)
    BY <2>1 DEF PassIndexIsComplete
  <2> QED BY <2>1 DEF PassIndexIsComplete
<1> QED BY <1>1, <1>2, <1>3, <1>4

\* snapshot_if_needed() preserves the invariant: the new snapshot is the pass as it
\* is, of which every earlier one is a prefix.
LEMMA SnapshotPreserves ==
  ASSUME LogIInv, NEW p \in Passes, SnapshotIfNeeded(p)
  PROVE  LogIInv'
<1> DEFINE Snapshots == [pass : Passes, entries : Seq(Hashes)]
           new == [pass |-> p, entries |-> pass_entries[p]]
           all == Append(snapshots, new)
<1>1. /\ pass_entries \in [Passes -> Seq(Hashes)]
      /\ snapshots \in Seq(Snapshots) /\ Len(snapshots) \in Nat /\ Len(snapshots) <= max_snapshots
      /\ SnapshotsArePrefixes /\ SnapshotsExtendEachOther
  BY DEF LogIInv, LogTypeOK
<1>2. new \in Snapshots /\ new.pass = p /\ new.entries = pass_entries[p]
  BY <1>1
<1> HIDE DEF new, Snapshots
<1>3. /\ all \in Seq(Snapshots) /\ Len(all) = Len(snapshots) + 1
      /\ DOMAIN all = 1..(Len(snapshots) + 1) /\ DOMAIN snapshots = 1..Len(snapshots)
      /\ \A i \in DOMAIN snapshots : all[i] = snapshots[i]
      /\ all[Len(snapshots) + 1] = new
  BY <1>1, <1>2
<1> HIDE DEF all
<1>4. \A i \in DOMAIN all : IsPrefix(all[i].entries, pass_entries[all[i].pass])
  <2>1. IsPrefix(new.entries, pass_entries[new.pass])
    BY <1>1, <1>2, PrefixOfItself
  <2> SUFFICES ASSUME NEW i \in DOMAIN all PROVE IsPrefix(all[i].entries, pass_entries[all[i].pass])
    OBVIOUS
  <2>2. i \in DOMAIN snapshots \/ i = Len(snapshots) + 1
    BY <1>1, <1>3
  <2> QED BY <1>1, <1>3, <2>1, <2>2, Zenon DEF SnapshotsArePrefixes
<1>5. \A i, j \in DOMAIN all :
        i < j /\ all[i].pass = all[j].pass => IsPrefix(all[i].entries, all[j].entries)
  <2> SUFFICES ASSUME NEW i \in DOMAIN all, NEW j \in DOMAIN all, i < j, all[i].pass = all[j].pass
               PROVE  IsPrefix(all[i].entries, all[j].entries)
    OBVIOUS
  <2>1. i \in DOMAIN snapshots
    BY <1>1, <1>3
  <2>2. CASE j \in DOMAIN snapshots
    BY <1>1, <1>3, <2>1, <2>2 DEF SnapshotsExtendEachOther
  <2>3. CASE j = Len(snapshots) + 1
    BY <1>1, <1>2, <1>3, <2>1, <2>3 DEF SnapshotsArePrefixes
  <2>4. j \in DOMAIN snapshots \/ j = Len(snapshots) + 1
    BY <1>1, <1>3
  <2> QED BY <2>2, <2>3, <2>4
<1>6. PICK m \in 0..Len(all) : KeptFrom(all, m, snapshots') /\ Len(snapshots') <= max_snapshots
  <2>1. snapshots' = IF Len(all) > max_snapshots THEN Tail(all) ELSE all
    BY DEF SnapshotIfNeeded, AddSnapshot, all, new
  <2>2. CASE Len(all) > max_snapshots
    <3>1. /\ Tail(all) \in Seq(Snapshots) /\ Len(Tail(all)) = Len(all) - 1
          /\ \A i \in DOMAIN Tail(all) : Tail(all)[i] = all[i + 1]
      BY <1>1, <1>3
    <3>2. KeptFrom(all, 1, snapshots')
      BY <2>1, <2>2, <3>1 DEF KeptFrom, Snapshots
    <3>3. 1 \in 0..Len(all) /\ Len(snapshots') <= max_snapshots
      BY <1>1, <1>3, <2>1, <2>2, <3>1, LogAssumption
    <3> QED BY <3>2, <3>3
  <2>3. CASE Len(all) <= max_snapshots
    <3>1. snapshots' = all
      BY <1>1, <1>3, <2>1, <2>3, LogAssumption
    <3>2. KeptFrom(all, 0, snapshots')
      BY <1>1, <1>3, <3>1 DEF KeptFrom, Snapshots
    <3> QED BY <1>1, <1>3, <2>3, <3>1, <3>2
  <2> QED BY <1>1, <1>3, <2>2, <2>3, LogAssumption
<1>7. snapshots' \in Seq(Snapshots)
  BY <1>6 DEF KeptFrom, Snapshots
<1>8. /\ \A i \in DOMAIN snapshots' : IsPrefix(snapshots'[i].entries, pass_entries[snapshots'[i].pass])
      /\ \A i, j \in DOMAIN snapshots' :
           i < j /\ snapshots'[i].pass = snapshots'[j].pass
           => IsPrefix(snapshots'[i].entries, snapshots'[j].entries)
  BY <1>3, <1>4, <1>5, <1>6, KeptSnapshots DEF Snapshots
<1>9. SnapshotsArePrefixes' /\ SnapshotsExtendEachOther'
  BY <1>8 DEF SnapshotsArePrefixes, SnapshotsExtendEachOther, SnapshotIfNeeded
<1>10. LogTypeOK' /\ NoForkNoGap' /\ HashesDiffer' /\ PassIndexIsComplete'
  BY <1>6, LogStays DEF SnapshotIfNeeded
<1> QED BY <1>7, <1>9, <1>10 DEF LogIInv, Snapshots

\* prune_older_than() preserves it.
LEMMA PrunePreserves ==
  ASSUME LogIInv, NEW n \in 1..Len(snapshots), PruneOlderThan(n)
  PROVE  LogIInv'
<1> DEFINE Snapshots == [pass : Passes, entries : Seq(Hashes)]
<1>1. /\ snapshots \in Seq(Snapshots) /\ Len(snapshots) \in Nat /\ Len(snapshots) <= max_snapshots
      /\ SnapshotsArePrefixes /\ SnapshotsExtendEachOther
  BY DEF LogIInv, LogTypeOK
<1> HIDE DEF Snapshots
<1>2. /\ snapshots' \in Seq(Snapshots) /\ Len(snapshots') = Len(snapshots) - n
      /\ \A i \in DOMAIN snapshots' : snapshots'[i] = snapshots[i + n]
  <2>1. snapshots' = SubSeq(snapshots, n + 1, Len(snapshots))
    BY DEF PruneOlderThan
  <2> QED BY <1>1, <2>1
<1>3. KeptFrom(snapshots, n, snapshots') /\ n \in 0..Len(snapshots)
  BY <1>1, <1>2 DEF KeptFrom, Snapshots
<1>4. /\ \A i \in DOMAIN snapshots' : IsPrefix(snapshots'[i].entries, pass_entries[snapshots'[i].pass])
      /\ \A i, j \in DOMAIN snapshots' :
           i < j /\ snapshots'[i].pass = snapshots'[j].pass
           => IsPrefix(snapshots'[i].entries, snapshots'[j].entries)
  BY <1>1, <1>3, KeptSnapshots DEF Snapshots, SnapshotsArePrefixes, SnapshotsExtendEachOther
<1>5. SnapshotsArePrefixes' /\ SnapshotsExtendEachOther'
  BY <1>4 DEF SnapshotsArePrefixes, SnapshotsExtendEachOther, PruneOlderThan
<1>6. Len(snapshots') <= max_snapshots
  BY <1>1, <1>2, LogAssumption
<1>7. LogTypeOK' /\ NoForkNoGap' /\ HashesDiffer' /\ PassIndexIsComplete'
  BY <1>6, LogStays DEF PruneOlderThan
<1> QED BY <1>2, <1>5, <1>7 DEF LogIInv, Snapshots

LEMMA NextLog == LogIInv /\ [LogNext]_logVars => LogIInv'
<1> SUFFICES ASSUME LogIInv, [LogNext]_logVars PROVE LogIInv'
  OBVIOUS
<1>1. ASSUME NEW e \in LogEntry, AppendEntry(e) PROVE LogIInv'
  BY <1>1, AppendEntryPreserves
<1>2. ASSUME NEW p \in Passes, SnapshotIfNeeded(p) PROVE LogIInv'
  BY <1>2, SnapshotPreserves
<1>3. ASSUME NEW n \in 1..Len(snapshots), PruneOlderThan(n) PROVE LogIInv'
  BY <1>3, PrunePreserves
<1>4. CASE IntervalElapses \/ UNCHANGED logVars
  <2>1. UNCHANGED <<log, pass_entries, latest_hash, snapshots>>
    BY <1>4 DEF IntervalElapses, logVars
  <2>2. LogTypeOK' /\ NoForkNoGap' /\ HashesDiffer' /\ PassIndexIsComplete'
    BY <2>1, LogStays DEF LogIInv, LogTypeOK
  <2>3. SnapshotsArePrefixes' /\ SnapshotsExtendEachOther'
    BY <2>1 DEF LogIInv, SnapshotsArePrefixes, SnapshotsExtendEachOther
  <2> QED BY <2>1, <2>2, <2>3 DEF LogIInv
<1> QED BY <1>1, <1>2, <1>3, <1>4 DEF LogNext

\* The orders verify_chain() may read the entries in are those of the whole log.
LEMMA OrderFields ==
  ASSUME LogIInv, NEW order \in SortedOrders
  PROVE  /\ Len(log) \in Nat /\ DOMAIN log = 1..Len(log)
         /\ order \in [1..Len(log) -> 1..Len(log)]
         /\ \A i, j \in 1..Len(log) : i # j => order[i] # order[j]
         /\ \A i, j \in 1..Len(log) : i < j => log[order[i]].reception <= log[order[j]].reception
         /\ \A i \in 1..Len(log) : /\ log[i].hash \in Hashes
                                   /\ log[i].reception \in Nat
<1>1. log \in Seq(LogEntry) /\ Len(log) \in Nat /\ DOMAIN log = 1..Len(log)
  BY DEF LogIInv, LogTypeOK
<1>2. \A i \in 1..Len(log) : log[i] \in LogEntry
  BY <1>1
<1>3. \A i \in 1..Len(log) : log[i].hash \in Hashes /\ log[i].reception \in Nat
  BY <1>2, LogAssumption DEF LogEntry
<1>4. Cardinality(1..Len(log)) = Len(log)
  BY <1>1, FS_Interval
<1>5. order \in SetToSeqs(1..Len(log))
  BY <1>1 DEF SortedOrders
<1>6. /\ order \in [1..Len(log) -> 1..Len(log)]
      /\ \A i, j \in 1..Len(log) : i # j => order[i] # order[j]
  BY <1>4, <1>5 DEF SetToSeqs
<1>7. \A i, j \in DOMAIN order : i < j => log[order[i]].reception <= log[order[j]].reception
  BY DEF SortedOrders
<1>8. DOMAIN order = 1..Len(log)
  BY <1>6
<1> QED BY <1>1, <1>3, <1>6, <1>7, <1>8

\* An order in which verify_chain() accepts the log is the one it was appended in:
\* the first place where they differ would name a hash that no entry before it has.
LEMMA AcceptedInOrder ==
  ASSUME LogIInv, NEW order \in SortedOrders, Verifies(order)
  PROVE  order = [i \in DOMAIN log |-> i] /\ (log # <<>> => log[1].previous = NoHash)
<1> DEFINE n == Len(log)
           Bad == {i \in 1..n : order[i] # i}
<1>1. /\ n \in Nat /\ DOMAIN log = 1..n
      /\ order \in [1..n -> 1..n]
      /\ \A i \in 1..n : log[i].hash \in Hashes /\ log[i].hash # NoHash
  BY OrderFields, LogAssumption
<1>2. /\ \A i \in 2..n : log[i].previous = log[i - 1].hash
      /\ \A i, j \in 1..n : log[i].hash = log[j].hash => i = j
  BY <1>1 DEF LogIInv, NoForkNoGap, HashesDiffer
<1>3. \A i \in 1..n : log[order[i]].previous = IF i = 1 THEN NoHash ELSE log[order[i - 1]].hash
  BY <1>1 DEF Verifies
<1>4. ASSUME Bad # {} PROVE FALSE
  <2>0. Bad \in SUBSET Nat
    BY <1>1
  <2>1. PICK m \in Bad : \A k \in Bad : m <= k
    <3> HIDE DEF Bad
    <3> QED BY <1>4, <2>0, LeastNatural
  <2>2. m \in 1..n /\ order[m] \in 1..n /\ order[m] # m
    BY <1>1, <2>1
  <2>3. \A k \in 1..n : k < m => order[k] = k
    BY <1>1, <2>1, <2>2
  <2>4. CASE m = 1
    <3>1. order[m] \in 2..n /\ order[m] - 1 \in 1..n
      BY <1>1, <2>2, <2>4
    <3> QED BY <1>1, <1>2, <1>3, <2>2, <2>4, <3>1
  <2>5. CASE m # 1
    <3>1. m - 1 \in 1..n /\ m - 1 < m /\ 1 \in 1..n /\ 1 < m
      BY <1>1, <2>2, <2>5
    <3>2. order[m - 1] = m - 1 /\ order[1] = 1
      BY <2>3, <3>1
    <3>3. log[order[m]].previous = log[m - 1].hash /\ log[1].previous = NoHash
      BY <1>3, <2>2, <2>5, <3>1, <3>2
    <3>4. order[m] # 1
      BY <1>1, <3>1, <3>3
    <3>5. order[m] \in 2..n /\ order[m] - 1 \in 1..n
      BY <1>1, <2>2, <3>4
    <3>6. order[m] - 1 = m - 1
      BY <1>2, <3>1, <3>3, <3>5
    <3> QED BY <1>1, <2>2, <3>6
  <2> QED BY <2>4, <2>5
<1>5. \A i \in 1..n : order[i] = i
  BY <1>4
<1>6. order = [i \in 1..n |-> i]
  BY <1>1, <1>5
<1>7. ASSUME log # <<>> PROVE log[1].previous = NoHash
  <2>1. 1 \in 1..n
    BY <1>1, <1>7 DEF LogIInv, LogTypeOK
  <2> QED BY <1>3, <1>5, <2>1
<1> QED BY <1>1, <1>6, <1>7

\* When the reception times increase along the log, sorting by them gives the
\* order of the log back, in which it verifies if its first entry is rooted.
LEMMA IncreasingIsAccepted ==
  ASSUME LogIInv,
         \A i \in DOMAIN log : IF i = 1 THEN log[i].previous = NoHash
                                        ELSE log[i - 1].reception < log[i].reception,
         NEW order \in SortedOrders
  PROVE  Verifies(order)
<1> DEFINE n == Len(log)
<1>1. /\ n \in Nat /\ DOMAIN log = 1..n
      /\ order \in [1..n -> 1..n]
      /\ \A i, j \in 1..n : i # j => order[i] # order[j]
      /\ \A i, j \in 1..n : i < j => log[order[i]].reception <= log[order[j]].reception
      /\ \A i \in 1..n : log[i].reception \in Nat
  BY OrderFields
<1>2. ASSUME NEW i \in 1..n, NEW j \in 1..n, i < j PROVE log[i].reception < log[j].reception
  <2> DEFINE Bad == {k \in 1..n : i < k /\ ~ (log[i].reception < log[k].reception)}
  <2>1. ASSUME Bad # {} PROVE FALSE
    <3>0. Bad \in SUBSET Nat
      BY <1>1
    <3>1. PICK m \in Bad : \A k \in Bad : m <= k
      <4> HIDE DEF Bad
      <4> QED BY <2>1, <3>0, LeastNatural
    <3>2. m \in 1..n /\ i < m /\ ~ (log[i].reception < log[m].reception)
      BY <3>1
    <3>3. m - 1 \in 1..n /\ m # 1 /\ (m - 1 = i \/ i < m - 1)
      BY <1>1, <3>2
    <3>4. log[m - 1].reception < log[m].reception
      BY <1>1, <3>2, <3>3
    <3>5. m - 1 \notin Bad
      BY <3>1, <3>3
    <3>6. log[i].reception <= log[m - 1].reception
      BY <1>1, <3>3, <3>5
    <3> QED BY <1>1, <3>2, <3>3, <3>4, <3>6
  <2> QED BY <1>2, <2>1
<1>3. ASSUME NEW i \in 1..n, NEW j \in 1..n, i < j PROVE order[i] < order[j]
  <2>1. order[i] \in 1..n /\ order[j] \in 1..n /\ order[i] # order[j]
    <3>1. i # j
      BY <1>3
    <3> HIDE DEF n
    <3>2. order[i] \in 1..n /\ order[j] \in 1..n
      BY <1>1, Zenon
    <3> QED BY <1>1, <3>1, <3>2, Zenon
  <2>2. ASSUME order[j] < order[i] PROVE FALSE
    <3>1. log[order[j]].reception < log[order[i]].reception
      BY <1>2, <2>1, <2>2
    <3>2. log[order[i]].reception <= log[order[j]].reception
      BY <1>1, <1>3
    <3>3. log[order[i]].reception \in Nat /\ log[order[j]].reception \in Nat
      BY <1>1, <2>1
    <3> QED BY <3>1, <3>2, <3>3
  <2> QED BY <2>1, <2>2
<1>4. ASSUME NEW i \in 1..n PROVE i <= order[i]
  <2> DEFINE Bad == {k \in 1..n : ~ (k <= order[k])}
  <2>1. ASSUME Bad # {} PROVE FALSE
    <3>0. Bad \in SUBSET Nat
      BY <1>1
    <3>1. PICK m \in Bad : \A k \in Bad : m <= k
      <4> HIDE DEF Bad
      <4> QED BY <2>1, <3>0, LeastNatural
    <3>2. m \in 1..n /\ order[m] \in 1..n /\ order[m] < m
      BY <1>1, <3>1
    <3>3. m - 1 \in 1..n /\ m - 1 < m /\ m - 1 \notin Bad
      BY <1>1, <3>1, <3>2
    <3>4. m - 1 <= order[m - 1] /\ order[m - 1] < order[m] /\ order[m - 1] \in 1..n
      BY <1>1, <1>3, <3>2, <3>3
    <3> QED BY <1>1, <3>2, <3>4
  <2> QED BY <2>1
<1>5. ASSUME NEW i \in 1..n PROVE order[i] <= i
  <2> DEFINE Bad == {d \in 0..(n - 1) : ~ (order[n - d] <= n - d)}
  <2>1. ASSUME Bad # {} PROVE FALSE
    <3>0. Bad \in SUBSET Nat
      BY <1>1
    <3>1. PICK m \in Bad : \A k \in Bad : m <= k
      <4> HIDE DEF Bad
      <4> QED BY <2>1, <3>0, LeastNatural
    <3>2. m \in 0..(n - 1) /\ n - m \in 1..n /\ order[n - m] \in 1..n /\ n - m < order[n - m]
      <4>1. m \in 0..(n - 1) /\ ~ (order[n - m] <= n - m)
        BY <3>1
      <4>2. n - m \in 1..n
        BY <1>1, <4>1
      <4>3. order[n - m] \in 1..n
        BY <1>1, <4>2
      <4> QED BY <1>1, <4>1, <4>2, <4>3
    <3>3. m - 1 \in 0..(n - 1) /\ n - (m - 1) = n - m + 1 /\ n - m + 1 \in 1..n /\ ~ (m <= m - 1)
      <4>1. m # 0
        BY <1>1, <3>2
      <4> QED BY <1>1, <3>2, <4>1
    <3>4. m - 1 \notin Bad
      <4> HIDE DEF Bad
      <4> QED BY <3>1, <3>3
    <3>5. order[n - m + 1] <= n - m + 1 /\ order[n - m + 1] \in 1..n
      BY <1>1, <3>3, <3>4
    <3>6. order[n - m] < order[n - m + 1]
      <4>1. n - m < n - m + 1
        BY <1>1, <3>2
      <4> HIDE DEF n, Bad
      <4> QED BY <1>3, <3>2, <3>3, <4>1, Zenon
    <3> QED BY <1>1, <3>2, <3>5, <3>6
  <2>2. n - i \in 0..(n - 1) /\ n - (n - i) = i
    BY <1>1
  <2> QED BY <2>1, <2>2
<1>6. \A i \in 1..n : order[i] = i
  BY <1>1, <1>4, <1>5
<1>7. \A i \in 2..n : log[i].previous = log[i - 1].hash
  BY DEF LogIInv, NoForkNoGap
<1>8. DOMAIN order = 1..n
  BY <1>1
<1> QED
  <2> SUFFICES ASSUME NEW i \in 1..n
               PROVE  log[order[i]].previous = IF i = 1 THEN NoHash ELSE log[order[i - 1]].hash
    BY <1>8 DEF Verifies
  <2>1. CASE i = 1
    BY <1>1, <1>6, <2>1
  <2>2. CASE i # 1
    <3>1. i \in 2..n /\ i - 1 \in 1..n
      BY <1>1, <2>2
    <3> QED BY <1>6, <1>7, <2>2, <3>1
  <2> QED BY <2>1, <2>2

\* The log of a station is one line without fork or gap, verify_chain() accepts it
\* in no other order than its own, and the index of passes is complete, however
\* callers race with stale previous hashes.
THEOREM LogStaysOneLine == LogSpec => []LogIsOneLine
<1>1. LogIInv => LogIsOneLine
  BY AcceptedInOrder, IncreasingIsAccepted DEF LogIInv, LogIsOneLine, VerifiesInOrder
<1> QED BY <1>1, InitLog, NextLog, PTL DEF LogSpec

\* A later snapshot of a pass extends every earlier one, whatever was evicted or
\* pruned in between.
THEOREM SnapshotsStayInOrder == LogSpec => []SnapshotsExtendEachOther
<1>1. LogIInv => SnapshotsExtendEachOther
  BY DEF LogIInv
<1> QED BY <1>1, InitLog, NextLog, PTL DEF LogSpec

-----------------------------------------------------------------------------
(* Provenance chains.                                                        *)

\* The inductive invariant: every link but the first names the one before it.
ChainIInv ==
  /\ links \in [Holders -> Seq(Link)]
  /\ \A h \in Holders : \A i \in 2..Len(links[h]) : links[h][i].previous = links[h][i - 1].hash

LEMMA InitChain == ProvenanceInit => ChainIInv
BY DEF ProvenanceInit, ChainIInv

LEMMA NextChain == ChainIInv /\ [ProvenanceNext]_provenanceVars => ChainIInv'
<1> SUFFICES ASSUME ChainIInv, [ProvenanceNext]_provenanceVars PROVE ChainIInv'
  OBVIOUS
<1>1. ASSUME NEW h \in Holders, NEW link \in Link, AddLink(h, link) PROVE ChainIInv'
  <2>1. links[h] \in Seq(Link) /\ Len(links[h]) \in Nat
    BY DEF ChainIInv
  <2>2. links' = [links EXCEPT ![h] = Append(links[h], link)]
    BY <1>1 DEF AddLink
  <2>3. links' \in [Holders -> Seq(Link)]
    BY <2>1, <2>2 DEF ChainIInv
  <2>4. ASSUME NEW k \in Holders, NEW i \in 2..Len(links'[k])
        PROVE  links'[k][i].previous = links'[k][i - 1].hash
    <3>1. CASE k # h
      BY <2>2, <2>4, <3>1 DEF ChainIInv
    <3>2. CASE k = h
      <4>1. links'[k] = Append(links[h], link)
        BY <2>2, <3>2 DEF ChainIInv
      <4>2. /\ i \in 2..(Len(links[h]) + 1)
            /\ \A j \in 1..Len(links[h]) : links'[k][j] = links[h][j]
            /\ links'[k][Len(links[h]) + 1] = link
        BY <2>1, <4>1
      <4>3. CASE i = Len(links[h]) + 1
        <5>1. links[h] # <<>> /\ i - 1 = Len(links[h]) /\ Len(links[h]) \in 1..Len(links[h])
          BY <2>1, <4>2, <4>3
        <5>2. link.previous = links[h][Len(links[h])].hash
          BY <1>1, <5>1 DEF AddLink, LinksOn
        <5> QED BY <4>2, <4>3, <5>1, <5>2
      <4>4. CASE i # Len(links[h]) + 1
        <5>1. i \in 2..Len(links[h]) /\ i \in 1..Len(links[h]) /\ i - 1 \in 1..Len(links[h])
          BY <2>1, <4>2, <4>4
        <5> QED BY <4>2, <5>1 DEF ChainIInv
      <4> QED BY <4>3, <4>4
    <3> QED BY <3>1, <3>2
  <2> QED BY <2>3, <2>4 DEF ChainIInv
<1>2. CASE UNCHANGED provenanceVars
  BY <1>2 DEF provenanceVars, ChainIInv
<1> QED BY <1>1, <1>2 DEF ProvenanceNext

\* The pairs that one station finds are those the other finds, turned round.
LEMMA MatchesAreMutual ==
  ASSUME ChainIInv, NEW h \in Holders, NEW k \in Holders
  PROVE  /\ IsFiniteSet(Matched(h, k))
         /\ Cardinality(Matched(k, h)) = Cardinality(Matched(h, k))
<1>1. /\ links[h] \in Seq(Link) /\ DOMAIN links[h] = 1..Len(links[h]) /\ Len(links[h]) \in Nat
      /\ links[k] \in Seq(Link) /\ DOMAIN links[k] = 1..Len(links[k]) /\ Len(links[k]) \in Nat
  BY DEF ChainIInv
<1>2. IsFiniteSet(1..Len(links[h])) /\ IsFiniteSet(1..Len(links[k]))
  <2>1. ASSUME NEW n \in Nat PROVE IsFiniteSet(1..n)
    BY FS_Interval
  <2> QED BY <1>1, <2>1, Zenon
<1>3. IsFiniteSet((DOMAIN links[h]) \X (DOMAIN links[k]))
  BY <1>1, <1>2, FS_Product
<1>4. Matched(h, k) \in SUBSET ((DOMAIN links[h]) \X (DOMAIN links[k]))
  BY DEF Matched
<1>5. IsFiniteSet(Matched(h, k))
  BY <1>3, <1>4, FS_Subset
<1> DEFINE turned == [ij \in Matched(h, k) |-> <<ij[2], ij[1]>>]
<1>6. ASSUME NEW ij \in Matched(h, k)
      PROVE  /\ <<ij[2], ij[1]>> \in Matched(k, h)
             /\ ij = <<ij[1], ij[2]>>
  BY DEF Matched, Near
<1>7. ASSUME NEW ji \in Matched(k, h)
      PROVE  /\ <<ji[2], ji[1]>> \in Matched(h, k)
             /\ ji = <<ji[1], ji[2]>>
  BY DEF Matched, Near
<1>8. turned \in [Matched(h, k) -> Matched(k, h)]
  BY <1>6
<1>9. \A x, y \in Matched(h, k) : turned[x] = turned[y] => x = y
  BY <1>6
<1>10. \A ji \in Matched(k, h) : turned[<<ji[2], ji[1]>>] = ji
  BY <1>7
<1>11. turned \in Bijection(Matched(h, k), Matched(k, h))
  <2> HIDE DEF turned
  <2>1. turned \in Injection(Matched(h, k), Matched(k, h))
    BY <1>8, <1>9 DEF Injection, IsInjective
  <2>2. turned \in Surjection(Matched(h, k), Matched(k, h))
    BY <1>7, <1>8, <1>10 DEF Surjection
  <2> QED BY <2>1, <2>2 DEF Bijection
<1>12. ExistsBijection(Matched(h, k), Matched(k, h))
  BY <1>11 DEF ExistsBijection
<1> QED BY <1>5, <1>12, FS_Bijection

\* verify() accepts the rooted chains and no others, and stations that cross-verify
\* agree on the verdict and have an event in common.
LEMMA ChainInvariantSuffices == ChainIInv => ChainsAreSound
<1> SUFFICES ASSUME ChainIInv PROVE ChainsAreSound
  OBVIOUS
<1>1. \A h \in Holders : /\ links[h] \in Seq(Link)
                         /\ DOMAIN links[h] = 1..Len(links[h])
                         /\ Len(links[h]) \in Nat
                         /\ links[h] # <<>> <=> 1 \in 1..Len(links[h])
  BY DEF ChainIInv
<1>2. VerifyIffRooted
  <2> SUFFICES ASSUME NEW h \in Holders
               PROVE  Verify(h) <=> (links[h] # <<>> => links[h][1].previous = NoLink)
    BY DEF VerifyIffRooted
  <2>1. \A i \in 2..Len(links[h]) : links[h][i].previous = links[h][i - 1].hash
    BY DEF ChainIInv
  <2>2. \A i \in 1..Len(links[h]) : i = 1 \/ i \in 2..Len(links[h])
    BY <1>1
  <2> QED BY <1>1, <2>1, <2>2 DEF Verify
<1>3. ASSUME NEW h \in Holders, NEW k \in Holders, CrossVerify(h, k)
      PROVE  /\ CrossVerify(k, h)
             /\ links[h] # <<>> /\ links[h][1].previous = NoLink
             /\ Matched(h, k) # {}
  <2>1. /\ IsFiniteSet(Matched(h, k))
        /\ Cardinality(Matched(k, h)) = Cardinality(Matched(h, k))
    BY MatchesAreMutual
  <2>2. Cardinality(Matched(h, k)) \in Nat
    BY <2>1, FS_CardinalityType
  <2> DEFINE matched == Cardinality(Matched(h, k))
             m == Len(links[h])
             n == Len(links[k])
  <2>3. 10 * 2 * matched > 8 * (m + n) /\ m \in Nat /\ n \in Nat /\ matched \in Nat
    BY <1>1, <1>3, <2>2 DEF CrossVerify
  <2>4. matched # 0 /\ 10 * 2 * matched > 8 * (n + m)
    <3> HIDE DEF matched, m, n
    <3> QED BY <2>3
  <2>5. Matched(h, k) # {}
    BY <2>4, FS_EmptySet
  <2>6. links[h] # <<>>
    BY <1>1, <2>5 DEF Matched
  <2>7. links[h][1].previous = NoLink
    BY <1>2, <1>3, <2>6 DEF VerifyIffRooted, CrossVerify
  <2>8. CrossVerify(k, h)
    BY <1>3, <2>1, <2>4 DEF CrossVerify
  <2> QED BY <2>5, <2>6, <2>7, <2>8
<1> QED BY <1>2, <1>3 DEF ChainsAreSound, CrossVerificationIsSound

\* What a station keeps as evidence stays reliable: its log is one line, snapshots
\* extend each other, and provenance chains verify exactly when they are rooted.
THEOREM RecordsStaySound == LogSpec /\ ProvenanceSpec => []RecordsAreSound
<1>1. LogIInv => LogIsOneLine /\ SnapshotsExtendEachOther
  BY AcceptedInOrder, IncreasingIsAccepted DEF LogIInv, LogIsOneLine, VerifiesInOrder
<1>2. LogIInv /\ ChainIInv => RecordsAreSound
  BY <1>1, ChainInvariantSuffices DEF RecordsAreSound
<1> QED BY <1>2, InitLog, NextLog, InitChain, NextChain, PTL DEF LogSpec, ProvenanceSpec

-----------------------------------------------------------------------------
(* The trust in a peer.                                                      *)

Failed(r, i) == i \in DOMAIN r /\ ~ r[i]
Passes1(r) == 1 \in DOMAIN r /\ r[1]

\* How high a score can be after the verdicts in r, the latest of which is r[1].
Ceiling(r, score) ==
  /\ Failed(r, 1) => score <= 256
  /\ Failed(r, 1) /\ Failed(r, 2) => score <= 192
  /\ Passes1(r) /\ Failed(r, 2) => score <= 288
  /\ Failed(r, 2) /\ Failed(r, 3) => score <= 224
  /\ Failed(r, 1) /\ Failed(r, 3) => score <= 224

Histories == {history \in Seq(BOOLEAN) : Len(history) <= MAX_ATTESTATION_HISTORY}

PeerRecord == [score : 0..320, status : PeerStatus, history : Histories, total : Nat]

\* What holds of one peer: its score is no higher than what it has earned and what
\* the last verdicts leave of it, and its status is not older than its score.
PeerIsSound(peer, r, passed) ==
  /\ peer.score <= 160 + 32 * passed
  /\ peer.status = "Trusted" => peer.score >= 256
  /\ Ceiling(r, peer.score)

\* The inductive invariant.
TrustIInv ==
  /\ peers \in [Peers -> PeerRecord \cup {Unknown}]
  /\ recent \in [Peers -> Seq(BOOLEAN)]
  /\ earned \in [Peers -> Nat]
  /\ \A p \in Peers : Len(recent[p]) <= 3
  /\ \A p \in Peers : Known(p) => PeerIsSound(peers[p], recent[p], earned[p])

\* The history of verdicts after another one.
Latest(r, passed) ==
  LET all == <<passed>> \o r IN IF Len(all) > 3 THEN SubSeq(all, 1, 3) ELSE all

LEMMA VerdictFields ==
  ASSUME NEW verdict \in Verdicts
  PROVE  verdict.passed \in BOOLEAN /\ verdict.matching \in 0..32
BY DEF Verdicts

LEMMA LatestVerdicts ==
  ASSUME NEW r \in Seq(BOOLEAN), Len(r) <= 3, NEW passed \in BOOLEAN
  PROVE  /\ Latest(r, passed) \in Seq(BOOLEAN)
         /\ Len(Latest(r, passed)) <= 3
         /\ 1 \in DOMAIN Latest(r, passed) /\ Latest(r, passed)[1] = passed
         /\ \A i \in 2..3 : i \in DOMAIN Latest(r, passed) => /\ i - 1 \in DOMAIN r
                                                            /\ Latest(r, passed)[i] = r[i - 1]
<1> DEFINE all == <<passed>> \o r
<1>1. /\ all \in Seq(BOOLEAN) /\ Len(all) = Len(r) + 1 /\ Len(r) \in Nat
      /\ DOMAIN r = 1..Len(r)
      /\ all[1] = passed
      /\ \A i \in 2..(Len(r) + 1) : all[i] = r[i - 1]
  OBVIOUS
<1> HIDE DEF all
<1>2. CASE Len(all) > 3
  <2>1. Latest(r, passed) = SubSeq(all, 1, 3)
    BY <1>2 DEF Latest, all
  <2>2. /\ SubSeq(all, 1, 3) \in Seq(BOOLEAN)
        /\ Len(SubSeq(all, 1, 3)) = 3
        /\ \A i \in 1..3 : SubSeq(all, 1, 3)[i] = all[i]
    BY <1>1, <1>2
  <2> QED BY <1>1, <1>2, <2>1, <2>2
<1>3. CASE ~ (Len(all) > 3)
  <2>1. Latest(r, passed) = all
    BY <1>3 DEF Latest, all
  <2> QED BY <1>1, <1>3, <2>1
<1> QED BY <1>2, <1>3

LEMMA UpdatedScore ==
  ASSUME NEW s \in 0..320, NEW n \in Nat, s <= 160 + 32 * n, NEW verdict \in Verdicts
  PROVE  /\ Updated(s, verdict) \in 0..320
         /\ verdict.passed => /\ Updated(s, verdict) <= s + 32
                              /\ Updated(s, verdict) <= 160 + 32 * (n + 1)
         /\ ~ verdict.passed => /\ Updated(s, verdict) = IF s < 64 THEN 0 ELSE s - 64
                                /\ Updated(s, verdict) <= 160 + 32 * n
<1> DEFINE t == Updated(s, verdict)
           m == verdict.matching
<1>1. m \in 0..32
  BY VerdictFields
<1>2. ASSUME verdict.passed
      PROVE  t \in 0..320 /\ t <= s + 32 /\ t <= 160 + 32 * (n + 1)
  <2>1. t = IF s + m > 320 THEN 320 ELSE s + m
    BY <1>2 DEF Updated
  <2> HIDE DEF t, m
  <2> QED BY <1>1, <2>1
<1>3. ASSUME ~ verdict.passed
      PROVE  t \in 0..320 /\ t = (IF s < 64 THEN 0 ELSE s - 64) /\ t <= 160 + 32 * n
  <2>1. t = IF s < 64 THEN 0 ELSE s - 64
    BY <1>3 DEF Updated
  <2> HIDE DEF t
  <2> QED BY <2>1
<1> QED BY <1>2, <1>3

LEMMA CeilingPreserved ==
  ASSUME NEW r \in Seq(BOOLEAN), Len(r) <= 3, NEW s \in 0..320, Ceiling(r, s),
         NEW passed \in BOOLEAN, NEW t \in 0..320,
         passed => t <= s + 32,
         ~ passed => t = IF s < 64 THEN 0 ELSE s - 64
  PROVE  Ceiling(Latest(r, passed), t)
<1> DEFINE q == Latest(r, passed)
<1>1. /\ Failed(q, 1) <=> ~ passed
      /\ Passes1(q) <=> passed
      /\ Failed(q, 2) => Failed(r, 1)
      /\ Failed(q, 3) => Failed(r, 2)
  <2>1. /\ 1 \in DOMAIN q /\ q[1] = passed
        /\ \A i \in 2..3 : i \in DOMAIN q => i - 1 \in DOMAIN r /\ q[i] = r[i - 1]
    BY LatestVerdicts
  <2> HIDE DEF q
  <2>2. /\ 2 \in DOMAIN q => 1 \in DOMAIN r /\ q[2] = r[1]
        /\ 3 \in DOMAIN q => 2 \in DOMAIN r /\ q[3] = r[2]
    BY <2>1
  <2> QED BY <2>1, <2>2, Zenon DEF Failed, Passes1
<1> SUFFICES Ceiling(q, t)
  OBVIOUS
<1> HIDE DEF q
<1>2. /\ Failed(r, 1) => s <= 256
      /\ Failed(r, 1) /\ Failed(r, 2) => s <= 192
      /\ Passes1(r) /\ Failed(r, 2) => s <= 288
  BY DEF Ceiling
<1>3. Failed(r, 2) => Failed(r, 1) \/ Passes1(r)
  <2>1. 2 \in DOMAIN r => 1 \in DOMAIN r
    OBVIOUS
  <2> QED BY <2>1, Zenon DEF Failed, Passes1
<1>4. CASE passed
  <2>1. t <= s + 32
    BY <1>4
  <2>2. /\ Failed(q, 2) => t <= 288
        /\ Failed(q, 2) /\ Failed(q, 3) => t <= 224
    BY <1>1, <1>2, <2>1
  <2> QED BY <1>1, <1>4, <2>2 DEF Ceiling
<1>5. CASE ~ passed
  <2>1. t = IF s < 64 THEN 0 ELSE s - 64
    BY <1>5
  <2>2. t <= 256
    BY <2>1
  <2>3. Failed(q, 2) => t <= 192
    BY <1>1, <1>2, <2>1
  <2>4. Failed(q, 3) => t <= 224
    BY <1>1, <1>2, <1>3, <2>1
  <2>5. Failed(q, 2) => t <= 224
    BY <2>3
  <2> QED BY <1>1, <1>5, <2>2, <2>3, <2>4, <2>5 DEF Ceiling
<1> QED BY <1>4, <1>5

LEMMA InitTrust == TrustInit => TrustIInv
BY DEF TrustInit, TrustIInv, Known

\* A verdict, with or without a record, keeps what holds of the peers.
LEMMA VerdictPreserves ==
  ASSUME TrustIInv, NEW p \in Peers, NEW verdict \in Verdicts, Known(p), NEW peer \in PeerRecord,
         peer.score = Updated(peers[p].score, verdict),
         peer.status \in StatusOf(peer.score),
         peers' = [peers EXCEPT ![p] = peer], Observe(p, verdict)
  PROVE  TrustIInv'
<1> DEFINE s == peers[p].score
           t == Updated(s, verdict)
<1>1. /\ peers[p] \in PeerRecord /\ s \in 0..320
      /\ recent[p] \in Seq(BOOLEAN) /\ Len(recent[p]) <= 3
      /\ earned[p] \in Nat
      /\ PeerIsSound(peers[p], recent[p], earned[p])
  BY DEF TrustIInv, PeerRecord, Known
<1>2. verdict.passed \in BOOLEAN
  BY VerdictFields
<1>3. s <= 160 + 32 * earned[p] /\ Ceiling(recent[p], s)
  BY <1>1 DEF PeerIsSound
<1>4. /\ t \in 0..320
      /\ verdict.passed => t <= s + 32 /\ t <= 160 + 32 * (earned[p] + 1)
      /\ ~ verdict.passed => t = (IF s < 64 THEN 0 ELSE s - 64) /\ t <= 160 + 32 * earned[p]
  <2> DEFINE n == earned[p]
  <2>1. s \in 0..320 /\ n \in Nat /\ s <= 160 + 32 * n
    BY <1>1, <1>3
  <2> HIDE DEF s, n
  <2>2. /\ Updated(s, verdict) \in 0..320
        /\ verdict.passed => /\ Updated(s, verdict) <= s + 32
                             /\ Updated(s, verdict) <= 160 + 32 * (n + 1)
        /\ ~ verdict.passed => /\ Updated(s, verdict) = IF s < 64 THEN 0 ELSE s - 64
                               /\ Updated(s, verdict) <= 160 + 32 * n
    BY <2>1, UpdatedScore, ZenonT(30)
  <2> QED BY <2>2 DEF n
<1>5. Ceiling(Latest(recent[p], verdict.passed), t)
  <2> HIDE DEF s, t
  <2>1. /\ verdict.passed => t <= s + 32
        /\ ~ verdict.passed => t = IF s < 64 THEN 0 ELSE s - 64
    BY <1>4
  <2>2. s \in 0..320 /\ t \in 0..320
    BY <1>1, <1>4
  <2> DEFINE r == recent[p]
             passed == verdict.passed
  <2>3. r \in Seq(BOOLEAN) /\ Len(r) <= 3 /\ Ceiling(r, s)
    BY <1>1, <1>3
  <2>4. /\ passed \in BOOLEAN /\ (passed => t <= s + 32)
        /\ (~ passed => t = IF s < 64 THEN 0 ELSE s - 64)
    BY <1>2, <2>1
  <2> HIDE DEF r, passed
  <2>5. Ceiling(Latest(r, passed), t)
    BY <2>2, <2>3, <2>4, CeilingPreserved, ZenonT(30)
  <2> QED BY <2>5 DEF r, passed
<1>6. /\ Latest(recent[p], verdict.passed) \in Seq(BOOLEAN)
      /\ Len(Latest(recent[p], verdict.passed)) <= 3
  BY <1>1, <1>2, LatestVerdicts
<1>7. /\ recent' = [recent EXCEPT ![p] = Latest(recent[p], verdict.passed)]
      /\ earned' = [earned EXCEPT ![p] = IF verdict.passed THEN earned[p] + 1 ELSE earned[p]]
  BY DEF Observe, Latest
<1>8. PeerIsSound(peers'[p], recent'[p], earned'[p])
  <2>1. peers'[p] = peer /\ peer.score = t /\ recent'[p] = Latest(recent[p], verdict.passed)
    BY <1>7 DEF TrustIInv
  <2>2. peer.status = "Trusted" => t >= 256
    BY <1>4, <2>1 DEF StatusOf
  <2>3. t <= 160 + 32 * earned'[p]
    <3>1. CASE verdict.passed
      BY <1>4, <1>7, <3>1 DEF TrustIInv
    <3>2. CASE ~ verdict.passed
      BY <1>4, <1>7, <3>2 DEF TrustIInv
    <3> QED BY <3>1, <3>2
  <2> QED BY <1>5, <2>1, <2>2, <2>3 DEF PeerIsSound
<1>9. /\ peers' \in [Peers -> PeerRecord \cup {Unknown}]
      /\ recent' \in [Peers -> Seq(BOOLEAN)]
      /\ earned' \in [Peers -> Nat]
  BY <1>1, <1>6, <1>7 DEF TrustIInv
<1>10. ASSUME NEW x \in Peers
       PROVE  Len(recent'[x]) <= 3 /\ (Known(x)' => PeerIsSound(peers'[x], recent'[x], earned'[x]))
  <2>1. CASE x = p
    BY <1>6, <1>7, <1>8, <2>1 DEF TrustIInv
  <2>2. CASE x # p
    BY <1>7, <2>2 DEF TrustIInv, Known
  <2> QED BY <2>1, <2>2
<1> QED BY <1>9, <1>10 DEF TrustIInv

LEMMA NextTrust == TrustIInv /\ [TrustNext]_trustVars => TrustIInv'
<1> SUFFICES ASSUME TrustIInv, [TrustNext]_trustVars PROVE TrustIInv'
  OBVIOUS
<1>1. ASSUME NEW p \in Peers, AddPeer(p) PROVE TrustIInv'
  <2>1. NewPeer \in PeerRecord
    BY TrustAssumption DEF NewPeer, PeerRecord, PeerStatus, Histories
  <2>2. PeerIsSound(NewPeer, <<>>, 0)
    BY DEF PeerIsSound, Ceiling, NewPeer, Failed, Passes1
  <2> QED BY <1>1, <2>1, <2>2 DEF AddPeer, TrustIInv, Known
<1>2. ASSUME NEW p \in Peers, RemovePeer(p) PROVE TrustIInv'
  BY <1>2 DEF RemovePeer, TrustIInv, Known
<1>3. ASSUME NEW p \in Peers, Known(p) PROVE peers[p] \in PeerRecord
  BY <1>3 DEF TrustIInv, Known
<1>4. ASSUME NEW p \in Peers, NEW verdict \in Verdicts, Known(p)
      PROVE  Updated(peers[p].score, verdict) \in 0..320 /\ verdict.passed \in BOOLEAN
  <2>1. peers[p].score \in 0..320 /\ earned[p] \in Nat /\ peers[p].score <= 160 + 32 * earned[p]
    BY <1>3, <1>4, SMTT(20) DEF TrustIInv, PeerRecord, PeerIsSound
  <2>2. Updated(peers[p].score, verdict) \in 0..320
    BY <2>1, UpdatedScore, ZenonT(30)
  <2> QED BY <2>2, VerdictFields
<1>5. ASSUME NEW p \in Peers, NEW verdict \in Verdicts, AddAttestation(p, verdict) PROVE TrustIInv'
  <2>1. Known(p) /\ Observe(p, verdict)
    BY <1>5 DEF AddAttestation
  <2>2. PICK status \in StatusOf(Updated(peers[p].score, verdict)) :
          peers' = [peers EXCEPT ![p] =
            [score |-> Updated(peers[p].score, verdict), status |-> status,
             history |-> Remembered(peers[p].history, verdict.passed),
             total |-> peers[p].total + 1]]
    BY <1>5 DEF AddAttestation
  <2>3. peers[p].history \in Histories /\ peers[p].total \in Nat /\ verdict.passed \in BOOLEAN
    BY <1>3, <1>4, <2>1 DEF PeerRecord
  <2>4. Remembered(peers[p].history, verdict.passed) \in Histories
    <3> DEFINE all == Append(peers[p].history, verdict.passed)
               n == Len(peers[p].history)
    <3>1. all \in Seq(BOOLEAN) /\ all # <<>> /\ Len(all) = n + 1
      BY <2>3 DEF Histories
    <3>2. n \in Nat /\ n <= MAX_ATTESTATION_HISTORY /\ MAX_ATTESTATION_HISTORY \in Nat
      BY <2>3, TrustAssumption DEF Histories
    <3>3. Remembered(peers[p].history, verdict.passed)
          = IF n >= MAX_ATTESTATION_HISTORY THEN Tail(all) ELSE all
      BY DEF Remembered
    <3> HIDE DEF all, n
    <3>4. Tail(all) \in Seq(BOOLEAN) /\ Len(Tail(all)) = n
      BY <3>1, <3>2
    <3>5. CASE n >= MAX_ATTESTATION_HISTORY
      BY <3>2, <3>3, <3>4, <3>5 DEF Histories
    <3>6. CASE ~ (n >= MAX_ATTESTATION_HISTORY)
      BY <3>1, <3>2, <3>3, <3>6 DEF Histories
    <3> QED BY <3>5, <3>6
  <2>5. status \in PeerStatus
    BY <2>2 DEF StatusOf, PeerStatus
  <2> DEFINE peer == [score |-> Updated(peers[p].score, verdict), status |-> status,
                      history |-> Remembered(peers[p].history, verdict.passed),
                      total |-> peers[p].total + 1]
  <2>6. peer \in PeerRecord /\ peer.score = Updated(peers[p].score, verdict) /\ peer.status = status
    BY <1>4, <2>1, <2>3, <2>4, <2>5, SMTT(20) DEF PeerRecord
  <2>7. peers' = [peers EXCEPT ![p] = peer]
    BY <2>2
  <2> HIDE DEF peer
  <2> QED BY <2>1, <2>2, <2>6, <2>7, VerdictPreserves
<1>6. ASSUME NEW p \in Peers, NEW verdict \in Verdicts, UpdateTrust(p, verdict) PROVE TrustIInv'
  <2>1. Known(p) /\ Observe(p, verdict)
    BY <1>6 DEF UpdateTrust
  <2>2. peers[p] \in PeerRecord
    BY <1>3, <2>1
  <2>3. PICK status \in StatusOf(Updated(peers[p].score, verdict)) :
          peers' = [peers EXCEPT ![p].score = Updated(peers[p].score, verdict), ![p].status = status]
    BY <1>6 DEF UpdateTrust
  <2> DEFINE peer == [peers[p] EXCEPT !.score = Updated(peers[p].score, verdict), !.status = status]
  <2>4. status \in PeerStatus
    BY <2>3 DEF StatusOf, PeerStatus
  <2>5. peer \in PeerRecord /\ peer.score = Updated(peers[p].score, verdict) /\ peer.status = status
    BY <1>4, <2>1, <2>2, <2>4, ZenonT(30) DEF PeerRecord
  <2>6. peers' = [peers EXCEPT ![p] = peer]
    BY <2>3 DEF TrustIInv
  <2> HIDE DEF peer
  <2> QED BY <2>1, <2>3, <2>5, <2>6, VerdictPreserves
<1>7. CASE UNCHANGED trustVars
  BY <1>7 DEF trustVars, TrustIInv, Known
<1> QED BY <1>1, <1>2, <1>5, <1>6, <1>7 DEF TrustNext

\* Two indices of a list of verdicts that are both failures.
LEMMA TwoFailures ==
  ASSUME NEW r \in Seq(BOOLEAN), Len(r) <= 3,
         Cardinality({i \in DOMAIN r : ~ r[i]}) >= 2
  PROVE  \/ Failed(r, 1) /\ Failed(r, 2)
         \/ Failed(r, 1) /\ Failed(r, 3)
         \/ Failed(r, 2) /\ Failed(r, 3)
<1> DEFINE F == {i \in DOMAIN r : ~ r[i]}
<1>1. DOMAIN r = 1..Len(r) /\ Len(r) \in Nat /\ F \subseteq 1..3
  OBVIOUS
<1>2. \A i \in 1..3 : i \in F <=> Failed(r, i)
  BY DEF Failed
<1>0. Cardinality(F) >= 2
  OBVIOUS
<1> HIDE DEF F
<1>3. F # {} /\ \A x : F # {x}
  <2>1. Cardinality({}) = 0 /\ \A x : Cardinality({x}) = 1
    BY FS_EmptySet, FS_Singleton
  <2>2. F = {} => Cardinality(F) = 0
    BY <2>1, Zenon
  <2>3. ASSUME NEW x, F = {x} PROVE Cardinality(F) = 1
    BY <2>1, <2>3, Zenon
  <2>4. Cardinality(F) # 0 /\ Cardinality(F) # 1
    BY <1>0
  <2> QED BY <2>2, <2>3, <2>4, Zenon
<1>4. PICK x \in F, y \in F : x # y
  BY <1>3
<1> QED BY <1>1, <1>2, <1>4

\* No peer is trusted before it has passed three verifications since it was added,
\* two failures among the last three verdicts end the trust in any peer, and two
\* stations judge sound proofs alike, for every sequence of verdicts, recordless
\* ones, additions and removals, and whatever the rounding does at a threshold.
THEOREM TrustAlwaysFollowsEvidence == TrustSpec => []TrustFollowsEvidence
<1>1. VerificationIsMutual
  BY TrustAssumption DEF VerificationIsMutual, CheckBitemporalConsistency, WindowsMeet
<1>2. ASSUME TrustIInv, NEW p \in Peers, IsTrusted(p)
      PROVE  /\ earned[p] >= 3
             /\ ~ (Cardinality({i \in DOMAIN recent[p] : ~ recent[p][i]}) >= 2)
  <2>1. /\ peers[p] \in PeerRecord /\ earned[p] \in Nat
        /\ recent[p] \in Seq(BOOLEAN) /\ Len(recent[p]) <= 3
        /\ PeerIsSound(peers[p], recent[p], earned[p])
    BY <1>2 DEF TrustIInv, IsTrusted, Known
  <2> DEFINE s == peers[p].score
  <2>2. s \in 0..320 /\ s >= 256 /\ s <= 160 + 32 * earned[p] /\ Ceiling(recent[p], s)
    BY <1>2, <2>1 DEF PeerRecord, PeerIsSound, IsTrusted
  <2> HIDE DEF s
  <2>3. earned[p] >= 3
    BY <2>1, <2>2
  <2>4. ASSUME Cardinality({i \in DOMAIN recent[p] : ~ recent[p][i]}) >= 2 PROVE FALSE
    <3>1. \/ Failed(recent[p], 1) /\ Failed(recent[p], 2)
          \/ Failed(recent[p], 1) /\ Failed(recent[p], 3)
          \/ Failed(recent[p], 2) /\ Failed(recent[p], 3)
      BY <2>1, <2>4, TwoFailures
    <3>2. s <= 224
      BY <2>2, <3>1 DEF Ceiling
    <3> QED BY <2>2, <3>2
  <2> QED BY <2>3, <2>4
<1>3. TrustIInv => TrustFollowsEvidence
  BY <1>1, <1>2 DEF TrustFollowsEvidence, TrustIsEarned, FailuresEndTrust
<1> QED BY <1>3, InitTrust, NextTrust, PTL DEF TrustSpec

-----------------------------------------------------------------------------
(* Spectrum coordination.                                                    *)

\* The passes a station may come to have in its schedule.
Own(s) == UNION Schedules[s]

\* A conflict of a pass of s with one of p, in the order in which s lists it.
RealConflict(c, s, p) ==
  /\ c \in Own(s) \X Own(p)
  /\ TimeOverlap(c[1], c[2]) /\ FrequencyOverlap(c[1], c[2])

\* What a message on its way may carry: a schedule of its sender, or conflicts of
\* the sender's passes with the receiver's.
MessageIsSound(m) ==
  /\ m.type \in {"request", "response"}
  /\ m.type = "request" => /\ <<m.to, m.from>> \in Pairs
                           /\ m.entries \in Schedules[m.from]
  /\ m.type = "response" => /\ <<m.to, m.from>> \in Pairs
                            /\ \A c \in m.conflicts : RealConflict(c, m.from, m.to)

\* The inductive invariant: conflicts are real when they are reported because they
\* were real on the way, and the schedules they came from were of the stations.
SpectrumIInv ==
  /\ DOMAIN our_schedule = Stations
  /\ \A s \in Stations : our_schedule[s] \in Schedules[s]
  /\ peer_state \subseteq Pairs
  /\ trusted \subseteq Pairs
  /\ DOMAIN their_schedule = Pairs
  /\ \A sp \in Pairs : their_schedule[sp] \in Schedules[sp[2]]
  /\ DOMAIN active_conflicts = Pairs
  /\ \A m \in messages : MessageIsSound(m)
  /\ \A sp \in Pairs : \A c \in active_conflicts[sp] : RealConflict(c, sp[2], sp[1])

LEMMA InitSpectrum == SpectrumInit => SpectrumIInv
BY SpectrumAssumption DEF SpectrumInit, SpectrumIInv, Pairs

LEMMA OwnEntries ==
  ASSUME NEW s \in Stations
  PROVE  /\ Own(s) \subseteq Entries
         /\ \A schedule \in Schedules[s] : schedule \subseteq Own(s)
         /\ \A e \in Own(s) : /\ e.start \in Int /\ e.end \in Int /\ e.low \in Int /\ e.high \in Int
                              /\ e.start < e.end
<1>1. Own(s) \subseteq Entries /\ \A schedule \in Schedules[s] : schedule \subseteq Own(s)
  BY DEF Own, Entries
<1>2. Own(s) \subseteq [start : Int, end : Int, low : Int, high : Int]
  BY SpectrumAssumption DEF Own
<1> QED BY <1>1, <1>2, SpectrumAssumption

LEMMA NextSpectrum == SpectrumIInv /\ [SpectrumNext]_spectrumVars => SpectrumIInv'
<1> SUFFICES ASSUME SpectrumIInv, [SpectrumNext]_spectrumVars PROVE SpectrumIInv'
  OBVIOUS
<1>1. ASSUME NEW s \in Stations, NEW schedule \in Schedules[s], UpdateOurSchedule(s, schedule)
      PROVE  SpectrumIInv'
  BY <1>1 DEF UpdateOurSchedule, SpectrumIInv
<1>0. \A sp \in Pairs : <<sp[1], sp[2]>> \in Pairs
  BY DEF Pairs
<1>2. ASSUME NEW sp \in Pairs, TrustChanges(sp[1], sp[2]) PROVE SpectrumIInv'
  <2>1. trusted' \subseteq Pairs
    BY <1>0, <1>2 DEF TrustChanges, SpectrumIInv
  <2> QED BY <1>2, <2>1 DEF TrustChanges, SpectrumIInv
<1>3. ASSUME NEW sp \in Pairs, RegisterPeer(sp[1], sp[2]) PROVE SpectrumIInv'
  <2>1. peer_state' \subseteq Pairs
    BY <1>0, <1>3 DEF RegisterPeer, SpectrumIInv
  <2> QED BY <1>3, <2>1 DEF RegisterPeer, SpectrumIInv
<1>4. ASSUME NEW sp \in Pairs, BuildRequest(sp[1], sp[2]) PROVE SpectrumIInv'
  <2> DEFINE request == [type |-> "request", from |-> sp[1], to |-> sp[2],
                         entries |-> our_schedule[sp[1]]]
  <2>1. sp[1] \in Stations /\ <<sp[2], sp[1]>> \in Pairs
    BY DEF Pairs
  <2>2. MessageIsSound(request)
    BY <2>1 DEF MessageIsSound, SpectrumIInv
  <2>3. messages' = messages \cup {request}
    BY <1>4 DEF BuildRequest
  <2> HIDE DEF request
  <2> QED BY <1>4, <2>2, <2>3 DEF BuildRequest, SpectrumIInv
<1>5. ASSUME NEW m \in messages, m.type = "request", ReceiveRequest(m) PROVE SpectrumIInv'
  <2> DEFINE accepted == <<m.to, m.from>> \in trusted
             conflicts == IF accepted THEN DetectConflicts(our_schedule[m.to], m.entries) ELSE {}
  <2>1. <<m.to, m.from>> \in Pairs /\ m.entries \in Schedules[m.from]
    BY <1>5 DEF SpectrumIInv, MessageIsSound
  <2>2. m.to \in Stations /\ m.from \in Stations /\ <<m.from, m.to>> \in Pairs
    BY <2>1 DEF Pairs
  <2>3. our_schedule[m.to] \subseteq Own(m.to) /\ m.entries \subseteq Own(m.from)
    BY <2>1, <2>2, OwnEntries DEF SpectrumIInv
  <2>4. \A c \in conflicts : RealConflict(c, m.to, m.from)
    BY <2>3 DEF DetectConflicts, RealConflict
  <2>5. MessageIsSound(Response(m, conflicts, accepted))
    <3> HIDE DEF conflicts, accepted
    <3> QED BY <2>2, <2>4 DEF MessageIsSound, Response
  <2>6. /\ messages' = (messages \ {m}) \cup {Response(m, conflicts, accepted)}
        /\ UNCHANGED <<our_schedule, peer_state, active_conflicts, trusted>>
        /\ \/ their_schedule' = their_schedule
           \/ their_schedule' = [their_schedule EXCEPT ![<<m.to, m.from>>] = m.entries]
    BY <1>5 DEF ReceiveRequest
  <2> HIDE DEF conflicts, accepted
  <2>7. /\ DOMAIN their_schedule' = Pairs
        /\ \A sp \in Pairs : their_schedule'[sp] \in Schedules[sp[2]]
    BY <2>1, <2>6 DEF SpectrumIInv
  <2> QED BY <2>5, <2>6, <2>7 DEF SpectrumIInv
<1>6. ASSUME NEW m \in messages, m.type = "response", ReceiveResponse(m) PROVE SpectrumIInv'
  <2>1. <<m.to, m.from>> \in Pairs /\ \A c \in m.conflicts : RealConflict(c, m.from, m.to)
    BY <1>6 DEF SpectrumIInv, MessageIsSound
  <2>2. \/ active_conflicts' = active_conflicts
        \/ active_conflicts' = [active_conflicts EXCEPT ![<<m.to, m.from>>] = m.conflicts]
    BY <1>6 DEF ReceiveResponse
  <2>3. \A sp \in Pairs : \A c \in active_conflicts'[sp] : RealConflict(c, sp[2], sp[1])
    BY <2>1, <2>2 DEF SpectrumIInv
  <2>4. DOMAIN active_conflicts' = Pairs
    BY <2>2 DEF SpectrumIInv
  <2> QED BY <1>6, <2>3, <2>4 DEF ReceiveResponse, SpectrumIInv
<1>7. ASSUME NEW m \in messages, Lose(m) PROVE SpectrumIInv'
  BY <1>7 DEF Lose, SpectrumIInv
<1>8. CASE UNCHANGED spectrumVars
  BY <1>8 DEF spectrumVars, SpectrumIInv
<1> QED BY <1>1, <1>2, <1>3, <1>4, <1>5, <1>6, <1>7, <1>8 DEF SpectrumNext

\* Conflicts of two lists of passes are the same from both sides.
LEMMA ConflictsAreMutual ==
  ASSUME NEW A, NEW B
  PROVE  DetectConflicts(B, A) = {<<c[2], c[1]>> : c \in DetectConflicts(A, B)}
<1>1. ASSUME NEW c \in DetectConflicts(A, B)
      PROVE  <<c[2], c[1]>> \in DetectConflicts(B, A)
  BY DEF DetectConflicts, TimeOverlap, FrequencyOverlap
<1>2. ASSUME NEW d \in DetectConflicts(B, A)
      PROVE  <<d[2], d[1]>> \in DetectConflicts(A, B) /\ d = <<d[1], d[2]>>
  BY DEF DetectConflicts, TimeOverlap, FrequencyOverlap
<1>3. ASSUME NEW d \in DetectConflicts(B, A)
      PROVE  \E c \in DetectConflicts(A, B) : d = <<c[2], c[1]>>
  BY <1>2
<1> QED BY <1>1, <1>3

\* Stations that hold each other's schedules agree on the conflicts, every conflict
\* a station is told of is real, and no schedule is taken from a peer that is not
\* trusted and registered at that moment, whatever is lost or overtaken on the way.
THEOREM CoordinationStaysSound == SpectrumSpec => CoordinationIsSound
<1>1. BothSidesAgree
  BY ConflictsAreMutual DEF BothSidesAgree, CheckOurSchedule
<1>2. SpectrumIInv => ReportedConflictsAreReal
  <2> SUFFICES ASSUME SpectrumIInv, NEW sp \in Pairs, NEW c \in active_conflicts[sp]
               PROVE  /\ \E schedule \in Schedules[sp[2]] : c[1] \in schedule
                      /\ \E schedule \in Schedules[sp[1]] : c[2] \in schedule
                      /\ \E t \in c[1].start..(c[1].end - 1) : t \in c[2].start..(c[2].end - 1)
                      /\ \E f \in c[1].low..(c[1].high - 1) : f \in c[2].low..(c[2].high - 1)
    BY DEF ReportedConflictsAreReal
  <2> DEFINE x == c[1]
             y == c[2]
  <2>1. sp[1] \in Stations /\ sp[2] \in Stations
    BY DEF Pairs
  <2>2. x \in Own(sp[2]) /\ y \in Own(sp[1]) /\ TimeOverlap(x, y) /\ FrequencyOverlap(x, y)
    BY DEF SpectrumIInv, RealConflict
  <2>3. /\ \E schedule \in Schedules[sp[2]] : x \in schedule
        /\ \E schedule \in Schedules[sp[1]] : y \in schedule
    BY <2>2 DEF Own
  <2>4. /\ x.start \in Int /\ x.end \in Int /\ x.low \in Int /\ x.high \in Int /\ x.start < x.end
        /\ y.start \in Int /\ y.end \in Int /\ y.low \in Int /\ y.high \in Int /\ y.start < y.end
    BY <2>1, <2>2, OwnEntries
  <2> HIDE DEF x, y
  <2>5. x.start < y.end /\ y.start < x.end
    BY <2>2 DEF TimeOverlap
  <2>6. x.low < y.high /\ y.low < x.high /\ x.low < x.high /\ y.low < y.high
    BY <2>2 DEF FrequencyOverlap
  <2>7. \E t \in x.start..(x.end - 1) : t \in y.start..(y.end - 1)
    <3>1. CASE x.start <= y.start
      BY <2>4, <2>5, <3>1
    <3>2. CASE y.start <= x.start
      BY <2>4, <2>5, <3>2
    <3> QED BY <2>4, <3>1, <3>2
  <2>8. \E f \in x.low..(x.high - 1) : f \in y.low..(y.high - 1)
    <3>1. CASE x.low <= y.low
      BY <2>4, <2>6, <3>1
    <3>2. CASE y.low <= x.low
      BY <2>4, <2>6, <3>2
    <3> QED BY <2>4, <3>1, <3>2
  <2> QED BY <2>3, <2>7, <2>8 DEF x, y
<1>3. SpectrumIInv /\ [SpectrumNext]_spectrumVars
      => [\A sp \in Pairs : their_schedule'[sp] # their_schedule[sp]
                            => sp \in trusted /\ sp \in peer_state]_spectrumVars
  <2> SUFFICES ASSUME SpectrumIInv, SpectrumNext, NEW sp \in Pairs,
                      their_schedule'[sp] # their_schedule[sp]
               PROVE  sp \in trusted /\ sp \in peer_state
    OBVIOUS
  <2>1. PICK m \in messages : ReceiveRequest(m)
    BY DEF SpectrumNext, UpdateOurSchedule, TrustChanges, RegisterPeer, BuildRequest,
           ReceiveResponse, Lose
  <2> QED BY <2>1 DEF ReceiveRequest
<1>4. SpectrumSpec => [](BothSidesAgree /\ ReportedConflictsAreReal)
  BY <1>1, <1>2, InitSpectrum, NextSpectrum, PTL DEF SpectrumSpec
<1>5. SpectrumSpec => OnlyTrustedSchedulesAreKept
  BY <1>3, InitSpectrum, NextSpectrum, PTL DEF SpectrumSpec, OnlyTrustedSchedulesAreKept
<1> QED BY <1>4, <1>5 DEF CoordinationIsSound

-----------------------------------------------------------------------------
(* Licences.                                                                 *)

KeysInUse == {k \in LicenceKeys : licenses[k] # {}}

\* The inductive invariant: a key has one licence at most, and finitely many keys
\* have one, which is what counting them in a report needs.
LicensingIInv ==
  /\ licenses \in [LicenceKeys -> SUBSET Grants]
  /\ \A k \in LicenceKeys : \A l, m \in licenses[k] : l = m
  /\ \A t, u \in in_hand : t = u
  /\ \A s, t \in sent : s = t
  /\ checking \in BOOLEAN
  /\ licence_now \in 0..MaxLicenceTime
  /\ IsFiniteSet(KeysInUse)
  /\ TransmissionsAreLicensed

LEMMA InitLicensing == LicensingInit => LicensingIInv
<1> SUFFICES ASSUME LicensingInit PROVE LicensingIInv
  OBVIOUS
<1>1. KeysInUse = {}
  BY DEF LicensingInit, KeysInUse
<1>2. IsFiniteSet(KeysInUse)
  BY <1>1, FS_EmptySet, Zenon
<1>3. licence_now \in 0..MaxLicenceTime
  BY LicensingAssumption DEF LicensingInit
<1>4. licenses \in [LicenceKeys -> SUBSET Grants]
  BY DEF LicensingInit
<1> QED BY <1>2, <1>3, <1>4 DEF LicensingInit, LicensingIInv, TransmissionsAreLicensed

LEMMA NextLicensing == LicensingIInv /\ [LicensingNext]_licensingVars => LicensingIInv'
<1> SUFFICES ASSUME LicensingIInv, [LicensingNext]_licensingVars PROVE LicensingIInv'
  OBVIOUS
<1>1. ASSUME NEW k \in LicenceKeys, NEW l \in Grants, AddLicense(k, l) PROVE LicensingIInv'
  <2>1. /\ licenses' = [licenses EXCEPT ![k] = {l}] /\ sent' = {}
        /\ UNCHANGED <<in_hand, checking, licence_now>>
    BY <1>1 DEF AddLicense
  <2>2. KeysInUse' = KeysInUse \cup {k}
    BY <2>1 DEF KeysInUse, LicensingIInv
  <2>3. IsFiniteSet(KeysInUse \cup {k})
    BY FS_AddElement DEF LicensingIInv
  <2>4. IsFiniteSet(KeysInUse')
    BY <2>2, <2>3, Zenon
  <2> QED BY <2>1, <2>4 DEF LicensingIInv, TransmissionsAreLicensed
<1>2. ASSUME NEW k \in LicenceKeys, RemoveLicense(k) PROVE LicensingIInv'
  <2>1. /\ licenses' = [licenses EXCEPT ![k] = {}] /\ sent' = {}
        /\ UNCHANGED <<in_hand, checking, licence_now>>
    BY <1>2 DEF RemoveLicense
  <2>2. KeysInUse' \in SUBSET KeysInUse
    BY <2>1 DEF KeysInUse, LicensingIInv
  <2>3. IsFiniteSet(KeysInUse')
    BY <2>2, FS_Subset DEF LicensingIInv
  <2> QED BY <2>1, <2>3 DEF LicensingIInv, TransmissionsAreLicensed
<1>3. UNCHANGED licenses => KeysInUse' = KeysInUse
  BY DEF KeysInUse
<1>4. ASSUME NEW hz \in Hertz, NEW dbm \in PowerLevels, NEW coordinated \in BOOLEAN,
             NEW required \in BOOLEAN, Transmit(hz, dbm, coordinated, required)
      PROVE  LicensingIInv'
  <2>1. PICK t \in in_hand :
          /\ InBand(t.key[2], hz)
          /\ Accepts(t, dbm, coordinated, required)
          /\ sent' = {[key |-> t.key, license |-> t.license, hz |-> hz, dbm |-> dbm,
                       at |-> licence_now, coordinated |-> coordinated, required |-> required]}
          /\ UNCHANGED <<licenses, in_hand, checking, licence_now>>
    BY <1>4 DEF Transmit
  <2>2. TransmissionsAreLicensed'
    BY <2>1 DEF TransmissionsAreLicensed, InBand, Accepts, is_valid, power_allowed
  <2> QED BY <1>3, <2>1, <2>2 DEF LicensingIInv
<1>5. ASSUME NEW k \in LicenceKeys, TakeLicense(k) PROVE LicensingIInv'
  <2>1. \A t, u \in in_hand' : t = u
    BY <1>5 DEF TakeLicense, get_license, LicensingIInv
  <2> QED BY <1>3, <1>5, <2>1 DEF TakeLicense, LicensingIInv, TransmissionsAreLicensed
<1>6. CASE NewChecker
  BY <1>3, <1>6 DEF NewChecker, LicensingIInv, TransmissionsAreLicensed
<1>7. CASE LicenceTimePasses
  <2>1. licence_now' \in 0..MaxLicenceTime
    BY <1>7, LicensingAssumption DEF LicenceTimePasses, LicensingIInv
  <2> QED BY <1>3, <1>7, <2>1 DEF LicenceTimePasses, LicensingIInv, TransmissionsAreLicensed
<1>8. CASE UNCHANGED licensingVars
  BY <1>3, <1>8 DEF licensingVars, LicensingIInv, TransmissionsAreLicensed
<1> QED BY <1>1, <1>2, <1>4, <1>5, <1>6, <1>7, <1>8 DEF LicensingNext

\* What the checker says of a key, when the key has at most one licence.
LEMMA CheckerIsRight ==
  ASSUME LicensingIInv, NEW k \in LicenceKeys, NEW hz \in Hertz, NEW dbm \in PowerLevels
  PROVE  LET allowed == Violations(k, hz, dbm) = {}
             report == ComplianceReport(k[1])
             taken == {[key |-> k, license |-> l, since |-> licence_now] : l \in get_license(k)}
         IN  /\ allowed <=> InBand(k[2], hz) /\ \E t \in taken : Accepts(t, dbm, FALSE, FALSE)
             /\ allowed /\ (\A t \in taken : t.license.dated) => report.valid > 0
             /\ report.compliant => \A t \in taken : t.license.dated => t.license.valid_until > licence_now
<1> DEFINE allowed == Violations(k, hz, dbm) = {}
           report == ComplianceReport(k[1])
           taken == {[key |-> k, license |-> l, since |-> licence_now] : l \in get_license(k)}
           keys == get_holder_licenses(k[1])
           valid == {x \in keys : TRUE \in check_license_validity(x)}
           expired == {x \in keys : FALSE \in check_license_validity(x)}
<1>1. allowed <=> /\ InBand(k[2], hz) /\ get_license(k) # {}
                  /\ \A l \in get_license(k) : is_valid(l) /\ power_allowed(l, dbm)
  <2>1. allowed => \A v \in {"MissingLicense", "ExpiredLicense", "PowerExceedsLimit", "FrequencyOutsideBand"} :
                     v \notin Violations(k, hz, dbm)
    OBVIOUS
  <2> QED BY <2>1 DEF Violations
<1>2. \A l, m \in get_license(k) : l = m
  BY DEF LicensingIInv, get_license
<1>3. \A t : t \in taken <=> \E l \in get_license(k) : t = [key |-> k, license |-> l, since |-> licence_now]
  OBVIOUS
<1>4. allowed <=> InBand(k[2], hz) /\ \E t \in taken : Accepts(t, dbm, FALSE, FALSE)
  <2>1. ASSUME NEW l \in get_license(k)
        PROVE  /\ [key |-> k, license |-> l, since |-> licence_now] \in taken
               /\ Accepts([key |-> k, license |-> l, since |-> licence_now], dbm, FALSE, FALSE)
                  <=> is_valid(l) /\ power_allowed(l, dbm)
    BY DEF Accepts
  <2> QED BY <1>1, <1>2, <1>3, <2>1
<1>5. get_license(k) # {} => k \in keys
  BY DEF get_holder_licenses, get_license
<1>6. /\ report.valid = Cardinality(valid)
      /\ report.compliant = (keys # {} /\ expired = {} /\ valid # {})
  BY DEF ComplianceReport
<1>7. IsFiniteSet(valid)
  <2>1. valid \in SUBSET KeysInUse
    BY DEF get_holder_licenses, KeysInUse
  <2> QED BY <2>1, FS_Subset DEF LicensingIInv
<1>8. ASSUME allowed, \A t \in taken : t.license.dated PROVE report.valid > 0
  <2>1. PICK l \in get_license(k) : is_valid(l)
    BY <1>1, <1>8
  <2>2. l.valid_until > licence_now
    BY <2>1 DEF is_valid
  <2>3. TRUE \in check_license_validity(k)
    <3> DEFINE t == [key |-> k, license |-> l, since |-> licence_now]
    <3>2. t \in taken /\ t.license = l
      BY <1>3, <2>1
    <3> HIDE DEF t, taken
    <3>1. l.dated
      BY <1>8, <3>2
    <3> QED BY <2>1, <2>2, <3>1 DEF check_license_validity, get_license
  <2>4. valid # {}
    BY <1>5, <2>1, <2>3
  <2> HIDE DEF valid
  <2>5. Cardinality(valid) \in Nat /\ Cardinality(valid) # 0
    BY <1>7, <2>4, FS_CardinalityType, FS_EmptySet
  <2> QED BY <1>6, <2>5
<1>9. ASSUME report.compliant, NEW l \in get_license(k), l.dated PROVE l.valid_until > licence_now
  <2>1. k \notin expired /\ k \in keys
    BY <1>5, <1>6, <1>9
  <2>2. FALSE \notin check_license_validity(k)
    BY <2>1
  <2>3. (l.valid_until > licence_now) \in check_license_validity(k)
    BY <1>9, Zenon DEF check_license_validity, get_license
  <2>4. (l.valid_until > licence_now) \in BOOLEAN
    OBVIOUS
  <2> QED BY <2>2, <2>3, <2>4, Zenon
<1>10. report.compliant => \A t \in taken : t.license.dated => t.license.valid_until > licence_now
  BY <1>3, <1>9
<1> QED BY <1>4, <1>8, <1>10

\* Whatever happened to the store since a licence was taken out, no transmission is
\* made without one in force, and what the checker permits is what would be sent.
THEOREM LicensingStaysSound == LicensingSpec => []LicensingIsSound
<1>1. LicensingIInv => LicensingIsSound
  BY CheckerIsRight DEF LicensingIsSound, CheckerAgrees, LicensingIInv
<1> QED BY <1>1, InitLicensing, NextLicensing, PTL DEF LicensingSpec

-----------------------------------------------------------------------------
(* Types.                                                                    *)

\* The state of each part has its type: scores stay within 0.0 and 1.0, histories
\* within their bound, schedules with the stations they are of, and a key has one
\* licence at most.
THEOREM FederationTypeCorrect ==
  TrustSpec /\ SpectrumSpec /\ LogSpec /\ LicensingSpec => []FederationTypeOK
<1>1. TrustIInv => TrustTypeOK
  BY DEF TrustIInv, TrustTypeOK, PeerRecord, Histories, Known
<1>2. SpectrumIInv => SpectrumTypeOK
  <2> SUFFICES ASSUME SpectrumIInv PROVE SpectrumTypeOK
    OBVIOUS
  <2>1. ASSUME NEW sp \in Pairs PROVE active_conflicts[sp] \subseteq Entries \X Entries
    <3>1. Own(sp[1]) \subseteq Entries /\ Own(sp[2]) \subseteq Entries
      BY OwnEntries DEF Pairs
    <3> QED BY <3>1 DEF SpectrumIInv, RealConflict
  <2>2. \A m \in messages : <<m.from, m.to>> \in Pairs
    BY DEF SpectrumIInv, MessageIsSound, Pairs
  <2> QED BY <2>1, <2>2 DEF SpectrumIInv, SpectrumTypeOK
<1>3. LogIInv => LogTypeOK
  BY DEF LogIInv
<1>4. LicensingIInv => LicensingTypeOK
  BY AtMostOne DEF LicensingIInv, LicensingTypeOK
<1>5. TrustIInv /\ SpectrumIInv /\ LogIInv /\ LicensingIInv => FederationTypeOK
  BY <1>1, <1>2, <1>3, <1>4 DEF FederationTypeOK
<1> QED BY <1>5, InitTrust, NextTrust, InitSpectrum, NextSpectrum, InitLog, NextLog,
           InitLicensing, NextLicensing, PTL DEF TrustSpec, SpectrumSpec, LogSpec, LicensingSpec

=============================================================================
