---------------------------- MODULE BitemporalLog ----------------------------
(***************************************************************************)
(* The hash-chained log of a station, bitemporal/src/log.rs, and the       *)
(* snapshots taken of a pass's entries, bitemporal/src/snapshot.rs; then   *)
(* the provenance chains of passes, bitemporal/src/provenance.rs.          *)
(*                                                                         *)
(* A hash covers everything in an entry, its random identifier too: the    *)
(* hash stands for both.  Callers build entries themselves, with the       *)
(* previous hash they have seen last, which is stale when another entry    *)
(* was appended meanwhile.                                                 *)
(***************************************************************************)
EXTENDS Integers, Sequences, FiniteSets, SequencesExt

CONSTANTS
  Hashes,
  Passes,
  Times,          \* reception times
  NoHash,         \* None of a previous hash
  MaxEntries,     \* bound on the entries of the log
  max_snapshots

ASSUME LogAssumption ==
  /\ Times \subseteq Nat
  /\ NoHash \notin Hashes
  /\ MaxEntries \in Nat
  /\ max_snapshots \in Nat \ {0}

VARIABLES
  log,            \* the entries, in the order they were appended
  pass_entries,   \* the entry identifiers of each pass
  latest_hash,
  snapshots,      \* SnapshotManager.snapshots: [pass, entries], oldest first
  snapshot_due    \* has snapshot_interval_sec passed since the last one?

logVars == <<log, pass_entries, latest_hash, snapshots, snapshot_due>>

LogEntry ==
  [hash : Hashes, pass : Passes, reception : Times, previous : Hashes \cup {NoHash}]

LogInit ==
  /\ log = <<>>
  /\ pass_entries = [p \in Passes |-> <<>>]
  /\ latest_hash = NoHash
  /\ snapshots = <<>>
  /\ snapshot_due = TRUE

-----------------------------------------------------------------------------
(* BitemporalLog *)

\* A new entry: its hash is one that no entry has had.
Fresh(e) == \A i \in DOMAIN log : log[i].hash # e.hash

AppendsAfterAny(e) ==
  latest_hash # NoHash => \E i \in DOMAIN log : e.previous = log[i].hash

\* The chain check of append(): nothing is asked of the first entry.
Appends(e) == latest_hash # NoHash => e.previous = latest_hash

\* append()
AppendEntry(e) ==
  /\ Len(log) < MaxEntries
  /\ Fresh(e)
  /\ Appends(e)
  /\ log' = Append(log, e)
  /\ pass_entries' = [pass_entries EXCEPT ![e.pass] = Append(@, e.hash)]
  /\ latest_hash' = e.hash
  /\ UNCHANGED <<snapshots, snapshot_due>>

\* The orders sort_by_key() may leave the entries of the map in: by reception
\* time, and in any order where two have the same.
SortedOrders ==
  {order \in SetToSeqs(DOMAIN log) :
     \A i, j \in DOMAIN order :
       i < j => log[order[i]].reception <= log[order[j]].reception}

\* verify_chain(), the entries being in that order
Verifies(order) ==
  \A i \in DOMAIN order :
    log[order[i]].previous = IF i = 1 THEN NoHash ELSE log[order[i - 1]].hash

-----------------------------------------------------------------------------
(* SnapshotManager *)

AddSnapshotInFront(snapshot) ==
  IF Len(snapshots) < max_snapshots THEN Append(snapshots, snapshot)
  ELSE <<snapshot>> \o Tail(snapshots)

\* add_snapshot(): the oldest go while there are too many.
AddSnapshot(snapshot) ==
  LET all == Append(snapshots, snapshot) IN
  IF Len(all) > max_snapshots THEN Tail(all) ELSE all

\* snapshot_if_needed() on get_pass_entries()
SnapshotIfNeeded(p) ==
  /\ snapshot_due
  /\ snapshots' = AddSnapshot([pass |-> p, entries |-> pass_entries[p]])
  /\ snapshot_due' = FALSE
  /\ UNCHANGED <<log, pass_entries, latest_hash>>

\* snapshot_interval_sec pass: should_snapshot().
IntervalElapses ==
  /\ ~ snapshot_due
  /\ snapshot_due' = TRUE
  /\ UNCHANGED <<log, pass_entries, latest_hash, snapshots>>

\* prune_older_than(): the oldest n are older than the threshold.
PruneOlderThan(n) ==
  /\ snapshots' = SubSeq(snapshots, n + 1, Len(snapshots))
  /\ UNCHANGED <<log, pass_entries, latest_hash, snapshot_due>>

LogNext ==
  \/ \E e \in LogEntry : AppendEntry(e)
  \/ \E p \in Passes : SnapshotIfNeeded(p)
  \/ IntervalElapses
  \/ \E n \in 1..Len(snapshots) : PruneOlderThan(n)

LogSpec == LogInit /\ [][LogNext]_logVars

-----------------------------------------------------------------------------
(* Properties *)

\* Every field of the log and of the snapshot manager has its type.
LogTypeOK ==
  /\ log \in Seq(LogEntry)
  /\ pass_entries \in [Passes -> Seq(Hashes)]
  /\ latest_hash \in Hashes \cup {NoHash}
  /\ Len(snapshots) <= max_snapshots

\* However callers race with stale previous hashes, the log is one line of
\* entries: each names the one appended before it, and latest_hash the last.
NoForkNoGap ==
  /\ \A i \in 2..Len(log) : log[i].previous = log[i - 1].hash
  /\ latest_hash = IF log = <<>> THEN NoHash ELSE log[Len(log)].hash

\* verify_chain() accepts a log only in the order it was appended in, from an
\* entry without predecessor on; and it accepts every such log whose reception
\* times increase.
VerifiesInOrder ==
  /\ \A order \in SortedOrders : Verifies(order) =>
       order = [i \in DOMAIN log |-> i] /\ (log # <<>> => log[1].previous = NoHash)
  /\ (\A i \in DOMAIN log : IF i = 1 THEN log[i].previous = NoHash
                                     ELSE log[i - 1].reception < log[i].reception)
     => \A order \in SortedOrders : Verifies(order)

\* get_pass_entries() returns exactly the entries of the pass, in their order.
PassIndexIsComplete ==
  \A p \in Passes :
    /\ {pass_entries[p][k] : k \in DOMAIN pass_entries[p]}
         = {log[i].hash : i \in {i \in DOMAIN log : log[i].pass = p}}
    /\ \A k, l \in DOMAIN pass_entries[p] : \A i, j \in DOMAIN log :
         pass_entries[p][k] = log[i].hash /\ pass_entries[p][l] = log[j].hash
         => (k < l <=> i < j)

\* Snapshots of a pass are states it went through, in order: the later one extends
\* the earlier, whatever was pruned or evicted, so that a time-travel query
\* never goes back in time.
SnapshotsExtendEachOther ==
  \A i, j \in DOMAIN snapshots :
    i < j /\ snapshots[i].pass = snapshots[j].pass
    => IsPrefix(snapshots[i].entries, snapshots[j].entries)

\* The log is one line that verify_chain() reads in its order and the index of
\* passes reads completely.
LogIsOneLine == NoForkNoGap /\ VerifiesInOrder /\ PassIndexIsComplete

-----------------------------------------------------------------------------
(***************************************************************************)
(* Provenance chains of passes, bitemporal/src/provenance.rs: the links    *)
(* from the satellite's emission to the customer's delivery, each naming   *)
(* the hash of the one before, and the comparison of two stations' chains  *)
(* of one satellite.  A link is what its hash covers; event times are      *)
(* counted in units of 50 ms, so 100 ms is a distance of two.              *)
(***************************************************************************)

CONSTANTS
  Holders,     \* stations that keep a chain of the pass
  LinkHashes,
  NoLink,      \* None of a previous hash
  EventTimes,
  MaxLinks     \* bound on the links of a chain

ASSUME ProvenanceAssumption ==
  /\ NoLink \notin LinkHashes
  /\ EventTimes \subseteq Nat
  /\ MaxLinks \in Nat

VARIABLE links  \* the links of each station's chain

provenanceVars == <<links>>

Link == [hash : LinkHashes, previous : LinkHashes \cup {NoLink}, event : EventTimes]

ProvenanceInit == links = [h \in Holders |-> <<>>]

LinksUnchecked(h, link) == TRUE

\* The chain check of add_link(): nothing is asked of the first link.
LinksOn(h, link) == links[h] # <<>> => link.previous = links[h][Len(links[h])].hash

\* add_link()
AddLink(h, link) ==
  /\ Len(links[h]) < MaxLinks
  /\ \A i \in DOMAIN links[h] : links[h][i].hash # link.hash
  /\ LinksOn(h, link)
  /\ links' = [links EXCEPT ![h] = Append(@, link)]

\* verify(); the chain hash always agrees, for add_link() recomputes it.
Verify(h) ==
  \A i \in DOMAIN links[h] :
    links[h][i].previous = IF i = 1 THEN NoLink ELSE links[h][i - 1].hash

\* Event times within 100 ms of each other
Near(t, u) == t - u < 2 /\ u - t < 2

\* The pairs of links that cross_verify_chains() counts.
Matched(h, k) ==
  {ij \in (DOMAIN links[h]) \X (DOMAIN links[k]) :
     Near(links[h][ij[1]].event, links[k][ij[2]].event)}

\* cross_verify_chains() finds the chains consistent: a match rate above 0.8.
CrossVerify(h, k) ==
  /\ Verify(h) /\ Verify(k)
  /\ 10 * 2 * Cardinality(Matched(h, k)) > 8 * (Len(links[h]) + Len(links[k]))

ProvenanceNext == \E h \in Holders, link \in Link : AddLink(h, link)

ProvenanceSpec == ProvenanceInit /\ [][ProvenanceNext]_provenanceVars

-----------------------------------------------------------------------------
(* Properties *)

\* What add_link() accepts on top of a first link without predecessor is what
\* verify() accepts later: a chain never turns invalid by growing, and one that
\* began with a dangling first link never becomes valid.
VerifyIffRooted ==
  \A h \in Holders :
    Verify(h) <=> (links[h] # <<>> => links[h][1].previous = NoLink)

\* Chains that two stations find consistent have an event in common, and neither is empty
\* or unrooted; the verdict is the same whichever station asks.
CrossVerificationIsSound ==
  \A h, k \in Holders :
    CrossVerify(h, k) =>
      /\ CrossVerify(k, h)
      /\ links[h] # <<>> /\ links[h][1].previous = NoLink
      /\ Matched(h, k) # {}

\* verify() and cross_verify() accept rooted chains only, and the latter only
\* chains with events in common.
ChainsAreSound == VerifyIffRooted /\ CrossVerificationIsSound

==============================================================================
