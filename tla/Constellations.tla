--------------------------- MODULE Constellations ---------------------------
(***************************************************************************)
(* A constellation (constellation/src/manager.rs and satellite.rs): the    *)
(* orbital elements of its satellites and the SGP4 constants computed from *)
(* them, through refreshes that fail for some satellites and through a     *)
(* save and load, which keeps the elements only; and the prediction of the *)
(* passes over a station (pass.rs), sample by sample.                      *)
(*                                                                         *)
(* Elements are known by their epoch.  The time counts half hours, so that *)
(* what num_hours() cuts off is seen.  Where a satellite stands above the  *)
(* horizon at each sample is an input of the prediction.                   *)
(***************************************************************************)
EXTENDS Integers, Sequences, FiniteSets, FiniteSetsExt

CONSTANTS
  Birds,                      \* satellites
  Epochs, Unusable,           \* of the elements offered, and those SGP4 refuses
  max_age_hours,
  MaxOrbitTime,               \* bound on the clock
  Elevations, min_elevation,  \* of the samples, and of the station
  Ranges, MaxSamples, StepSizes

ASSUME ConstellationAssumption ==
  /\ Epochs \subseteq Nat /\ Unusable \subseteq Epochs
  /\ {max_age_hours, MaxOrbitTime, MaxSamples} \subseteq Nat
  /\ StepSizes \subseteq Nat \ {0} /\ Elevations \subseteq Int /\ Ranges \subseteq Int
  /\ min_elevation \in Int

VARIABLES
  birds,   \* the elements and the constants of each satellite of the constellation
  snapshot,     \* the last one propagate() returned
  orbit_now,
  samples,      \* the orbital states predict_passes() was given
  scan,         \* its loop: the next sample and its local variables
  passes        \* those it has found

orbitalVars == <<birds, snapshot, orbit_now>>
predictionVars == <<samples, scan, passes>>
constellationStateVars == <<orbitalVars, predictionVars>>

NotScanning == [at |-> 0, in_pass |-> FALSE, rise |-> 0, best |-> 0, best_time |-> 0, range |-> 0]

ConstellationInit ==
  /\ birds = << >>
  /\ snapshot = << >>
  /\ orbit_now = 0
  /\ samples = <<>>
  /\ scan = NotScanning
  /\ passes = <<>>

-----------------------------------------------------------------------------
(* Satellites and their constants *)

\* from_tle() and add_satellite()
AddBird(b, epoch) ==
  /\ birds' = [x \in DOMAIN birds \cup {b} |->
                      IF x = b THEN [epoch |-> epoch, constants |-> {}] ELSE birds[x]]
  /\ UNCHANGED <<snapshot, orbit_now>>

RemoveBird(b) ==
  /\ b \in DOMAIN birds
  /\ birds' = [x \in DOMAIN birds \ {b} |-> birds[x]]
  /\ UNCHANGED <<snapshot, orbit_now>>

\* initialize_constants() of a satellite whose elements SGP4 takes
InitializeConstants(b) == [birds[b] EXCEPT !.constants = {birds[b].epoch}]

\* initialize_all(): in the order of the map, up to the first satellite whose
\* elements are refused; done are those before it.
InitializeAll(done) ==
  /\ done \subseteq DOMAIN birds
  /\ \A b \in done : birds[b].epoch \notin Unusable
  /\ done # DOMAIN birds => \E b \in DOMAIN birds \ done : birds[b].epoch \in Unusable
  /\ birds' = [b \in DOMAIN birds |-> IF b \in done THEN InitializeConstants(b) ELSE birds[b]]
  /\ UNCHANGED <<snapshot, orbit_now>>

\* propagate() of a satellite: the state is made with the constants and stamped
\* with the epoch of the elements.
StateOf(b) == [from |-> CHOOSE c \in birds[b].constants : TRUE, tle_epoch |-> birds[b].epoch,
               time |-> orbit_now]

\* propagate() of the constellation: all of it or an error
Propagate ==
  /\ \A b \in DOMAIN birds : birds[b].constants # {}
  /\ snapshot' = [b \in DOMAIN birds |-> StateOf(b)]
  /\ UNCHANGED <<birds, orbit_now>>

needs_refresh(b) == (orbit_now - birds[b].epoch) \div 2 > max_age_hours

\* refresh_tle() with elements that parse; the constants are dropped
RefreshTle(b, epoch) == [epoch |-> epoch, constants |-> {}]

\* batch_refresh(): the satellites too old are refreshed one by one; of those not
\* in fetched, the fetch or the parsing failed, and they are left as they are.
BatchRefreshTles(fetched, epoch) ==
  /\ fetched \subseteq {b \in DOMAIN birds : needs_refresh(b)}
  /\ fetched # {}
  /\ birds' = [b \in DOMAIN birds |-> IF b \in fetched THEN RefreshTle(b, epoch) ELSE birds[b]]
  /\ UNCHANGED <<snapshot, orbit_now>>

\* The constellation is saved and loaded: the constants are not serialized.
SaveAndLoad ==
  /\ birds' = [b \in DOMAIN birds |-> [birds[b] EXCEPT !.constants = {}]]
  /\ UNCHANGED <<snapshot, orbit_now>>

OrbitTimePasses == orbit_now < MaxOrbitTime /\ orbit_now' = orbit_now + 1 /\ UNCHANGED <<birds, snapshot>>

OrbitalNext ==
  \/ \E b \in Birds, epoch \in Epochs : epoch <= orbit_now /\ AddBird(b, epoch)
  \/ \E b \in Birds : RemoveBird(b)
  \/ \E done \in SUBSET Birds : InitializeAll(done)
  \/ Propagate
  \/ \E fetched \in SUBSET Birds, epoch \in Epochs : epoch <= orbit_now /\ BatchRefreshTles(fetched, epoch)
  \/ SaveAndLoad
  \/ OrbitTimePasses

-----------------------------------------------------------------------------
(* predict_passes() *)

\* predict_all_passes() takes the states at every step from the start; the end
\* may fall between two steps.
PredictPasses(elevations, ranges, step) ==
  /\ scan.at = 0
  /\ samples' = [i \in DOMAIN elevations |->
                   [time |-> (i - 1) * step, elevation |-> elevations[i], range |-> ranges[i]]]
  /\ scan' = [NotScanning EXCEPT !.at = 1]
  /\ passes' = <<>>

Current == samples[scan.at]
Visible(s) == s.elevation >= min_elevation
Scanning == scan.at \in DOMAIN samples

\* The pass is closed at the time given, with what the loop has gathered.
Closed(set_time) ==
  [rise_time |-> scan.rise, set_time |-> set_time, max_elevation |-> scan.best,
   max_elevation_time |-> scan.best_time, max_range |-> scan.range]

\* A start that keeps the maximum of the pass before
StartWithOldMaximum ==
  /\ Scanning /\ Visible(Current) /\ ~scan.in_pass
  /\ scan' = [scan EXCEPT !.at = @ + 1, !.in_pass = TRUE, !.rise = Current.time,
                          !.best = IF Current.elevation > @ THEN Current.elevation ELSE @,
                          !.best_time = Current.time, !.range = Current.range]
  /\ UNCHANGED <<samples, passes>>

PassStarts ==
  /\ Scanning /\ Visible(Current) /\ ~scan.in_pass
  /\ scan' = [at |-> scan.at + 1, in_pass |-> TRUE, rise |-> Current.time, best |-> Current.elevation,
              best_time |-> Current.time, range |-> Current.range]
  /\ UNCHANGED <<samples, passes>>

PassContinues ==
  /\ Scanning /\ Visible(Current) /\ scan.in_pass
  /\ LET higher == Current.elevation > scan.best IN
     scan' = [scan EXCEPT !.at = @ + 1,
                          !.best = IF higher THEN Current.elevation ELSE @,
                          !.best_time = IF higher THEN Current.time ELSE @,
                          !.range = IF Current.range > @ THEN Current.range ELSE @]
  /\ UNCHANGED <<samples, passes>>

PassEnds ==
  /\ Scanning /\ ~Visible(Current)
  /\ scan' = [scan EXCEPT !.at = @ + 1, !.in_pass = FALSE]
  /\ passes' = IF scan.in_pass THEN Append(passes, Closed(Current.time)) ELSE passes
  /\ UNCHANGED samples

\* After the loop: a pass that is still open ends with the last sample.
PredictionReturns ==
  /\ scan.at = Len(samples) + 1
  /\ scan' = [scan EXCEPT !.at = Len(samples) + 2, !.in_pass = FALSE]
  /\ passes' = IF scan.in_pass THEN Append(passes, Closed(samples[Len(samples)].time)) ELSE passes
  /\ UNCHANGED samples

PredictionNext ==
  \/ \E n \in 0..MaxSamples, step \in StepSizes : \E e \in [1..n -> Elevations], r \in [1..n -> Ranges] :
       PredictPasses(e, r, step)
  \/ PassStarts
  \/ PassContinues
  \/ PassEnds
  \/ PredictionReturns

ConstellationNext ==
  \/ OrbitalNext /\ UNCHANGED predictionVars
  \/ PredictionNext /\ UNCHANGED orbitalVars

ConstellationSpec == ConstellationInit /\ [][ConstellationNext]_constellationStateVars

-----------------------------------------------------------------------------
(* What a constellation promises *)

ConstellationTypeOK ==
  /\ DOMAIN birds \subseteq Birds
  /\ \A b \in DOMAIN birds : birds[b].epoch \in Epochs /\ birds[b].constants \subseteq Epochs
  /\ DOMAIN snapshot \subseteq Birds
  /\ orbit_now \in 0..MaxOrbitTime
  /\ scan.at \in 0..(MaxSamples + 2) /\ scan.in_pass \in BOOLEAN

\* The constants of a satellite are those of its elements through additions,
\* refreshes that fail for some, and loads, so a state propagate() returned was
\* computed for the epoch it is stamped with; a snapshot has one time.
StatesMatchTheirEpoch ==
  /\ \A b \in DOMAIN birds : birds[b].constants \subseteq {birds[b].epoch} \ Unusable
  /\ \A b \in DOMAIN snapshot : snapshot[b].from = snapshot[b].tle_epoch
  /\ \A b, c \in DOMAIN snapshot : snapshot[b].time = snapshot[c].time

\* The samples from i to j are all those of one pass.
OnePassOf(i, j) ==
  /\ \A k \in i..j : Visible(samples[k])
  /\ i > 1 => ~Visible(samples[i - 1])
  /\ j < Len(samples) => ~Visible(samples[j + 1])

Stretches == {ij \in (DOMAIN samples) \X (DOMAIN samples) : ij[1] <= ij[2] /\ OnePassOf(ij[1], ij[2])}

\* The pass over the samples from i to j.
Highest(i, j) == Max({samples[k].elevation : k \in i..j})
PassOver(i, j) ==
  [rise_time |-> samples[i].time,
   set_time |-> samples[IF j < Len(samples) THEN j + 1 ELSE j].time,
   max_elevation |-> Highest(i, j),
   max_elevation_time |-> Min({samples[k].time : k \in {k \in i..j : samples[k].elevation = Highest(i, j)}}),
   max_range |-> Max({samples[k].range : k \in i..j})]

\* predict_passes() returns the stretches of visible samples, each once and in
\* order: from the first visible sample to the first that is not, or to the last
\* sample there is, with the highest elevation, when it was first reached, and
\* the greatest range.
PredictionIsExact ==
  scan.at = Len(samples) + 2 =>
    /\ {passes[n] : n \in DOMAIN passes} = {PassOver(ij[1], ij[2]) : ij \in Stretches}
    /\ \A n \in 2..Len(passes) : passes[n - 1].set_time < passes[n].rise_time

\* The states of a constellation match their epoch, and its passes are predicted exactly.
ConstellationIsSound == StatesMatchTheirEpoch /\ PredictionIsExact

=============================================================================
