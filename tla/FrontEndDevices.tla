--------------------------- MODULE FrontEndDevices ---------------------------
(***************************************************************************)
(* The devices of the RF front end themselves (rf-front-end/src/device.rs, *)
(* switch.rs, filter.rs, amplifier.rs, attenuator.rs).  A method that      *)
(* takes &mut self has the device to itself; those that take &self overlap *)
(* with each other between two of their locks: the temperature updates and *)
(* the state report of an amplifier, the look-up in a filter bank and the  *)
(* addition of a filter.  Frequencies, levels and temperatures are         *)
(* integers; a quotient is a pair <<numerator, denominator>>.  The code    *)
(* computes in f64: where the last digit decides (a level half-way between *)
(* two steps, a control word cut to an integer) the model takes every      *)
(* outcome, and elsewhere a level is meant up to that digit.               *)
(***************************************************************************)
EXTENDS Integers, Sequences, FiniteSets

CONSTANTS
  SwitchPositions, NumSwitches,        \* available_positions, the first of them 1
  FilterIds, FilterSpecs,              \* what add_filter() may be given
  Frequencies, yig_min, yig_max,       \* YigTunedFilter::new()
  Updaters, Temperatures, max_temperature,
  gain_range, Gains,                   \* of MiniCircuitsAmplifier, and those asked for
  num_bits, AttenuatorLimit, OddStep,  \* DigitalStepAttenuator::new(), VariableAttenuator::new()
  Levels, CalibrationPoints, MaxPoints,
  MaxDeviceCalls                       \* bound on the calls made

ASSUME FrontEndAssumption ==
  /\ {NumSwitches, yig_min, yig_max, num_bits, MaxPoints, MaxDeviceCalls} \subseteq Nat
  /\ yig_min < yig_max /\ 1 \in SwitchPositions
  /\ OddStep \in Nat \ {0} /\ AttenuatorLimit \in Nat \ {0}
  /\ 2 ^ num_bits \in Nat \ {0}  \* which no prover here derives from num_bits \in Nat
  /\ AttenuatorLimit % 2 ^ num_bits = 0  \* the unit: a power of two divides an f64 exactly
  /\ Levels \subseteq Int
  /\ \A point \in CalibrationPoints : point.commanded \in Int /\ point.actual \in Int
  /\ \A f \in FilterSpecs : f.min \subseteq Frequencies /\ f.max \subseteq Frequencies

VARIABLES
  device,                       \* GenericRfDevice
  switch,                       \* GenericRfSwitch
  bank, lookup, tuned,          \* FilterBank, get_current_filter(), the last tuning accepted
  yig,                          \* YigTunedFilter
  amplifier, update, reading,   \* GenericAmplifier, its updates and its report under way
  imposed,                      \* what new() or set_state() imposed and nothing has judged since
  attenuator, asked,            \* VariableAttenuator, the level last asked for and accepted
  device_calls

filterVars == <<bank, lookup, tuned>>
amplifierVars == <<amplifier, update, reading, imposed>>
attenuatorVars == <<attenuator, asked>>
frontEndVars == <<device, switch, filterVars, yig, amplifierVars, attenuatorVars, device_calls>>

Called == device_calls < MaxDeviceCalls /\ device_calls' = device_calls + 1

None == {}                      \* an Option is a set of at most one element
NoReport == [status |-> None, temperature |-> None, fault |-> None, imposed |-> FALSE]

AmplifierStatus == {"Idle", "Active", "Overheating"}

FrontEndInit ==
  /\ device = [enabled |-> FALSE, fault |-> FALSE, temperature |-> None]
  /\ switch = [enabled |-> FALSE, position |-> 1, states |-> [i \in 1..NumSwitches |-> "Open"]]
  /\ bank = [enabled |-> FALSE, current |-> None, filters |-> << >>]
  /\ lookup = [at |-> "idle", of |-> None, answer |-> None]
  /\ tuned = None
  /\ yig = [enabled |-> FALSE, frequency |-> yig_min, voltage |-> <<0, 1>>]
  /\ amplifier = [enabled |-> FALSE, fault |-> FALSE, temperature |-> 25, gain |-> 0, status |-> "Idle"]
  /\ update = [u \in Updaters |-> "idle"]
  /\ reading = [at |-> "idle", report |-> NoReport]
  /\ imposed = [temperature |-> TRUE, status |-> FALSE]
  /\ \E step \in {AttenuatorLimit \div 2 ^ num_bits, OddStep} :
       attenuator = [enabled |-> FALSE, current |-> 0, step |-> step, table |-> <<>>]
  /\ asked = 0
  /\ device_calls = 0

-----------------------------------------------------------------------------
(* GenericRfDevice *)

EnableDevice == Called /\ ~device.fault /\ device' = [device EXCEPT !.enabled = TRUE]
DisableDevice == Called /\ device' = [device EXCEPT !.enabled = FALSE]
ImposeDevice(on, fault, temperature) ==
  Called /\ device' = [enabled |-> on, fault |-> fault, temperature |-> temperature]

DeviceNext ==
  \/ EnableDevice
  \/ DisableDevice
  \/ \E on, fault \in BOOLEAN, t \in Temperatures : ImposeDevice(on, fault, {t})

-----------------------------------------------------------------------------
(* GenericRfSwitch, and the transmit/receive and polarization switches over it *)

\* enable(), disable() and set_state(), which all set the flag and nothing else
EnableSwitch(on) == Called /\ switch' = [switch EXCEPT !.enabled = on]

\* set_position(): refused while disabled and for a position the switch lacks
SetPosition(p) ==
  /\ Called /\ switch.enabled /\ p \in SwitchPositions
  /\ switch' = [switch EXCEPT !.position = p]

set_switch_state(i, state) ==
  /\ Called /\ switch.enabled /\ i \in DOMAIN switch.states
  /\ switch' = [switch EXCEPT !.states[i] = state]

SwitchTo == [transmit |-> 1, receive |-> 2]
PolarizeTo == [lhcp |-> 1, rhcp |-> 2, horizontal |-> 1, vertical |-> 2]

\* The two switches pass every other call on to the generic one they hold.
TransmitReceive(mode) == SetPosition(SwitchTo[mode])
Polarize(mode) == SetPosition(PolarizeTo[mode])

is_transmit == switch.position = SwitchTo["transmit"]
is_receive == switch.position = SwitchTo["receive"]

SwitchNext ==
  \/ \E on \in BOOLEAN : EnableSwitch(on)
  \/ \E mode \in DOMAIN SwitchTo : TransmitReceive(mode)
  \/ \E mode \in DOMAIN PolarizeTo : Polarize(mode)
  \/ \E i \in 1..(NumSwitches + 1), state \in {"Open", "Closed"} : set_switch_state(i, state)

-----------------------------------------------------------------------------
(* FilterBank.  add_filter_internal() and get_current_filter() may overlap;  *)
(* the others have the bank to themselves.                                   *)

Alone == lookup.at # "found"    \* no look-up is between its two locks

EnableBank(on) == Called /\ Alone /\ bank' = [bank EXCEPT !.enabled = on] /\ UNCHANGED <<lookup, tuned>>

\* add_filter_internal(), and add_filter() which does the same: an id the bank
\* has gets the new specification.
AddFilter(id, spec) ==
  /\ Called
  /\ bank' = [bank EXCEPT !.filters =
                 [x \in DOMAIN bank.filters \cup {id} |-> IF x = id THEN spec ELSE bank.filters[x]]]
  /\ UNCHANGED <<lookup, tuned>>

SelectFilter(id) ==
  /\ Called /\ Alone /\ bank.enabled /\ id \in DOMAIN bank.filters
  /\ bank' = [bank EXCEPT !.current = {id}]
  /\ UNCHANGED <<lookup, tuned>>

\* tune_filter(), which does not ask whether the bank is enabled.  Nothing is
\* kept of the frequency: tuned is what the hardware was told.
TuneFilter(frequency) ==
  /\ Called /\ Alone
  /\ \E id \in bank.current \cap DOMAIN bank.filters :
       LET filter == bank.filters[id] IN
       /\ filter.tunable
       /\ \A min \in filter.min : frequency >= min
       /\ \A max \in filter.max : frequency <= max
       /\ tuned' = {[id |-> id, frequency |-> frequency]}
  /\ UNCHANGED <<bank, lookup>>

RemoveFilter(id) ==
  /\ Called /\ Alone
  /\ bank' = [bank EXCEPT !.filters = [x \in DOMAIN bank.filters \ {id} |-> bank.filters[x]],
                          !.current = @ \ {id}]
  /\ UNCHANGED <<lookup, tuned>>

\* get_current_filter(): the id under one lock, the specification under the next
LookUpCurrent ==
  /\ Called /\ Alone
  /\ lookup' = IF bank.current = None THEN [at |-> "none selected", of |-> None, answer |-> None]
               ELSE [at |-> "found", of |-> bank.current, answer |-> None]
  /\ UNCHANGED <<bank, tuned>>

LookUpSpec ==
  /\ lookup.at = "found"
  /\ lookup' = [at |-> "answered", of |-> lookup.of,
                answer |-> {bank.filters[id] : id \in lookup.of \cap DOMAIN bank.filters}]
  /\ UNCHANGED <<bank, tuned, device_calls>>

BankNext ==
  \/ \E on \in BOOLEAN : EnableBank(on)
  \/ \E id \in FilterIds, spec \in FilterSpecs : AddFilter(id, spec)
  \/ \E id \in FilterIds : SelectFilter(id)
  \/ \E frequency \in Frequencies : TuneFilter(frequency)
  \/ \E id \in FilterIds : RemoveFilter(id)
  \/ LookUpCurrent
  \/ LookUpSpec

-----------------------------------------------------------------------------
(* YigTunedFilter: add_filter(), select_filter() and remove_filter() are errors. *)

EnableYig(on) == Called /\ yig' = [yig EXCEPT !.enabled = on]

\* tune_filter(): ten volts over the range of the filter
TuneYig(frequency) ==
  /\ Called /\ yig.enabled /\ frequency \in yig_min..yig_max
  /\ yig' = [yig EXCEPT !.frequency = frequency,
                        !.voltage = <<10 * (frequency - yig_min), yig_max - yig_min>>]

YigNext ==
  \/ \E on \in BOOLEAN : EnableYig(on)
  \/ \E frequency \in Frequencies : TuneYig(frequency)

-----------------------------------------------------------------------------
(* GenericAmplifier.  update_temperature() and get_state() take &self: they  *)
(* overlap with each other and with nothing else.                            *)

Exclusive == reading.at = "idle" /\ \A u \in Updaters : update[u] = "idle"

\* update_temperature(): the temperature under its own lock, the check after it
WriteTemperature(u, t) ==
  /\ Called /\ update[u] = "idle"
  /\ amplifier' = [amplifier EXCEPT !.temperature = t]
  /\ update' = [update EXCEPT ![u] = "written"]
  /\ imposed' = [imposed EXCEPT !.temperature = FALSE]
  /\ UNCHANGED reading

\* The check with a strict comparison: an amplifier at its limit goes on.
CheckAboveOnly(u) ==
  /\ update[u] = "written"
  /\ update' = [update EXCEPT ![u] = IF amplifier.temperature > max_temperature THEN "tripped" ELSE "idle"]
  /\ amplifier' = [amplifier EXCEPT !.fault = @ \/ amplifier.temperature > max_temperature]
  /\ UNCHANGED <<reading, imposed, device_calls>>

\* check_thermal_protection(), up to its write of the status; thermal protection
\* is on from new() and nothing turns it off.
CheckThermalProtection(u) ==
  /\ update[u] = "written"
  /\ update' = [update EXCEPT ![u] = IF amplifier.temperature >= max_temperature THEN "tripped" ELSE "idle"]
  /\ amplifier' = [amplifier EXCEPT !.fault = @ \/ amplifier.temperature >= max_temperature]
  /\ UNCHANGED <<reading, imposed, device_calls>>

\* Its write of the status, which waits for a report that holds the lock
Overheat(u) ==
  /\ update[u] = "tripped" /\ reading.at = "idle"
  /\ update' = [update EXCEPT ![u] = "idle"]
  /\ amplifier' = [amplifier EXCEPT !.status = "Overheating"]
  /\ imposed' = [imposed EXCEPT !.status = FALSE]
  /\ UNCHANGED <<reading, device_calls>>

\* get_state(): the status, whose lock is held to the end, then the temperature,
\* then the flags
ReadStatus ==
  /\ Called /\ reading.at = "idle"
  /\ reading' = [at |-> "status", report |-> [NoReport EXCEPT !.status = {amplifier.status},
                                                            !.imposed = imposed.status]]
  /\ UNCHANGED <<amplifier, update, imposed>>

ReadTemperature ==
  /\ reading.at = "status"
  /\ reading' = [at |-> "temperature",
                 report |-> [reading.report EXCEPT !.temperature = {amplifier.temperature}]]
  /\ UNCHANGED <<amplifier, update, imposed, device_calls>>

ReadFlags ==
  /\ reading.at = "temperature"
  /\ reading' = [at |-> "idle", report |-> [reading.report EXCEPT !.fault = {amplifier.fault}]]
  /\ UNCHANGED <<amplifier, update, imposed, device_calls>>

\* A new call makes the last report history.
Alters == Called /\ Exclusive /\ reading' = [reading EXCEPT !.report = NoReport] /\ UNCHANGED update

EnableAmplifier ==
  /\ Alters /\ ~amplifier.fault
  /\ amplifier' = [amplifier EXCEPT !.enabled = TRUE, !.status = "Active"]
  /\ imposed' = [imposed EXCEPT !.status = FALSE]

DisableAmplifier ==
  /\ Alters
  /\ amplifier' = [amplifier EXCEPT !.enabled = FALSE, !.status = "Idle"]
  /\ imposed' = [imposed EXCEPT !.status = FALSE]

\* set_state(): the flags and the temperature as told, the status left as it is
ImposeAmplifier(on, fault, temperature) ==
  /\ Alters
  /\ amplifier' = [amplifier EXCEPT !.enabled = on, !.fault = fault,
                                    !.temperature = IF temperature = None THEN @
                                                    ELSE CHOOSE t \in temperature : TRUE]
  /\ imposed' = [temperature |-> TRUE, status |-> TRUE]

\* set_gain() of a MiniCircuitsAmplifier, then of the generic one, to which it
\* passes every other call on
SetAmplifierGain(db) ==
  /\ Alters
  /\ db \in gain_range /\ db \in -20..60
  /\ amplifier.enabled /\ ~amplifier.fault
  /\ amplifier' = [amplifier EXCEPT !.gain = db]
  /\ UNCHANGED imposed

AmplifierNext ==
  \/ \E u \in Updaters, t \in Temperatures : WriteTemperature(u, t)
  \/ \E u \in Updaters : CheckThermalProtection(u)
  \/ \E u \in Updaters : Overheat(u)
  \/ ReadStatus
  \/ ReadTemperature
  \/ ReadFlags
  \/ EnableAmplifier
  \/ DisableAmplifier
  \/ \E on, fault \in BOOLEAN, t \in {None} \cup {{t} : t \in Temperatures} : ImposeAmplifier(on, fault, t)
  \/ \E db \in Gains : SetAmplifierGain(db)

-----------------------------------------------------------------------------
(* VariableAttenuator, and the digital step attenuator over it: the one of    *)
(* the step max_attenuation / 2 ^ num_bits, the other of any step.            *)

min_attenuation == 0
Words == 2 ^ num_bits

EnableAttenuator(on) ==
  Called /\ attenuator' = [attenuator EXCEPT !.enabled = on] /\ UNCHANGED asked

\* The multiple of the step nearest to a level, or the two it lies half-way between:
\* the quotient of two f64s falls on either side of a half.
Nearest(db) ==
  LET low == (db \div attenuator.step) * attenuator.step
  IN  {level \in {low, low + attenuator.step} : 2 * (level - db) \in (-attenuator.step)..attenuator.step}

\* set_attenuation()
Attenuate(db) ==
  /\ Called /\ attenuator.enabled
  /\ db >= min_attenuation /\ db <= AttenuatorLimit
  /\ \E level \in Nearest(db) : attenuator' = [attenuator EXCEPT !.current = level]
  /\ asked' = db

Increment(db) == Attenuate(attenuator.current + db)
Decrement(db) == Attenuate(attenuator.current - db)

\* The attenuator is a digital one, which passes the calls above on.
Digital == attenuator.step * Words = AttenuatorLimit

\* set_control_word() and what get_control_word() may return: it cuts the fraction
\* off a product that may be just below the word, though not at either end of the
\* scale, where the quotient is exact.
WordLevel(word) == (word * AttenuatorLimit) \div Words
SetControlWord(word) == Digital /\ word < Words /\ Attenuate(WordLevel(word))
ControlWords ==
  LET word == (attenuator.current * Words) \div AttenuatorLimit
  IN  IF word \in {0, Words} THEN {word} ELSE {word - 1, word}

AddCalibrationPoint(point) ==
  /\ Called /\ Len(attenuator.table) < MaxPoints
  /\ attenuator' = [attenuator EXCEPT !.table = Append(@, point)]
  /\ UNCHANGED asked

\* The index of the first point beyond a level, or one past the table's end
FirstAbove(table, db) ==
  CHOOSE i \in 1..(Len(table) + 1) :
    /\ i <= Len(table) => table[i].commanded > db
    /\ \A j \in 1..(i - 1) : table[j].commanded <= db

\* get_calibrated_attenuation(), as a quotient: between the first point above the
\* level and the one before it in the order of the table
get_calibrated_attenuation(table, db) ==
  LET i == FirstAbove(table, db) IN
  IF table = <<>> THEN <<db, 1>>
  ELSE IF i = 1 THEN <<table[1].actual, 1>>
  ELSE IF i > Len(table) THEN <<table[Len(table)].actual, 1>>
  ELSE LET lower == table[i - 1]
           upper == table[i]
           span == upper.commanded - lower.commanded
       IN  <<lower.actual * span + (db - lower.commanded) * (upper.actual - lower.actual), span>>

AttenuatorNext ==
  \/ \E on \in BOOLEAN : EnableAttenuator(on)
  \/ \E db \in Levels : Attenuate(db)
  \/ \E db \in Levels : Increment(db)
  \/ \E db \in Levels : Decrement(db)
  \/ \E word \in 0..Words : SetControlWord(word)
  \/ \E point \in CalibrationPoints : AddCalibrationPoint(point)

-----------------------------------------------------------------------------
FrontEndNext ==
  \/ DeviceNext /\ UNCHANGED <<switch, filterVars, yig, amplifierVars, attenuatorVars>>
  \/ SwitchNext /\ UNCHANGED <<device, filterVars, yig, amplifierVars, attenuatorVars>>
  \/ BankNext /\ UNCHANGED <<device, switch, yig, amplifierVars, attenuatorVars>>
  \/ YigNext /\ UNCHANGED <<device, switch, filterVars, amplifierVars, attenuatorVars>>
  \/ AmplifierNext /\ UNCHANGED <<device, switch, filterVars, yig, attenuatorVars>>
  \/ AttenuatorNext /\ UNCHANGED <<device, switch, filterVars, yig, amplifierVars>>

FrontEndSpec == FrontEndInit /\ [][FrontEndNext]_frontEndVars

-----------------------------------------------------------------------------
(* What the devices promise *)

FrontEndTypeOK ==
  /\ device.enabled \in BOOLEAN /\ device.fault \in BOOLEAN
  /\ switch.position \in SwitchPositions /\ DOMAIN switch.states = 1..NumSwitches
  /\ bank.current \subseteq FilterIds /\ DOMAIN bank.filters \subseteq FilterIds
  /\ yig.frequency \in yig_min..yig_max
  /\ amplifier.status \in AmplifierStatus
  /\ amplifier.gain \in gain_range \cup {0}
  /\ \A u \in Updaters : update[u] \in {"idle", "written", "tripped"}
  /\ attenuator.current \in Nat /\ Len(attenuator.table) <= MaxPoints
  /\ device_calls \in 0..MaxDeviceCalls

\* When every update_temperature() has returned, the temperature that remains has
\* been judged by check_thermal_protection(), whichever task wrote it and however
\* the writes and the checks overlapped; a status that set_state() has not
\* contradicted agrees with the flags, and a report that says Overheating says fault.
HeatIsJudged ==
  /\ Exclusive /\ ~imposed.temperature /\ amplifier.temperature >= max_temperature => amplifier.fault
  /\ Exclusive /\ ~imposed.status =>
       /\ amplifier.status = "Active" => amplifier.enabled /\ ~amplifier.fault
       /\ amplifier.status = "Overheating" => amplifier.fault
  /\ reading.report.status = {"Overheating"} /\ reading.report.fault # None /\ ~reading.report.imposed
       => reading.report.fault = {TRUE}

\* The selected filter is one of the bank's, so that a look-up which has released
\* the first lock still finds the specification under the second; a YIG filter's
\* voltage belongs to its frequency.
FiltersAreConsistent ==
  /\ bank.current \subseteq DOMAIN bank.filters
  /\ lookup.at = "answered" => Cardinality(lookup.answer) = 1
  /\ yig.voltage[1] * (yig_max - yig_min) = 10 * (yig.frequency - yig_min) * yig.voltage[2]

InOrder(table) ==
  \A i, j \in DOMAIN table : i < j => table[i].commanded < table[j].commanded /\ table[i].actual <= table[j].actual

\* An attenuator is within half a step of the level asked for, on a level that
\* setting it again keeps; a control word read back stands for the level it was
\* read at or the step below it, and is past the last word only at the maximum.  The
\* calibrated level never leaves the calibrated points, in whatever order those were
\* added, and rises with the level when they are in order.
AttenuationIsHonest ==
  /\ Nearest(attenuator.current) = {attenuator.current}
  /\ 2 * (attenuator.current - asked) \in (-attenuator.step)..attenuator.step
  /\ Digital =>
       \A word \in ControlWords :
         /\ word \in 0..Words
         /\ word = Words <=> attenuator.current = AttenuatorLimit
         /\ WordLevel(word) \in {attenuator.current - attenuator.step, attenuator.current}
  /\ LET Calibrated(db) == get_calibrated_attenuation(attenuator.table, db)
         Actual == {attenuator.table[i].actual : i \in DOMAIN attenuator.table}
     IN  \A db \in Levels :
           /\ Actual # {} => /\ \E a \in Actual : a * Calibrated(db)[2] <= Calibrated(db)[1]
                             /\ \E a \in Actual : Calibrated(db)[1] <= a * Calibrated(db)[2]
           /\ InOrder(attenuator.table) =>
                \A more \in Levels : db <= more =>
                  Calibrated(db)[1] * Calibrated(more)[2] <= Calibrated(more)[1] * Calibrated(db)[2]

\* The devices of the front end under every order of their calls: heat is judged,
\* the filters are consistent, the attenuators honest, and a transmit/receive
\* switch is in exactly one of its modes.
FrontEndIsSound ==
  /\ HeatIsJudged
  /\ FiltersAreConsistent
  /\ AttenuationIsHonest
  /\ is_transmit # is_receive

==============================================================================
