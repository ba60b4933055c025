-------------------------- MODULE SignalCatalogue --------------------------
(***************************************************************************)
(* The signals the core can read and how their bytes become a value        *)
(* (vehicle.rs, the Mode 01 requests of protocol.rs, read.rs).  A value is *)
(* counted in thousandths, rounded down; a declared range is a whole       *)
(* minimum and a maximum of a whole part and thousandths.                  *)
(***************************************************************************)
EXTENDS Integers, Sequences, SequencesExt

\* (raw - zero) * num / den, for the formula <<zero, num, den>>.
Signal(semantic, pid, len, formula, minimum, maximum, unit) ==
    [semantic |-> semantic, pid |-> pid, len |-> len, optional |-> FALSE, formula |-> formula,
     minimum |-> minimum, maximum |-> maximum, unit |-> unit]

Plain == <<0, 1, 1>>
Celsius == <<40, 1, 1>>
Percent == <<0, 100, 255>>
Centred == <<128, 100, 128>>
Tenths == <<400, 1, 10>>

\* A fuel trim, whose reply may carry a second byte.
Trim(semantic, pid) ==
    [Signal(semantic, pid, 1, Centred, -100, <<99, 218>>, "%") EXCEPT !.optional = TRUE]

Signals1 == {
    Signal("engine.rpm", 12, 2, <<0, 1, 4>>, 0, <<16383, 750>>, "rpm"),
    Signal("engine.coolant_temperature", 5, 1, Celsius, -40, <<215, 0>>, "degC"),
    Signal("vehicle.speed", 13, 1, Plain, 0, <<255, 0>>, "km/h"),
    Signal("engine.maf", 16, 2, <<0, 1, 100>>, 0, <<655, 350>>, "g/s"),
    Signal("engine.load", 4, 1, Percent, 0, <<100, 0>>, "%"),
    Signal("engine.intake_manifold_pressure", 11, 1, Plain, 0, <<255, 0>>, "kPa"),
    Signal("engine.intake_air_temperature", 15, 1, Celsius, -40, <<215, 0>>, "degC"),
    Signal("engine.egr.commanded", 44, 1, Percent, 0, <<100, 0>>, "%")}

Signals2 == {
    Signal("engine.egr.error", 45, 1, Centred, -100, <<99, 218>>, "%"),
    Signal("engine.runtime", 31, 2, Plain, 0, <<65535, 0>>, "s"),
    Signal("vehicle.accelerator_pedal_d", 73, 1, Percent, 0, <<100, 0>>, "%"),
    Signal("vehicle.accelerator_pedal_e", 74, 1, Percent, 0, <<100, 0>>, "%"),
    Signal("engine.relative_throttle", 69, 1, Percent, 0, <<100, 0>>, "%"),
    Signal("engine.barometric_pressure", 51, 1, Plain, 0, <<255, 0>>, "kPa"),
    Signal("engine.control_module_voltage", 66, 2, <<0, 1, 1000>>, 0, <<65, 535>>, "V"),
    Signal("engine.throttle_position", 17, 1, Percent, 0, <<100, 0>>, "%")}

Signals3 == {
    Signal("vehicle.distance_with_mil_on", 33, 2, Plain, 0, <<65535, 0>>, "km"),
    Signal("engine.fuel_rail_gauge_pressure", 35, 2, <<0, 10, 1>>, 0, <<655350, 0>>, "kPa"),
    Signal("vehicle.warmups_since_dtc_clear", 48, 1, Plain, 0, <<255, 0>>, "count"),
    Signal("vehicle.distance_since_dtc_clear", 49, 2, Plain, 0, <<65535, 0>>, "km"),
    Signal("vehicle.ambient_air_temperature", 70, 1, Celsius, -40, <<215, 0>>, "degC"),
    Signal("engine.throttle_actuator.commanded", 76, 1, Percent, 0, <<100, 0>>, "%"),
    Trim("engine.short_term_fuel_trim_bank1", 6),
    Trim("engine.long_term_fuel_trim_bank1", 7)}

Signals4 == {
    Trim("engine.short_term_fuel_trim_bank2", 8),
    Trim("engine.long_term_fuel_trim_bank2", 9),
    Signal("engine.fuel_rail_gauge_pressure_low", 10, 1, <<0, 3, 1>>, 0, <<765, 0>>, "kPa"),
    Signal("engine.timing_advance", 14, 1, <<128, 1, 2>>, -64, <<63, 500>>, "deg"),
    Signal("engine.fuel_rail_pressure_relative", 34, 2, <<0, 79, 1000>>, 0, <<5177, 265>>, "kPa"),
    Signal("engine.evap_purge_commanded", 46, 1, Percent, 0, <<100, 0>>, "%"),
    Signal("vehicle.fuel_tank_level", 47, 1, Percent, 0, <<100, 0>>, "%"),
    Signal("engine.catalyst_temperature_b1s1", 60, 2, Tenths, -40, <<6513, 500>>, "degC")}

Signals5 == {
    Signal("engine.catalyst_temperature_b2s1", 61, 2, Tenths, -40, <<6513, 500>>, "degC"),
    Signal("engine.catalyst_temperature_b1s2", 62, 2, Tenths, -40, <<6513, 500>>, "degC"),
    Signal("engine.catalyst_temperature_b2s2", 63, 2, Tenths, -40, <<6513, 500>>, "degC"),
    Signal("engine.absolute_load", 67, 2, Percent, 0, <<25700, 0>>, "%"),
    Signal("engine.commanded_equivalence_ratio", 68, 2, <<0, 2, 65535>>, 0, <<2, 0>>, "ratio"),
    Signal("engine.throttle_position_b", 71, 1, Percent, 0, <<100, 0>>, "%"),
    Signal("engine.throttle_position_c", 72, 1, Percent, 0, <<100, 0>>, "%"),
    Signal("vehicle.accelerator_pedal_f", 75, 1, Percent, 0, <<100, 0>>, "%")}

Signals6 == {
    Signal("engine.ethanol_fuel_percentage", 82, 1, Percent, 0, <<100, 0>>, "%"),
    Signal("engine.fuel_rail_pressure_absolute", 89, 2, <<0, 10, 1>>, 0, <<655350, 0>>, "kPa"),
    Signal("vehicle.relative_accelerator_pedal_position", 90, 1, Percent, 0, <<100, 0>>, "%"),
    Signal("engine.oil_temperature", 92, 1, Celsius, -40, <<215, 0>>, "degC"),
    Signal("engine.fuel_injection_timing", 93, 2, <<26880, 1, 128>>, -210, <<301, 992>>, "deg"),
    Signal("engine.fuel_rate", 94, 2, <<0, 1, 20>>, 0, <<3276, 750>>, "L/h"),
    Signal("engine.driver_demand_torque_percent", 97, 1, <<125, 1, 1>>, -125, <<130, 0>>, "%"),
    Signal("engine.actual_torque_percent", 98, 1, <<125, 1, 1>>, -125, <<130, 0>>, "%")}

Signals7 == {
    Signal("engine.reference_torque", 99, 2, Plain, 0, <<65535, 0>>, "Nm"),
    Signal("vehicle.odometer", 166, 4, <<0, 1, 10>>, 0, <<429496729, 500>>, "km")}

Signals == Signals1 \cup Signals2 \cup Signals3 \cup Signals4 \cup Signals5 \cup Signals6 \cup Signals7

-----------------------------------------------------------------------------
\* prepare_read: <<>> for a semantic the catalogue does not have.
PrepareRead(semantic) ==
    LET found == {s \in Signals : s.semantic = semantic}
    IN  IF found = {} THEN <<>> ELSE <<CHOOSE s \in found : TRUE>>

RequestBytes(s) == <<1, s.pid>>

\* The data of a response of this request: <<>> for any other response.
Data(s, response) ==
    IF Len(response) \in {s.len + 2, s.len + 2 + (IF s.optional THEN 1 ELSE 0)}
         /\ SubSeq(response, 1, 2) = <<65, s.pid>>
    THEN <<SubSeq(response, 3, s.len + 2)>> ELSE <<>>

BigEndian(bytes) == FoldLeft(LAMBDA n, b : 256 * n + b, 0, bytes)

\* The whole part and the thousandths of a raw value's value.
Scaled(s, raw) ==
    LET q == (raw - s.formula[1]) * s.formula[2]
    IN  <<q \div s.formula[3], (1000 * (q % s.formula[3])) \div s.formula[3]>>

\* ReadRequest::value: <<>> for a response that is not this signal's.
Value(s, response) ==
    LET data == Data(s, response)
    IN  IF data = <<>> THEN <<>>
        ELSE LET v == Scaled(s, BigEndian(data[1])) IN <<1000 * v[1] + v[2]>>

\* ReadRequest::complete: the transaction of a response that can be decoded.
Complete(s, source, response, timestamp) ==
    LET v == Value(s, response)
    IN  IF v = <<>> THEN <<>>
        ELSE <<[timestamp |-> timestamp, source |-> source, semantic |-> s.semantic,
                request |-> RequestBytes(s), response |-> response, value |-> v[1], unit |-> s.unit]>>

\* Every signal's declared range is the one its formula can reach, and no two
\* signals share a name or a request.  The odometer's four bytes are beyond
\* the checker's integers.
ASSUME DeclaredRanges ==
  /\ \A s \in Signals : s.len < 3 =>
       /\ Scaled(s, 0) = <<s.minimum, 0>>
       /\ Scaled(s, (IF s.len = 1 THEN 256 ELSE 65536) - 1) = s.maximum
  /\ \A s, t \in Signals : s.semantic = t.semantic \/ s.pid = t.pid => s = t
=============================================================================
