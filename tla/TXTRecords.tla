----------------------------- MODULE TXTRecords -----------------------------
(***************************************************************************)
(* The record methods of klio::TXTStore: a directory for each sensor with  *)
(* the files properties.csv and readings.csv, to which lines are only      *)
(* appended.  Of the lines with one key the first is the one that is read, *)
(* and the files are modelled by what is read from them.                   *)
(***************************************************************************)
EXTENDS BackendData

\* check_sensor asks for properties.csv.
FileExists(m, u) == m.view.sensors[u] # None

-----------------------------------------------------------------------------
(* Life cycle *)

\* get_sensor_records reads the directory as if it were a file, which holds no
\* line: a store that is opened knows none of its sensors.
GetSensorRecords(m) == Nothing.sensors

Prepare(m) == [srv |-> m, ok |-> TRUE, sensors |-> GetSensorRecords(m)]

Close(m) == m

\* initialize and dispose remove the directory with all that is in it.
Initialize(m) == Disconnected(Nothing)
Dispose(m) == Disconnected(Nothing)

-----------------------------------------------------------------------------
(* Sensors *)

\* save_sensor: no field for the device type.
Line(s) == Converted(s, WithoutDevice)

AddSensorRecord(m, u, s) ==
    IF FileExists(m, u) THEN Thrown(m)
    ELSE Done(Write(m, PutSensor(m.view, u, Line(s))))

RemoveSensorRecord(m, u) == Done(Write(m, Without(m.view, u)))

\* A second line for the uuid is appended, and is never read.
UpdateSensorRecord(m, u, s) == IF FileExists(m, u) THEN Done(m) ELSE Thrown(m)

-----------------------------------------------------------------------------
(* Readings *)

\* Mutant: the last line of a timestamp is the one that is read.
AppendReadingsLastWins(m, u, rs) ==
    IF ~FileExists(m, u) THEN Thrown(m)
    ELSE Done(Write(m, PutReadings(m.view, u, KeepFirst(rs, m.view.readings[u]))))

\* save_reading for each, whatever is in the file already.
AppendReadings(m, u, rs) ==
    IF ~FileExists(m, u) THEN Thrown(m)
    ELSE Done(Write(m, PutReadings(m.view, u, KeepFirst(m.view.readings[u], rs))))

AddSingleReadings(m, u, rs) == IF rs = NoReadings THEN Done(m) ELSE AppendReadings(m, u, rs)

AddBulkReadings(m, u, rs) == AppendReadings(m, u, rs)

InsertReadings(m, u, rs) ==
    IF Cardinality(Recorded(rs)) <= MinBulk
    THEN AddSingleReadings(m, u, rs)
    ELSE AddBulkReadings(m, u, rs)

UpdateReadings(m, u, rs) == AppendReadings(m, u, rs)

-----------------------------------------------------------------------------
(* Queries *)

GetAll(m, u) == IF FileExists(m, u) THEN {m.view.readings[u]} ELSE {}

GetTimeframe(m, u, from, to) == {Between(rs, from, to) : rs \in GetAll(m, u)}

GetNumber(m, u) == {Cardinality(Recorded(rs)) : rs \in GetAll(m, u)}

\* *(readings->end()), whether or not there are any.
GetLast(m, u) == IF FileExists(m, u) THEN AnyPair ELSE {}

GetOne(m, u, time) == {ReadingAt(rs, time) : rs \in GetAll(m, u)}
=============================================================================
