------------------------------- MODULE MCTools -------------------------------
(***************************************************************************)
(* Module Tools for TLC: up to three commands on one or two files of every *)
(* age.                                                                    *)
(***************************************************************************)
EXTENDS Tools, TLC

CONSTANTS p1, p2, p3, a, b, u1, u2, u3, i1, i2, i3, d1, d2

Sensor(id, def) == [id |-> id, def |-> def]

File(schema, version, sensors, readings) ==
    [exists |-> TRUE, schema |-> schema, version |-> version,
     sensors |-> sensors, readings |-> readings]

Whole == {"sensors", "device", "index", "properties"}

\* Files of older and newer versions, the second with a shared external id, and
\* what killed creations and upgrades leave is reached from them.
OldFiles ==
    {File({"sensors"}, "none", u1 :> Sensor(i1, d1), u1 :> (1 :> 2)),
     File({"sensors"}, "none", u1 :> Sensor(i1, d1) @@ u2 :> Sensor(i1, d2),
          u1 :> <<>> @@ u2 :> (1 :> 2)),
     File({"sensors", "properties"}, "old", u1 :> Sensor(i1, d1), u1 :> (1 :> 2)),
     File(Whole, "newer", u1 :> Sensor(i1, d1), u1 :> (1 :> 2))}

\* Two current files that share the external id of a sensor, not its uuid; a
\* copy of the first that went on; and one with two sensors that have readings.
FileA == File(Whole, "current", u1 :> Sensor(i1, d1), u1 :> (1 :> 2 @@ 2 :> 3))
FileB == File(Whole, "current", u2 :> Sensor(i1, d2), u2 :> (2 :> 5 @@ 3 :> 4))
FileC == File(Whole, "current", u1 :> Sensor(i1, d2), u1 :> (2 :> 5))
FileD == File(Whole, "current", u1 :> Sensor(i1, d2) @@ u2 :> Sensor(i2, d1),
              u1 :> (1 :> 7) @@ u2 :> (3 :> 4))

\* One where the sensor of the first has another external id.
FileE == File(Whole, "current", u1 :> Sensor(i2, d2), u1 :> (2 :> 5 @@ 3 :> 4))

\* One with three, so that a later flush finds readings in memory.
FileF == File(Whole, "current",
              u1 :> Sensor(i1, d2) @@ u2 :> Sensor(i2, d1) @@ u3 :> Sensor(i3, d1),
              u1 :> (1 :> 7) @@ u2 :> (3 :> 4) @@ u3 :> (2 :> 8))

Command(tool, f) == [tool |-> tool, file |-> f, source |-> f]

NoCommand == Command("none", a)

Create == Command("create", a)
UpgradeA == Command("upgrade", a)
Check(f) == Command("check", f)
DumpOf(f) == [id |-> i1] @@ Command("dump", f)
ExportOf(f, u) == [u |-> u] @@ Command("export", f)
Script == [id |-> i1] @@ Command("octscript", a)
NewSensor(f) == [u |-> u3, sensor |-> Sensor(i2, d1)] @@ Command("createSensor", f)
Reading(f, t) == [id |-> i1, t |-> t, v |-> 9] @@ Command("addReading", f)
Describe(f) == [id |-> i1] @@ Command("changeDescription", f)
Csv(f) ==
    [id |-> i1,
     lines |-> <<[ok |-> TRUE, t |-> 3, v |-> 8], [ok |-> FALSE, t |-> 1, v |-> 0],
                 [ok |-> TRUE, t |-> 2, v |-> 6], [ok |-> TRUE, t |-> 3, v |-> 1]>>]
    @@ Command("import", f)
Sync(t, s) == [source |-> s] @@ Command("syncStore", t)
SyncSensor(t, s) == [source |-> s, id |-> i1] @@ Command("syncSensor", t)

Scenario3(fa, fb, c1, c2, c3) ==
    [file |-> a :> fa @@ b :> fb, cmd |-> p1 :> c1 @@ p2 :> c2 @@ p3 :> c3]

Scenario(fa, fb, c1, c2) == Scenario3(fa, fb, c1, c2, NoCommand)

\* Writers of a file, beside a sync that has it as target or source.
Writers(f) == {NewSensor(f), Reading(f, 1), Reading(f, 3), Describe(f), Csv(f)}

SchemaScenarios ==
    {Scenario3(f, Missing, c, d, e) :
        f \in OldFiles \cup {Missing, Empty},
        c \in {Create, UpgradeA}, d \in {Create, UpgradeA, Check(a), NoCommand},
        e \in {Reading(a, 1), UpgradeA}}

SyncScenarios ==
    {Scenario(FileA, f, Sync(a, b), d) :
        f \in {FileB, FileC, FileD},
        d \in Writers(a) \cup Writers(b) \cup {Sync(b, a), SyncSensor(a, b), ExportOf(b, u1), NoCommand}}
    \cup
    {Scenario(FileA, FileE, c, d) :
        c \in {Sync(a, b), SyncSensor(a, b), Sync(a, a), SyncSensor(a, a)},
        d \in {Reading(b, 1), NewSensor(b), NoCommand}}
    \cup
    {Scenario(FileA, FileF, Sync(a, b), d) : d \in {Reading(a, 1), Reading(b, 2), NoCommand}}
    \cup
    {Scenario(FileA, f, SyncSensor(a, b), d) :
        f \in {FileB, FileC, Missing}, d \in Writers(a) \cup {Reading(b, 1), NoCommand}}

WriterScenarios ==
    {Scenario(FileA, Missing, c, d) :
        c \in Writers(a), d \in Writers(a) \cup {Script, UpgradeA, DumpOf(a), ExportOf(a, u1)}}

\* A script over every set of times in three days, one of which is the value.
Series(T) == [t \in T |-> t + 1]

ScriptScenarios ==
    {Scenario(File(Whole, "current", u1 :> Sensor(i1, d1), u1 :> Series(T)), Missing,
              Script, NoCommand) : T \in SUBSET (0 .. 11)}

AllScenarios ==
    SchemaScenarios \cup SyncScenarios \cup WriterScenarios \cup ScriptScenarios

=============================================================================
