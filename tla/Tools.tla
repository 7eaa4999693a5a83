-------------------------------- MODULE Tools --------------------------------
(***************************************************************************)
(* The command line tools as processes on the same SQLite files: how a     *)
(* file gets its schema and is refused or opened, what each command writes *)
(* from buffers that were loaded when it opened the file, and what happens *)
(* when two of them run at once or one is killed.                          *)
(*                                                                         *)
(* No tool sets a busy timeout, so a statement that meets another process' *)
(* lock fails at once: a store ignores that for readings and throws for    *)
(* anything else, and a loop over rows takes it for the end of the rows.   *)
(* SQLite's locks are those of its rollback journal.                       *)
(***************************************************************************)
EXTENDS OctaveScript

CONSTANTS
    Procs,        \* processes, each runs one command
    Files,
    Scenarios,    \* the files there are and the commands that are run
    NoProc

ASSUME NoProcAssumption == NoProc \notin Procs

VARIABLES
    file,   \* what is committed
    lock,   \* the process that may write to the file, from its first
            \* successful write to the end of its transaction
    proc    \* the processes

vars == <<file, lock, proc>>

-----------------------------------------------------------------------------
(* Files *)

\* schema: the parts of the schema there are; sensors and readings: by uuid.
Missing ==
    [exists |-> FALSE, schema |-> {}, version |-> "none",
     sensors |-> <<>>, readings |-> <<>>]

Empty == [Missing EXCEPT !.exists = TRUE]

\* f with y for x.
Put(f, x, y) == [z \in DOMAIN f \cup {x} |-> IF z = x THEN y ELSE f[z]]

\* The sensors with an external id.
Holders(sensors, id) == {u \in DOMAIN sensors : sensors[u].id = id}

\* Statements.
CreateSensors == [op |-> "createSensors"]
CreateIndex == [op |-> "createIndex"]
CreateProperties == [op |-> "createProperties"]
InsertVersion == [op |-> "insertVersion"]
ReplaceVersion == [op |-> "replaceVersion"]
AddColumn == [op |-> "addColumn"]
InsertSensor(u, s) == [op |-> "insertSensor", u |-> u, sensor |-> s]
UpdateSensor(u, s) == [op |-> "updateSensor", u |-> u, sensor |-> s]
InsertReading(u, t, v) == [op |-> "insertReading", u |-> u, t |-> t, v |-> v]
ReplaceReading(u, t, v) == [op |-> "replaceReading", u |-> u, t |-> t, v |-> v]

\* A constraint of the file refuses the statement.
Refused(s, d) ==
    \/ /\ s.op = "createIndex" /\ "index" \notin d.schema
       /\ \E u, x \in DOMAIN d.sensors : u # x /\ d.sensors[u].id = d.sensors[x].id
    \/ /\ s.op = "insertSensor"
       /\ \/ s.u \in DOMAIN d.sensors
          \/ "index" \in d.schema /\ Holders(d.sensors, s.sensor.id) # {}
    \/ s.op = "insertReading" /\ s.t \in DOMAIN d.readings[s.u]

\* What the statement makes of the file.
Applied(s, d) ==
    CASE s.op = "createSensors" ->
           IF "sensors" \in d.schema THEN d
           ELSE [d EXCEPT !.schema = @ \cup {"sensors", "device"}]
      [] s.op = "createIndex" -> [d EXCEPT !.schema = @ \cup {"index"}]
      [] s.op = "createProperties" -> [d EXCEPT !.schema = @ \cup {"properties"}]
      [] s.op = "insertVersion" ->
           [d EXCEPT !.version = IF @ = "none" THEN "current" ELSE @]
      [] s.op = "replaceVersion" -> [d EXCEPT !.version = "current"]
      [] s.op = "addColumn" -> [d EXCEPT !.schema = @ \cup {"device"}]
      [] s.op = "insertSensor" ->
           [d EXCEPT !.sensors = Put(@, s.u, s.sensor), !.readings = Put(@, s.u, <<>>)]
      [] s.op = "updateSensor" ->
           [d EXCEPT !.sensors[s.u] = s.sensor]
      [] s.op \in {"insertReading", "replaceReading"} ->
           [d EXCEPT !.readings[s.u] = Put(@, s.t, s.v)]

\* A flush that falls due ignores errors.
Ignored(s) == s.op \in {"insertReading", "replaceReading"}

\* check_integrity accepts the file.
VersionMatches(d) ==
    /\ {"sensors", "properties"} \subseteq d.schema
    /\ d.version = "current"

Openable(d) == VersionMatches(d) /\ "device" \in d.schema

Duplicates(d) ==
    \E u, x \in DOMAIN d.sensors : u # x /\ d.sensors[u].id = d.sensors[x].id

\* No release without devices made the file.
Fresh(d) ==
    /\ "sensors" \in d.schema => "device" \in d.schema
    /\ d.version \in {"none", "current"}

\* What a row of the sensors table says of a sensor, as far as it matters here.
IsSensor(s) == s = [id |-> s.id, def |-> s.def]

\* Finitely many times, which are integers, and their values.
IsSeries(readings) ==
    /\ IsFiniteSet(DOMAIN readings) /\ DOMAIN readings \subseteq Int
    /\ readings = [t \in DOMAIN readings |-> readings[t]]

\* A file as releases without devices, creations and upgrades leave it: the
\* unique index comes before the current version.
FileSound(d) ==
    /\ DOMAIN d = DOMAIN Missing
    /\ DOMAIN d.readings = DOMAIN d.sensors
    /\ \A u \in DOMAIN d.sensors : IsSensor(d.sensors[u]) /\ IsSeries(d.readings[u])
    /\ "index" \in d.schema => ~Duplicates(d)
    /\ d.version = "current" => "index" \in d.schema
    /\ ~d.exists => Fresh(d)

\* A command with one file has it as its source, too.
CommandSound(c) ==
    /\ c.file \in Files /\ c.source \in Files
    /\ c.tool = "createSensor" => IsSensor(c.sensor)
    /\ c.tool = "addReading" => c.t \in Int
    /\ c.tool = "import" => /\ IsFiniteSet(DOMAIN c.lines)
                            /\ \A i \in DOMAIN c.lines : c.lines[i].t \in Int

ASSUME ScenariosAssumption ==
    \A s \in Scenarios :
       /\ DOMAIN s.file = Files
       /\ \A f \in Files : FileSound(s.file[f])
       /\ \A p \in Procs : CommandSound(s.cmd[p])

-----------------------------------------------------------------------------
(* Processes *)

Ended == {"done", "failed", "refused", "killed"}

NoSensors == [f \in Files |-> <<>>]

\* opens: the files to open, the first first.  known: the buffers, by file.
\* left: the sensors still to synchronise.  todo: statements to execute.  kept:
\* those that wait in memory for a flush, and due: whether the first is to come.
\* view: the file as the transaction sees it.  seen: readings for a script, and
\* script: its matrix.  Of the past: missed is whether a lock took something
\* away, disturbed whether another process wrote since this one began.
Started(c) ==
    [cmd |-> c, pc |-> IF c.tool = "none" THEN "done" ELSE "start",
     opens |-> <<>>, known |-> NoSensors, left |-> {}, todo |-> <<>>,
     kept |-> <<>>, due |-> TRUE, view |-> Missing, seen |-> <<>>, script |-> <<>>,
     missed |-> FALSE, disturbed |-> FALSE]

Init ==
    \E s \in Scenarios :
       /\ file = s.file
       /\ lock = [f \in Files |-> NoProc]
       /\ proc = [p \in Procs |-> Started(s.cmd[p])]

Target(p) == proc[p].cmd.file

Source(p) == proc[p].cmd.source

\* klio-store sync opens the source first, and klio-sensor sync the target,
\* without a look whether there is a source.
ToOpen(p) ==
    CASE proc[p].cmd.tool = "syncStore" -> <<Source(p), Target(p)>>
      [] proc[p].cmd.tool = "syncSensor" -> <<Target(p), Source(p)>>
      [] OTHER -> <<Target(p)>>

Demanded(p) ==
    IF proc[p].cmd.tool = "syncStore" THEN {Source(p), Target(p)} ELSE {Target(p)}

Running(p) == proc[p].pc \notin Ended

\* Another process may hold a lock on f for a moment.
Others(p, f) ==
    \E q \in Procs \ {p} :
       Running(q) /\ proc[q].pc \notin {"start", "checked"}
       /\ f \in {proc[q].cmd.file, proc[q].cmd.source}

\* Another process is in a transaction that has written to f.
LockedOut(p, f) == lock[f] \notin {p, NoProc}

\* The file as p reads it.
Data(p, f) == IF lock[f] = p THEN proc[p].view ELSE file[f]

\* While another process commits to f, the rows of f end before the first one.
MayReadNothing(p, f) == LockedOut(p, f)

At(p, pc) == proc[p].pc = pc

\* The end of a process, which gives up what was not committed.
Stops(p, pc, missed) ==
    /\ proc' = [proc EXCEPT ![p].pc = pc, ![p].missed = @ \/ missed]
    /\ lock' = [f \in Files |-> IF lock[f] = p THEN NoProc ELSE lock[f]]

\* An exception, which the tool catches and reports.
Throws(p, missed) == Stops(p, "failed", missed)

\* The processes ps once p has written to f.
Disturbed(ps, p, f) ==
    [q \in Procs |->
        IF q # p /\ Running(q) /\ f \in {ps[q].cmd.file, ps[q].cmd.source}
        THEN [ps[q] EXCEPT !.disturbed = TRUE] ELSE ps[q]]

-----------------------------------------------------------------------------
(* The schema: klio-store create and upgrade *)

\* create refuses a file that exists, and upgrade creates one that does not;
\* every other tool refuses it.
Start(p) ==
    /\ At(p, "start")
    /\ UNCHANGED file
    /\ CASE proc[p].cmd.tool = "create" ->
              IF file[Target(p)].exists THEN Stops(p, "refused", FALSE)
              ELSE proc' = [proc EXCEPT ![p].pc = "checked"] /\ UNCHANGED lock
         [] proc[p].cmd.tool = "upgrade" ->
              proc' = [proc EXCEPT ![p].pc = "checked"] /\ UNCHANGED lock
         [] OTHER ->
              IF \E f \in Demanded(p) : ~file[f].exists THEN Stops(p, "refused", FALSE)
              ELSE /\ proc' = [proc EXCEPT ![p].pc = "open", ![p].opens = ToOpen(p)]
                   /\ UNCHANGED lock

\* The statements of initialize.
Initialize == <<CreateSensors, CreateIndex, CreateProperties, InsertVersion>>

\* create_sqlite3_store: SQLite creates the file, then its schema is created.
CreateStore(p) ==
    /\ At(p, "checked")
    /\ file' = [file EXCEPT ![Target(p)].exists = TRUE]
    /\ proc' = [proc EXCEPT ![p].pc = "initialize", ![p].todo = Initialize]
    /\ UNCHANGED lock

\* Each statement is a transaction of its own.
InitializeStep(p) ==
    LET f == Target(p)
        s == Head(proc[p].todo)
    IN /\ At(p, "initialize")
       /\ proc[p].todo # <<>>
       /\ \/ /\ LockedOut(p, f) \/ Others(p, f)
             /\ Throws(p, TRUE)
             /\ UNCHANGED file
          \/ /\ ~LockedOut(p, f) /\ Refused(s, file[f])
             /\ Throws(p, FALSE)
             /\ UNCHANGED file
          \/ /\ ~LockedOut(p, f) /\ ~Refused(s, file[f])
             /\ file' = [file EXCEPT ![f] = Applied(s, @)]
             /\ proc' = Disturbed([proc EXCEPT ![p].todo = Tail(@)], p, f)
             /\ UNCHANGED lock

\* The store of create is prepared, that of upgrade is upgraded.
Initialized(p) ==
    /\ At(p, "initialize")
    /\ proc[p].todo = <<>>
    /\ IF proc[p].cmd.tool = "create"
       THEN proc' = [proc EXCEPT ![p].pc = "load", ![p].opens = <<Target(p)>>]
       ELSE proc' = [proc EXCEPT ![p].pc = "begin"]
    /\ UNCHANGED <<file, lock>>

\* Mutant: nothing to do for a file that has the version.
UpgradeByVersion(p) ==
    IF file[Target(p)].version = "current" THEN <<>>
    ELSE <<ReplaceVersion, AddColumn, CreateIndex>>

\* The statements of upgrade, one transaction.
Upgrade(p) == <<ReplaceVersion, AddColumn, CreateIndex>>

-----------------------------------------------------------------------------
(* open_sqlite3_store, which every other tool starts with *)

\* SQLite creates the file if there is none; an empty one is refused.
CheckIntegrity(p) ==
    LET f == Head(proc[p].opens)
    IN /\ At(p, "open")
       /\ file' = [file EXCEPT ![f].exists = TRUE]
       /\ \/ LockedOut(p, f) /\ Throws(p, TRUE)
          \/ ~VersionMatches(file[f]) /\ Throws(p, FALSE)
          \/ /\ VersionMatches(file[f])
             /\ proc' = [proc EXCEPT ![p].pc = "load"]
             /\ UNCHANGED lock

\* prepare: the statements need the column of a current file, and a sensor list
\* that comes out empty leaves a store that knows no sensor.
Prepare(p) ==
    LET f == Head(proc[p].opens)
        opens == Tail(proc[p].opens)
    IN /\ At(p, "load")
       /\ UNCHANGED file
       /\ \/ "device" \notin file[f].schema /\ Throws(p, FALSE)
          \/ /\ "device" \in file[f].schema
             /\ \E nothing \in {FALSE} \cup {MayReadNothing(p, f)} :
                   proc' = [proc EXCEPT
                              ![p].known[f] = IF nothing THEN <<>> ELSE file[f].sensors,
                              ![p].missed = @ \/ nothing,
                              ![p].opens = opens,
                              ![p].pc = IF opens # <<>> THEN "open"
                                        ELSE IF proc[p].cmd.tool = "create" THEN "done"
                                        ELSE "begin"]
             /\ UNCHANGED lock

-----------------------------------------------------------------------------
(* What the tools write *)

\* The buffered sensors with the external id of the command: one at most.
Named(p) == Holders(proc[p].known[Target(p)], proc[p].cmd.id)

ForNamed(p, Statements(_)) ==
    IF Named(p) = {} THEN <<>> ELSE Statements(CHOOSE u \in Named(p) : TRUE)

\* klio-sensor create, with a uuid nobody has.
CreateSensor(p) == <<InsertSensor(proc[p].cmd.u, proc[p].cmd.sensor)>>

\* Mutant: the new reading wins.
AddReadingReplacing(p) ==
    LET S(u) == <<ReplaceReading(u, proc[p].cmd.t, proc[p].cmd.v)>> IN ForNamed(p, S)

\* klio-sensor addreading.
AddReadingOnce(p) ==
    LET S(u) == <<InsertReading(u, proc[p].cmd.t, proc[p].cmd.v)>> IN ForNamed(p, S)

\* klio-sensor change-description writes back the sensor it has loaded.
ChangeDescription(p) ==
    LET S(u) == <<UpdateSensor(u, proc[p].known[Target(p)][u])>> IN ForNamed(p, S)

\* CSVImporter: lines that are no readings are skipped, and the first line of a
\* time wins.
ImportLines(lines) ==
    LET read == {i \in DOMAIN lines : lines[i].ok}
        First(t) == CHOOSE i \in read : lines[i].t = t /\ \A j \in read : lines[j].t = t => i <= j
    IN [t \in {lines[i].t : i \in read} |-> lines[First(t)].v]

Replacements(u, readings) ==
    [i \in 1 .. Cardinality(DOMAIN readings) |->
        LET t == InOrder(readings)[i] IN ReplaceReading(u, t, readings[t])]

\* klio-import csv.
Import(p) ==
    LET S(u) == Replacements(u, ImportLines(proc[p].cmd.lines)) IN ForNamed(p, S)

\* The statements of a tool that needs no other file.
Statements(p) ==
    CASE proc[p].cmd.tool = "upgrade" -> Upgrade(p)
      [] proc[p].cmd.tool = "createSensor" -> CreateSensor(p)
      [] proc[p].cmd.tool = "addReading" -> AddReadingOnce(p)
      [] proc[p].cmd.tool = "changeDescription" -> ChangeDescription(p)
      [] proc[p].cmd.tool = "import" -> Import(p)
      [] OTHER -> <<>>

Begin(p) ==
    /\ At(p, "begin")
    /\ proc[p].cmd.tool \in {"upgrade", "createSensor", "addReading", "changeDescription", "import"}
    /\ proc' = [proc EXCEPT ![p].pc = "write", ![p].todo = Statements(p)]
    /\ UNCHANGED <<file, lock>>

Job(sensors, u) == [u |-> u, sensor |-> sensors[u]]

\* Store::sync reads the list of sensors from the source.
BeginSync(p) ==
    /\ At(p, "begin")
    /\ proc[p].cmd.tool = "syncStore"
    /\ \E nothing \in {FALSE} \cup {MayReadNothing(p, Source(p))} :
          LET sensors == IF nothing THEN <<>> ELSE file[Source(p)].sensors
          IN proc' = [proc EXCEPT ![p].pc = "write",
                                  ![p].left = {Job(sensors, u) : u \in DOMAIN sensors},
                                  ![p].missed = @ \/ nothing]
    /\ UNCHANGED <<file, lock>>

\* klio-sensor sync takes the sensor the target has.
BeginSyncReadings(p) ==
    /\ At(p, "begin")
    /\ proc[p].cmd.tool = "syncSensor"
    /\ proc' = [proc EXCEPT ![p].pc = "write",
                            ![p].left = {Job(proc[p].known[Target(p)], u) : u \in Named(p)}]
    /\ UNCHANGED <<file, lock>>

\* sync_sensor_record: the local sensor, and the statement it takes.
LocalUuid(p, job) ==
    LET holders == Holders(proc[p].known[Target(p)], job.sensor.id)
    IN IF holders = {} THEN job.u ELSE CHOOSE u \in holders : TRUE

\* Mutant: the definition of a sensor there is stays.
SyncSensorRecordOnce(p, job) ==
    IF Holders(proc[p].known[Target(p)], job.sensor.id) = {}
    THEN <<InsertSensor(job.u, job.sensor)>> ELSE <<>>

SyncSensorRecord(p, job) ==
    LET u == LocalUuid(p, job)
        known == proc[p].known[Target(p)]
    IN IF Holders(known, job.sensor.id) = {} THEN <<InsertSensor(u, job.sensor)>>
       ELSE IF known[u].def # job.sensor.def THEN <<UpdateSensor(u, job.sensor)>>
       ELSE <<>>

\* sync_reading_records: the source throws if it has not loaded the sensor.  The
\* first readings find a flush due, and later ones if the last is 600 s ago, late;
\* it writes everything in memory.  What is still there in the end close drops.
SyncReadingRecords(p) ==
    /\ At(p, "write")
    /\ proc[p].todo = <<>>
    /\ UNCHANGED file
    /\ \E job \in proc[p].left :
          IF job.u \notin DOMAIN proc[p].known[Source(p)] THEN Throws(p, FALSE)
          ELSE \E nothing \in {FALSE} \cup {MayReadNothing(p, Source(p))}, late \in BOOLEAN :
             LET readings == IF nothing THEN <<>> ELSE file[Source(p)].readings[job.u]
                 u == LocalUuid(p, job)
                 buffered == proc[p].kept \o Replacements(u, readings)
                 flushes == readings # <<>> /\ (proc[p].due \/ late)
             IN /\ proc' = [proc EXCEPT
                              ![p].todo = SyncSensorRecord(p, job)
                                            \o (IF flushes THEN buffered ELSE <<>>),
                              ![p].kept = IF flushes THEN <<>> ELSE buffered,
                              ![p].known[Target(p)] = Put(@, u, job.sensor),
                              ![p].left = @ \ {job},
                              ![p].due = IF flushes THEN FALSE ELSE @,
                              ![p].missed = @ \/ nothing]
                /\ UNCHANGED lock

\* The next statement of the transaction.
Execute(p) ==
    LET f == Target(p)
        s == Head(proc[p].todo)
        skip == [proc EXCEPT ![p].todo = Tail(@)]
    IN /\ At(p, "write")
       /\ proc[p].todo # <<>>
       /\ UNCHANGED file
       /\ \/ /\ lock[f] # p
             /\ LockedOut(p, f) \/ Others(p, f)
             /\ IF Ignored(s) THEN proc' = [skip EXCEPT ![p].missed = TRUE] /\ UNCHANGED lock
                ELSE Throws(p, TRUE)
          \/ /\ ~LockedOut(p, f) /\ Refused(s, Data(p, f))
             /\ IF Ignored(s) THEN proc' = skip /\ UNCHANGED lock
                ELSE Throws(p, FALSE)
          \/ /\ ~LockedOut(p, f) /\ ~Refused(s, Data(p, f))
             /\ proc' = [skip EXCEPT ![p].view = Applied(s, Data(p, f))]
             /\ lock' = [lock EXCEPT ![f] = p]

\* A COMMIT that meets a reader is only logged, and the handler's destructor
\* rolls back.
Commit(p) ==
    LET f == Target(p)
    IN /\ At(p, "write")
       /\ proc[p].todo = <<>> /\ proc[p].left = {}
       /\ \/ /\ lock[f] # p
             /\ Stops(p, "done", FALSE)
             /\ UNCHANGED file
          \/ /\ lock[f] = p
             /\ file' = [file EXCEPT ![f] = proc[p].view]
             /\ lock' = [lock EXCEPT ![f] = NoProc]
             /\ proc' = Disturbed([proc EXCEPT ![p].pc = "done"], p, f)
          \/ /\ lock[f] = p /\ Others(p, f)
             /\ Stops(p, "done", TRUE)
             /\ UNCHANGED file

-----------------------------------------------------------------------------
(* What the tools show *)

ReadingsOf(p, u) == file[Target(p)].readings[u]

\* What p may get for the readings of u.
Gets(p, u) ==
    {ReadingsOf(p, u)} \cup (IF MayReadNothing(p, Target(p)) THEN {<<>>} ELSE {})

Shows(p, readings) ==
    /\ proc' = [proc EXCEPT ![p].pc = "done", ![p].seen = readings]
    /\ UNCHANGED <<file, lock>>

\* klio-store check, and klio-sensor list and info, which print what they know
\* and numbers.
CheckStore(p) ==
    /\ At(p, "begin") /\ proc[p].cmd.tool = "check"
    /\ Shows(p, <<>>)

\* klio-sensor dump, of the sensor with the external id.
Dump(p) ==
    /\ At(p, "begin") /\ proc[p].cmd.tool = "dump"
    /\ \/ Named(p) = {} /\ Shows(p, <<>>)
       \/ \E u \in Named(p) : \E readings \in Gets(p, u) : Shows(p, readings)

\* klio-export, of the sensor with the uuid.
Export(p) ==
    LET u == proc[p].cmd.u
    IN /\ At(p, "begin") /\ proc[p].cmd.tool = "export"
       /\ \/ u \notin DOMAIN proc[p].known[Target(p)] /\ Shows(p, <<>>)
          \/ /\ u \in DOMAIN proc[p].known[Target(p)]
             /\ \E readings \in Gets(p, u) : Shows(p, readings)

\* klio-sensor octscript: of a sensor without readings it dereferences the end of
\* the map, and dies or takes any time for the first.
ShowScript(p) ==
    /\ At(p, "begin")
    /\ proc[p].cmd.tool = "octscript"
    /\ UNCHANGED <<file, lock>>
    /\ \/ /\ Named(p) = {}
          /\ proc' = [proc EXCEPT ![p].pc = "done"]
       \/ \E u \in Named(p) : \E readings \in Gets(p, u) :
             IF readings = <<>>
             THEN \/ proc' = [proc EXCEPT ![p].pc = "killed"]
                  \/ proc' = [proc EXCEPT ![p].pc = "done", ![p].script = <<EmptyDay>>]
             ELSE proc' = [proc EXCEPT ![p].pc = "done", ![p].seen = readings,
                                       ![p].script = WriteValues(readings)]

\* The end of a process at any point: SQLite rolls back from its journal.
Kill(p) ==
    /\ Running(p) /\ ~At(p, "start")
    /\ Stops(p, "killed", FALSE)
    /\ UNCHANGED file

Next ==
    \E p \in Procs :
       \/ Start(p)
       \/ CreateStore(p)
       \/ InitializeStep(p)
       \/ Initialized(p)
       \/ CheckIntegrity(p)
       \/ Prepare(p)
       \/ Begin(p)
       \/ BeginSync(p)
       \/ BeginSyncReadings(p)
       \/ SyncReadingRecords(p)
       \/ Execute(p)
       \/ Commit(p)
       \/ CheckStore(p)
       \/ Dump(p)
       \/ Export(p)
       \/ ShowScript(p)
       \/ Kill(p)

Spec == Init /\ [][Next]_vars

-----------------------------------------------------------------------------
\* A klio-store create or upgrade that met no lock either leaves a file that
\* every tool opens, for good, or finds sensors that share an external id: also
\* one that goes on where others were killed in the middle of theirs, or that
\* runs beside them.  No file that opens has such sensors.
UpgradesComplete ==
    /\ \A p \in Procs :
          proc[p].cmd.tool \in {"create", "upgrade"} /\ ~proc[p].missed =>
             /\ proc[p].pc = "done" => Openable(file[Target(p)])
             /\ proc[p].pc = "failed" => Duplicates(file[Target(p)])
    /\ \A f \in Files : Openable(file[f]) => ~Duplicates(file[f])

\* The readings the input of a command has, by external id and time: a csv file
\* is read for one sensor, and klio-sensor sync takes what the source has under
\* the uuid of its sensor, whatever the external id there is.
InputOf(c, F) ==
    LET s == F[c.source]
    IN CASE c.tool = "import" ->
              {<<c.id, c.lines[i].t>> : i \in {j \in DOMAIN c.lines : c.lines[j].ok}}
         [] c.tool = "syncStore" ->
              UNION {{<<s.sensors[u].id, t>> : t \in DOMAIN s.readings[u]} :
                        u \in DOMAIN s.sensors}
         [] c.tool = "syncSensor" ->
              UNION {{<<c.id, t>> : t \in DOMAIN s.readings[u]} : u \in DOMAIN s.sensors}
         [] OTHER -> {}

\* No tool takes a stored reading or a sensor away, whatever it runs beside and
\* wherever it is killed, and only the commit of an import or a sync puts another
\* value in the place of one, for a sensor and a time its input has.
ToolsKeepReadings ==
    [][\A f \in Files : \A u \in DOMAIN file[f].sensors :
          /\ u \in DOMAIN file'[f].sensors
          /\ file'[f].sensors[u].id = file[f].sensors[u].id
          /\ \A t \in DOMAIN file[f].readings[u] :
                /\ t \in DOMAIN file'[f].readings[u]
                /\ file'[f].readings[u][t] # file[f].readings[u][t] =>
                      \E p \in Procs :
                         /\ lock[f] = p
                         /\ <<file[f].sensors[u].id, t>> \in InputOf(proc[p].cmd, file)]_vars

\* t has the readings of u in s as those of x.
BroughtAs(s, u, t, x) ==
    \A k \in DOMAIN s.readings[u] :
       k \in DOMAIN t.readings[x] /\ t.readings[x][k] = s.readings[u][k]

Brought(s, u, t) ==
    \E x \in DOMAIN t.sensors :
       t.sensors[x].id = s.sensors[u].id /\ BroughtAs(s, u, t, x)

\* A klio-store sync that reports success, met no lock and had nobody write
\* beside it has brought over every sensor and its definition, and the readings
\* of one sensor at least; a klio-sensor sync all readings of its sensor.
SyncToolCopies ==
    [][\A p \in Procs :
          /\ Running(p) /\ proc'[p].pc = "done"
          /\ ~proc'[p].missed /\ ~proc[p].disturbed
          =>
          LET s == file[Source(p)]
              t == file'[Target(p)]
              full == {u \in DOMAIN s.sensors : s.readings[u] # <<>>}
          IN /\ proc[p].cmd.tool = "syncStore" =>
                   /\ \A u \in DOMAIN s.sensors :
                         \E x \in DOMAIN t.sensors : t.sensors[x] = s.sensors[u]
                   /\ full # {} => \E u \in full : Brought(s, u, t)
             /\ proc[p].cmd.tool = "syncSensor" =>
                   \A u \in Named(p) :
                      u \in DOMAIN t.sensors /\ BroughtAs(s, u, t, u)]_vars

\* A script shows each reading in the minute of the row of its day and nothing
\* else, whatever days are missing, when no minute has two readings and no day
\* begins with its last second.
ScriptsShowReadings ==
    \A p \in Procs :
       proc[p].cmd.tool = "octscript" /\ proc[p].seen # <<>> /\ Plain(proc[p].seen) =>
          proc[p].script = Matrix(proc[p].seen)
=============================================================================
