----------------------------- MODULE ToolsProofs -----------------------------
(***************************************************************************)
(* Theorems about module Tools, for any number of processes and files:     *)
(* what stands in a file stays and replacements are asked for, and create  *)
(* and upgrade leave files that open.  The invariant says what a process   *)
(* relies on while others write: files only grow, what it has loaded is    *)
(* still there, and each statement it has yet to execute is one it may.    *)
(* Two more say that a script is made of the readings its process has      *)
(* seen, and what a sync nobody disturbs has brought and still will.       *)
(***************************************************************************)
EXTENDS Tools, OctaveScriptProofs

-----------------------------------------------------------------------------
(* Files grow *)

\* Whatever is written to d, e still has its sensors, by their external ids, and
\* their times, and the column of devices if d had it or no sensors.
Grown(d, e) ==
    /\ d.schema \subseteq e.schema
    /\ e.version \in {d.version, "current"}
    /\ "sensors" \in e.schema /\ "device" \notin e.schema => "sensors" \in d.schema
    /\ \A u \in DOMAIN d.sensors :
          /\ u \in DOMAIN e.sensors
          /\ e.sensors[u].id = d.sensors[u].id
          /\ DOMAIN d.readings[u] \subseteq DOMAIN e.readings[u]

Syncs == {"syncStore", "syncSensor"}

\* Only values of the input k, by external id and time, were replaced.
Spared(k, d, e) ==
    \A u \in DOMAIN d.sensors : \A t \in DOMAIN d.readings[u] :
       e.readings[u][t] # d.readings[u][t] => <<d.sensors[u].id, t>> \in k

\* Only whether the file exists is different.
Alike(d, e) ==
    /\ d.schema = e.schema /\ d.version = e.version
    /\ d.sensors = e.sensors /\ d.readings = e.readings

-----------------------------------------------------------------------------
(* The statements a process has yet to execute *)

Schemers == {"create", "upgrade"}

\* Those of initialize, with what the ones before have made of the file.
Initializing(todo, d) ==
    \/ todo = Initialize
    \/ todo = <<CreateIndex, CreateProperties, InsertVersion>> /\ "sensors" \in d.schema
    \/ todo = <<CreateProperties, InsertVersion>> /\ {"sensors", "index"} \subseteq d.schema
    \/ todo = <<InsertVersion>> /\ {"sensors", "index", "properties"} \subseteq d.schema
    \/ /\ todo = <<>> /\ {"sensors", "index", "properties"} \subseteq d.schema
       /\ d.version # "none"

\* Those of upgrade.
Upgrading(todo, d) ==
    \/ todo = <<AddColumn, CreateIndex>> /\ d.version = "current"
    \/ todo = <<CreateIndex>> /\ d.version = "current" /\ "device" \in d.schema
    \/ todo = <<>> /\ d.version = "current" /\ "device" \in d.schema

\* What another tool executes, from what it knows and the input k.
Permitted(k, known, s) ==
    \/ s.op = "insertSensor" /\ IsSensor(s.sensor)
    \/ s.op = "insertReading" /\ s.t \in Int
    \/ /\ s.op = "updateSensor" /\ IsSensor(s.sensor)
       /\ s.u \in DOMAIN known /\ known[s.u].id = s.sensor.id
    \/ /\ s.op = "replaceReading" /\ s.t \in Int
       /\ s.u \in DOMAIN known /\ <<known[s.u].id, s.t>> \in k

Queue(k, known, todo) ==
    /\ todo \in Seq(Range(todo))
    /\ \A s \in Range(todo) : Permitted(k, known, s)

-----------------------------------------------------------------------------
(* Processes *)

Fields == {"cmd", "pc", "opens", "known", "left", "todo", "kept", "due", "view", "seen",
           "script", "missed", "disturbed"}

\* The file of the command, with the transaction if it is held.
Seen(r, F, held) == IF held THEN r.view ELSE F[r.cmd.file]

\* d has the sensor u that was loaded, with its external id.
Has(d, known, u) == u \in DOMAIN d.sensors /\ d.sensors[u].id = known[u].id

\* What was loaded is still there, but for a sensor of which the insertion comes
\* next.
Mirrored(r, F, held) ==
    /\ \A u \in DOMAIN r.known[r.cmd.file] :
          \/ Has(Seen(r, F, held), r.known[r.cmd.file], u)
          \/ r.todo # <<>> /\ Head(r.todo) = InsertSensor(u, r.known[r.cmd.file][u])
    /\ \A f \in Files \ {r.cmd.file} : \A u \in DOMAIN r.known[f] : Has(F[f], r.known[f], u)

\* A transaction.
Writing(r, F) ==
    /\ r.pc = "write"
    /\ FileSound(r.view) /\ Grown(F[r.cmd.file], r.view)
    /\ Spared(InputOf(r.cmd, F), F[r.cmd.file], r.view)

CreateOK(r, d) ==
    /\ r.pc \in {"start", "checked", "initialize", "load"} \cup Ended
    /\ r.pc \notin {"start", "refused"} => Fresh(d)
    /\ r.pc = "initialize" => Initializing(r.todo, d)
    /\ r.pc = "load" => Initializing(<<>>, d) /\ r.opens = <<r.cmd.file>>
    /\ r.pc = "done" /\ ~r.missed => Openable(d)
    /\ r.pc = "failed" /\ ~r.missed => Duplicates(d)

UpgradeOK(r, d, held) ==
    /\ r.pc \in {"start", "checked", "initialize", "begin", "write"} \cup Ended
    /\ r.pc = "initialize" => Initializing(r.todo, d)
    /\ r.pc \in {"begin", "write"} => Initializing(<<>>, d)
    /\ r.pc = "write" => IF held THEN Upgrading(r.todo, r.view)
                         ELSE r.todo = <<ReplaceVersion, AddColumn, CreateIndex>>
    /\ r.pc = "done" /\ ~r.missed => Openable(d)
    /\ r.pc = "failed" /\ ~r.missed => Duplicates(d)

\* The sensor to insert next has a uuid that the file has, under another external
\* id, so the sync fails.
Doomed(todo, d) ==
    todo # <<>> /\ Head(todo).op = "insertSensor" /\ Head(todo).u \in DOMAIN d.sensors

OthersOK(r, F, held) ==
    /\ r.pc \in {"start", "open", "load", "begin", "write"} \cup Ended
    /\ r.pc = "write" =>
          \/ Doomed(r.todo, Seen(r, F, held))
          \/ /\ Queue(InputOf(r.cmd, F), r.known[r.cmd.file], r.todo)
             /\ Queue(InputOf(r.cmd, F), r.known[r.cmd.file], r.kept)

\* The job is for the sensor it is named for.
JobOK(c, F, job) ==
    /\ c.tool = "syncStore" =>
          /\ job.u \in DOMAIN F[c.source].sensors
          /\ F[c.source].sensors[job.u].id = job.sensor.id
    /\ c.tool = "syncSensor" => job.sensor.id = c.id

\* The jobs of a sync, and of one of a file with itself.
LeftOK(r, F) ==
    /\ r.left # {} => r.cmd.tool \in Syncs
    /\ \A job \in r.left : IsSensor(job.sensor) /\ JobOK(r.cmd, F, job)
    /\ r.cmd.source = r.cmd.file => \A job \in r.left : job.u \in DOMAIN F[r.cmd.file].sensors

ProcOK(r, F, held) ==
    /\ DOMAIN r = Fields /\ DOMAIN r.known = Files
    /\ \A f \in Files : \A u \in DOMAIN r.known[f] : IsSensor(r.known[f][u])
    /\ CommandSound(r.cmd)
    /\ r.pc \notin {"initialize", "write"} \cup Ended => r.todo = <<>>
    /\ r.pc \notin {"write"} \cup Ended => r.kept = <<>>
    /\ held => Writing(r, F)
    /\ r.pc \notin Ended => Mirrored(r, F, held)
    /\ r.cmd.tool = "create" => CreateOK(r, F[r.cmd.file])
    /\ r.cmd.tool = "upgrade" => UpgradeOK(r, F[r.cmd.file], held)
    /\ r.cmd.tool \notin Schemers => OthersOK(r, F, held)
    /\ LeftOK(r, F)

Holds(p) == lock[Target(p)] = p

\* The inductive invariant.
ToolsInv ==
    /\ DOMAIN file = Files /\ DOMAIN lock = Files /\ DOMAIN proc = Procs
    /\ \A f \in Files : FileSound(file[f])
    /\ \A f \in Files : lock[f] # NoProc => lock[f] \in Procs /\ f = Target(lock[f])
    /\ \A p \in Procs : ProcOK(proc[p], file, Holds(p))

-----------------------------------------------------------------------------
(* Statements *)

LEMMA GrownReflexive ==
    ASSUME NEW d
    PROVE  Grown(d, d)
BY DEF Grown

LEMMA GrownTransitive ==
    ASSUME NEW c, NEW d, NEW e, Grown(c, d), Grown(d, e)
    PROVE  Grown(c, e)
BY DEF Grown

\* The more the input holds, the more may be replaced.
LEMMA MoreInput ==
    ASSUME NEW k, NEW m, k \subseteq m
    PROVE  /\ \A d, e : Spared(k, d, e) => Spared(m, d, e)
           /\ \A known, todo : Queue(k, known, todo) => Queue(m, known, todo)
BY DEF Spared, Queue, Permitted

\* Files only grow, and with the source the input.
LEMMA InputGrows ==
    ASSUME NEW c, NEW F, NEW G, Grown(F[c.source], G[c.source])
    PROVE  InputOf(c, F) \subseteq InputOf(c, G)
<1>. DEFINE s == F[c.source]
            t == G[c.source]
<1>1. \A u \in DOMAIN s.sensors :
         /\ u \in DOMAIN t.sensors /\ t.sensors[u].id = s.sensors[u].id
         /\ DOMAIN s.readings[u] \subseteq DOMAIN t.readings[u]
  BY DEF Grown
<1>. HIDE DEF s, t
<1>2. CASE c.tool = "syncStore"
  <2>1. /\ InputOf(c, F) = UNION {{<<s.sensors[u].id, x>> : x \in DOMAIN s.readings[u]} :
                                    u \in DOMAIN s.sensors}
        /\ InputOf(c, G) = UNION {{<<t.sensors[u].id, x>> : x \in DOMAIN t.readings[u]} :
                                    u \in DOMAIN t.sensors}
    BY <1>2 DEF InputOf, s, t
  <2>. QED BY <1>1, <2>1
<1>3. CASE c.tool = "syncSensor"
  <2>1. /\ InputOf(c, F) = UNION {{<<c.id, x>> : x \in DOMAIN s.readings[u]} : u \in DOMAIN s.sensors}
        /\ InputOf(c, G) = UNION {{<<c.id, x>> : x \in DOMAIN t.readings[u]} : u \in DOMAIN t.sensors}
    BY <1>3 DEF InputOf, s, t
  <2>. QED BY <1>1, <2>1
<1>4. CASE c.tool \notin Syncs
  BY <1>4 DEF InputOf, Syncs
<1>. QED BY <1>2, <1>3, <1>4 DEF Syncs

LEMMA SparedTransitive ==
    ASSUME NEW k, NEW c, NEW d, NEW e, Grown(c, d), Spared(k, c, d), Spared(k, d, e)
    PROVE  Spared(k, c, e)
BY DEF Grown, Spared

\* What an executed statement does to a file.
Extends(k, d, e) == FileSound(e) /\ Grown(d, e) /\ Spared(k, d, e)

LEMMA AlikeGrown ==
    ASSUME NEW d, NEW e, Alike(d, e)
    PROVE  Grown(d, e) /\ Grown(e, d)
BY DEF Alike, Grown

LEMMA FileFields ==
    DOMAIN Missing = {"exists", "schema", "version", "sensors", "readings"}
BY DEF Missing

\* A change of the schema or the version only.
SchemaChanged(d, e) ==
    /\ DOMAIN e = DOMAIN d
    /\ e.exists = d.exists /\ e.sensors = d.sensors /\ e.readings = d.readings
    /\ d.schema \subseteq e.schema
    /\ e.version \in {d.version, "current"}
    /\ "sensors" \in e.schema /\ "device" \notin e.schema => "sensors" \in d.schema
    /\ "index" \in e.schema => ~Duplicates(d)
    /\ e.version = "current" => "index" \in e.schema

LEMMA SchemaChangedExtends ==
    ASSUME NEW k, NEW d, FileSound(d), NEW e, SchemaChanged(d, e)
    PROVE  Extends(k, d, e)
<1>. USE DEF SchemaChanged
<1>1. Duplicates(e) <=> Duplicates(d)
  BY DEF Duplicates
<1>2. Fresh(d) => Fresh(e)
  BY DEF Fresh
<1>3. FileSound(e)
  BY <1>1, <1>2 DEF FileSound
<1>. QED BY <1>3 DEF Extends, Grown, Spared

\* The statements for the schema.
LEMMA SchemaApplied ==
    ASSUME NEW k, NEW d, FileSound(d), NEW s, ~Refused(s, d),
           \/ s \in {CreateSensors, CreateIndex, CreateProperties, AddColumn}
           \/ s \in {InsertVersion, ReplaceVersion} /\ "index" \in d.schema
    PROVE  Extends(k, d, Applied(s, d))
<1>1. /\ {"exists", "schema", "version", "sensors", "readings"} = DOMAIN d
      /\ "index" \in d.schema => ~Duplicates(d)
      /\ d.version = "current" => "index" \in d.schema
  BY FileFields DEF FileSound
<1>2. SchemaChanged(d, Applied(s, d))
  <2>. DEFINE e == Applied(s, d)
  <2>. SUFFICES SchemaChanged(d, e)
    OBVIOUS
  <2>1. CASE s = CreateSensors
    <3>1. e = IF "sensors" \in d.schema THEN d
              ELSE [d EXCEPT !.schema = @ \cup {"sensors", "device"}]
      BY <2>1 DEF CreateSensors, Applied
    <3>. HIDE DEF e
    <3>. QED BY <1>1, <3>1 DEF SchemaChanged
  <2>2. CASE s = CreateIndex
    <3>1. e = [d EXCEPT !.schema = @ \cup {"index"}]
      BY <2>2 DEF CreateIndex, Applied
    <3>2. "index" \notin d.schema => ~Duplicates(d)
      BY <2>2 DEF CreateIndex, Refused, Duplicates
    <3>. HIDE DEF e
    <3>. QED BY <1>1, <3>1, <3>2 DEF SchemaChanged
  <2>3. CASE s = CreateProperties
    <3>1. e = [d EXCEPT !.schema = @ \cup {"properties"}]
      BY <2>3 DEF CreateProperties, Applied
    <3>. HIDE DEF e
    <3>. QED BY <1>1, <3>1 DEF SchemaChanged
  <2>4. CASE s = AddColumn
    <3>1. e = [d EXCEPT !.schema = @ \cup {"device"}]
      BY <2>4 DEF AddColumn, Applied
    <3>. HIDE DEF e
    <3>. QED BY <1>1, <3>1 DEF SchemaChanged
  <2>5. CASE s = InsertVersion /\ "index" \in d.schema
    <3>1. e = [d EXCEPT !.version = IF @ = "none" THEN "current" ELSE @]
      BY <2>5 DEF InsertVersion, Applied
    <3>. HIDE DEF e
    <3>. QED BY <1>1, <2>5, <3>1 DEF SchemaChanged
  <2>6. CASE s = ReplaceVersion /\ "index" \in d.schema
    <3>1. e = [d EXCEPT !.version = "current"]
      BY <2>6 DEF ReplaceVersion, Applied
    <3>. HIDE DEF e
    <3>. QED BY <1>1, <2>6, <3>1 DEF SchemaChanged
  <2>. QED BY <2>1, <2>2, <2>3, <2>4, <2>5, <2>6
<1>. QED BY <1>2, SchemaChangedExtends

\* A new sensor.
LEMMA InsertSensorApplied ==
    ASSUME NEW k, NEW d, FileSound(d), NEW s, s.op = "insertSensor", IsSensor(s.sensor),
           ~Refused(s, d)
    PROVE  /\ Extends(k, d, Applied(s, d))
           /\ s.u \in DOMAIN Applied(s, d).sensors /\ Applied(s, d).sensors[s.u] = s.sensor
<1>. DEFINE e == Applied(s, d)
<1>1. e = [d EXCEPT !.sensors = Put(@, s.u, s.sensor), !.readings = Put(@, s.u, <<>>)]
  BY DEF Applied
<1>2. /\ DOMAIN e = DOMAIN d
      /\ e.sensors = Put(d.sensors, s.u, s.sensor) /\ e.readings = Put(d.readings, s.u, <<>>)
      /\ e.exists = d.exists /\ e.schema = d.schema /\ e.version = d.version
  BY <1>1, FileFields DEF FileSound
<1>3. /\ s.u \notin DOMAIN d.sensors
      /\ "index" \in d.schema => \A x \in DOMAIN d.sensors : d.sensors[x].id # s.sensor.id
  BY DEF Refused, Holders
<1>. HIDE DEF e
<1>4. /\ DOMAIN e.sensors = DOMAIN d.sensors \cup {s.u} /\ DOMAIN e.readings = DOMAIN e.sensors
      /\ e.sensors[s.u] = s.sensor /\ DOMAIN e.readings[s.u] = {} /\ e.readings[s.u] = <<>>
      /\ \A x \in DOMAIN d.sensors :
            e.sensors[x] = d.sensors[x] /\ e.readings[x] = d.readings[x]
  BY <1>2, <1>3 DEF Put, FileSound
<1>5. Duplicates(e) /\ "index" \in d.schema => Duplicates(d)
  BY <1>3, <1>4 DEF Duplicates
<1>6. \A x \in DOMAIN e.sensors : IsSensor(e.sensors[x]) /\ IsSeries(e.readings[x])
  <2>1. IsSeries(<<>>)
    BY FS_EmptySet DEF IsSeries
  <2>. QED BY <1>4, <2>1 DEF FileSound
<1>7. FileSound(e)
  BY <1>2, <1>4, <1>5, <1>6 DEF FileSound, Fresh
<1>8. Grown(d, e) /\ Spared(k, d, e)
  BY <1>2, <1>4 DEF Grown, Spared
<1>. QED BY <1>4, <1>7, <1>8 DEF Extends, e

\* A sensor in the place of one with its external id.
LEMMA UpdateSensorApplied ==
    ASSUME NEW k, NEW d, FileSound(d), NEW s, s.op = "updateSensor", IsSensor(s.sensor),
           s.u \in DOMAIN d.sensors, d.sensors[s.u].id = s.sensor.id
    PROVE  Extends(k, d, Applied(s, d))
<1>. DEFINE e == Applied(s, d)
<1>1. e = [d EXCEPT !.sensors[s.u] = s.sensor]
  BY DEF Applied
<1>2. /\ DOMAIN e = DOMAIN d /\ e.readings = d.readings
      /\ DOMAIN e.sensors = DOMAIN d.sensors
      /\ \A x \in DOMAIN d.sensors :
            /\ e.sensors[x].id = d.sensors[x].id
            /\ e.sensors[x] = d.sensors[x] \/ e.sensors[x] = s.sensor
      /\ e.exists = d.exists /\ e.schema = d.schema /\ e.version = d.version
  BY <1>1, FileFields DEF FileSound
<1>. HIDE DEF e
<1>3. Duplicates(e) => Duplicates(d)
  BY <1>2 DEF Duplicates
<1>4. FileSound(e)
  BY <1>2, <1>3 DEF FileSound, Fresh
<1>5. Grown(d, e) /\ Spared(k, d, e)
  BY <1>2 DEF Grown, Spared
<1>. QED BY <1>4, <1>5 DEF Extends, e

\* A reading.
LEMMA ReadingApplied ==
    ASSUME NEW k, NEW d, FileSound(d), NEW s, ~Refused(s, d),
           s.t \in Int,
           \/ s.op = "insertReading"
           \/ s.op = "replaceReading" /\ <<d.sensors[s.u].id, s.t>> \in k
    PROVE  Extends(k, d, Applied(s, d))
<1>. DEFINE e == Applied(s, d)
            readings == [d.readings EXCEPT ![s.u] = Put(@, s.t, s.v)]
<1>1. e = [d EXCEPT !.readings = readings]
  <2>1. CASE s.op = "insertReading"
    BY <2>1 DEF Applied
  <2>2. CASE s.op = "replaceReading"
    BY <2>2 DEF Applied
  <2>. QED BY <2>1, <2>2
<1>. HIDE DEF e
<1>2. /\ DOMAIN e = DOMAIN d /\ e.sensors = d.sensors
      /\ e.readings = readings
      /\ e.exists = d.exists /\ e.schema = d.schema /\ e.version = d.version
  <2>. HIDE DEF readings
  <2>. QED BY <1>1, FileFields DEF FileSound
<1>3. s.t \in DOMAIN d.readings[s.u] => <<d.sensors[s.u].id, s.t>> \in k
  BY DEF Refused
<1>4. /\ DOMAIN e.readings = DOMAIN d.readings
      /\ \A x \in DOMAIN d.readings : x # s.u => e.readings[x] = d.readings[x]
      /\ s.u \in DOMAIN d.readings => e.readings[s.u] = Put(d.readings[s.u], s.t, s.v)
  BY <1>2
<1>5. s.u \in DOMAIN d.readings =>
         /\ DOMAIN e.readings[s.u] = DOMAIN d.readings[s.u] \cup {s.t}
         /\ \A t \in DOMAIN d.readings[s.u] : t # s.t => e.readings[s.u][t] = d.readings[s.u][t]
  BY <1>4 DEF Put
<1>6. \A x \in DOMAIN e.sensors : IsSensor(e.sensors[x]) /\ IsSeries(e.readings[x])
  <2>1. ASSUME NEW x \in DOMAIN e.sensors
        PROVE  IsSeries(e.readings[x])
    <3>1. IsSeries(d.readings[x]) /\ x \in DOMAIN d.readings
      BY <1>2, <2>1 DEF FileSound
    <3>2. CASE x = s.u
      <4>1. IsFiniteSet(DOMAIN d.readings[x] \cup {s.t})
        BY <3>1, FS_AddElement DEF IsSeries
      <4>2. DOMAIN d.readings[x] \cup {s.t} \subseteq Int
        BY <3>1 DEF IsSeries
      <4>3. Put(d.readings[x], s.t, s.v)
              = [z \in DOMAIN d.readings[x] \cup {s.t} |-> Put(d.readings[x], s.t, s.v)[z]]
        BY DEF Put
      <4>. QED BY <1>4, <1>5, <3>1, <3>2, <4>1, <4>2, <4>3 DEF IsSeries
    <3>3. CASE x # s.u
      BY <1>4, <3>1, <3>3
    <3>. QED BY <3>2, <3>3
  <2>. QED BY <1>2, <2>1 DEF FileSound
<1>7. Duplicates(e) => Duplicates(d)
  BY <1>2 DEF Duplicates
<1>8. FileSound(e)
  BY <1>2, <1>4, <1>6, <1>7 DEF FileSound, Fresh
<1>9. Grown(d, e)
  BY <1>2, <1>4, <1>5 DEF Grown, FileSound
<1>10. Spared(k, d, e)
  BY <1>2, <1>3, <1>4, <1>5 DEF Spared, FileSound
<1>. QED BY <1>8, <1>9, <1>10 DEF Extends, e

-----------------------------------------------------------------------------
(* Queues of statements *)

LEMMA QueueNone ==
    ASSUME NEW k, NEW known
    PROVE  Queue(k, known, <<>>)
<1>1. Range(<<>>) = {}
  BY DEF Range
<1>. QED BY <1>1 DEF Queue

LEMMA QueueOne ==
    ASSUME NEW k, NEW known, NEW s, Permitted(k, known, s)
    PROVE  Queue(k, known, <<s>>)
<1>1. Range(<<s>>) = {s}
  BY DEF Range
<1>. QED BY <1>1 DEF Queue

LEMMA QueueNext ==
    ASSUME NEW k, NEW known, NEW todo, Queue(k, known, todo), todo # <<>>
    PROVE  Permitted(k, known, Head(todo)) /\ Queue(k, known, Tail(todo))
<1>. DEFINE S == Range(todo)
            rest == Tail(todo)
<1>1. todo \in Seq(S) /\ \A s \in S : Permitted(k, known, s)
  BY DEF Queue
<1>2. rest \in Seq(S) /\ Head(todo) \in S
  <2>. HIDE DEF S
  <2>. QED BY <1>1
<1>3. rest \in Seq(Range(rest)) /\ Range(rest) \subseteq S
  <2>. HIDE DEF S, rest
  <2>. QED BY <1>2 DEF Range
<1>. QED BY <1>1, <1>2, <1>3 DEF Queue

LEMMA QueueConcatenated ==
    ASSUME NEW k, NEW known, NEW todo, Queue(k, known, todo), NEW more, Queue(k, known, more)
    PROVE  Queue(k, known, todo \o more)
<1>. DEFINE S == Range(todo) \cup Range(more)
            both == todo \o more
<1>1. todo \in Seq(S) /\ more \in Seq(S) /\ \A s \in S : Permitted(k, known, s)
  <2>1. todo \in Seq(Range(todo)) /\ more \in Seq(Range(more))
    BY DEF Queue
  <2>. QED BY <2>1 DEF Queue
<1>2. both \in Seq(S)
  <2>. HIDE DEF S
  <2>. QED BY <1>1
<1>3. both \in Seq(Range(both)) /\ Range(both) \subseteq S
  <2>. HIDE DEF S, both
  <2>. QED BY <1>2 DEF Range
<1>. QED BY <1>1, <1>3 DEF Queue

LEMMA ReplacementsQueue ==
    ASSUME NEW k, NEW known, NEW u \in DOMAIN known, NEW readings,
           IsFiniteSet(DOMAIN readings), DOMAIN readings \in SUBSET Int,
           \A t \in DOMAIN readings : <<known[u].id, t>> \in k
    PROVE  Queue(k, known, Replacements(u, readings))
<1>. DEFINE n == Cardinality(DOMAIN readings)
            q == Replacements(u, readings)
            time == Ascending(DOMAIN readings)
<1>1. n \in Nat
  BY FS_CardinalityType
<1>2. q = [i \in 1 .. n |-> ReplaceReading(u, time[i], readings[time[i]])]
  BY DEF Replacements, InOrder
<1>3. ASSUME NEW i \in 1 .. n
      PROVE  Permitted(k, known, q[i])
  <2>1. time[i] \in Int /\ <<known[u].id, time[i]>> \in k
    <3>1. time[i] \in DOMAIN readings
      BY AscendingElements
    <3>. HIDE DEF time
    <3>. QED BY <3>1
  <2>. HIDE DEF q, time
  <2>. QED BY <1>2, <2>1 DEF Permitted, ReplaceReading
<1>4. q \in Seq(Range(q)) /\ DOMAIN q = 1 .. n
  <2>. HIDE DEF n, time, q
  <2>1. DOMAIN q = 1 .. n /\ q = [i \in 1 .. n |-> q[i]]
    BY <1>2
  <2>2. q \in [1 .. n -> Range(q)]
    BY <2>1 DEF Range
  <2>. QED BY <1>1, <2>1, <2>2
<1>. HIDE DEF q, n
<1>. QED BY <1>3, <1>4 DEF Queue, Range, q

LEMMA ImportQueue ==
    ASSUME NEW c, CommandSound(c), c.tool = "import", NEW F,
           NEW known, NEW u \in DOMAIN known, known[u].id = c.id
    PROVE  Queue(InputOf(c, F), known, Replacements(u, ImportLines(c.lines)))
<1>. DEFINE read == {i \in DOMAIN c.lines : c.lines[i].ok}
            times == {c.lines[i].t : i \in read}
            time == [i \in read |-> c.lines[i].t]
<1>1. DOMAIN ImportLines(c.lines) = times
  BY DEF ImportLines
<1>2. IsFiniteSet(read)
  <2>1. IsFiniteSet(DOMAIN c.lines) /\ read \in SUBSET (DOMAIN c.lines)
    BY DEF CommandSound
  <2>. HIDE DEF read
  <2>. QED BY <2>1, FS_Subset
<1>3. time \in Surjection(read, times)
  <2>. HIDE DEF read
  <2>. QED BY DEF Surjection
<1>4. IsFiniteSet(times)
  <2>. HIDE DEF read, times, time
  <2>. QED BY <1>2, <1>3, FS_Surjection
<1>5. times \in SUBSET Int /\ \A t \in times : <<known[u].id, t>> \in InputOf(c, F)
  <2>1. InputOf(c, F) = {<<c.id, c.lines[i].t>> : i \in read}
    BY DEF InputOf
  <2>. QED BY <2>1 DEF CommandSound
<1>. HIDE DEF times
<1>. QED BY <1>1, <1>4, <1>5, ReplacementsQueue

-----------------------------------------------------------------------------
(* A step of another process *)

\* What files may do while a process does nothing.
Around(r, F, G, held) ==
    /\ \A f \in Files : Grown(F[f], G[f])
    /\ held => Alike(F[r.cmd.file], G[r.cmd.file])

LEMMA OpenableStays ==
    ASSUME NEW d, NEW e, Grown(d, e)
    PROVE  /\ Fresh(d) => Fresh(e)
           /\ Openable(d) => Openable(e)
           /\ Duplicates(d) => Duplicates(e)
           /\ \A todo : Initializing(todo, d) => Initializing(todo, e)
<1>1. Fresh(d) => Fresh(e)
  BY DEF Grown, Fresh
<1>2. Openable(d) => Openable(e)
  BY DEF Grown, Openable, VersionMatches
<1>3. Duplicates(d) => Duplicates(e)
  BY DEF Grown, Duplicates
<1>4. ASSUME NEW todo, Initializing(todo, d)
      PROVE  Initializing(todo, e)
  BY <1>4 DEF Initializing, Grown
<1>. QED BY <1>1, <1>2, <1>3, <1>4

LEMMA AroundProcOK ==
    ASSUME NEW r, NEW F, NEW G, NEW held \in BOOLEAN, ProcOK(r, F, held), Around(r, F, G, held)
    PROVE  ProcOK(r, G, held)
<1>. DEFINE T == r.cmd.file
<1>1. /\ T \in Files /\ r.cmd.source \in Files
      /\ \A f \in Files : Grown(F[f], G[f])
      /\ Grown(F[T], G[T])
      /\ held => Alike(F[T], G[T])
  BY DEF ProcOK, CommandSound, Around
<1>2. DOMAIN r = Fields /\ DOMAIN r.known = Files /\ CommandSound(r.cmd)
  BY DEF ProcOK
<1>. DEFINE k == InputOf(r.cmd, F)
            m == InputOf(r.cmd, G)
<1>8. k \subseteq m
  <2>1. Grown(F[r.cmd.source], G[r.cmd.source])
    BY <1>1
  <2>. QED BY <2>1, InputGrows
<1>. HIDE DEF k, m
<1>3. held => Writing(r, G)
  <2>. SUFFICES ASSUME held
                PROVE  Writing(r, G)
    OBVIOUS
  <2>1. Writing(r, F)
    BY DEF ProcOK
  <2>2. Alike(F[T], G[T])
    BY <1>1
  <2>3. Grown(F[T], r.view) /\ Spared(k, F[T], r.view)
    BY <2>1 DEF Writing, k
  <2>. HIDE DEF T
  <2>4. Grown(G[T], r.view)
    BY <2>2, <2>3 DEF Alike, Grown
  <2>5. Spared(m, F[T], r.view)
    BY <1>8, <2>3, MoreInput
  <2>6. Spared(m, G[T], r.view)
    BY <2>2, <2>5 DEF Alike, Spared
  <2>. QED BY <2>1, <2>4, <2>6 DEF Writing, T, m
<1>9. r.cmd.tool \notin Schemers => OthersOK(r, G, held)
  <2>1. Doomed(r.todo, Seen(r, F, held)) => Doomed(r.todo, Seen(r, G, held))
    BY <1>1 DEF Doomed, Seen, Grown
  <2>. HIDE DEF T
  <2>. QED BY <1>8, <2>1, MoreInput DEF ProcOK, OthersOK, k, m
<1>4. r.pc \notin Ended => Mirrored(r, G, held)
  <2>1. ASSUME r.pc \notin Ended, NEW f \in Files \ {T}, NEW u \in DOMAIN r.known[f]
        PROVE  Has(G[f], r.known[f], u)
    <3>1. Has(F[f], r.known[f], u)
      BY <2>1 DEF ProcOK, Mirrored
    <3>. QED BY <1>1, <3>1 DEF Has, Grown
  <2>2. ASSUME r.pc \notin Ended, NEW u \in DOMAIN r.known[T], Has(Seen(r, F, held), r.known[T], u)
        PROVE  Has(Seen(r, G, held), r.known[T], u)
    BY <1>1, <2>2 DEF Seen, Has, Grown
  <2>. HIDE DEF T
  <2>. QED BY <2>1, <2>2 DEF ProcOK, Mirrored, T
<1>5. r.cmd.tool = "create" => CreateOK(r, G[T])
  BY <1>1, OpenableStays DEF ProcOK, CreateOK
<1>6. r.cmd.tool = "upgrade" => UpgradeOK(r, G[T], held)
  BY <1>1, OpenableStays DEF ProcOK, UpgradeOK
<1>7. LeftOK(r, G)
  BY <1>1 DEF ProcOK, LeftOK, JobOK, Grown
<1>. HIDE DEF T
<1>. QED BY <1>2, <1>3, <1>4, <1>5, <1>6, <1>7, <1>9 DEF ProcOK, T

\* Nothing depends on who is disturbed.
LEMMA DisturbedProcOK ==
    ASSUME NEW r, NEW F, NEW held, ProcOK(r, F, held)
    PROVE  ProcOK([r EXCEPT !.disturbed = TRUE], F, held)
<1>. DEFINE q == [r EXCEPT !.disturbed = TRUE]
<1>1. /\ DOMAIN q = DOMAIN r
      /\ q.cmd = r.cmd /\ q.pc = r.pc /\ q.opens = r.opens /\ q.known = r.known
      /\ q.left = r.left /\ q.todo = r.todo /\ q.kept = r.kept /\ q.view = r.view /\ q.missed = r.missed
  BY DEF ProcOK, Fields
<1>. HIDE DEF q
<1>2. Seen(q, F, held) = Seen(r, F, held) /\ (LeftOK(q, F) <=> LeftOK(r, F))
  BY <1>1 DEF Seen, LeftOK
<1>3. Mirrored(q, F, held) <=> Mirrored(r, F, held)
  BY <1>1, <1>2 DEF Mirrored
<1>4. /\ Writing(q, F) <=> Writing(r, F)
      /\ \A d : /\ CreateOK(q, d) <=> CreateOK(r, d)
                /\ UpgradeOK(q, d, held) <=> UpgradeOK(r, d, held)
  BY <1>1 DEF Writing, CreateOK, UpgradeOK
<1>5. OthersOK(q, F, held) <=> OthersOK(r, F, held)
  BY <1>1, <1>2 DEF OthersOK, Doomed
<1>. QED BY <1>1, <1>2, <1>3, <1>4, <1>5 DEF ProcOK, q

-----------------------------------------------------------------------------
(* A step of a process *)

\* A step of p, after which it is r: no file loses anything, one that another
\* process writes to stays, and only the lock of its file is taken or given up.
Moves(p, r) ==
    /\ DOMAIN file' = Files /\ DOMAIN lock' = Files /\ DOMAIN proc' = Procs
    /\ proc'[p] = r /\ r.cmd = proc[p].cmd
    /\ \A q \in Procs \ {p} : proc'[q] = proc[q] \/ proc'[q] = [proc[q] EXCEPT !.disturbed = TRUE]
    /\ \A f \in Files : FileSound(file'[f]) /\ Grown(file[f], file'[f])
    /\ \A f \in Files : Alike(file[f], file'[f]) \/ lock[f] \in {p, NoProc}
    /\ \A f \in Files : \/ lock'[f] = lock[f]
                        \/ f = Target(p) /\ lock[f] \in {p, NoProc} /\ lock'[f] \in {p, NoProc}
    /\ ProcOK(r, file', lock'[r.cmd.file] = p)

LEMMA MovesKeepsInv ==
    ASSUME ToolsInv, NEW p \in Procs, NEW r, Moves(p, r)
    PROVE  ToolsInv'
<1>1. /\ \A f \in Files : lock[f] # NoProc => lock[f] \in Procs /\ f = proc[lock[f]].cmd.file
      /\ \A q \in Procs : ProcOK(proc[q], file, lock[proc[q].cmd.file] = q)
  BY DEF ToolsInv, Target, Holds
<1>2. ASSUME NEW q \in Procs, q # p
      PROVE  /\ proc'[q].cmd = proc[q].cmd
             /\ ProcOK(proc'[q], file', lock'[proc'[q].cmd.file] = q)
  <2>. DEFINE s == proc[q]
              T == s.cmd.file
              held == lock[T] = q
  <2>1. ProcOK(s, file, held) /\ T \in Files
    BY <1>1 DEF ProcOK, CommandSound
  <2>2. (lock'[T] = q) = held
    BY <1>2, <2>1, NoProcAssumption DEF Moves, Target
  <2>3. Around(s, file, file', held)
    BY <1>2, <2>1, NoProcAssumption DEF Moves, Around
  <2>4. ProcOK(s, file', held)
    <3>. HIDE DEF s, T
    <3>1. held \in BOOLEAN
      OBVIOUS
    <3>. HIDE DEF held
    <3>. QED BY <2>1, <2>3, <3>1, AroundProcOK
  <2>5. /\ [s EXCEPT !.disturbed = TRUE].cmd = s.cmd
        /\ ProcOK([s EXCEPT !.disturbed = TRUE], file', held)
    <3>1. DOMAIN s = Fields
      BY <2>1 DEF ProcOK
    <3>. HIDE DEF s, held
    <3>. QED BY <2>4, <3>1, DisturbedProcOK DEF Fields
  <2>6. proc'[q] = s \/ proc'[q] = [s EXCEPT !.disturbed = TRUE]
    BY <1>2 DEF Moves
  <2>. HIDE DEF s, held
  <2>. QED BY <2>2, <2>4, <2>5, <2>6 DEF s, T
<1>3. ProcOK(proc'[p], file', lock'[proc'[p].cmd.file] = p) /\ proc'[p].cmd = proc[p].cmd
  BY DEF Moves
<1>4. \A q \in Procs : proc'[q].cmd = proc[q].cmd
                       /\ ProcOK(proc'[q], file', lock'[proc'[q].cmd.file] = q)
  BY <1>2, <1>3
<1>5. \A f \in Files : lock'[f] # NoProc => lock'[f] \in Procs /\ f = proc'[lock'[f]].cmd.file
  BY <1>1, <1>4 DEF Moves, Target
<1>. QED BY <1>4, <1>5 DEF ToolsInv, Moves, Target, Holds

LEMMA StartedProcOK ==
    ASSUME NEW c, CommandSound(c), NEW F
    PROVE  Started(c).cmd = c /\ ProcOK(Started(c), F, FALSE)
<1>. DEFINE r == Started(c)
<1>1. /\ DOMAIN r = Fields /\ r.cmd = c /\ r.left = {} /\ r.todo = <<>> /\ r.kept = <<>>
      /\ r.known = NoSensors
      /\ r.pc = "start" \/ (r.pc = "done" /\ c.tool = "none")
  BY DEF Started, Fields
<1>. HIDE DEF r
<1>2. DOMAIN r.known = Files /\ \A f \in Files : DOMAIN r.known[f] = {}
  BY <1>1 DEF NoSensors
<1>3. Mirrored(r, F, FALSE)
  BY <1>1, <1>2 DEF Mirrored, CommandSound
<1>4. c.tool = "create" => CreateOK(r, F[c.file])
  BY <1>1 DEF CreateOK, Ended
<1>5. c.tool = "upgrade" => UpgradeOK(r, F[c.file], FALSE)
  BY <1>1 DEF UpgradeOK, Ended
<1>6. OthersOK(r, F, FALSE)
  BY <1>1 DEF OthersOK, Ended
<1>7. LeftOK(r, F)
  BY <1>1 DEF LeftOK
<1>. QED BY <1>1, <1>2, <1>3, <1>4, <1>5, <1>6, <1>7 DEF ProcOK, r

LEMMA InitInv ==
    Init => ToolsInv
<1>. SUFFICES ASSUME Init
              PROVE  ToolsInv
  OBVIOUS
<1>1. PICK s \in Scenarios : /\ file = s.file /\ lock = [f \in Files |-> NoProc]
                             /\ proc = [p \in Procs |-> Started(s.cmd[p])]
  BY DEF Init
<1>2. /\ DOMAIN file = Files /\ DOMAIN lock = Files /\ DOMAIN proc = Procs
      /\ \A f \in Files : FileSound(file[f]) /\ lock[f] = NoProc
      /\ \A p \in Procs : CommandSound(s.cmd[p]) /\ proc[p] = Started(s.cmd[p])
  BY <1>1, ScenariosAssumption
<1>3. ASSUME NEW p \in Procs
      PROVE  ProcOK(proc[p], file, Holds(p))
  <2>1. proc[p].cmd = s.cmd[p] /\ ProcOK(proc[p], file, FALSE)
    BY <1>2, StartedProcOK
  <2>2. Holds(p) = FALSE
    <3>1. Target(p) \in Files
      BY <1>2, <2>1 DEF Target, CommandSound
    <3>. QED BY <1>2, <3>1, NoProcAssumption DEF Holds
  <2>. QED BY <2>1, <2>2
<1>. QED BY <1>2, <1>3 DEF ToolsInv

\* What is known of the process that takes the step.
LEMMA ProcFacts ==
    ASSUME ToolsInv, NEW p \in Procs
    PROVE  /\ DOMAIN file = Files /\ DOMAIN lock = Files /\ DOMAIN proc = Procs
           /\ \A f \in Files : FileSound(file[f]) /\ Grown(file[f], file[f])
                               /\ Alike(file[f], file[f])
           /\ \A f \in Files : lock[f] = p => f = Target(p)
           /\ Target(p) \in Files /\ Source(p) \in Files
           /\ DOMAIN proc[p] = Fields
           /\ ProcOK(proc[p], file, lock[Target(p)] = p)
           /\ proc[p].pc # "write" => lock[Target(p)] # p
<1>1. /\ DOMAIN file = Files /\ DOMAIN lock = Files /\ DOMAIN proc = Procs
      /\ \A f \in Files : FileSound(file[f]) /\ Grown(file[f], file[f]) /\ Alike(file[f], file[f])
      /\ ProcOK(proc[p], file, lock[Target(p)] = p)
  BY GrownReflexive DEF ToolsInv, Holds, Alike
<1>2. \A f \in Files : lock[f] = p => f = Target(p)
  BY NoProcAssumption DEF ToolsInv
<1>. QED BY <1>1, <1>2 DEF ProcOK, CommandSound, Target, Source, Writing

LEMMA FileMarked ==
    ASSUME ToolsInv, NEW f, file' = file \/ file' = [file EXCEPT ![f].exists = TRUE]
    PROVE  /\ DOMAIN file' = Files
           /\ \A g \in Files : /\ FileSound(file'[g]) /\ Alike(file[g], file'[g])
                               /\ Grown(file[g], file'[g])
<1>1. DOMAIN file = Files /\ \A g \in Files : FileSound(file[g])
  BY DEF ToolsInv
<1>2. ASSUME NEW g \in Files
      PROVE  FileSound(file'[g]) /\ Alike(file[g], file'[g])
  <2>1. DOMAIN file[g] = {"exists", "schema", "version", "sensors", "readings"}
    BY <1>1, FileFields DEF FileSound
  <2>2. /\ DOMAIN file'[g] = DOMAIN file[g]
        /\ Alike(file[g], file'[g]) /\ (file'[g].exists = file[g].exists \/ file'[g].exists = TRUE)
    BY <1>1, <2>1 DEF Alike
  <2>3. Duplicates(file'[g]) <=> Duplicates(file[g])
    BY <2>2 DEF Duplicates, Alike
  <2>4. FileSound(file'[g])
    BY <1>1, <2>2, <2>3 DEF FileSound, Alike, Fresh
  <2>. QED BY <2>2, <2>4
<1>. QED BY <1>1, <1>2, AlikeGrown

\* The process ends as s; d is the file of a creation or an upgrade.
Ends(r, s, d) ==
    /\ DOMAIN s = Fields
    /\ s.cmd = r.cmd /\ s.known = r.known /\ s.left = r.left
    /\ r.pc \notin Ended /\ s.pc \in Ended
    /\ r.pc = "start" => s.pc = "refused"
    /\ r.cmd.tool \in Schemers /\ ~s.missed =>
          /\ s.pc = "done" => Openable(d)
          /\ s.pc = "failed" => Duplicates(d)

LEMMA EndsProcOK ==
    ASSUME NEW r, NEW F, NEW held, ProcOK(r, F, held), NEW s, Ends(r, s, F[r.cmd.file])
    PROVE  ProcOK(s, F, FALSE)
<1>. DEFINE d == F[r.cmd.file]
<1>1. s.pc \in Ended /\ s.pc \notin {"start", "initialize", "load", "begin", "write"}
  BY DEF Ends, Ended
<1>. HIDE DEF d
<1>2. ASSUME s.cmd.tool = "create"
      PROVE  CreateOK(s, d)
  <2>1. r.cmd.tool = "create" /\ CreateOK(r, d)
    BY <1>2 DEF Ends, ProcOK, d
  <2>2. s.pc # "refused" => Fresh(d)
    BY <2>1 DEF Ends, CreateOK, Ended
  <2>3. ~s.missed => (s.pc = "done" => Openable(d)) /\ (s.pc = "failed" => Duplicates(d))
    <3>1. r.cmd.tool \in Schemers
      BY <2>1 DEF Schemers
    <3>. QED BY <3>1 DEF Ends, d
  <2>. QED BY <1>1, <2>2, <2>3 DEF CreateOK
<1>3. ASSUME s.cmd.tool = "upgrade"
      PROVE  UpgradeOK(s, d, FALSE)
  <2>1. ~s.missed => (s.pc = "done" => Openable(d)) /\ (s.pc = "failed" => Duplicates(d))
    <3>1. r.cmd.tool \in Schemers
      BY <1>3 DEF Ends, Schemers
    <3>. QED BY <3>1 DEF Ends, d
  <2>. QED BY <1>1, <2>1 DEF UpgradeOK
<1>4. OthersOK(s, F, FALSE)
  BY <1>1 DEF OthersOK
<1>5. LeftOK(s, F)
  BY DEF Ends, ProcOK, LeftOK
<1>. QED BY <1>1, <1>2, <1>3, <1>4, <1>5 DEF Ends, ProcOK, d

LEMMA StopsKeepsInv ==
    ASSUME ToolsInv, NEW p \in Procs, NEW pc, NEW missed \in BOOLEAN, Stops(p, pc, missed),
           NEW f, file' = file \/ file' = [file EXCEPT ![f].exists = TRUE],
           proc[p].pc \notin Ended, pc \in Ended, proc[p].pc = "start" => pc = "refused",
           proc[p].cmd.tool \in Schemers /\ missed = FALSE /\ ~proc[p].missed =>
              /\ pc = "done" => Openable(file'[Target(p)])
              /\ pc = "failed" => Duplicates(file'[Target(p)])
    PROVE  ToolsInv'
<1>. DEFINE r == proc[p]
            s == [r EXCEPT !.pc = pc, !.missed = @ \/ missed]
            T == Target(p)
<1>1. /\ DOMAIN lock = Files /\ DOMAIN proc = Procs /\ DOMAIN r = Fields
      /\ T \in Files /\ T = r.cmd.file
      /\ \A g \in Files : lock[g] = p => g = T
      /\ ProcOK(r, file, lock[T] = p)
  BY ProcFacts DEF Target
<1>2. /\ DOMAIN file' = Files
      /\ \A g \in Files : /\ FileSound(file'[g]) /\ Alike(file[g], file'[g])
                          /\ Grown(file[g], file'[g])
  BY FileMarked
<1>3. proc' = [proc EXCEPT ![p] = s]
  BY DEF Stops
<1>4. /\ DOMAIN s = Fields /\ s.cmd = r.cmd /\ s.known = r.known /\ s.left = r.left
      /\ s.pc = pc /\ s.missed = (r.missed \/ missed)
  BY <1>1 DEF Fields
<1>5. /\ DOMAIN lock' = Files
      /\ \A g \in Files : lock'[g] = lock[g] \/ (g = T /\ lock[g] = p /\ lock'[g] = NoProc)
      /\ lock'[T] # p
  BY <1>1, NoProcAssumption DEF Stops
<1>. HIDE DEF r, s, T
<1>6. ProcOK(r, file', lock[T] = p)
  <2>1. Around(r, file, file', lock[T] = p)
    BY <1>1, <1>2 DEF Around
  <2>2. (lock[T] = p) \in BOOLEAN
    OBVIOUS
  <2>. QED BY <1>1, <2>1, <2>2, AroundProcOK
<1>7. ~s.missed => missed = FALSE /\ ~r.missed
  BY <1>4
<1>8. Ends(r, s, file'[r.cmd.file])
  BY <1>1, <1>4, <1>7 DEF Ends, r, T
<1>9. ProcOK(s, file', FALSE)
  BY <1>6, <1>8, EndsProcOK
<1>10. Moves(p, s)
  <2>1. proc'[p] = s /\ \A q \in Procs \ {p} : proc'[q] = proc[q]
    BY <1>1, <1>3
  <2>2. DOMAIN proc' = Procs
    BY <1>1, <1>3
  <2>3. ProcOK(s, file', lock'[s.cmd.file] = p)
    <3>1. (lock'[s.cmd.file] = p) = FALSE
      BY <1>1, <1>4, <1>5
    <3>. QED BY <1>9, <3>1
  <2>. QED BY <1>2, <1>4, <1>5, <2>1, <2>2, <2>3 DEF Moves, r, T
<1>. QED BY <1>10, MovesKeepsInv

\* Only p changes, and perhaps whether a file exists.
LEMMA OwnKeepsInv ==
    ASSUME ToolsInv, NEW p \in Procs, NEW s, proc' = [proc EXCEPT ![p] = s], lock' = lock,
           NEW f, file' = file \/ file' = [file EXCEPT ![f].exists = TRUE],
           s.cmd = proc[p].cmd, ProcOK(s, file', lock[Target(p)] = p)
    PROVE  ToolsInv'
<1>1. /\ DOMAIN lock = Files /\ DOMAIN proc = Procs
      /\ DOMAIN file' = Files
      /\ \A g \in Files : /\ FileSound(file'[g]) /\ Alike(file[g], file'[g])
                          /\ Grown(file[g], file'[g])
  BY ProcFacts, FileMarked
<1>2. /\ DOMAIN lock' = Files /\ DOMAIN proc' = Procs
      /\ proc'[p] = s /\ \A q \in Procs \ {p} : proc'[q] = proc[q]
  BY <1>1
<1>3. ProcOK(s, file', lock'[s.cmd.file] = p)
  BY DEF Target
<1>4. Moves(p, s)
  BY <1>1, <1>2, <1>3 DEF Moves
<1>. QED BY <1>4, MovesKeepsInv

\* The process goes on as s, which does not change what it knows.
Continues(r, s) ==
    /\ DOMAIN s = Fields
    /\ s.cmd = r.cmd /\ s.known = r.known /\ s.view = r.view
    /\ s.kept = r.kept
    /\ r.pc \notin {"write"} \cup Ended
    /\ s.todo = r.todo \/ r.todo = <<>> \/ Head(r.todo).op # "insertSensor"
    /\ s.pc \notin {"initialize", "write"} \cup Ended => s.todo = <<>>

GoesOn(r, s) == Continues(r, s) /\ s.left = r.left

LEMMA ContinuesProcOK ==
    ASSUME NEW r, NEW F, ProcOK(r, F, FALSE), NEW s, Continues(r, s), LeftOK(s, F),
           s.cmd.tool = "create" => CreateOK(s, F[s.cmd.file]),
           s.cmd.tool = "upgrade" => UpgradeOK(s, F[s.cmd.file], FALSE),
           s.cmd.tool \notin Schemers => OthersOK(s, F, FALSE)
    PROVE  ProcOK(s, F, FALSE)
<1>1. s.pc \notin Ended => Mirrored(s, F, FALSE)
  BY DEF ProcOK, Continues, Mirrored, Seen, InsertSensor
<1>. QED BY <1>1 DEF ProcOK, Continues

LEMMA GoesOnProcOK ==
    ASSUME NEW r, NEW F, ProcOK(r, F, FALSE), NEW s, GoesOn(r, s),
           s.cmd.tool = "create" => CreateOK(s, F[s.cmd.file]),
           s.cmd.tool = "upgrade" => UpgradeOK(s, F[s.cmd.file], FALSE),
           s.cmd.tool \notin Schemers => OthersOK(s, F, FALSE)
    PROVE  ProcOK(s, F, FALSE)
<1>1. LeftOK(s, F)
  BY DEF ProcOK, GoesOn, Continues, LeftOK
<1>. QED BY <1>1, ContinuesProcOK DEF GoesOn

LEMMA StartKeepsInv ==
    ASSUME ToolsInv, NEW p \in Procs, Start(p)
    PROVE  ToolsInv'
<1>. DEFINE r == proc[p]
            T == r.cmd.file
<1>1. /\ DOMAIN r = Fields /\ ProcOK(r, file, FALSE) /\ (lock[T] = p) = FALSE
      /\ FileSound(file[T]) /\ T = Target(p)
  BY ProcFacts DEF Start, At, Target
<1>2. r.pc = "start" /\ r.pc \notin Ended /\ file' = file /\ r.todo = <<>>
  BY <1>1 DEF Start, At, Ended, ProcOK
<1>3. CASE Stops(p, "refused", FALSE)
  BY <1>2, <1>3, StopsKeepsInv DEF Ended
<1>4. CASE /\ proc' = [proc EXCEPT ![p].pc = "checked"] /\ lock' = lock
           /\ r.cmd.tool = "create" => ~file[T].exists
           /\ r.cmd.tool \in Schemers
  <2>. DEFINE s == [r EXCEPT !.pc = "checked"]
  <2>1. GoesOn(r, s) /\ s.pc = "checked"
    BY <1>1, <1>2 DEF GoesOn, Continues, Fields
  <2>2. proc' = [proc EXCEPT ![p] = s]
    BY <1>4
  <2>. HIDE DEF s, r
  <2>3. s.cmd.tool = "create" => CreateOK(s, file[T])
    BY <1>1, <1>4, <2>1 DEF CreateOK, GoesOn, Continues, FileSound, Ended
  <2>4. s.cmd.tool = "upgrade" => UpgradeOK(s, file[T], FALSE)
    BY <2>1 DEF UpgradeOK, Ended
  <2>5. ProcOK(s, file, FALSE)
    BY <1>1, <1>4, <2>1, <2>3, <2>4, GoesOnProcOK DEF GoesOn, Continues
  <2>. QED BY <1>1, <1>2, <1>4, <2>1, <2>2, <2>5, OwnKeepsInv DEF GoesOn, Continues, r
<1>5. CASE /\ proc' = [proc EXCEPT ![p].pc = "open", ![p].opens = ToOpen(p)] /\ lock' = lock
           /\ r.cmd.tool \notin Schemers
  <2>. DEFINE s == [r EXCEPT !.pc = "open", !.opens = ToOpen(p)]
  <2>1. GoesOn(r, s) /\ s.pc = "open"
    BY <1>1, <1>2 DEF GoesOn, Continues, Fields
  <2>2. proc' = [proc EXCEPT ![p] = s]
    BY <1>5
  <2>. HIDE DEF s, r
  <2>3. OthersOK(s, file, FALSE)
    BY <1>1, <1>2, <1>5, <2>1 DEF OthersOK, GoesOn, Continues, ProcOK, Ended
  <2>4. ProcOK(s, file, FALSE)
    BY <1>1, <1>5, <2>1, <2>3, GoesOnProcOK DEF GoesOn, Continues, Schemers
  <2>. QED BY <1>1, <1>2, <1>5, <2>1, <2>2, <2>4, OwnKeepsInv DEF GoesOn, Continues, r
<1>. QED BY <1>3, <1>4, <1>5 DEF Start, Schemers, Target

LEMMA CreateStoreKeepsInv ==
    ASSUME ToolsInv, NEW p \in Procs, CreateStore(p)
    PROVE  ToolsInv'
<1>. DEFINE r == proc[p]
            T == r.cmd.file
            s == [r EXCEPT !.pc = "initialize", !.todo = Initialize]
<1>1. /\ DOMAIN r = Fields /\ ProcOK(r, file, FALSE) /\ (lock[T] = p) = FALSE
      /\ T = Target(p)
  BY ProcFacts DEF CreateStore, At, Target
<1>2. /\ r.pc = "checked" /\ r.pc \notin Ended /\ r.todo = <<>>
      /\ file' = file \/ file' = [file EXCEPT ![T].exists = TRUE]
      /\ proc' = [proc EXCEPT ![p] = s] /\ lock' = lock
  BY <1>1 DEF CreateStore, At, Ended, ProcOK, Target
<1>3. GoesOn(r, s) /\ s.pc = "initialize" /\ s.todo = Initialize
  BY <1>1, <1>2 DEF GoesOn, Continues, Fields
<1>. HIDE DEF r, s
<1>4. ProcOK(r, file', FALSE)
  <2>1. Around(r, file, file', FALSE)
    BY <1>2, FileMarked DEF Around
  <2>. QED BY <1>1, <2>1, AroundProcOK
<1>5. s.cmd.tool = "create" => CreateOK(s, file'[s.cmd.file])
  BY <1>2, <1>3, <1>4 DEF CreateOK, GoesOn, Continues, ProcOK, Ended, Initializing
<1>6. s.cmd.tool = "upgrade" => UpgradeOK(s, file'[s.cmd.file], FALSE)
  BY <1>3 DEF UpgradeOK, Ended, Initializing
<1>7. s.cmd.tool \in Schemers
  <2>1. "checked" \notin {"start", "open", "load", "begin", "write"} \cup Ended
    BY DEF Ended
  <2>. QED BY <1>1, <1>2, <1>3, <2>1 DEF ProcOK, OthersOK, GoesOn, Continues
<1>8. ProcOK(s, file', FALSE)
  BY <1>3, <1>4, <1>5, <1>6, <1>7, GoesOnProcOK
<1>9. s.cmd = proc[p].cmd /\ ProcOK(s, file', lock[Target(p)] = p)
  BY <1>1, <1>3, <1>8 DEF GoesOn, Continues, r
<1>. HIDE DEF T
<1>. QED BY <1>2, <1>9, OwnKeepsInv

LEMMA InitializedKeepsInv ==
    ASSUME ToolsInv, NEW p \in Procs, Initialized(p)
    PROVE  ToolsInv'
<1>. DEFINE r == proc[p]
            T == r.cmd.file
            s == IF r.cmd.tool = "create" THEN [r EXCEPT !.pc = "load", !.opens = <<T>>]
                 ELSE [r EXCEPT !.pc = "begin"]
<1>1. /\ DOMAIN r = Fields /\ ProcOK(r, file, FALSE) /\ (lock[T] = p) = FALSE
      /\ T = Target(p)
  BY ProcFacts DEF Initialized, At, Target
<1>2. /\ r.pc = "initialize" /\ r.pc \notin Ended /\ r.todo = <<>> /\ file' = file
      /\ proc' = [proc EXCEPT ![p] = s] /\ lock' = lock
  BY <1>1 DEF Initialized, At, Ended, Target
<1>3. /\ GoesOn(r, s)
      /\ r.cmd.tool = "create" => s.pc = "load" /\ s.opens = <<T>>
      /\ r.cmd.tool # "create" => s.pc = "begin"
  BY <1>1, <1>2 DEF GoesOn, Continues, Fields
<1>. HIDE DEF r, s
<1>4. r.cmd.tool \in Schemers
  <2>1. "initialize" \notin {"start", "open", "load", "begin", "write"} \cup Ended
    BY DEF Ended
  <2>. QED BY <1>1, <1>2, <2>1 DEF ProcOK, OthersOK
<1>5. s.cmd.tool = "create" => CreateOK(s, file[s.cmd.file])
  BY <1>1, <1>2, <1>3 DEF CreateOK, GoesOn, Continues, ProcOK, Ended
<1>6. s.cmd.tool = "upgrade" => UpgradeOK(s, file[s.cmd.file], FALSE)
  BY <1>1, <1>2, <1>3 DEF UpgradeOK, GoesOn, Continues, ProcOK, Ended
<1>7. ProcOK(s, file', FALSE)
  BY <1>1, <1>2, <1>3, <1>4, <1>5, <1>6, GoesOnProcOK DEF GoesOn, Continues
<1>8. s.cmd = proc[p].cmd /\ ProcOK(s, file', lock[Target(p)] = p)
  BY <1>1, <1>3, <1>7 DEF GoesOn, Continues, r
<1>. QED BY <1>2, <1>8, OwnKeepsInv

\* The statements of initialize succeed one after the other, unless sensors share
\* an external id.
LEMMA InitializingNext ==
    ASSUME NEW k, NEW d, FileSound(d), NEW todo, Initializing(todo, d), todo # <<>>
    PROVE  LET s == Head(todo)
           IN /\ s.op # "insertSensor"
              /\ Refused(s, d) => Duplicates(d)
              /\ ~Refused(s, d) => /\ Extends(k, d, Applied(s, d))
                                   /\ Initializing(Tail(todo), Applied(s, d))
<1>. DEFINE s == Head(todo)
            e == Applied(s, d)
            rest == Tail(todo)
<1>1. /\ s \in {CreateSensors, CreateIndex, CreateProperties, InsertVersion}
      /\ s = InsertVersion => "index" \in d.schema
      /\ s = CreateSensors => rest = <<CreateIndex, CreateProperties, InsertVersion>>
      /\ s = CreateIndex => /\ rest = <<CreateProperties, InsertVersion>>
                            /\ "sensors" \in d.schema
      /\ s = CreateProperties => /\ rest = <<InsertVersion>>
                                 /\ {"sensors", "index"} \subseteq d.schema
      /\ s = InsertVersion => /\ rest = <<>>
                              /\ {"sensors", "index", "properties"} \subseteq d.schema
  <2>1. /\ CreateSensors.op = "createSensors" /\ CreateIndex.op = "createIndex"
        /\ CreateProperties.op = "createProperties" /\ InsertVersion.op = "insertVersion"
    BY DEF CreateSensors, CreateIndex, CreateProperties, InsertVersion
  <2>2. CASE todo = Initialize
    <3>1. s = CreateSensors /\ rest = <<CreateIndex, CreateProperties, InsertVersion>>
      BY <2>2 DEF Initialize
    <3>. HIDE DEF s, rest
    <3>. QED BY <2>1, <3>1
  <2>3. CASE /\ todo = <<CreateIndex, CreateProperties, InsertVersion>>
             /\ "sensors" \in d.schema
    <3>1. s = CreateIndex /\ rest = <<CreateProperties, InsertVersion>>
      BY <2>3
    <3>. HIDE DEF s, rest
    <3>. QED BY <2>1, <2>3, <3>1
  <2>4. CASE /\ todo = <<CreateProperties, InsertVersion>>
             /\ {"sensors", "index"} \subseteq d.schema
    <3>1. s = CreateProperties /\ rest = <<InsertVersion>>
      BY <2>4
    <3>. HIDE DEF s, rest
    <3>. QED BY <2>1, <2>4, <3>1
  <2>5. CASE /\ todo = <<InsertVersion>>
             /\ {"sensors", "index", "properties"} \subseteq d.schema
    <3>1. s = InsertVersion /\ rest = <<>>
      BY <2>5
    <3>. HIDE DEF s, rest
    <3>. QED BY <2>1, <2>5, <3>1
  <2>. QED BY <2>2, <2>3, <2>4, <2>5 DEF Initializing
<1>2. DOMAIN d = {"exists", "schema", "version", "sensors", "readings"}
  BY FileFields DEF FileSound
<1>. HIDE DEF s, rest
<1>3. s.op # "insertSensor" /\ (Refused(s, d) => Duplicates(d))
  BY <1>1 DEF CreateSensors, CreateIndex, CreateProperties, InsertVersion, Refused, Duplicates
<1>4. ~Refused(s, d) => Extends(k, d, e)
  BY <1>1, SchemaApplied
<1>5. Initializing(rest, e)
  <2>1. CASE s = CreateSensors
    <3>1. e = IF "sensors" \in d.schema THEN d
              ELSE [d EXCEPT !.schema = @ \cup {"sensors", "device"}]
      BY <2>1 DEF CreateSensors, Applied
    <3>. HIDE DEF e
    <3>2. "sensors" \in e.schema
      BY <1>2, <3>1
    <3>. QED BY <1>1, <2>1, <3>2 DEF Initializing
  <2>2. CASE s = CreateIndex
    <3>1. e = [d EXCEPT !.schema = @ \cup {"index"}]
      BY <2>2 DEF CreateIndex, Applied
    <3>. HIDE DEF e
    <3>2. {"sensors", "index"} \subseteq e.schema
      BY <1>1, <1>2, <2>2, <3>1
    <3>. QED BY <1>1, <2>2, <3>2 DEF Initializing
  <2>3. CASE s = CreateProperties
    <3>1. e = [d EXCEPT !.schema = @ \cup {"properties"}]
      BY <2>3 DEF CreateProperties, Applied
    <3>. HIDE DEF e
    <3>2. {"sensors", "index", "properties"} \subseteq e.schema
      BY <1>1, <1>2, <2>3, <3>1
    <3>. QED BY <1>1, <2>3, <3>2 DEF Initializing
  <2>4. CASE s = InsertVersion
    <3>1. e = [d EXCEPT !.version = IF @ = "none" THEN "current" ELSE @]
      BY <2>4 DEF InsertVersion, Applied
    <3>. HIDE DEF e
    <3>2. {"sensors", "index", "properties"} \subseteq e.schema /\ e.version # "none"
      BY <1>1, <1>2, <2>4, <3>1
    <3>. QED BY <1>1, <2>4, <3>2 DEF Initializing
  <2>. QED BY <1>1, <2>1, <2>2, <2>3, <2>4
<1>. QED BY <1>3, <1>4, <1>5 DEF s, rest

\* Disturbed changes nothing but that.
LEMMA DisturbedOnly ==
    ASSUME NEW p \in Procs, NEW ps, DOMAIN ps = Procs, NEW f
    PROVE  /\ DOMAIN Disturbed(ps, p, f) = Procs
           /\ Disturbed(ps, p, f)[p] = ps[p]
           /\ \A q \in Procs \ {p} : \/ Disturbed(ps, p, f)[q] = ps[q]
                                     \/ Disturbed(ps, p, f)[q] = [ps[q] EXCEPT !.disturbed = TRUE]
BY DEF Disturbed

LEMMA InitializeStepKeepsInv ==
    ASSUME ToolsInv, NEW p \in Procs, InitializeStep(p)
    PROVE  ToolsInv'
<1>. DEFINE r == proc[p]
            T == r.cmd.file
            d == file[T]
            x == Head(r.todo)
            s == [r EXCEPT !.todo = Tail(@)]
<1>1. /\ DOMAIN r = Fields /\ ProcOK(r, file, FALSE) /\ (lock[T] = p) = FALSE /\ lock[T] # p
      /\ T = Target(p) /\ T \in Files /\ FileSound(d)
      /\ DOMAIN file = Files /\ DOMAIN lock = Files /\ DOMAIN proc = Procs
      /\ \A f \in Files : FileSound(file[f]) /\ Grown(file[f], file[f]) /\ Alike(file[f], file[f])
  BY ProcFacts DEF InitializeStep, At, Target
<1>2. r.pc = "initialize" /\ r.pc \notin Ended /\ r.todo # <<>>
  BY DEF InitializeStep, At, Ended
<1>3. r.cmd.tool \in Schemers
  <2>1. "initialize" \notin {"start", "open", "load", "begin", "write"} \cup Ended
    BY DEF Ended
  <2>. QED BY <1>1, <1>2, <2>1 DEF ProcOK, OthersOK
<1>4. Initializing(r.todo, d)
  BY <1>1, <1>2, <1>3 DEF ProcOK, CreateOK, UpgradeOK, Schemers
<1>5. /\ x.op # "insertSensor"
      /\ Refused(x, d) => Duplicates(d)
      /\ ~Refused(x, d) => /\ Extends({}, d, Applied(x, d))
                           /\ Initializing(Tail(r.todo), Applied(x, d))
  <2>. HIDE DEF d, r
  <2>. QED BY <1>1, <1>2, <1>4, InitializingNext
<1>6. CASE Throws(p, TRUE) /\ file' = file
  BY <1>2, <1>6, StopsKeepsInv DEF Throws, Ended
<1>7. CASE Throws(p, FALSE) /\ file' = file /\ Refused(x, d)
  BY <1>1, <1>2, <1>5, <1>7, StopsKeepsInv DEF Throws, Ended
<1>8. CASE /\ ~LockedOut(p, T) /\ ~Refused(x, d) /\ lock' = lock
           /\ file' = [file EXCEPT ![T] = Applied(x, @)]
           /\ proc' = Disturbed([proc EXCEPT ![p].todo = Tail(@)], p, T)
  <2>1. GoesOn(r, s) /\ s.pc = "initialize" /\ s.todo = Tail(r.todo)
    BY <1>1, <1>2, <1>5 DEF GoesOn, Continues, Fields
  <2>2. /\ DOMAIN file' = Files /\ file'[T] = Applied(x, d)
        /\ \A f \in Files : f # T => file'[f] = file[f]
    BY <1>1, <1>8
  <2>3. /\ DOMAIN proc' = Procs /\ proc'[p] = s
        /\ \A q \in Procs \ {p} : \/ proc'[q] = proc[q]
                                  \/ proc'[q] = [proc[q] EXCEPT !.disturbed = TRUE]
    <3>. DEFINE ps == [proc EXCEPT ![p].todo = Tail(@)]
    <3>1. DOMAIN ps = Procs /\ ps[p] = s /\ \A q \in Procs \ {p} : ps[q] = proc[q]
      BY <1>1
    <3>2. proc' = Disturbed(ps, p, T)
      BY <1>8
    <3>. HIDE DEF ps, s, T
    <3>. QED BY <3>1, <3>2, DisturbedOnly
  <2>4. lock[T] = NoProc
    BY <1>1, <1>8 DEF LockedOut
  <2>. HIDE DEF r, s, x, d
  <2>5. /\ Extends({}, d, file'[T])
        /\ Initializing(s.todo, file'[T])
    BY <1>5, <1>8, <2>1, <2>2
  <2>6. \A f \in Files : /\ FileSound(file'[f]) /\ Grown(file[f], file'[f])
                         /\ Alike(file[f], file'[f]) \/ f = T
    BY <1>1, <2>2, <2>5 DEF Extends, d
  <2>7. ProcOK(r, file', FALSE)
    <3>1. Around(r, file, file', FALSE)
      BY <2>6 DEF Around
    <3>. QED BY <1>1, <3>1, AroundProcOK
  <2>8. s.cmd.tool = "create" => CreateOK(s, file'[s.cmd.file])
    BY <1>2, <2>1, <2>5, <2>7 DEF CreateOK, GoesOn, Continues, ProcOK, Ended
  <2>9. s.cmd.tool = "upgrade" => UpgradeOK(s, file'[s.cmd.file], FALSE)
    BY <2>1, <2>5 DEF UpgradeOK, GoesOn, Continues, Ended
  <2>10. ProcOK(s, file', FALSE)
    BY <1>3, <2>1, <2>7, <2>8, <2>9, GoesOnProcOK DEF GoesOn, Continues
  <2>11. ProcOK(s, file', lock'[s.cmd.file] = p)
    <3>1. (lock'[s.cmd.file] = p) = FALSE
      BY <1>1, <1>8, <2>1 DEF GoesOn, Continues
    <3>. QED BY <2>10, <3>1
  <2>12. Moves(p, s)
    BY <1>1, <1>8, <2>1, <2>2, <2>3, <2>4, <2>6, <2>11 DEF Moves, GoesOn, Continues, r
  <2>. QED BY <2>12, MovesKeepsInv
<1>. QED BY <1>6, <1>7, <1>8 DEF InitializeStep, Target

LEMMA CheckIntegrityKeepsInv ==
    ASSUME ToolsInv, NEW p \in Procs, CheckIntegrity(p)
    PROVE  ToolsInv'
<1>. DEFINE r == proc[p]
            f == Head(r.opens)
            s == [r EXCEPT !.pc = "load"]
<1>1. /\ DOMAIN r = Fields /\ ProcOK(r, file, FALSE) /\ (lock[Target(p)] = p) = FALSE
  BY ProcFacts DEF CheckIntegrity, At
<1>2. /\ r.pc = "open" /\ r.pc \notin Ended
      /\ file' = file \/ file' = [file EXCEPT ![f].exists = TRUE]
  BY DEF CheckIntegrity, At, Ended
<1>3. r.cmd.tool \notin Schemers /\ r.todo = <<>>
  BY <1>1, <1>2 DEF ProcOK, CreateOK, UpgradeOK, Schemers, Ended
<1>4. ASSUME NEW missed \in BOOLEAN, Throws(p, missed)
      PROVE  ToolsInv'
  <2>. HIDE DEF f
  <2>. QED BY <1>2, <1>3, <1>4, StopsKeepsInv DEF Throws, Ended
<1>5. CASE proc' = [proc EXCEPT ![p].pc = "load"] /\ lock' = lock
  <2>1. GoesOn(r, s) /\ s.pc = "load" /\ s.todo = <<>>
    BY <1>1, <1>2, <1>3 DEF GoesOn, Continues, Fields
  <2>2. proc' = [proc EXCEPT ![p] = s]
    BY <1>5
  <2>. HIDE DEF r, s, f
  <2>3. ProcOK(r, file', FALSE)
    <3>1. Around(r, file, file', FALSE)
      BY <1>2, FileMarked DEF Around
    <3>. QED BY <1>1, <3>1, AroundProcOK
  <2>4. OthersOK(s, file', FALSE)
    BY <2>1 DEF OthersOK, Ended
  <2>5. ProcOK(s, file', FALSE)
    BY <1>3, <2>1, <2>3, <2>4, GoesOnProcOK DEF GoesOn, Continues, Schemers
  <2>6. s.cmd = proc[p].cmd /\ ProcOK(s, file', lock[Target(p)] = p)
    BY <1>1, <2>1, <2>5 DEF GoesOn, Continues, r
  <2>. QED BY <1>2, <1>5, <2>2, <2>6, OwnKeepsInv
<1>. QED BY <1>4, <1>5 DEF CheckIntegrity

LEMMA PrepareKeepsInv ==
    ASSUME ToolsInv, NEW p \in Procs, Prepare(p)
    PROVE  ToolsInv'
<1>. DEFINE r == proc[p]
            T == r.cmd.file
            f == Head(r.opens)
            opens == Tail(r.opens)
            next == IF opens # <<>> THEN "open"
                    ELSE IF r.cmd.tool = "create" THEN "done" ELSE "begin"
<1>1. /\ DOMAIN r = Fields /\ ProcOK(r, file, FALSE) /\ (lock[T] = p) = FALSE
      /\ T = Target(p) /\ T \in Files /\ DOMAIN r.known = Files
      /\ \A g \in Files : FileSound(file[g])
  BY ProcFacts DEF Prepare, At, Target, ProcOK
<1>2. r.pc = "load" /\ r.pc \notin Ended /\ file' = file
  BY DEF Prepare, At, Ended
<1>3. r.todo = <<>> /\ r.kept = <<>> /\ r.cmd.tool # "upgrade"
  BY <1>1, <1>2 DEF ProcOK, UpgradeOK, Ended
<1>4. r.cmd.tool = "create" =>
         /\ f = T /\ opens = <<>>
         /\ Fresh(file[T]) /\ Initializing(<<>>, file[T]) /\ Openable(file[T])
  <2>1. r.cmd.tool = "create" =>
           Fresh(file[T]) /\ Initializing(<<>>, file[T]) /\ r.opens = <<T>>
    BY <1>1, <1>2 DEF ProcOK, CreateOK, Ended
  <2>2. /\ <<>> # Initialize
        /\ <<>> # <<CreateIndex, CreateProperties, InsertVersion>>
        /\ <<>> # <<CreateProperties, InsertVersion>>
        /\ <<>> # <<InsertVersion>>
    BY DEF Initialize
  <2>3. r.cmd.tool = "create" => Openable(file[T])
    BY <2>1, <2>2 DEF Initializing, Fresh, Openable, VersionMatches
  <2>4. ASSUME r.opens = <<T>>
        PROVE  f = T /\ opens = <<>>
    <3>. HIDE DEF r
    <3>. QED BY <2>4
  <2>. QED BY <2>1, <2>3, <2>4
<1>5. CASE "device" \notin file[f].schema /\ Throws(p, FALSE)
  <2>1. r.cmd.tool \notin Schemers
    BY <1>3, <1>4, <1>5 DEF Schemers, Openable
  <2>. QED BY <1>2, <1>5, <2>1, StopsKeepsInv DEF Throws, Ended
<1>6. ASSUME NEW nothing \in BOOLEAN, lock' = lock,
             proc' = [proc EXCEPT ![p].known[f] = IF nothing THEN <<>> ELSE file[f].sensors,
                                  ![p].missed = @ \/ nothing,
                                  ![p].opens = opens,
                                  ![p].pc = next]
      PROVE  ToolsInv'
  <2>. DEFINE list == IF nothing THEN <<>> ELSE file[f].sensors
              s == [r EXCEPT !.known[f] = list, !.missed = @ \/ nothing, !.opens = opens,
                             !.pc = next]
  <2>1. proc' = [proc EXCEPT ![p] = s]
    BY <1>6
  <2>2. /\ DOMAIN s = Fields /\ s.cmd = r.cmd /\ s.left = r.left /\ s.todo = <<>>
        /\ s.kept = <<>> /\ s.pc = next /\ s.pc \in {"open", "begin", "done"}
        /\ DOMAIN s.known = Files
        /\ \A g \in Files : s.known[g] = IF g = f THEN list ELSE r.known[g]
    BY <1>1, <1>3 DEF Fields
  <2>3. /\ \A u \in DOMAIN list : Has(file[f], list, u)
        /\ f \in Files => \A u \in DOMAIN list : IsSensor(list[u])
    <3>. HIDE DEF f
    <3>. QED BY <1>1 DEF Has, FileSound
  <2>. HIDE DEF r, s, list, f, opens
  <2>4. \A g \in Files : \A u \in DOMAIN r.known[g] : Has(file[g], r.known[g], u)
    BY <1>1, <1>2, <1>3 DEF ProcOK, Mirrored, Seen
  <2>5. Mirrored(s, file, FALSE)
    BY <1>1, <2>2, <2>3, <2>4 DEF Mirrored, Seen
  <2>6. s.cmd.tool = "create" => CreateOK(s, file[T])
    BY <1>4, <2>2 DEF CreateOK, Ended
  <2>7. s.cmd.tool \notin Schemers => OthersOK(s, file, FALSE)
    BY <2>2 DEF OthersOK, Schemers, Ended
  <2>8. LeftOK(s, file)
    BY <1>1, <2>2 DEF ProcOK, LeftOK
  <2>9. ProcOK(s, file, FALSE)
    <3>1. \A g \in Files : \A u \in DOMAIN s.known[g] : IsSensor(s.known[g][u])
      BY <1>1, <2>2, <2>3 DEF ProcOK
    <3>. QED BY <1>1, <1>3, <2>2, <2>5, <2>6, <2>7, <2>8, <3>1 DEF ProcOK
  <2>10. s.cmd = proc[p].cmd /\ ProcOK(s, file', lock[Target(p)] = p)
    BY <1>1, <1>2, <2>2, <2>9 DEF r
  <2>11. file' = file /\ lock' = lock
    BY <1>2, <1>6
  <2>. QED BY <2>1, <2>10, <2>11, OwnKeepsInv
<1>7. MayReadNothing(p, f) \in BOOLEAN
  BY DEF MayReadNothing, LockedOut
<1>8. \/ "device" \notin file[f].schema /\ Throws(p, FALSE)
      \/ \E nothing \in {FALSE} \cup {MayReadNothing(p, f)} :
            /\ lock' = lock
            /\ proc' = [proc EXCEPT ![p].known[f] = IF nothing THEN <<>> ELSE file[f].sensors,
                                    ![p].missed = @ \/ nothing,
                                    ![p].opens = opens,
                                    ![p].pc = next]
  BY DEF Prepare
<1>. HIDE DEF f, opens, next
<1>9. \A nothing \in {FALSE} \cup {MayReadNothing(p, f)} : nothing \in BOOLEAN
  BY <1>7
<1>. QED BY <1>5, <1>6, <1>8, <1>9

\* The statements of a tool that needs no other file.
LEMMA StatementsQueue ==
    ASSUME NEW p \in Procs, CommandSound(proc[p].cmd), NEW F,
           \A u \in DOMAIN proc[p].known[Target(p)] : IsSensor(proc[p].known[Target(p)][u]),
           proc[p].cmd.tool \in {"createSensor", "addReading", "changeDescription", "import"}
    PROVE  Queue(InputOf(proc[p].cmd, F), proc[p].known[Target(p)], Statements(p))
<1>. DEFINE c == proc[p].cmd
            known == proc[p].known[Target(p)]
            u == CHOOSE x \in Named(p) : TRUE
            k == InputOf(c, F)
<1>1. Named(p) # {} => u \in DOMAIN known /\ IsSensor(known[u]) /\ known[u].id = c.id
  BY DEF Named, Holders
<1>2. Queue(k, known, <<>>)
  BY QueueNone
<1>3. CASE c.tool = "createSensor"
  <2>1. Statements(p) = <<InsertSensor(c.u, c.sensor)>>
    BY <1>3 DEF Statements, CreateSensor
  <2>2. Permitted(k, known, InsertSensor(c.u, c.sensor))
    BY <1>3 DEF Permitted, InsertSensor, CommandSound
  <2>. HIDE DEF c, known, k
  <2>. QED BY <2>1, <2>2, QueueOne DEF c, known, k
<1>4. CASE c.tool = "addReading"
  <2>1. Statements(p) = IF Named(p) = {} THEN <<>> ELSE <<InsertReading(u, c.t, c.v)>>
    BY <1>4 DEF Statements, AddReadingOnce, ForNamed
  <2>2. Permitted(k, known, InsertReading(u, c.t, c.v))
    BY <1>4 DEF Permitted, InsertReading, CommandSound
  <2>. HIDE DEF c, known, u, k
  <2>. QED BY <1>2, <2>1, <2>2, QueueOne DEF c, known, k
<1>5. CASE c.tool = "changeDescription"
  <2>1. Statements(p) = IF Named(p) = {} THEN <<>> ELSE <<UpdateSensor(u, known[u])>>
    BY <1>5 DEF Statements, ChangeDescription, ForNamed
  <2>. HIDE DEF c, known, u, k
  <2>2. Named(p) # {} => Permitted(k, known, UpdateSensor(u, known[u]))
    BY <1>1 DEF Permitted, UpdateSensor
  <2>. QED BY <1>2, <2>1, <2>2, QueueOne DEF c, known, k
<1>6. CASE c.tool = "import"
  <2>1. Statements(p) = IF Named(p) = {} THEN <<>> ELSE Replacements(u, ImportLines(c.lines))
    BY <1>6 DEF Statements, Import, ForNamed
  <2>2. Named(p) # {} => Queue(k, known, Replacements(u, ImportLines(c.lines)))
    <3>. HIDE DEF c, known, u
    <3>. QED BY <1>1, <1>6, ImportQueue DEF c
  <2>. HIDE DEF c, known, u, k
  <2>. QED BY <1>2, <2>1, <2>2 DEF c, known, k
<1>. QED BY <1>3, <1>4, <1>5, <1>6

LEMMA BeginKeepsInv ==
    ASSUME ToolsInv, NEW p \in Procs, Begin(p)
    PROVE  ToolsInv'
<1>. DEFINE r == proc[p]
            T == r.cmd.file
            s == [r EXCEPT !.pc = "write", !.todo = Statements(p)]
<1>1. /\ DOMAIN r = Fields /\ ProcOK(r, file, FALSE) /\ (lock[T] = p) = FALSE
      /\ T = Target(p) /\ T \in Files /\ CommandSound(r.cmd)
  BY ProcFacts DEF Begin, At, Target, ProcOK
<1>2. /\ r.pc = "begin" /\ r.pc \notin Ended /\ r.todo = <<>>
      /\ file' = file /\ lock' = lock /\ proc' = [proc EXCEPT ![p] = s]
      /\ r.cmd.tool \in {"upgrade", "createSensor", "addReading", "changeDescription", "import"}
  BY <1>1 DEF Begin, At, Ended, ProcOK
<1>3. GoesOn(r, s) /\ s.pc = "write" /\ s.todo = Statements(p) /\ r.kept = <<>>
  BY <1>1, <1>2 DEF GoesOn, Continues, Fields, ProcOK
<1>4. s.cmd.tool \notin Schemers => OthersOK(s, file, FALSE)
  <2>1. r.cmd.tool # "upgrade" => Queue(InputOf(r.cmd, file), r.known[T], Statements(p))
    <3>1. \A u \in DOMAIN r.known[T] : IsSensor(r.known[T][u])
      BY <1>1 DEF ProcOK
    <3>. QED BY <1>1, <1>2, <3>1, StatementsQueue
  <2>. HIDE DEF r, s
  <2>. QED BY <1>3, <2>1, QueueNone DEF GoesOn, Continues, OthersOK, Schemers
<1>5. s.cmd.tool = "upgrade" => UpgradeOK(s, file[s.cmd.file], FALSE)
  <2>1. r.cmd.tool = "upgrade" => Statements(p) = <<ReplaceVersion, AddColumn, CreateIndex>>
    BY DEF Statements, Upgrade
  <2>. HIDE DEF r, s
  <2>2. r.cmd.tool = "upgrade" => Initializing(<<>>, file[T])
    BY <1>1, <1>2 DEF ProcOK, UpgradeOK, Ended
  <2>. QED BY <1>3, <2>1, <2>2 DEF GoesOn, Continues, UpgradeOK, Ended
<1>6. s.cmd.tool # "create"
  BY <1>2, <1>3 DEF GoesOn, Continues
<1>. HIDE DEF r, s
<1>7. ProcOK(s, file, FALSE)
  BY <1>1, <1>3, <1>4, <1>5, <1>6, GoesOnProcOK
<1>8. s.cmd = proc[p].cmd /\ ProcOK(s, file', lock[Target(p)] = p)
  BY <1>1, <1>2, <1>3, <1>7 DEF GoesOn, Continues, r
<1>. QED BY <1>2, <1>8, OwnKeepsInv

LEMMA BeginSyncKeepsInv ==
    ASSUME ToolsInv, NEW p \in Procs, BeginSync(p)
    PROVE  ToolsInv'
<1>. DEFINE r == proc[p]
            T == r.cmd.file
<1>1. /\ DOMAIN r = Fields /\ ProcOK(r, file, FALSE) /\ (lock[T] = p) = FALSE
      /\ T = Target(p) /\ T \in Files
  BY ProcFacts DEF BeginSync, At, Target
<1>2. /\ r.pc = "begin" /\ r.pc \notin Ended /\ r.todo = <<>>
      /\ file' = file /\ lock' = lock /\ r.cmd.tool = "syncStore"
  BY <1>1 DEF BeginSync, At, Ended, ProcOK
<1>3. PICK nothing \in {FALSE} \cup {MayReadNothing(p, Source(p))} :
         LET sensors == IF nothing THEN <<>> ELSE file[Source(p)].sensors
         IN proc' = [proc EXCEPT ![p].pc = "write",
                                 ![p].left = {Job(sensors, u) : u \in DOMAIN sensors},
                                 ![p].missed = @ \/ nothing]
  BY DEF BeginSync
<1>. DEFINE sensors == IF nothing THEN <<>> ELSE file[Source(p)].sensors
            left == {Job(sensors, u) : u \in DOMAIN sensors}
            s == [r EXCEPT !.pc = "write", !.left = left, !.missed = @ \/ nothing]
<1>4. proc' = [proc EXCEPT ![p] = s]
  BY <1>3
<1>5. /\ Continues(r, s) /\ s.pc = "write" /\ s.todo = <<>> /\ s.kept = <<>>
      /\ s.left = left
  BY <1>1, <1>2 DEF Continues, Fields, ProcOK
<1>6. \A job \in left : /\ job.u \in DOMAIN file[Source(p)].sensors /\ IsSensor(job.sensor)
                       /\ file[Source(p)].sensors[job.u].id = job.sensor.id
  BY ProcFacts DEF Job, FileSound
<1>. HIDE DEF r, s, left
<1>7. LeftOK(s, file)
  BY <1>1, <1>2, <1>5, <1>6 DEF LeftOK, JobOK, Continues, Source, Target, Syncs, r
<1>8. OthersOK(s, file, FALSE)
  BY <1>5, QueueNone DEF OthersOK
<1>9. ProcOK(s, file, FALSE)
  BY <1>1, <1>2, <1>5, <1>7, <1>8, ContinuesProcOK DEF Continues
<1>10. s.cmd = proc[p].cmd /\ ProcOK(s, file', lock[Target(p)] = p)
  BY <1>1, <1>2, <1>5, <1>9 DEF Continues, r
<1>. QED BY <1>2, <1>4, <1>10, OwnKeepsInv

LEMMA BeginSyncReadingsKeepsInv ==
    ASSUME ToolsInv, NEW p \in Procs, BeginSyncReadings(p)
    PROVE  ToolsInv'
<1>. DEFINE r == proc[p]
            T == r.cmd.file
            left == {Job(r.known[T], u) : u \in Named(p)}
            s == [r EXCEPT !.pc = "write", !.left = left]
<1>1. /\ DOMAIN r = Fields /\ ProcOK(r, file, FALSE) /\ (lock[T] = p) = FALSE
      /\ T = Target(p) /\ T \in Files
  BY ProcFacts DEF BeginSyncReadings, At, Target
<1>2. /\ r.pc = "begin" /\ r.pc \notin Ended /\ r.todo = <<>>
      /\ file' = file /\ lock' = lock /\ r.cmd.tool = "syncSensor"
      /\ proc' = [proc EXCEPT ![p] = s]
  BY <1>1 DEF BeginSyncReadings, At, Ended, ProcOK
<1>3. /\ Continues(r, s) /\ s.pc = "write" /\ s.todo = <<>> /\ s.kept = <<>>
      /\ s.left = left
  BY <1>1, <1>2 DEF Continues, Fields, ProcOK
<1>4. \A job \in left : /\ job.u \in DOMAIN file[T].sensors /\ IsSensor(job.sensor)
                       /\ job.sensor.id = r.cmd.id
  <2>1. \A u \in DOMAIN r.known[T] : u \in DOMAIN file[T].sensors /\ IsSensor(r.known[T][u])
    BY <1>1, <1>2 DEF ProcOK, Mirrored, Seen, Has
  <2>2. \A u \in Named(p) : u \in DOMAIN r.known[T] /\ r.known[T][u].id = r.cmd.id
    BY <1>1 DEF Named, Holders
  <2>. QED BY <2>1, <2>2 DEF Job
<1>. HIDE DEF r, s, left
<1>5. LeftOK(s, file)
  BY <1>1, <1>2, <1>3, <1>4 DEF LeftOK, JobOK, Continues, Syncs
<1>6. OthersOK(s, file, FALSE)
  BY <1>3, QueueNone DEF OthersOK
<1>7. ProcOK(s, file, FALSE)
  BY <1>1, <1>2, <1>3, <1>5, <1>6, ContinuesProcOK DEF Continues
<1>8. s.cmd = proc[p].cmd /\ ProcOK(s, file', lock[Target(p)] = p)
  BY <1>1, <1>2, <1>3, <1>7 DEF Continues, r
<1>. QED BY <1>2, <1>8, OwnKeepsInv

\* What a sync has yet to execute for a sensor, and knows of it from then on.
LEMMA SyncSensorQueue ==
    ASSUME NEW p \in Procs, NEW k, NEW job, IsSensor(job.sensor)
    PROVE  LET u == LocalUuid(p, job)
               known == Put(proc[p].known[Target(p)], u, job.sensor)
           IN /\ Queue(k, known, SyncSensorRecord(p, job))
              /\ \/ SyncSensorRecord(p, job) = <<InsertSensor(u, known[u])>>
                 \/ /\ u \in DOMAIN proc[p].known[Target(p)]
                    /\ proc[p].known[Target(p)][u].id = known[u].id
              /\ DOMAIN known = DOMAIN proc[p].known[Target(p)] \cup {u}
              /\ known[u] = job.sensor
              /\ \A x \in DOMAIN known : x # u => known[x] = proc[p].known[Target(p)][x]
<1>. DEFINE u == LocalUuid(p, job)
            old == proc[p].known[Target(p)]
            known == Put(old, u, job.sensor)
            holders == Holders(old, job.sensor.id)
            q == SyncSensorRecord(p, job)
<1>1. /\ DOMAIN known = DOMAIN old \cup {u} /\ known[u] = job.sensor
      /\ \A x \in DOMAIN known : x # u => known[x] = old[x]
  BY DEF Put
<1>2. \/ holders = {} /\ q = <<InsertSensor(u, job.sensor)>>
      \/ holders # {} /\ q = <<UpdateSensor(u, job.sensor)>>
      \/ holders # {} /\ q = <<>>
  BY DEF SyncSensorRecord
<1>3. holders # {} => u \in DOMAIN old /\ old[u].id = job.sensor.id
  <2>1. holders # {} => u \in holders
    BY DEF LocalUuid
  <2>. HIDE DEF u
  <2>. QED BY <2>1 DEF Holders
<1>. HIDE DEF u, known, holders, q, old
<1>4. Permitted(k, known, InsertSensor(u, job.sensor))
  BY DEF Permitted, InsertSensor
<1>5. holders # {} => Permitted(k, known, UpdateSensor(u, job.sensor))
  BY <1>1, <1>3 DEF Permitted, UpdateSensor
<1>6. Queue(k, known, q)
  BY <1>2, <1>4, <1>5, QueueNone, QueueOne
<1>7. \/ q = <<InsertSensor(u, known[u])>>
      \/ u \in DOMAIN old /\ old[u].id = known[u].id
  BY <1>1, <1>2, <1>3
<1>. QED BY <1>1, <1>6, <1>7 DEF u, known, q, old

\* The readings of u with those that wait, old: either a flush falls due, which has
\* to write more and leaves none, or all are kept.
GoAlong(u, readings, old, due, more, kept, still) ==
    LET buffered == old \o Replacements(u, readings)
    IN \/ readings # <<>> /\ more = buffered /\ kept = <<>> /\ still = FALSE
       \/ /\ due = TRUE => readings = <<>>
          /\ more = <<>> /\ kept = buffered /\ still = due

\* A sync reads the readings for a job.
Reads(p, job, readings, more, kept, due, missed) ==
    /\ job.u \in DOMAIN proc[p].known[Source(p)]
    /\ readings \in {<<>>, file[Source(p)].readings[job.u]}
    /\ ~missed => readings = file[Source(p)].readings[job.u]
    /\ proc[p].missed => missed
    /\ GoAlong(LocalUuid(p, job), readings, proc[p].kept, proc[p].due, more, kept, due)

\* The process then.
Recorded(p, job, more, kept, due, missed) ==
    [proc[p] EXCEPT
       !.todo = SyncSensorRecord(p, job) \o more, !.kept = kept,
       !.known[Target(p)] = Put(@, LocalUuid(p, job), job.sensor),
       !.left = @ \ {job}, !.due = due, !.missed = missed]

LEMMA RecordsStep ==
    ASSUME NEW p \in Procs, SyncReadingRecords(p)
    PROVE  \/ Throws(p, FALSE)
           \/ /\ lock' = lock
              /\ \E job \in proc[p].left : \E readings, more, kept, due, missed :
                    /\ Reads(p, job, readings, more, kept, due, missed)
                    /\ proc' = [proc EXCEPT ![p] = Recorded(p, job, more, kept, due, missed)]
<1>1. PICK job \in proc[p].left :
         IF job.u \notin DOMAIN proc[p].known[Source(p)] THEN Throws(p, FALSE)
         ELSE \E nothing \in {FALSE} \cup {MayReadNothing(p, Source(p))}, late \in BOOLEAN :
            LET readings == IF nothing THEN <<>> ELSE file[Source(p)].readings[job.u]
                u == LocalUuid(p, job)
                buffered == proc[p].kept \o Replacements(u, readings)
                flushes == readings # <<>> /\ (proc[p].due \/ late)
            IN /\ proc' = [proc EXCEPT
                             ![p].todo = SyncSensorRecord(p, job)
                                           \o (IF flushes THEN buffered ELSE <<>>),
                             ![p].kept = IF flushes THEN <<>> ELSE buffered,
                             ![p].known[Target(p)] = Put(@, u, job.sensor),
                             ![p].left = @ \ {job},
                             ![p].due = IF flushes THEN FALSE ELSE @,
                             ![p].missed = @ \/ nothing]
               /\ lock' = lock
  BY DEF SyncReadingRecords
<1>2. CASE Throws(p, FALSE)
  BY <1>2
<1>3. CASE job.u \in DOMAIN proc[p].known[Source(p)]
  <2>1. PICK nothing \in {FALSE} \cup {MayReadNothing(p, Source(p))}, late \in BOOLEAN :
            LET readings == IF nothing THEN <<>> ELSE file[Source(p)].readings[job.u]
                u == LocalUuid(p, job)
                buffered == proc[p].kept \o Replacements(u, readings)
                flushes == readings # <<>> /\ (proc[p].due \/ late)
            IN /\ proc' = [proc EXCEPT
                             ![p].todo = SyncSensorRecord(p, job)
                                           \o (IF flushes THEN buffered ELSE <<>>),
                             ![p].kept = IF flushes THEN <<>> ELSE buffered,
                             ![p].known[Target(p)] = Put(@, u, job.sensor),
                             ![p].left = @ \ {job},
                             ![p].due = IF flushes THEN FALSE ELSE @,
                             ![p].missed = @ \/ nothing]
               /\ lock' = lock
    BY <1>1, <1>3
  <2>. DEFINE readings == IF nothing THEN <<>> ELSE file[Source(p)].readings[job.u]
              missed == proc[p].missed \/ nothing
              u == LocalUuid(p, job)
              buffered == proc[p].kept \o Replacements(u, readings)
              flushes == readings # <<>> /\ (proc[p].due \/ late)
              more == IF flushes THEN buffered ELSE <<>>
              kept == IF flushes THEN <<>> ELSE buffered
              due == IF flushes THEN FALSE ELSE proc[p].due
              sensor == SyncSensorRecord(p, job)
  <2>2. nothing \in BOOLEAN
    BY DEF MayReadNothing, LockedOut
  <2>3. /\ ~missed => readings = file[Source(p)].readings[job.u]
        /\ proc[p].missed => missed
        /\ readings \in {<<>>, file[Source(p)].readings[job.u]}
    BY <2>2
  <2>4. /\ proc' = [proc EXCEPT
                      ![p].todo = sensor \o more,
                      ![p].kept = kept,
                      ![p].known[Target(p)] = Put(@, u, job.sensor),
                      ![p].left = @ \ {job},
                      ![p].due = due,
                      ![p].missed = missed]
        /\ lock' = lock
    BY <2>1
  <2>5. Recorded(p, job, more, kept, due, missed) =
           [proc[p] EXCEPT
              !.todo = sensor \o more,
              !.kept = kept,
              !.known[Target(p)] = Put(@, u, job.sensor),
              !.left = @ \ {job},
              !.due = due,
              !.missed = missed]
    BY DEF Recorded
  <2>6. \/ readings # <<>> /\ more = buffered /\ kept = <<>> /\ due = FALSE
        \/ /\ proc[p].due = TRUE => readings = <<>>
           /\ more = <<>> /\ kept = buffered /\ due = proc[p].due
    <3>. HIDE DEF buffered, readings
    <3>1. CASE flushes
      BY <3>1
    <3>2. CASE ~flushes
      BY <3>2
    <3>. QED BY <3>1, <3>2
  <2>. HIDE DEF readings, missed, more, kept, due, sensor
  <2>7. Reads(p, job, readings, more, kept, due, missed)
    <3>1. GoAlong(u, readings, proc[p].kept, proc[p].due, more, kept, due)
      <4>. HIDE DEF u
      <4>. QED BY <2>6 DEF GoAlong, buffered
    <3>. QED BY <1>3, <2>3, <3>1 DEF Reads
  <2>. HIDE DEF u, buffered, flushes
  <2>8. proc' = [proc EXCEPT ![p] = Recorded(p, job, more, kept, due, missed)]
    BY <2>4, <2>5
  <2>9. lock' = lock
    BY <2>4
  <2>. QED BY <2>7, <2>8, <2>9, Zenon
<1>. QED BY <1>1, <1>2, <1>3

\* What a sync reads is of its input, and finite.
LEMMA ReadsInput ==
    ASSUME ToolsInv, NEW p \in Procs, proc[p].pc = "write", proc[p].todo = <<>>,
           NEW job \in proc[p].left, job.u \in DOMAIN proc[p].known[Source(p)],
           NEW readings \in {<<>>, file[Source(p)].readings[job.u]}
    PROVE  /\ IsFiniteSet(DOMAIN readings) /\ DOMAIN readings \in SUBSET Int
           /\ \A t \in DOMAIN readings : <<job.sensor.id, t>> \in InputOf(proc[p].cmd, file)
<1>. DEFINE r == proc[p]
            S == Source(p)
            held == lock[Target(p)] = p
<1>1. /\ ProcOK(r, file, held) /\ S \in Files /\ FileSound(file[S]) /\ S = r.cmd.source
      /\ Target(p) = r.cmd.file /\ r.pc \notin Ended
  BY ProcFacts DEF Source, Target, Ended
<1>2. job.u \in DOMAIN file[S].sensors
  <2>1. CASE S = r.cmd.file
    BY <1>1, <2>1 DEF ProcOK, LeftOK
  <2>2. CASE S # r.cmd.file
    BY <1>1, <2>2 DEF ProcOK, Mirrored, Has
  <2>. QED BY <2>1, <2>2
<1>3. IsSeries(readings)
  <2>1. IsSeries(<<>>)
    BY FS_EmptySet DEF IsSeries
  <2>2. IsSeries(file[S].readings[job.u])
    BY <1>1, <1>2 DEF FileSound
  <2>. QED BY <2>1, <2>2
<1>4. /\ r.cmd.tool \in Syncs
      /\ r.cmd.tool = "syncStore" => file[S].sensors[job.u].id = job.sensor.id
      /\ r.cmd.tool = "syncSensor" => job.sensor.id = r.cmd.id
  BY <1>1 DEF ProcOK, LeftOK, JobOK
<1>5. \A t \in DOMAIN readings : t \in DOMAIN file[S].readings[job.u]
  OBVIOUS
<1>. DEFINE d == file[S]
            c == r.cmd
<1>6. c.tool = "syncStore" => InputOf(c, file)
        = UNION {{<<d.sensors[u].id, t>> : t \in DOMAIN d.readings[u]} : u \in DOMAIN d.sensors}
  BY <1>1 DEF InputOf
<1>7. c.tool = "syncSensor" => InputOf(c, file)
        = UNION {{<<c.id, t>> : t \in DOMAIN d.readings[u]} : u \in DOMAIN d.sensors}
  BY <1>1 DEF InputOf
<1>. HIDE DEF d
<1>8. ASSUME NEW t \in DOMAIN readings
      PROVE  <<job.sensor.id, t>> \in InputOf(c, file)
  <2>1. job.u \in DOMAIN d.sensors /\ t \in DOMAIN d.readings[job.u]
    BY <1>2, <1>5 DEF d
  <2>2. CASE c.tool = "syncStore"
    BY <1>4, <1>6, <2>1, <2>2 DEF d
  <2>3. CASE c.tool = "syncSensor"
    BY <1>4, <1>7, <2>1, <2>3
  <2>. QED BY <1>4, <2>2, <2>3 DEF Syncs
<1>. QED BY <1>3, <1>8 DEF IsSeries

\* A queue stays one while what is known keeps its external ids.
LEMMA QueueKnown ==
    ASSUME NEW k, NEW old, NEW todo, Queue(k, old, todo), NEW known,
           \A u \in DOMAIN old : u \in DOMAIN known /\ known[u].id = old[u].id
    PROVE  Queue(k, known, todo)
BY DEF Queue, Permitted

LEMMA SyncReadingRecordsKeepsInv ==
    ASSUME ToolsInv, NEW p \in Procs, SyncReadingRecords(p)
    PROVE  ToolsInv'
<1>. DEFINE r == proc[p]
            T == r.cmd.file
            held == lock[T] = p
            k == InputOf(r.cmd, file)
<1>1. /\ DOMAIN r = Fields /\ ProcOK(r, file, held)
      /\ T = Target(p) /\ T \in Files
      /\ DOMAIN r.known = Files
  BY ProcFacts DEF Target, ProcOK
<1>2. r.pc = "write" /\ r.pc \notin Ended /\ r.todo = <<>> /\ file' = file
  BY DEF SyncReadingRecords, At, Ended
<1>3. r.left # {} => r.cmd.tool \in Syncs /\ r.cmd.tool \notin Schemers
  BY <1>1 DEF ProcOK, LeftOK, Syncs, Schemers
<1>4. CASE Throws(p, FALSE)
  <2>1. r.left # {}
    BY DEF SyncReadingRecords
  <2>. QED BY <1>2, <1>3, <1>4, <2>1, StopsKeepsInv DEF Throws, Ended
<1>5. ASSUME NEW job \in r.left, NEW readings, NEW more, NEW kept, NEW due, NEW missed,
             Reads(p, job, readings, more, kept, due, missed),
             proc' = [proc EXCEPT ![p] = Recorded(p, job, more, kept, due, missed)],
             lock' = lock
      PROVE  ToolsInv'
  <2>. DEFINE u == LocalUuid(p, job)
              sensor == SyncSensorRecord(p, job)
              replacements == Replacements(u, readings)
              buffered == r.kept \o replacements
              todo == sensor \o more
              old == r.known[T]
              known == Put(old, u, job.sensor)
              s == Recorded(p, job, more, kept, due, missed)
  <2>1. /\ DOMAIN s = Fields /\ s.cmd = r.cmd /\ s.pc = "write" /\ s.view = r.view
        /\ s.todo = todo /\ s.kept = kept /\ s.left = r.left \ {job}
        /\ DOMAIN s.known = Files
        /\ \A f \in Files : s.known[f] = IF f = T THEN known ELSE r.known[f]
    <3>. HIDE DEF u, todo
    <3>. QED BY <1>1, <1>2 DEF Recorded, Fields, u, todo
  <2>2. /\ Queue(k, known, sensor)
        /\ \/ sensor = <<InsertSensor(u, known[u])>>
           \/ u \in DOMAIN old /\ old[u].id = known[u].id
        /\ DOMAIN known = DOMAIN old \cup {u}
        /\ known[u] = job.sensor /\ IsSensor(job.sensor)
        /\ \A x \in DOMAIN known : x # u => known[x] = old[x]
    <3>1. IsSensor(job.sensor)
      BY <1>1 DEF ProcOK, LeftOK
    <3>2. old = proc[p].known[Target(p)]
      BY <1>1
    <3>. HIDE DEF k
    <3>3. LET x == LocalUuid(p, job)
              list == Put(proc[p].known[Target(p)], x, job.sensor)
          IN /\ Queue(k, list, SyncSensorRecord(p, job))
             /\ \/ SyncSensorRecord(p, job) = <<InsertSensor(x, list[x])>>
                \/ /\ x \in DOMAIN proc[p].known[Target(p)]
                   /\ proc[p].known[Target(p)][x].id = list[x].id
             /\ DOMAIN list = DOMAIN proc[p].known[Target(p)] \cup {x}
             /\ list[x] = job.sensor
             /\ \A y \in DOMAIN list : y # x => list[y] = proc[p].known[Target(p)][y]
      BY <3>1, SyncSensorQueue
    <3>. QED BY <3>1, <3>2, <3>3
  <2>3. /\ IsFiniteSet(DOMAIN readings) /\ DOMAIN readings \in SUBSET Int
        /\ \A t \in DOMAIN readings : <<job.sensor.id, t>> \in k
    <3>1. job.u \in DOMAIN proc[p].known[Source(p)]
          /\ readings \in {<<>>, file[Source(p)].readings[job.u]}
      BY <1>5 DEF Reads
    <3>. QED BY <1>2, <3>1, ReadsInput
  <2>4. more \in {<<>>, buffered} /\ kept \in {<<>>, buffered}
    <3>1. GoAlong(u, readings, r.kept, r.due, more, kept, due)
      BY <1>5 DEF Reads
    <3>. HIDE DEF u
    <3>. QED BY <3>1 DEF GoAlong
  <2>5. ~Doomed(r.todo, Seen(r, file, held))
    BY <1>2 DEF Doomed
  <2>6. Queue(k, old, r.kept)
    BY <1>1, <1>2, <1>3, <2>5 DEF ProcOK, OthersOK
  <2>. HIDE DEF u, known, s, k, sensor
  <2>7. Queue(k, known, replacements)
    BY <2>2, <2>3, ReplacementsQueue
  <2>8. \/ u \in DOMAIN old /\ old[u].id # known[u].id
        \/ Queue(k, known, more) /\ Queue(k, known, kept)
    <3>. SUFFICES ASSUME u \in DOMAIN old => old[u].id = known[u].id
                  PROVE  Queue(k, known, more) /\ Queue(k, known, kept)
      OBVIOUS
    <3>1. Queue(k, known, r.kept)
      BY <2>2, <2>6, QueueKnown
    <3>2. Queue(k, known, buffered)
      BY <2>7, <3>1, QueueConcatenated
    <3>. HIDE DEF buffered
    <3>. QED BY <2>4, <3>2, QueueNone
  <2>9. sensor = <<InsertSensor(u, known[u])>> => todo # <<>> /\ Head(todo) = InsertSensor(u, known[u])
    <3>1. r.kept \in Seq(Range(r.kept)) /\ replacements \in Seq(Range(replacements))
      BY <2>6, <2>7 DEF Queue
    <3>. DEFINE R == Range(r.kept) \cup Range(replacements)
    <3>2. r.kept \in Seq(R) /\ replacements \in Seq(R)
      BY <3>1
    <3>3. more \in Seq(R)
      <4>. HIDE DEF R, replacements
      <4>1. buffered \in Seq(R) /\ <<>> \in Seq(R)
        BY <3>2
      <4>. HIDE DEF buffered
      <4>. QED BY <2>4, <4>1
    <3>. HIDE DEF R
    <3>. QED BY <3>3
  <2>. HIDE DEF r, todo, held, T, replacements, buffered, old
  <2>10. \A x \in DOMAIN old : Has(Seen(r, file, held), old, x)
    BY <1>1, <1>2 DEF ProcOK, Mirrored, old, T
  <2>11. Mirrored(s, file, held)
    <3>1. ASSUME NEW x \in DOMAIN known
          PROVE  \/ Has(Seen(r, file, held), known, x)
                 \/ todo # <<>> /\ Head(todo) = InsertSensor(x, known[x])
      <4>1. CASE x = u
        BY <2>2, <2>9, <2>10, <4>1 DEF Has
      <4>2. CASE x # u
        BY <2>2, <2>10, <4>2 DEF Has
      <4>. QED BY <4>1, <4>2
    <3>2. Seen(s, file, held) = Seen(r, file, held)
      BY <2>1 DEF Seen
    <3>3. \A f \in Files \ {T} : \A x \in DOMAIN r.known[f] : Has(file[f], r.known[f], x)
      BY <1>1, <1>2 DEF ProcOK, Mirrored, T
    <3>. QED BY <1>1, <2>1, <3>1, <3>2, <3>3 DEF Mirrored, T
  <2>12. OthersOK(s, file, held)
    <3>1. CASE u \in DOMAIN old /\ old[u].id # known[u].id
      <4>1. todo # <<>> /\ Head(todo) = InsertSensor(u, known[u])
        BY <2>2, <2>9, <3>1
      <4>2. Doomed(s.todo, Seen(s, file, held))
        BY <2>1, <2>10, <3>1, <4>1 DEF Doomed, Seen, Has, InsertSensor
      <4>. QED BY <2>1, <4>2 DEF OthersOK
    <3>2. CASE Queue(k, known, more) /\ Queue(k, known, kept)
      <4>1. Queue(k, known, todo)
        BY <2>2, <3>2, QueueConcatenated DEF todo
      <4>. QED BY <1>1, <2>1, <3>2, <4>1 DEF OthersOK, T, k
    <3>. QED BY <2>8, <3>1, <3>2
  <2>13. LeftOK(s, file)
    BY <1>1, <2>1 DEF ProcOK, LeftOK
  <2>14. held => Writing(s, file)
    BY <1>1, <2>1 DEF ProcOK, Writing
  <2>15. ProcOK(s, file, held)
    <3>1. \A x \in DOMAIN known : IsSensor(known[x])
      BY <1>1, <2>2 DEF ProcOK, old
    <3>2. \A f \in Files : \A x \in DOMAIN s.known[f] : IsSensor(s.known[f][x])
      BY <1>1, <2>1, <3>1 DEF ProcOK
    <3>3. r.cmd.tool \notin Schemers
      BY <1>3
    <3>. QED BY <1>1, <2>1, <2>11, <2>12, <2>13, <2>14, <3>2, <3>3 DEF ProcOK, Schemers, T
  <2>16. s.cmd = proc[p].cmd /\ ProcOK(s, file', lock[Target(p)] = p)
    BY <1>1, <1>2, <2>1, <2>15 DEF r, held
  <2>17. proc' = [proc EXCEPT ![p] = s] /\ lock' = lock
    BY <1>5 DEF s
  <2>. QED BY <1>2, <2>16, <2>17, OwnKeepsInv
<1>6. \/ Throws(p, FALSE)
      \/ /\ lock' = lock
         /\ \E job \in r.left : \E readings, more, kept, due, missed :
               /\ Reads(p, job, readings, more, kept, due, missed)
               /\ proc' = [proc EXCEPT ![p] = Recorded(p, job, more, kept, due, missed)]
  BY RecordsStep
<1>. QED BY <1>4, <1>5, <1>6

\* No statement of upgrade is refused once initialize went through.
LEMMA UpgradingNext ==
    ASSUME NEW k, NEW d, FileSound(d), "index" \in d.schema, NEW todo, todo # <<>>,
           todo = <<ReplaceVersion, AddColumn, CreateIndex>> \/ Upgrading(todo, d)
    PROVE  LET s == Head(todo)
           IN /\ ~Ignored(s) /\ ~Refused(s, d) /\ s.op # "insertSensor"
              /\ Extends(k, d, Applied(s, d))
              /\ Upgrading(Tail(todo), Applied(s, d))
<1>. DEFINE s == Head(todo)
            e == Applied(s, d)
            rest == Tail(todo)
<1>1. /\ ReplaceVersion.op = "replaceVersion" /\ AddColumn.op = "addColumn"
      /\ CreateIndex.op = "createIndex"
  BY DEF ReplaceVersion, AddColumn, CreateIndex
<1>2. \/ s = ReplaceVersion /\ rest = <<AddColumn, CreateIndex>>
      \/ s = AddColumn /\ rest = <<CreateIndex>> /\ d.version = "current"
      \/ s = CreateIndex /\ rest = <<>> /\ d.version = "current" /\ "device" \in d.schema
  <2>1. CASE todo = <<ReplaceVersion, AddColumn, CreateIndex>>
    BY <2>1
  <2>2. CASE todo = <<AddColumn, CreateIndex>> /\ d.version = "current"
    BY <2>2
  <2>3. CASE todo = <<CreateIndex>> /\ d.version = "current" /\ "device" \in d.schema
    BY <2>3
  <2>. QED BY <2>1, <2>2, <2>3 DEF Upgrading
<1>3. DOMAIN d = {"exists", "schema", "version", "sensors", "readings"}
  BY FileFields DEF FileSound
<1>. HIDE DEF s, rest
<1>4. ~Ignored(s) /\ ~Refused(s, d) /\ s.op # "insertSensor"
  BY <1>1, <1>2 DEF Ignored, Refused
<1>5. Extends(k, d, e)
  BY <1>2, <1>4, SchemaApplied
<1>6. Upgrading(rest, e)
  <2>1. CASE s = ReplaceVersion /\ rest = <<AddColumn, CreateIndex>>
    <3>1. e = [d EXCEPT !.version = "current"]
      BY <1>1, <2>1 DEF Applied
    <3>. HIDE DEF e
    <3>2. e.version = "current"
      BY <1>3, <3>1
    <3>. QED BY <2>1, <3>2 DEF Upgrading
  <2>2. CASE s = AddColumn /\ rest = <<CreateIndex>> /\ d.version = "current"
    <3>1. e = [d EXCEPT !.schema = @ \cup {"device"}]
      BY <1>1, <2>2 DEF Applied
    <3>. HIDE DEF e
    <3>2. e.version = "current" /\ "device" \in e.schema
      BY <1>3, <2>2, <3>1
    <3>. QED BY <2>2, <3>2 DEF Upgrading
  <2>3. CASE s = CreateIndex /\ rest = <<>> /\ d.version = "current" /\ "device" \in d.schema
    <3>1. e = [d EXCEPT !.schema = @ \cup {"index"}]
      BY <1>1, <2>3 DEF Applied
    <3>. HIDE DEF e
    <3>2. e.version = "current" /\ "device" \in e.schema
      BY <1>3, <2>3, <3>1
    <3>. QED BY <2>3, <3>2 DEF Upgrading
  <2>. QED BY <1>2, <2>1, <2>2, <2>3
<1>. QED BY <1>4, <1>5, <1>6 DEF s, rest

\* The file as a writing process sees it.
LEMMA SeenFile ==
    ASSUME NEW r, NEW F, NEW held \in BOOLEAN, ProcOK(r, F, held), r.pc = "write",
           FileSound(F[r.cmd.file])
    PROVE  /\ FileSound(Seen(r, F, held))
           /\ Grown(F[r.cmd.file], Seen(r, F, held))
           /\ Spared(InputOf(r.cmd, F), F[r.cmd.file], Seen(r, F, held))
           /\ r.cmd.tool # "create"
           /\ r.cmd.tool = "upgrade" =>
                 /\ "index" \in Seen(r, F, held).schema
                 /\ \/ r.todo = <<ReplaceVersion, AddColumn, CreateIndex>>
                    \/ Upgrading(r.todo, Seen(r, F, held))
<1>. DEFINE d == F[r.cmd.file]
<1>1. held => Writing(r, F)
  BY DEF ProcOK
<1>2. /\ FileSound(Seen(r, F, held)) /\ Grown(d, Seen(r, F, held))
      /\ Spared(InputOf(r.cmd, F), d, Seen(r, F, held))
  BY <1>1, GrownReflexive DEF Seen, Writing, Spared
<1>3. r.cmd.tool # "create"
  BY DEF ProcOK, CreateOK, Ended
<1>4. ASSUME r.cmd.tool = "upgrade"
      PROVE  /\ "index" \in Seen(r, F, held).schema
             /\ \/ r.todo = <<ReplaceVersion, AddColumn, CreateIndex>>
                \/ Upgrading(r.todo, Seen(r, F, held))
  <2>1. /\ Initializing(<<>>, d)
        /\ IF held THEN Upgrading(r.todo, r.view)
           ELSE r.todo = <<ReplaceVersion, AddColumn, CreateIndex>>
    BY <1>4 DEF ProcOK, UpgradeOK, Ended
  <2>2. "index" \in d.schema
    <3>1. /\ <<>> # Initialize
          /\ <<>> # <<CreateIndex, CreateProperties, InsertVersion>>
          /\ <<>> # <<CreateProperties, InsertVersion>>
          /\ <<>> # <<InsertVersion>>
      BY DEF Initialize
    <3>. QED BY <2>1, <3>1 DEF Initializing
  <2>. QED BY <1>2, <2>1, <2>2 DEF Grown, Seen
<1>. QED BY <1>2, <1>3, <1>4

\* A reading that was passed over.
LEMMA SkippedProcOK ==
    ASSUME NEW r, NEW F, NEW held \in BOOLEAN, ProcOK(r, F, held), r.pc = "write",
           FileSound(F[r.cmd.file]), r.todo # <<>>, Ignored(Head(r.todo)),
           NEW s, DOMAIN s = Fields, s.cmd = r.cmd, s.pc = r.pc, s.known = r.known,
           s.left = r.left, s.view = r.view, s.kept = r.kept, s.todo = Tail(r.todo)
    PROVE  ProcOK(s, F, held)
<1>1. r.cmd.tool \notin Schemers
  <2>1. CASE r.cmd.tool = "upgrade"
    BY <2>1, SeenFile, UpgradingNext
  <2>. QED BY <2>1, SeenFile DEF Schemers
<1>2. Head(r.todo).op # "insertSensor"
  BY DEF Ignored
<1>3. Mirrored(s, F, held)
  BY <1>2 DEF ProcOK, Mirrored, Seen, InsertSensor, Ended
<1>4. OthersOK(s, F, held)
  <2>. DEFINE k == InputOf(r.cmd, F)
  <2>1. Queue(k, r.known[r.cmd.file], r.todo) /\ Queue(k, r.known[r.cmd.file], r.kept)
    BY <1>1, <1>2 DEF ProcOK, OthersOK, Doomed
  <2>. HIDE DEF k
  <2>2. Queue(k, r.known[r.cmd.file], Tail(r.todo))
    BY <2>1, QueueNext
  <2>. QED BY <2>1, <2>2 DEF OthersOK, k
<1>5. LeftOK(s, F) /\ (held => Writing(s, F))
  BY DEF ProcOK, LeftOK, Writing
<1>. QED BY <1>1, <1>3, <1>4, <1>5 DEF ProcOK, Schemers

\* An executed statement of a tool: what it knows is still there.
LEMMA PermittedApplied ==
    ASSUME NEW k, NEW known, NEW d, FileSound(d), NEW s, Permitted(k, known, s), ~Refused(s, d),
           s.op # "insertSensor" => \A u \in DOMAIN known : Has(d, known, u)
    PROVE  Extends(k, d, Applied(s, d))
<1>1. CASE s.op = "insertSensor" /\ IsSensor(s.sensor)
  BY <1>1, InsertSensorApplied
<1>2. CASE s.op = "updateSensor" /\ IsSensor(s.sensor) /\ s.u \in DOMAIN known /\ known[s.u].id = s.sensor.id
  BY <1>2, UpdateSensorApplied DEF Has
<1>3. CASE s.op = "insertReading" /\ s.t \in Int
  BY <1>3, ReadingApplied
<1>4. CASE /\ s.op = "replaceReading" /\ s.t \in Int
           /\ s.u \in DOMAIN known /\ <<known[s.u].id, s.t>> \in k
  BY <1>4, ReadingApplied DEF Has
<1>. QED BY <1>1, <1>2, <1>3, <1>4 DEF Permitted

LEMMA ExecutedProcOK ==
    ASSUME NEW r, NEW F, NEW held \in BOOLEAN, ProcOK(r, F, held), r.pc = "write",
           FileSound(F[r.cmd.file]), r.todo # <<>>,
           ~Refused(Head(r.todo), Seen(r, F, held)),
           NEW s, DOMAIN s = Fields, s.cmd = r.cmd, s.pc = r.pc, s.known = r.known,
           s.left = r.left, s.todo = Tail(r.todo), s.kept = r.kept,
           s.view = Applied(Head(r.todo), Seen(r, F, held))
    PROVE  ProcOK(s, F, TRUE)
<1>. DEFINE x == Head(r.todo)
            d == Seen(r, F, held)
            T == r.cmd.file
            known == r.known[T]
            k == InputOf(r.cmd, F)
<1>1. /\ FileSound(d) /\ Grown(F[T], d) /\ Spared(k, F[T], d)
      /\ r.cmd.tool = "upgrade" =>
            /\ "index" \in d.schema
            /\ \/ r.todo = <<ReplaceVersion, AddColumn, CreateIndex>>
               \/ Upgrading(r.todo, d)
      /\ r.cmd.tool # "create" /\ T \in Files
  BY SeenFile DEF ProcOK, CommandSound
<1>2. \A u \in DOMAIN known : Has(d, known, u) \/ x = InsertSensor(u, known[u])
  BY DEF ProcOK, Mirrored, Ended
<1>3. r.cmd.tool \notin Schemers =>
         Permitted(k, known, x) /\ Queue(k, known, Tail(r.todo)) /\ Queue(k, known, r.kept)
  <2>1. ~Doomed(r.todo, d)
    BY DEF Doomed, Refused
  <2>. HIDE DEF d
  <2>. QED BY <2>1, QueueNext DEF ProcOK, OthersOK, d
<1>. HIDE DEF x, d, k
<1>4. /\ Extends(k, d, s.view)
      /\ r.cmd.tool = "upgrade" => Upgrading(s.todo, s.view)
  <2>1. CASE r.cmd.tool = "upgrade"
    <3>. USE DEF x
    <3>. QED BY <1>1, <2>1, UpgradingNext DEF d
  <2>2. CASE r.cmd.tool \notin Schemers
    <3>1. x.op # "insertSensor" => \A u \in DOMAIN known : Has(d, known, u)
      BY <1>2 DEF InsertSensor
    <3>2. Extends(k, d, Applied(x, d))
      <4>. HIDE DEF known
      <4>. QED BY <1>1, <1>3, <2>2, <3>1, PermittedApplied DEF x, d
    <3>. QED BY <2>2, <3>2 DEF x, d, Schemers
  <2>. QED BY <1>1, <2>1, <2>2 DEF Schemers
<1>5. Writing(s, F)
  BY <1>1, <1>4, GrownTransitive, SparedTransitive DEF Writing, Extends, k
<1>6. \A u \in DOMAIN known : Has(s.view, known, u)
  <2>1. ASSUME NEW u \in DOMAIN known, Has(d, known, u)
        PROVE  Has(s.view, known, u)
    BY <1>4, <2>1 DEF Extends, Grown, Has
  <2>2. ASSUME NEW u \in DOMAIN known, x = InsertSensor(u, known[u])
        PROVE  Has(s.view, known, u)
    <3>1. /\ x.op = "insertSensor" /\ x.u = u /\ x.sensor = known[u] /\ ~Refused(x, d)
          /\ IsSensor(x.sensor)
      <4>1. ~Refused(x, d)
        BY DEF x, d
      <4>2. IsSensor(known[u])
        BY <1>1 DEF ProcOK
      <4>. QED BY <2>2, <4>1, <4>2 DEF InsertSensor
    <3>2. u \in DOMAIN Applied(x, d).sensors /\ Applied(x, d).sensors[u] = known[u]
      BY <1>1, <3>1, InsertSensorApplied
    <3>. QED BY <3>2 DEF Has, x, d
  <2>. QED BY <1>2, <2>1, <2>2
<1>7. Mirrored(s, F, TRUE)
  BY <1>6 DEF ProcOK, Mirrored, Seen, Ended
<1>8. s.cmd.tool = "upgrade" => UpgradeOK(s, F[T], TRUE)
  BY <1>4 DEF ProcOK, UpgradeOK, Ended
<1>9. s.cmd.tool \notin Schemers => OthersOK(s, F, TRUE)
  BY <1>3 DEF OthersOK, k
<1>10. LeftOK(s, F)
  BY DEF ProcOK, LeftOK
<1>. QED BY <1>1, <1>5, <1>7, <1>8, <1>9, <1>10 DEF ProcOK

LEMMA ExecuteKeepsInv ==
    ASSUME ToolsInv, NEW p \in Procs, Execute(p)
    PROVE  ToolsInv'
<1>. DEFINE r == proc[p]
            T == r.cmd.file
            held == lock[T] = p
            x == Head(r.todo)
            d == Seen(r, file, held)
<1>1. /\ DOMAIN r = Fields /\ ProcOK(r, file, held)
      /\ T = Target(p) /\ T \in Files
      /\ DOMAIN file = Files /\ DOMAIN lock = Files /\ DOMAIN proc = Procs
      /\ \A f \in Files : FileSound(file[f]) /\ Grown(file[f], file[f]) /\ Alike(file[f], file[f])
  BY ProcFacts DEF Target
<1>2. /\ r.pc = "write" /\ r.pc \notin Ended /\ r.todo # <<>> /\ file' = file
      /\ Data(p, T) = d /\ held \in BOOLEAN
  BY <1>1 DEF Execute, At, Ended, Data, Seen
<1>3. CASE Throws(p, TRUE)
  BY <1>2, <1>3, StopsKeepsInv DEF Throws, Ended
<1>4. CASE Throws(p, FALSE) /\ Refused(x, d)
  <2>1. r.cmd.tool # "create"
    BY <1>1, <1>2, SeenFile
  <2>2. r.cmd.tool # "upgrade"
    BY <1>1, <1>2, <1>4, SeenFile, UpgradingNext
  <2>. QED BY <1>2, <1>4, <2>1, <2>2, StopsKeepsInv DEF Throws, Ended, Schemers
<1>5. ASSUME NEW missed,
             proc' = [[proc EXCEPT ![p].todo = Tail(@)] EXCEPT ![p].missed = missed],
             Ignored(x), lock' = lock
      PROVE  ToolsInv'
  <2>. DEFINE s == [r EXCEPT !.todo = Tail(@), !.missed = missed]
  <2>1. proc' = [proc EXCEPT ![p] = s]
    BY <1>1, <1>5
  <2>2. /\ DOMAIN s = Fields /\ s.cmd = r.cmd /\ s.pc = r.pc /\ s.known = r.known
        /\ s.left = r.left /\ s.view = r.view /\ s.kept = r.kept /\ s.todo = Tail(r.todo)
    BY <1>1 DEF Fields
  <2>. HIDE DEF s, r
  <2>3. ProcOK(s, file, held)
    <3>. HIDE DEF held, T
    <3>1. FileSound(file[r.cmd.file])
      BY <1>1 DEF T
    <3>. QED BY <1>1, <1>2, <1>5, <2>2, <3>1, SkippedProcOK
  <2>4. s.cmd = proc[p].cmd /\ ProcOK(s, file', lock[Target(p)] = p)
    BY <1>1, <1>2, <2>2, <2>3 DEF r
  <2>. QED BY <1>2, <1>5, <2>1, <2>4, OwnKeepsInv
<1>6. CASE /\ ~LockedOut(p, T) /\ ~Refused(x, d)
           /\ proc' = [[proc EXCEPT ![p].todo = Tail(@)] EXCEPT ![p].view = Applied(x, d)]
           /\ lock' = [lock EXCEPT ![T] = p]
  <2>. DEFINE s == [r EXCEPT !.todo = Tail(@), !.view = Applied(x, d)]
  <2>1. proc' = [proc EXCEPT ![p] = s]
    BY <1>1, <1>6
  <2>2. /\ DOMAIN s = Fields /\ s.cmd = r.cmd /\ s.pc = r.pc /\ s.known = r.known
        /\ s.left = r.left /\ s.view = Applied(x, d) /\ s.kept = r.kept
        /\ s.todo = Tail(r.todo)
    BY <1>1 DEF Fields
  <2>3. lock[T] \in {p, NoProc}
    BY <1>6 DEF LockedOut
  <2>. HIDE DEF s, r
  <2>4. ProcOK(s, file, TRUE)
    <3>. HIDE DEF held, T
    <3>1. FileSound(file[r.cmd.file])
      BY <1>1 DEF T
    <3>. QED BY <1>1, <1>2, <1>6, <2>2, <3>1, ExecutedProcOK
  <2>5. /\ DOMAIN lock' = Files /\ lock'[T] = p
        /\ \A f \in Files : f # T => lock'[f] = lock[f]
    BY <1>1, <1>6
  <2>6. /\ DOMAIN proc' = Procs /\ proc'[p] = s
        /\ \A q \in Procs \ {p} : proc'[q] = proc[q]
    BY <1>1, <2>1
  <2>7. ProcOK(s, file', lock'[s.cmd.file] = p) /\ s.cmd = proc[p].cmd
    <3>1. (lock'[s.cmd.file] = p) = TRUE
      BY <2>2, <2>5
    <3>. QED BY <1>2, <2>2, <2>4, <3>1 DEF r
  <2>8. Moves(p, s)
    BY <1>1, <1>2, <2>3, <2>5, <2>6, <2>7 DEF Moves
  <2>. QED BY <2>8, MovesKeepsInv
<1>7. CASE /\ proc' = [proc EXCEPT ![p].todo = Tail(@)] /\ Ignored(x) /\ lock' = lock
  <2>1. proc' = [[proc EXCEPT ![p].todo = Tail(@)] EXCEPT ![p].missed = r.missed]
    BY <1>1, <1>7 DEF Fields
  <2>. QED BY <1>5, <1>7, <2>1
<1>. QED BY <1>1, <1>2, <1>3, <1>4, <1>5, <1>6, <1>7 DEF Execute

LEMMA CommitKeepsInv ==
    ASSUME ToolsInv, NEW p \in Procs, Commit(p)
    PROVE  ToolsInv'
<1>. DEFINE r == proc[p]
            T == r.cmd.file
            held == lock[T] = p
            d == Seen(r, file, held)
<1>1. /\ DOMAIN r = Fields /\ ProcOK(r, file, held)
      /\ T = Target(p) /\ T \in Files /\ CommandSound(r.cmd) /\ DOMAIN r.known = Files
      /\ DOMAIN file = Files /\ DOMAIN lock = Files /\ DOMAIN proc = Procs
      /\ \A f \in Files : FileSound(file[f]) /\ Grown(file[f], file[f]) /\ Alike(file[f], file[f])
  BY ProcFacts DEF Target, ProcOK
<1>2. /\ r.pc = "write" /\ r.pc \notin Ended /\ r.todo = <<>> /\ r.left = {} /\ held \in BOOLEAN
  BY DEF Commit, At, Ended
<1>3. /\ FileSound(d) /\ Grown(file[T], d)
      /\ r.cmd.tool # "create"
      /\ r.cmd.tool = "upgrade" => /\ held = TRUE /\ Initializing(<<>>, file[T])
                                   /\ d.version = "current" /\ "device" \in d.schema
  <2>1. r.cmd.tool = "upgrade" =>
           /\ Initializing(<<>>, file[T])
           /\ IF held THEN Upgrading(<<>>, r.view)
              ELSE <<>> = <<ReplaceVersion, AddColumn, CreateIndex>>
    BY <1>1, <1>2 DEF ProcOK, UpgradeOK, Ended
  <2>2. /\ <<>> # <<ReplaceVersion, AddColumn, CreateIndex>>
        /\ <<>> # <<AddColumn, CreateIndex>> /\ <<>> # <<CreateIndex>>
    OBVIOUS
  <2>3. r.cmd.tool = "upgrade" => /\ held = TRUE /\ Initializing(<<>>, file[T])
                                   /\ d.version = "current" /\ "device" \in d.schema
    BY <2>1, <2>2 DEF Upgrading, Seen
  <2>4. FileSound(d) /\ Grown(file[T], d) /\ r.cmd.tool # "create"
    BY <1>1, <1>2, SeenFile
  <2>. QED BY <2>3, <2>4
<1>4. CASE lock[T] # p /\ Stops(p, "done", FALSE) /\ file' = file
  <2>1. r.cmd.tool \notin Schemers
    BY <1>3, <1>4 DEF Schemers
  <2>. QED BY <1>2, <1>4, <2>1, StopsKeepsInv DEF Ended
<1>5. CASE Stops(p, "done", TRUE) /\ file' = file
  BY <1>2, <1>5, StopsKeepsInv DEF Ended
<1>6. CASE /\ lock[T] = p
           /\ file' = [file EXCEPT ![T] = r.view]
           /\ lock' = [lock EXCEPT ![T] = NoProc]
           /\ proc' = Disturbed([proc EXCEPT ![p].pc = "done"], p, T)
  <2>. DEFINE s == [r EXCEPT !.pc = "done"]
  <2>1. /\ DOMAIN s = Fields /\ s.cmd = r.cmd /\ s.known = r.known /\ s.left = r.left
        /\ s.pc = "done"
    BY <1>1 DEF Fields
  <2>2. /\ DOMAIN proc' = Procs /\ proc'[p] = s
        /\ \A q \in Procs \ {p} : \/ proc'[q] = proc[q]
                                  \/ proc'[q] = [proc[q] EXCEPT !.disturbed = TRUE]
    <3>. DEFINE ps == [proc EXCEPT ![p].pc = "done"]
    <3>1. DOMAIN ps = Procs /\ ps[p] = s /\ \A q \in Procs \ {p} : ps[q] = proc[q]
      BY <1>1
    <3>2. proc' = Disturbed(ps, p, T)
      BY <1>6
    <3>. HIDE DEF ps, s, T
    <3>. QED BY <3>1, <3>2, DisturbedOnly
  <2>3. d = r.view
    BY <1>6 DEF Seen
  <2>4. /\ DOMAIN file' = Files /\ file'[T] = d
        /\ \A f \in Files : f # T => file'[f] = file[f]
    BY <1>1, <1>6, <2>3
  <2>5. \A f \in Files : /\ FileSound(file'[f]) /\ Grown(file[f], file'[f])
                         /\ Alike(file[f], file'[f]) \/ f = T
    BY <1>1, <1>3, <2>4
  <2>6. DOMAIN lock' = Files /\ lock'[T] = NoProc /\ \A f \in Files : f # T => lock'[f] = lock[f]
    BY <1>1, <1>6
  <2>. HIDE DEF r, s, d
  <2>7. s.cmd.tool = "upgrade" => UpgradeOK(s, file'[T], FALSE)
    <3>1. /\ <<>> # Initialize
          /\ <<>> # <<CreateIndex, CreateProperties, InsertVersion>>
          /\ <<>> # <<CreateProperties, InsertVersion>>
          /\ <<>> # <<InsertVersion>>
      BY DEF Initialize
    <3>2. s.cmd.tool = "upgrade" => {"sensors", "properties"} \subseteq file[T].schema
      BY <1>3, <2>1, <3>1 DEF Initializing
    <3>3. s.cmd.tool = "upgrade" => Openable(file'[T])
      BY <1>3, <2>1, <2>4, <3>2 DEF Openable, VersionMatches, Grown
    <3>. QED BY <2>1, <3>3 DEF UpgradeOK, Ended
  <2>8. ProcOK(s, file', FALSE)
    <3>1. OthersOK(s, file', FALSE) /\ LeftOK(s, file') /\ s.cmd.tool # "create" /\ s.pc \in Ended
      BY <1>2, <1>3, <2>1 DEF OthersOK, LeftOK, Ended
    <3>. QED BY <1>1, <2>1, <2>7, <3>1 DEF ProcOK
  <2>9. ProcOK(s, file', lock'[s.cmd.file] = p) /\ s.cmd = proc[p].cmd
    <3>1. (lock'[s.cmd.file] = p) = FALSE
      BY <2>1, <2>6, NoProcAssumption
    <3>. QED BY <2>1, <2>8, <3>1 DEF r
  <2>10. Moves(p, s)
    BY <1>1, <1>6, <2>2, <2>4, <2>5, <2>6, <2>9 DEF Moves
  <2>. QED BY <2>10, MovesKeepsInv
<1>. QED BY <1>1, <1>4, <1>5, <1>6 DEF Commit

\* A tool that only reads and ends.
LEMMA ReadsKeepsInv ==
    ASSUME ToolsInv, NEW p \in Procs, At(p, "begin"), proc[p].cmd.tool \notin Schemers,
           NEW pc \in {"done", "killed"}, NEW seen, NEW script, file' = file, lock' = lock,
           proc' = [proc EXCEPT ![p].pc = pc, ![p].seen = seen, ![p].script = script]
    PROVE  ToolsInv'
<1>. DEFINE r == proc[p]
            s == [r EXCEPT !.pc = pc, !.seen = seen, !.script = script]
<1>1. DOMAIN r = Fields /\ ProcOK(r, file, FALSE) /\ (lock[Target(p)] = p) = FALSE
  BY ProcFacts DEF At
<1>2. proc' = [proc EXCEPT ![p] = s] /\ pc \in Ended /\ r.pc = "begin"
  BY DEF At, Ended
<1>3. Ends(r, s, file[r.cmd.file])
  BY <1>1, <1>2 DEF Ends, Fields, Ended
<1>. HIDE DEF r, s
<1>4. ProcOK(s, file, FALSE)
  BY <1>1, <1>3, EndsProcOK
<1>5. s.cmd = proc[p].cmd /\ ProcOK(s, file', lock[Target(p)] = p)
  BY <1>1, <1>3, <1>4 DEF Ends, r
<1>. QED BY <1>2, <1>5, OwnKeepsInv

LEMMA ShowsKeepsInv ==
    ASSUME ToolsInv, NEW p \in Procs,
           CheckStore(p) \/ Dump(p) \/ Export(p) \/ ShowScript(p)
    PROVE  ToolsInv'
<1>1. DOMAIN proc[p] = Fields /\ DOMAIN proc = Procs
  BY ProcFacts
<1>2. ASSUME At(p, "begin"), proc[p].cmd.tool \notin Schemers, NEW readings, Shows(p, readings)
      PROVE  ToolsInv'
  <2>1. proc' = [proc EXCEPT ![p].pc = "done", ![p].seen = readings,
                             ![p].script = proc[p].script]
    BY <1>1, <1>2 DEF Shows, Fields
  <2>. QED BY <1>2, <2>1, ReadsKeepsInv DEF Shows
<1>3. CASE CheckStore(p)
  BY <1>2, <1>3 DEF CheckStore, Schemers
<1>4. CASE Dump(p)
  BY <1>2, <1>4 DEF Dump, Schemers
<1>5. CASE Export(p)
  BY <1>2, <1>5 DEF Export, Schemers
<1>6. CASE ShowScript(p)
  <2>1. /\ At(p, "begin") /\ proc[p].cmd.tool \notin Schemers /\ file' = file /\ lock' = lock
    BY <1>6 DEF ShowScript, Schemers
  <2>2. \E pc \in {"done", "killed"} : \E seen, script :
           proc' = [proc EXCEPT ![p].pc = pc, ![p].seen = seen, ![p].script = script]
    <3>1. CASE proc' = [proc EXCEPT ![p].pc = "done"]
      <4>1. proc' = [proc EXCEPT ![p].pc = "done", ![p].seen = proc[p].seen,
                                 ![p].script = proc[p].script]
        BY <1>1, <3>1 DEF Fields
      <4>. QED BY <4>1
    <3>2. CASE proc' = [proc EXCEPT ![p].pc = "killed"]
      <4>1. proc' = [proc EXCEPT ![p].pc = "killed", ![p].seen = proc[p].seen,
                                 ![p].script = proc[p].script]
        BY <1>1, <3>2 DEF Fields
      <4>. QED BY <4>1
    <3>3. CASE proc' = [proc EXCEPT ![p].pc = "done", ![p].script = <<EmptyDay>>]
      <4>1. proc' = [proc EXCEPT ![p].pc = "done", ![p].seen = proc[p].seen,
                                 ![p].script = <<EmptyDay>>]
        BY <1>1, <3>3 DEF Fields
      <4>. QED BY <4>1
    <3>4. ASSUME NEW readings,
                 proc' = [proc EXCEPT ![p].pc = "done", ![p].seen = readings,
                                      ![p].script = WriteValues(readings)]
          PROVE  \E pc \in {"done", "killed"} : \E seen, script :
                    proc' = [proc EXCEPT ![p].pc = pc, ![p].seen = seen, ![p].script = script]
      BY <3>4
    <3>. QED BY <1>6, <3>1, <3>2, <3>3, <3>4 DEF ShowScript
  <2>. QED BY <2>1, <2>2, ReadsKeepsInv
<1>. QED BY <1>3, <1>4, <1>5, <1>6

LEMMA KillKeepsInv ==
    ASSUME ToolsInv, NEW p \in Procs, Kill(p)
    PROVE  ToolsInv'
<1>1. /\ Stops(p, "killed", FALSE) /\ file' = file
      /\ proc[p].pc \notin Ended /\ proc[p].pc # "start"
  BY DEF Kill, Running, At
<1>. QED BY <1>1, StopsKeepsInv DEF Ended

LEMMA NextKeepsInv ==
    ASSUME ToolsInv, [Next]_vars
    PROVE  ToolsInv'
<1>1. CASE UNCHANGED vars
  BY <1>1 DEF vars, ToolsInv, Target, Holds
<1>2. ASSUME NEW p \in Procs,
             \/ Start(p) \/ CreateStore(p) \/ InitializeStep(p) \/ Initialized(p)
             \/ CheckIntegrity(p) \/ Prepare(p) \/ Begin(p) \/ BeginSync(p)
             \/ BeginSyncReadings(p) \/ SyncReadingRecords(p) \/ Execute(p) \/ Commit(p)
             \/ CheckStore(p) \/ Dump(p) \/ Export(p) \/ ShowScript(p) \/ Kill(p)
      PROVE  ToolsInv'
  BY <1>2, StartKeepsInv, CreateStoreKeepsInv, InitializeStepKeepsInv, InitializedKeepsInv,
     CheckIntegrityKeepsInv, PrepareKeepsInv, BeginKeepsInv, BeginSyncKeepsInv,
     BeginSyncReadingsKeepsInv, SyncReadingRecordsKeepsInv, ExecuteKeepsInv, CommitKeepsInv,
     ShowsKeepsInv, KillKeepsInv
<1>. QED BY <1>1, <1>2 DEF Next

-----------------------------------------------------------------------------
(* The theorems *)

\* Every reachable state satisfies the invariant, whatever processes run on the
\* files at once and wherever they are killed.
THEOREM ToolsInvariant == Spec => []ToolsInv
<1>1. Init => ToolsInv
  BY InitInv
<1>2. ToolsInv /\ [Next]_vars => ToolsInv'
  BY NextKeepsInv
<1>. QED BY <1>1, <1>2, PTL DEF Spec

LEMMA InvUpgradesComplete ==
    ToolsInv => UpgradesComplete
<1>. SUFFICES ASSUME ToolsInv
              PROVE  UpgradesComplete
  OBVIOUS
<1>1. ASSUME NEW p \in Procs, proc[p].cmd.tool \in {"create", "upgrade"}, ~proc[p].missed
      PROVE  /\ proc[p].pc = "done" => Openable(file[Target(p)])
             /\ proc[p].pc = "failed" => Duplicates(file[Target(p)])
  <2>1. ProcOK(proc[p], file, Holds(p))
    BY DEF ToolsInv
  <2>2. CASE proc[p].cmd.tool = "create"
    BY <1>1, <2>1, <2>2 DEF ProcOK, CreateOK, Target
  <2>3. CASE proc[p].cmd.tool = "upgrade"
    BY <1>1, <2>1, <2>3 DEF ProcOK, UpgradeOK, Target
  <2>. QED BY <1>1, <2>2, <2>3
<1>2. ASSUME NEW f \in Files, Openable(file[f])
      PROVE  ~Duplicates(file[f])
  BY <1>2 DEF ToolsInv, FileSound, Openable, VersionMatches
<1>. QED BY <1>1, <1>2 DEF UpgradesComplete

\* A klio-store create or upgrade that met no lock has left a file that every
\* tool opens, or the file has sensors that share an external id, with any
\* number of other processes creating, upgrading and writing beside it.
THEOREM UpgradesAlwaysComplete == Spec => []UpgradesComplete
BY ToolsInvariant, InvUpgradesComplete, PTL

\* ToolsKeepReadings of one file.
Kept(f) ==
    \A u \in DOMAIN file[f].sensors :
       /\ u \in DOMAIN file'[f].sensors
       /\ file'[f].sensors[u].id = file[f].sensors[u].id
       /\ \A t \in DOMAIN file[f].readings[u] :
             /\ t \in DOMAIN file'[f].readings[u]
             /\ file'[f].readings[u][t] # file[f].readings[u][t] =>
                   \E p \in Procs :
                      /\ lock[f] = p
                      /\ <<file[f].sensors[u].id, t>> \in InputOf(proc[p].cmd, file)

LEMMA AlikeKept ==
    ASSUME NEW f, Alike(file[f], file'[f])
    PROVE  Kept(f)
BY DEF Alike, Kept

LEMMA SparedKept ==
    ASSUME NEW f, FileSound(file[f]), Grown(file[f], file'[f]),
           \/ Spared({}, file[f], file'[f])
           \/ \E p \in Procs : /\ lock[f] = p
                               /\ Spared(InputOf(proc[p].cmd, file), file[f], file'[f])
    PROVE  Kept(f)
BY DEF Spared, Grown, Kept

LEMMA InitializeStepKept ==
    ASSUME ToolsInv, NEW p \in Procs, InitializeStep(p), NEW f \in Files
    PROVE  Kept(f)
<1>. DEFINE T == Target(p)
            x == Head(proc[p].todo)
<1>1. /\ DOMAIN file = Files /\ ProcOK(proc[p], file, lock[T] = p)
      /\ \A g \in Files : FileSound(file[g]) /\ Alike(file[g], file[g])
  BY ProcFacts
<1>2. CASE file' = file
  BY <1>1, <1>2, AlikeKept
<1>3. CASE ~Refused(x, file[T]) /\ file' = [file EXCEPT ![T] = Applied(x, @)]
  <2>1. proc[p].pc = "initialize" /\ proc[p].todo # <<>>
    BY DEF InitializeStep, At
  <2>2. "initialize" \notin {"start", "open", "load", "begin", "write"} \cup Ended
    BY DEF Ended
  <2>3. proc[p].cmd.tool \in Schemers
    BY <1>1, <2>1, <2>2 DEF ProcOK, OthersOK
  <2>4. Initializing(proc[p].todo, file[T])
    BY <1>1, <2>1, <2>3 DEF ProcOK, CreateOK, UpgradeOK, Schemers, Target
  <2>5. T \in Files
    BY ProcFacts
  <2>6. Extends({}, file[T], Applied(x, file[T]))
    <3>. HIDE DEF T
    <3>. QED BY <1>1, <1>3, <2>1, <2>4, <2>5, InitializingNext
  <2>7. file'[f] = IF f = T THEN Applied(x, file[T]) ELSE file[f]
    BY <1>1, <1>3
  <2>. HIDE DEF T, x
  <2>8. CASE f = T
    BY <1>1, <2>6, <2>7, <2>8, SparedKept DEF Extends
  <2>9. CASE f # T
    BY <1>1, <2>7, <2>9, AlikeKept
  <2>. QED BY <2>8, <2>9
<1>. QED BY <1>2, <1>3 DEF InitializeStep

LEMMA CommitKept ==
    ASSUME ToolsInv, NEW p \in Procs, Commit(p), NEW f \in Files
    PROVE  Kept(f)
<1>. DEFINE T == Target(p)
<1>1. /\ DOMAIN file = Files /\ ProcOK(proc[p], file, lock[T] = p)
      /\ \A g \in Files : FileSound(file[g]) /\ Alike(file[g], file[g])
  BY ProcFacts
<1>2. CASE file' = file
  BY <1>1, <1>2, AlikeKept
<1>3. CASE lock[T] = p /\ file' = [file EXCEPT ![T] = proc[p].view]
  <2>1. Writing(proc[p], file)
    BY <1>1, <1>3 DEF ProcOK, Target
  <2>2. file'[f] = IF f = T THEN proc[p].view ELSE file[f]
    BY <1>1, <1>3
  <2>. HIDE DEF T
  <2>3. CASE f = T
    BY <1>1, <1>3, <2>1, <2>2, <2>3, SparedKept DEF Writing, Target, T
  <2>4. CASE f # T
    BY <1>1, <2>2, <2>4, AlikeKept
  <2>. QED BY <2>3, <2>4
<1>. QED BY <1>2, <1>3 DEF Commit

LEMMA NextKept ==
    ASSUME ToolsInv, [Next]_vars, NEW f \in Files
    PROVE  Kept(f)
<1>1. CASE file' = file
  BY <1>1, AlikeKept DEF Alike
<1>2. ASSUME NEW p \in Procs, InitializeStep(p) \/ Commit(p)
      PROVE  Kept(f)
  BY <1>2, InitializeStepKept, CommitKept
<1>3. ASSUME NEW p \in Procs, CreateStore(p) \/ CheckIntegrity(p)
      PROVE  Kept(f)
  <2>1. \E g : file' = [file EXCEPT ![g].exists = TRUE]
    BY <1>3 DEF CreateStore, CheckIntegrity
  <2>. QED BY <2>1, FileMarked, AlikeKept
<1>4. ASSUME NEW p \in Procs,
             \/ Start(p) \/ Initialized(p) \/ Prepare(p) \/ Begin(p) \/ BeginSync(p)
             \/ BeginSyncReadings(p) \/ SyncReadingRecords(p) \/ Execute(p)
             \/ CheckStore(p) \/ Dump(p) \/ Export(p) \/ ShowScript(p) \/ Kill(p)
      PROVE  file' = file
  BY <1>4 DEF Start, Initialized, Prepare, Begin, BeginSync, BeginSyncReadings,
     SyncReadingRecords, Execute, CheckStore, Dump, Export, ShowScript, Shows, Kill
<1>. QED BY <1>1, <1>2, <1>3, <1>4 DEF Next, vars

\* No step of any process takes a sensor or a reading from a file, and only the
\* commit of an import or a sync puts another value in the place of one, for a
\* sensor and a time its input has, for any number of processes, interleaving
\* and kill.
THEOREM ReadingsAreKept == Spec => ToolsKeepReadings
<1>1. ToolsInv /\ [Next]_vars =>
         [\A f \in Files : Kept(f)]_vars
  BY NextKept
<1>2. (\A f \in Files : Kept(f)) =>
         \A f \in Files : \A u \in DOMAIN file[f].sensors :
            /\ u \in DOMAIN file'[f].sensors
            /\ file'[f].sensors[u].id = file[f].sensors[u].id
            /\ \A t \in DOMAIN file[f].readings[u] :
                  /\ t \in DOMAIN file'[f].readings[u]
                  /\ file'[f].readings[u][t] # file[f].readings[u][t] =>
                        \E p \in Procs :
                           /\ lock[f] = p
                           /\ <<file[f].sensors[u].id, t>> \in InputOf(proc[p].cmd, file)
  BY DEF Kept
<1>. QED BY <1>1, <1>2, ToolsInvariant, PTL DEF Spec, ToolsKeepReadings

-----------------------------------------------------------------------------
(* What a process makes of the others *)

Acts(p) ==
    \/ Start(p) \/ CreateStore(p) \/ InitializeStep(p) \/ Initialized(p)
    \/ CheckIntegrity(p) \/ Prepare(p) \/ Begin(p) \/ BeginSync(p)
    \/ BeginSyncReadings(p) \/ SyncReadingRecords(p) \/ Execute(p) \/ Commit(p)
    \/ CheckStore(p) \/ Dump(p) \/ Export(p) \/ ShowScript(p) \/ Kill(p)

LEMMA NextActs ==
    Next <=> \E p \in Procs : Acts(p)
BY DEF Next, Acts

\* A running process is disturbed, or nothing of what it works with changes.
Beside(q) ==
    /\ proc'[q] = proc[q] \/ proc'[q] = [proc[q] EXCEPT !.disturbed = TRUE]
    /\ \A f \in Files : lock'[f] = q <=> lock[f] = q
    /\ Running(q) =>
          \/ proc'[q] = [proc[q] EXCEPT !.disturbed = TRUE]
          \/ /\ Alike(file[Target(q)], file'[Target(q)])
             /\ Alike(file[Source(q)], file'[Source(q)])

\* A step that changes files only in that they exist.
LEMMA BesideOwn ==
    ASSUME ToolsInv, NEW p \in Procs, NEW q \in Procs \ {p},
           NEW f, file' = file \/ file' = [file EXCEPT ![f].exists = TRUE],
           NEW s, proc' = [proc EXCEPT ![p] = s],
           \A g \in Files : lock'[g] = q <=> lock[g] = q
    PROVE  Beside(q)
<1>1. proc'[q] = proc[q] /\ Target(q) \in Files /\ Source(q) \in Files
  BY ProcFacts
<1>2. \A g \in Files : Alike(file[g], file'[g])
  BY FileMarked
<1>. QED BY <1>1, <1>2 DEF Beside

LEMMA BesideStop ==
    ASSUME ToolsInv, NEW p \in Procs, NEW q \in Procs \ {p},
           NEW f, file' = file \/ file' = [file EXCEPT ![f].exists = TRUE],
           NEW pc, NEW missed, Stops(p, pc, missed)
    PROVE  Beside(q)
<1>1. \A g \in Files : lock'[g] = q <=> lock[g] = q
  BY NoProcAssumption DEF Stops
<1>2. \E s : proc' = [proc EXCEPT ![p] = s]
  BY DEF Stops
<1>. QED BY <1>1, <1>2, BesideOwn

\* A step that writes to a file.
LEMMA BesideWrite ==
    ASSUME ToolsInv, NEW p \in Procs, NEW q \in Procs \ {p},
           NEW d, file' = [file EXCEPT ![Target(p)] = d],
           NEW ps, DOMAIN ps = Procs, ps[q] = proc[q],
           proc' = Disturbed(ps, p, Target(p)),
           \A g \in Files : lock'[g] = q <=> lock[g] = q
    PROVE  Beside(q)
<1>. DEFINE T == Target(p)
<1>1. DOMAIN file = Files /\ Target(q) \in Files /\ Source(q) \in Files
  BY ProcFacts
<1>2. \A g \in Files : g # T => file'[g] = file[g]
  BY <1>1
<1>3. proc'[q] = IF Running(q) /\ T \in {Target(q), Source(q)}
                 THEN [proc[q] EXCEPT !.disturbed = TRUE] ELSE proc[q]
  BY DEF Disturbed, Running, Target, Source
<1>4. CASE T \in {Target(q), Source(q)}
  BY <1>3, <1>4 DEF Beside
<1>5. CASE T \notin {Target(q), Source(q)}
  <2>1. file'[Target(q)] = file[Target(q)] /\ file'[Source(q)] = file[Source(q)]
    BY <1>1, <1>2, <1>5
  <2>. QED BY <1>3, <2>1 DEF Beside, Alike
<1>. QED BY <1>4, <1>5

\* The process once it has prepared a store.
Prepared(p, list, missed) ==
    LET opens == Tail(proc[p].opens)
    IN [proc[p] EXCEPT
          !.known[Head(proc[p].opens)] = list, !.missed = missed, !.opens = opens,
          !.pc = IF opens # <<>> THEN "open"
                 ELSE IF proc[p].cmd.tool = "create" THEN "done" ELSE "begin"]

LEMMA PrepareStep ==
    ASSUME NEW p \in Procs, Prepare(p)
    PROVE  \/ Throws(p, FALSE)
           \/ /\ lock' = lock
              /\ \E list, missed :
                    /\ proc' = [proc EXCEPT ![p] = Prepared(p, list, missed)]
                    /\ ~missed => list = file[Head(proc[p].opens)].sensors
                    /\ proc[p].missed => missed
<1>. DEFINE f == Head(proc[p].opens)
            opens == Tail(proc[p].opens)
            pc == IF opens # <<>> THEN "open"
                  ELSE IF proc[p].cmd.tool = "create" THEN "done" ELSE "begin"
<1>1. CASE Throws(p, FALSE)
  BY <1>1
<1>2. ASSUME NEW nothing \in {FALSE} \cup {MayReadNothing(p, f)},
             proc' = [proc EXCEPT ![p].known[f] = IF nothing THEN <<>> ELSE file[f].sensors,
                                  ![p].missed = @ \/ nothing,
                                  ![p].opens = opens,
                                  ![p].pc = pc]
      PROVE  \E list, missed :
                /\ proc' = [proc EXCEPT ![p] = Prepared(p, list, missed)]
                /\ ~missed => list = file[f].sensors
                /\ proc[p].missed => missed
  <2>. DEFINE list == IF nothing THEN <<>> ELSE file[f].sensors
              missed == proc[p].missed \/ nothing
  <2>1. nothing \in BOOLEAN
    BY DEF MayReadNothing, LockedOut
  <2>2. (~missed => list = file[f].sensors) /\ (proc[p].missed => missed)
    BY <2>1
  <2>3. proc' = [proc EXCEPT ![p].known[f] = list, ![p].missed = missed,
                             ![p].opens = opens, ![p].pc = pc]
    BY <1>2
  <2>4. Prepared(p, list, missed) =
           [proc[p] EXCEPT !.known[f] = list, !.missed = missed, !.opens = opens, !.pc = pc]
    BY DEF Prepared
  <2>. HIDE DEF list, missed, f, opens, pc
  <2>5. proc' = [proc EXCEPT ![p] = Prepared(p, list, missed)]
    BY <2>3, <2>4
  <2>. QED BY <2>2, <2>5
<1>3. \/ Throws(p, FALSE)
      \/ /\ lock' = lock
         /\ \E nothing \in {FALSE} \cup {MayReadNothing(p, f)} :
               proc' = [proc EXCEPT ![p].known[f] = IF nothing THEN <<>> ELSE file[f].sensors,
                                    ![p].missed = @ \/ nothing,
                                    ![p].opens = opens,
                                    ![p].pc = pc]
  BY DEF Prepare
<1>. HIDE DEF opens, pc
<1>. QED BY <1>1, <1>2, <1>3

LEMMA ActsBeside ==
    ASSUME ToolsInv, NEW p \in Procs, NEW q \in Procs \ {p}, Acts(p)
    PROVE  Beside(q)
<1>1. DOMAIN proc = Procs /\ DOMAIN file = Files /\ DOMAIN lock = Files
  BY DEF ToolsInv
<1>2. ASSUME file' = file, lock' = lock, \E s : proc' = [proc EXCEPT ![p] = s]
      PROVE  Beside(q)
  BY <1>2, BesideOwn
<1>3. ASSUME file' = file, NEW pc, NEW missed, Stops(p, pc, missed)
      PROVE  Beside(q)
  BY <1>3, BesideStop
<1>4. CASE Start(p)
  BY <1>2, <1>3, <1>4 DEF Start
<1>5. CASE CreateStore(p)
  <2>1. file' = [file EXCEPT ![Target(p)].exists = TRUE] /\ lock' = lock
    BY <1>5 DEF CreateStore
  <2>2. \E s : proc' = [proc EXCEPT ![p] = s]
    BY <1>5 DEF CreateStore
  <2>. QED BY <2>1, <2>2, BesideOwn
<1>6. CASE InitializeStep(p)
  <2>. DEFINE ps == [proc EXCEPT ![p].todo = Tail(@)]
              d == Applied(Head(proc[p].todo), file[Target(p)])
  <2>1. CASE file' = file /\ \E missed : Stops(p, "failed", missed)
    BY <1>3, <2>1
  <2>2. CASE /\ file' = [file EXCEPT ![Target(p)] = d] /\ lock' = lock
             /\ proc' = Disturbed(ps, p, Target(p))
    <3>1. DOMAIN ps = Procs /\ ps[q] = proc[q]
      BY <1>1
    <3>. HIDE DEF ps, d
    <3>. QED BY <2>2, <3>1, BesideWrite
  <2>. QED BY <1>6, <2>1, <2>2 DEF InitializeStep, Throws
<1>7. CASE CheckIntegrity(p)
  <2>1. PICK f : file' = [file EXCEPT ![f].exists = TRUE]
    BY <1>7 DEF CheckIntegrity
  <2>2. CASE \E pc, missed : Stops(p, pc, missed)
    BY <2>1, <2>2, BesideStop
  <2>3. CASE lock' = lock /\ \E s : proc' = [proc EXCEPT ![p] = s]
    BY <2>1, <2>3, BesideOwn
  <2>. QED BY <1>7, <2>2, <2>3 DEF CheckIntegrity, Throws
<1>8. CASE Prepare(p)
  BY <1>2, <1>3, <1>8 DEF Prepare, Throws
<1>9. CASE Initialized(p) \/ Begin(p) \/ BeginSync(p) \/ BeginSyncReadings(p)
  BY <1>2, <1>9 DEF Initialized, Begin, BeginSync, BeginSyncReadings
<1>10. CASE SyncReadingRecords(p)
  <2>1. file' = file
    BY <1>10 DEF SyncReadingRecords
  <2>2. \/ Throws(p, FALSE)
        \/ lock' = lock /\ \E s : proc' = [proc EXCEPT ![p] = s]
    BY <1>10, RecordsStep
  <2>. QED BY <1>2, <1>3, <2>1, <2>2 DEF Throws
<1>11. CASE Execute(p)
  <2>1. CASE \E missed : Stops(p, "failed", missed)
    BY <1>3, <1>11, <2>1 DEF Execute
  <2>2. CASE lock' = lock /\ \E s : proc' = [proc EXCEPT ![p] = s]
    BY <1>2, <1>11, <2>2 DEF Execute
  <2>3. CASE /\ ~LockedOut(p, Target(p)) /\ lock' = [lock EXCEPT ![Target(p)] = p]
             /\ \E s : proc' = [proc EXCEPT ![p] = s]
    <3>1. \A g \in Files : lock'[g] = q <=> lock[g] = q
      BY <1>1, <2>3, NoProcAssumption DEF LockedOut
    <3>2. file' = file
      BY <1>11 DEF Execute
    <3>. QED BY <2>3, <3>1, <3>2, BesideOwn
  <2>. QED BY <1>1, <1>11, <2>1, <2>2, <2>3 DEF Execute, Throws
<1>12. CASE Commit(p)
  <2>. DEFINE ps == [proc EXCEPT ![p].pc = "done"]
  <2>1. CASE file' = file /\ \E missed : Stops(p, "done", missed)
    BY <1>3, <2>1
  <2>2. CASE /\ lock[Target(p)] = p /\ lock' = [lock EXCEPT ![Target(p)] = NoProc]
             /\ file' = [file EXCEPT ![Target(p)] = proc[p].view]
             /\ proc' = Disturbed(ps, p, Target(p))
    <3>1. DOMAIN ps = Procs /\ ps[q] = proc[q]
      BY <1>1
    <3>2. \A g \in Files : lock'[g] = q <=> lock[g] = q
      BY <1>1, <2>2, NoProcAssumption
    <3>. HIDE DEF ps
    <3>. QED BY <2>2, <3>1, <3>2, BesideWrite
  <2>. QED BY <1>12, <2>1, <2>2 DEF Commit
<1>13. CASE CheckStore(p) \/ Dump(p) \/ Export(p) \/ ShowScript(p)
  <2>1. ASSUME NEW readings, Shows(p, readings)
        PROVE  Beside(q)
    BY <1>2, <2>1 DEF Shows
  <2>2. CASE CheckStore(p)
    BY <2>1, <2>2 DEF CheckStore
  <2>3. CASE Dump(p)
    BY <2>1, <2>3 DEF Dump
  <2>4. CASE Export(p)
    BY <2>1, <2>4 DEF Export
  <2>5. CASE ShowScript(p)
    BY <1>2, <2>5 DEF ShowScript
  <2>. QED BY <1>13, <2>2, <2>3, <2>4, <2>5
<1>14. CASE Kill(p)
  BY <1>3, <1>14 DEF Kill
<1>. QED BY <1>4, <1>5, <1>6, <1>7, <1>8, <1>9, <1>10, <1>11, <1>12, <1>13, <1>14 DEF Acts

-----------------------------------------------------------------------------
(* Scripts *)

\* A process with a script has it from the readings it has seen.
Scripted(r) ==
    r.cmd.tool = "octscript" =>
       \/ r.seen = <<>>
       \/ r.pc \in Ended /\ IsSeries(r.seen) /\ r.script = WriteValues(r.seen)

\* The process is that of the same command and, if it makes scripts, has shown
\* nothing new.
SameShown(r, s) ==
    /\ s.cmd = r.cmd
    /\ r.cmd.tool = "octscript" => s.seen = r.seen /\ s.script = r.script

\* Who takes a step runs.
LEMMA ActsRunning ==
    ASSUME NEW p \in Procs, Acts(p)
    PROVE  Running(p)
<1>1. {"start", "checked", "initialize", "open", "load", "begin", "write"} \cap Ended = {}
  BY DEF Ended
<1>2. CASE Start(p) \/ CreateStore(p) \/ InitializeStep(p) \/ Initialized(p) \/ CheckIntegrity(p)
  BY <1>1, <1>2 DEF Start, CreateStore, InitializeStep, Initialized, CheckIntegrity, At, Running
<1>3. CASE Prepare(p) \/ Begin(p) \/ BeginSync(p) \/ BeginSyncReadings(p)
  BY <1>1, <1>3 DEF Prepare, Begin, BeginSync, BeginSyncReadings, At, Running
<1>4. CASE SyncReadingRecords(p) \/ Execute(p) \/ Commit(p)
  BY <1>1, <1>4 DEF SyncReadingRecords, Execute, Commit, At, Running
<1>5. CASE CheckStore(p) \/ Dump(p) \/ Export(p) \/ ShowScript(p)
  BY <1>1, <1>5 DEF CheckStore, Dump, Export, ShowScript, At, Running
<1>6. CASE Kill(p)
  BY <1>6 DEF Kill
<1>. QED BY <1>2, <1>3, <1>4, <1>5, <1>6 DEF Acts

\* Only ShowScript makes a script.
LEMMA OthersShowNothing ==
    ASSUME ToolsInv, NEW p \in Procs, Acts(p), ~ShowScript(p)
    PROVE  SameShown(proc[p], proc'[p])
<1>. DEFINE r == proc[p]
<1>1. DOMAIN proc = Procs /\ DOMAIN r = Fields
  BY ProcFacts
<1>2. ASSUME NEW pc, NEW missed, Stops(p, pc, missed)
      PROVE  SameShown(r, proc'[p])
  BY <1>1, <1>2 DEF Stops, SameShown, Fields
<1>3. CASE Start(p)
  <2>1. CASE proc' = [proc EXCEPT ![p].pc = "open", ![p].opens = ToOpen(p)]
    BY <1>1, <2>1 DEF SameShown, Fields
  <2>2. CASE proc' = [proc EXCEPT ![p].pc = "checked"]
    BY <1>1, <2>2 DEF SameShown, Fields
  <2>. QED BY <1>2, <1>3, <2>1, <2>2 DEF Start
<1>4. CASE CreateStore(p)
  BY <1>1, <1>4 DEF CreateStore, SameShown, Fields
<1>5. CASE InitializeStep(p)
  <2>. DEFINE ps == [proc EXCEPT ![p].todo = Tail(@)]
  <2>1. CASE \E f : proc' = Disturbed(ps, p, f)
    <3>1. DOMAIN ps = Procs /\ SameShown(r, ps[p])
      BY <1>1 DEF SameShown, Fields
    <3>2. PICK f : proc' = Disturbed(ps, p, f)
      BY <2>1
    <3>. HIDE DEF ps
    <3>3. proc'[p] = ps[p]
      BY <3>1, <3>2, DisturbedOnly
    <3>. QED BY <3>1, <3>3
  <2>. QED BY <1>2, <1>5, <2>1 DEF InitializeStep, Throws
<1>6. CASE Initialized(p)
  BY <1>1, <1>6 DEF Initialized, SameShown, Fields
<1>7. CASE CheckIntegrity(p)
  <2>1. CASE proc' = [proc EXCEPT ![p].pc = "load"]
    BY <1>1, <2>1 DEF SameShown, Fields
  <2>. QED BY <1>2, <1>7, <2>1 DEF CheckIntegrity, Throws
<1>8. CASE Prepare(p)
  <2>1. ASSUME NEW list, NEW missed
        PROVE  SameShown(r, Prepared(p, list, missed))
    BY <1>1 DEF Prepared, SameShown, Fields
  <2>2. ASSUME NEW list, NEW missed,
               proc' = [proc EXCEPT ![p] = Prepared(p, list, missed)]
        PROVE  SameShown(r, proc'[p])
    <3>1. proc'[p] = Prepared(p, list, missed)
      BY <1>1, <2>2
    <3>. QED BY <2>1, <3>1
  <2>. QED BY <1>2, <1>8, <2>2, PrepareStep DEF Throws
<1>9. CASE Begin(p)
  BY <1>1, <1>9 DEF Begin, SameShown, Fields
<1>10. CASE BeginSync(p)
  <2>1. PICK nothing \in {FALSE} \cup {MayReadNothing(p, Source(p))} :
           LET sensors == IF nothing THEN <<>> ELSE file[Source(p)].sensors
           IN proc' = [proc EXCEPT ![p].pc = "write",
                                   ![p].left = {Job(sensors, u) : u \in DOMAIN sensors},
                                   ![p].missed = @ \/ nothing]
    BY <1>10 DEF BeginSync
  <2>. DEFINE sensors == IF nothing THEN <<>> ELSE file[Source(p)].sensors
              left == {Job(sensors, u) : u \in DOMAIN sensors}
  <2>2. proc' = [proc EXCEPT ![p].pc = "write", ![p].left = left,
                             ![p].missed = @ \/ nothing]
    BY <2>1
  <2>. HIDE DEF left
  <2>. QED BY <1>1, <2>2 DEF SameShown, Fields
<1>11. CASE BeginSyncReadings(p)
  BY <1>1, <1>11 DEF BeginSyncReadings, SameShown, Fields
<1>12. CASE CheckStore(p) \/ Dump(p) \/ Export(p)
  <2>1. ASSUME NEW readings, Shows(p, readings)
        PROVE  proc'[p].cmd = r.cmd
    BY <1>1, <2>1 DEF Shows, Fields
  <2>2. r.cmd.tool # "octscript"
    BY <1>12 DEF CheckStore, Dump, Export
  <2>3. CASE CheckStore(p)
    BY <2>1, <2>2, <2>3 DEF CheckStore, SameShown
  <2>4. CASE Dump(p)
    BY <2>1, <2>2, <2>4 DEF Dump, SameShown
  <2>5. CASE Export(p)
    BY <2>1, <2>2, <2>5 DEF Export, SameShown
  <2>. QED BY <1>12, <2>3, <2>4, <2>5
<1>13. CASE SyncReadingRecords(p)
  <2>1. ASSUME NEW job, NEW more, NEW kept, NEW due, NEW missed
        PROVE  SameShown(r, Recorded(p, job, more, kept, due, missed))
    BY <1>1 DEF Recorded, SameShown, Fields
  <2>2. ASSUME NEW job, NEW more, NEW kept, NEW due, NEW missed,
               proc' = [proc EXCEPT ![p] = Recorded(p, job, more, kept, due, missed)]
        PROVE  SameShown(r, proc'[p])
    <3>1. proc'[p] = Recorded(p, job, more, kept, due, missed)
      BY <1>1, <2>2
    <3>. QED BY <2>1, <3>1
  <2>3. CASE \E job \in proc[p].left : \E readings, more, kept, due, missed :
                /\ Reads(p, job, readings, more, kept, due, missed)
                /\ proc' = [proc EXCEPT ![p] = Recorded(p, job, more, kept, due, missed)]
    <3>1. PICK job \in proc[p].left : \E readings, more, kept, due, missed :
             proc' = [proc EXCEPT ![p] = Recorded(p, job, more, kept, due, missed)]
      BY <2>3
    <3>2. PICK readings, more, kept, due, missed :
             proc' = [proc EXCEPT ![p] = Recorded(p, job, more, kept, due, missed)]
      BY <3>1
    <3>. QED BY <2>2, <3>2
  <2>4. CASE Throws(p, FALSE)
    BY <1>2, <2>4 DEF Throws
  <2>. QED BY <1>13, <2>3, <2>4, RecordsStep
<1>14. CASE Execute(p)
  <2>1. ASSUME NEW missed,
               proc' = [[proc EXCEPT ![p].todo = Tail(@)] EXCEPT ![p].missed = missed]
        PROVE  SameShown(r, proc'[p])
    BY <1>1, <2>1 DEF SameShown, Fields
  <2>2. ASSUME NEW d, proc' = [[proc EXCEPT ![p].todo = Tail(@)] EXCEPT ![p].view = d]
        PROVE  SameShown(r, proc'[p])
    BY <1>1, <2>2 DEF SameShown, Fields
  <2>3. CASE proc' = [proc EXCEPT ![p].todo = Tail(@)]
    BY <1>1, <2>3 DEF SameShown, Fields
  <2>. QED BY <1>2, <1>14, <2>1, <2>2, <2>3 DEF Execute, Throws
<1>15. CASE Commit(p)
  <2>. DEFINE ps == [proc EXCEPT ![p].pc = "done"]
  <2>1. CASE \E f : proc' = Disturbed(ps, p, f)
    <3>1. DOMAIN ps = Procs /\ SameShown(r, ps[p])
      BY <1>1 DEF SameShown, Fields
    <3>2. PICK f : proc' = Disturbed(ps, p, f)
      BY <2>1
    <3>. HIDE DEF ps
    <3>3. proc'[p] = ps[p]
      BY <3>1, <3>2, DisturbedOnly
    <3>. QED BY <3>1, <3>3
  <2>. QED BY <1>2, <1>15, <2>1 DEF Commit
<1>16. CASE Kill(p)
  BY <1>2, <1>16 DEF Kill
<1>. QED BY <1>3, <1>4, <1>5, <1>6, <1>7, <1>8, <1>9, <1>10, <1>11, <1>12,
      <1>13, <1>14, <1>15, <1>16 DEF Acts

LEMMA ShowScriptScripted ==
    ASSUME ToolsInv, NEW p \in Procs, ShowScript(p), Scripted(proc[p])
    PROVE  Scripted(proc'[p])
<1>. DEFINE r == proc[p]
            T == Target(p)
<1>1. /\ DOMAIN proc = Procs /\ DOMAIN r = Fields /\ T \in Files
      /\ ProcOK(r, file, FALSE) /\ \A f \in Files : FileSound(file[f])
      /\ r.cmd.tool = "octscript"
  BY ProcFacts DEF ShowScript, At
<1>2. \A u \in Named(p) : u \in DOMAIN file[T].sensors
  <2>1. \A u \in DOMAIN r.known[T] : u \in DOMAIN file[T].sensors
    BY <1>1 DEF ShowScript, At, ProcOK, Mirrored, Seen, Has, Target, Ended
  <2>. QED BY <2>1 DEF Named, Holders
<1>3. ASSUME NEW u \in Named(p), NEW readings \in Gets(p, u)
      PROVE  readings = <<>> \/ IsSeries(readings)
  <2>1. IsSeries(file[T].readings[u])
    BY <1>1, <1>2 DEF FileSound
  <2>2. readings \in {file[T].readings[u], <<>>}
    BY DEF Gets, ReadingsOf
  <2>. QED BY <2>1, <2>2
<1>4. r.seen = <<>>
  BY <1>1, ActsRunning DEF Scripted, Acts, Running
<1>5. CASE proc' = [proc EXCEPT ![p].pc = "done"] \/ proc' = [proc EXCEPT ![p].pc = "killed"]
  <2>1. proc'[p].seen = r.seen
    BY <1>1, <1>5 DEF Fields
  <2>. QED BY <1>4, <2>1 DEF Scripted
<1>6. CASE Named(p) # {}
           /\ proc' = [proc EXCEPT ![p].pc = "done", ![p].script = <<EmptyDay>>]
  <2>1. proc'[p].seen = r.seen
    BY <1>1, <1>6 DEF Fields
  <2>. QED BY <1>4, <2>1 DEF Scripted
<1>7. ASSUME NEW readings, IsSeries(readings),
             proc' = [proc EXCEPT ![p].pc = "done", ![p].seen = readings,
                                  ![p].script = WriteValues(readings)]
      PROVE  Scripted(proc'[p])
  <2>1. /\ proc'[p].seen = readings /\ proc'[p].script = WriteValues(readings)
        /\ proc'[p].pc \in Ended
    BY <1>1, <1>7 DEF Fields, Ended
  <2>. QED BY <1>7, <2>1 DEF Scripted
<1>8. ASSUME NEW u \in Named(p), NEW readings \in Gets(p, u),
             IF readings = <<>>
             THEN \/ proc' = [proc EXCEPT ![p].pc = "killed"]
                  \/ proc' = [proc EXCEPT ![p].pc = "done", ![p].script = <<EmptyDay>>]
             ELSE proc' = [proc EXCEPT ![p].pc = "done", ![p].seen = readings,
                                       ![p].script = WriteValues(readings)]
      PROVE  Scripted(proc'[p])
  <2>1. readings # <<>> => IsSeries(readings)
    BY <1>3
  <2>2. Named(p) # {}
    OBVIOUS
  <2>3. CASE readings = <<>>
    BY <1>5, <1>6, <1>8, <2>2, <2>3
  <2>4. CASE readings # <<>>
    BY <1>7, <1>8, <2>1, <2>4
  <2>. QED BY <2>3, <2>4
<1>9. \/ proc' = [proc EXCEPT ![p].pc = "done"]
      \/ \E u \in Named(p) : \E readings \in Gets(p, u) :
             IF readings = <<>>
             THEN \/ proc' = [proc EXCEPT ![p].pc = "killed"]
                  \/ proc' = [proc EXCEPT ![p].pc = "done", ![p].script = <<EmptyDay>>]
             ELSE proc' = [proc EXCEPT ![p].pc = "done", ![p].seen = readings,
                                       ![p].script = WriteValues(readings)]
  BY DEF ShowScript
<1>. QED BY <1>5, <1>8, <1>9

LEMMA ScriptedKept ==
    ASSUME ToolsInv, \A p \in Procs : Scripted(proc[p]), [Next]_vars
    PROVE  \A p \in Procs : Scripted(proc'[p])
<1>1. CASE UNCHANGED vars
  BY <1>1 DEF vars
<1>2. ASSUME NEW p \in Procs, Acts(p), NEW q \in Procs
      PROVE  Scripted(proc'[q])
  <2>. DEFINE r == proc[q]
  <2>1. DOMAIN r = Fields /\ Scripted(r)
    BY ProcFacts
  <2>2. CASE q # p
    <3>1. proc'[q] = r \/ proc'[q] = [r EXCEPT !.disturbed = TRUE]
      BY <1>2, <2>2, ActsBeside DEF Beside
    <3>2. Scripted([r EXCEPT !.disturbed = TRUE])
      BY <2>1 DEF Scripted, Fields
    <3>. QED BY <2>1, <3>1, <3>2
  <2>3. CASE q = p /\ ShowScript(p)
    BY <2>1, <2>3, ShowScriptScripted
  <2>4. CASE q = p /\ ~ShowScript(p)
    <3>1. SameShown(r, proc'[p])
      BY <1>2, <2>4, OthersShowNothing
    <3>2. r.pc \notin Ended
      BY <1>2, <2>4, ActsRunning DEF Running
    <3>3. r.cmd.tool = "octscript" => r.seen = <<>>
      BY <2>1, <3>2 DEF Scripted
    <3>. QED BY <2>4, <3>1, <3>3 DEF SameShown, Scripted
  <2>. QED BY <2>2, <2>3, <2>4
<1>. QED BY <1>1, <1>2, NextActs

LEMMA InitScripted ==
    Init => \A p \in Procs : Scripted(proc[p])
BY DEF Init, Started, Scripted

LEMMA InvScripts ==
    (\A p \in Procs : Scripted(proc[p])) => ScriptsShowReadings
<1>. SUFFICES ASSUME NEW p \in Procs, Scripted(proc[p]), proc[p].cmd.tool = "octscript",
                     proc[p].seen # <<>>, Plain(proc[p].seen)
              PROVE  proc[p].script = Matrix(proc[p].seen)
  BY DEF ScriptsShowReadings
<1>. DEFINE readings == proc[p].seen
<1>1. IsSeries(readings) /\ proc[p].script = WriteValues(readings)
  BY DEF Scripted
<1>2. DOMAIN readings # {}
  <2>1. CASE DOMAIN readings = {}
    <3>1. readings = [t \in {} |-> readings[t]]
      BY <1>1, <2>1 DEF IsSeries
    <3>. QED BY <3>1
  <2>. QED BY <2>1
<1>3. Series(readings)
  BY <1>1, <1>2 DEF IsSeries, Series
<1>. HIDE DEF readings
<1>4. WriteValues(readings) = Matrix(readings)
  BY <1>3, MatrixIsWritten DEF readings
<1>. QED BY <1>1, <1>4 DEF readings

\* A script shows each reading in the minute of the row of its day and nothing
\* else, whatever days are missing, for any readings of which no two are in one
\* minute and no day begins with its last second, and whatever other processes
\* run.
THEOREM ScriptsAlwaysShowReadings == Spec => []ScriptsShowReadings
<1>1. Init => \A p \in Procs : Scripted(proc[p])
  BY InitScripted
<1>2. /\ ToolsInv /\ (\A p \in Procs : Scripted(proc[p])) /\ [Next]_vars
      => (\A p \in Procs : Scripted(proc[p]))'
  BY ScriptedKept
<1>. QED BY <1>1, <1>2, ToolsInvariant, InvScripts, PTL DEF Spec

-----------------------------------------------------------------------------
(* What a sync brings *)

\* The files in the order in which a sync opens them.
FirstOpened(r) == IF r.cmd.tool = "syncStore" THEN r.cmd.source ELSE r.cmd.file

LastOpened(r) == IF r.cmd.tool = "syncStore" THEN r.cmd.file ELSE r.cmd.source

\* The process knows what is in a file of the current version.
Loaded(r, F, f) == VersionMatches(F[f]) /\ r.known[f] = F[f].sensors

\* A sync that has not begun to write.
Opening(r, F) ==
    /\ r.due = TRUE /\ r.left = {}
    /\ r.pc \in {"open", "load"} =>
          \/ r.opens = <<FirstOpened(r), LastOpened(r)>>
          \/ r.opens = <<LastOpened(r)>> /\ Loaded(r, F, FirstOpened(r))
    /\ r.pc = "load" => VersionMatches(F[Head(r.opens)])
    /\ r.pc = "begin" => Loaded(r, F, FirstOpened(r)) /\ Loaded(r, F, LastOpened(r))

OnlyReadings(todo) == \A s \in Range(todo) : s.op = "replaceReading"

\* The statement that makes the file know the sensor.
Sends(s, known, x) == s = InsertSensor(x, known[x]) \/ s = UpdateSensor(x, known[x])

\* At most one sensor is still to be written, before the readings.
Sent(todo, known) ==
    todo # <<>> =>
       \/ OnlyReadings(todo)
       \/ OnlyReadings(Tail(todo)) /\ \E x \in DOMAIN known : Sends(Head(todo), known, x)

\* The file has the known sensors, but for the one that is written next.
Settled(todo, known, d) ==
    \A x \in DOMAIN known :
       \/ x \in DOMAIN d.sensors /\ d.sensors[x] = known[x]
       \/ todo # <<>> /\ Sends(Head(todo), known, x)

\* The readings of u are in the file as those of x, or are still to be written.
Bringing(todo, kept, source, d, u, x) ==
    /\ \A s \in Range(todo) \cup Range(kept) : s.op = "replaceReading" /\ s.u = x =>
          s.t \in DOMAIN source.readings[u] /\ s.v = source.readings[u][s.t]
    /\ \A t \in DOMAIN source.readings[u] :
          \/ ReplaceReading(x, t, source.readings[u][t]) \in Range(todo)
          \/ /\ x \in DOMAIN d.readings /\ t \in DOMAIN d.readings[x]
             /\ d.readings[x][t] = source.readings[u][t]

\* klio-store sync: every sensor is a job or known, and the readings of one go
\* along with it when the first flush is no longer due.
StoreComes(known, todo, kept, left, due, source, d) ==
    /\ due \in BOOLEAN
    /\ kept \in Seq(Range(kept)) /\ OnlyReadings(kept)
    /\ \A job \in left : job.u \in DOMAIN source.sensors /\ job = Job(source.sensors, job.u)
    /\ Sent(todo, known) /\ Settled(todo, known, d)
    /\ \A u \in DOMAIN source.sensors :
          Job(source.sensors, u) \in left \/ \E x \in DOMAIN known : known[x] = source.sensors[u]
    /\ due = TRUE =>
          /\ kept = <<>>
          /\ \A s \in Range(todo) : s.op # "replaceReading"
          /\ \A u \in DOMAIN source.sensors :
                source.readings[u] # <<>> => Job(source.sensors, u) \in left
    /\ due = FALSE =>
          \E u \in DOMAIN source.sensors : \E x \in DOMAIN known :
             /\ source.readings[u] # <<>> /\ known[x] = source.sensors[u]
             /\ Bringing(todo, kept, source, d, u, x)

\* klio-sensor sync: the sensor of the target is the job, or its readings go.
SensorComes(id, known, todo, kept, left, due, source, d) ==
    /\ due \in BOOLEAN /\ kept = <<>>
    /\ \A u, x \in DOMAIN known : known[u].id = known[x].id => u = x
    /\ \A job \in left : job.u \in Holders(known, id) /\ job = Job(known, job.u)
    /\ left # {} => due = TRUE
    /\ OnlyReadings(todo)
    /\ \A u \in Holders(known, id) :
          \/ Job(known, u) \in left
          \/ u \in DOMAIN source.sensors /\ Bringing(todo, <<>>, source, d, u, u)

\* What a sync that met no lock and had nobody write beside it still does.
SyncOK(r, F, held) ==
    r.cmd.tool \in Syncs /\ r.pc \notin Ended /\ ~r.missed /\ ~r.disturbed =>
       LET known == r.known[r.cmd.file]
           source == F[r.cmd.source]
           d == Seen(r, F, held)
       IN /\ r.pc # "write" => Opening(r, F)
          /\ r.pc = "write" /\ r.cmd.tool = "syncStore" =>
                /\ VersionMatches(source)
                /\ \/ Doomed(r.todo, d)
                   \/ StoreComes(known, r.todo, r.kept, r.left, r.due, source, d)
          /\ r.pc = "write" /\ r.cmd.tool = "syncSensor" =>
                SensorComes(r.cmd.id, known, r.todo, r.kept, r.left, r.due, source, d)

SyncsInv == \A p \in Procs : SyncOK(proc[p], file, Holds(p))

\* Statements before and after the next one.
LEMMA TodoNext ==
    ASSUME NEW todo, todo \in Seq(Range(todo)), todo # <<>>
    PROVE  Range(todo) = {Head(todo)} \cup Range(Tail(todo))
<1>. DEFINE S == Range(todo)
            rest == Tail(todo)
<1>1. /\ Len(todo) \in Nat \ {0} /\ DOMAIN todo = 1 .. Len(todo) /\ Head(todo) = todo[1]
      /\ DOMAIN rest = 1 .. Len(todo) - 1 /\ \A i \in 1 .. Len(todo) - 1 : rest[i] = todo[i + 1]
  <2>. HIDE DEF S
  <2>. QED OBVIOUS
<1>2. S \subseteq {Head(todo)} \cup Range(rest)
  <2>1. ASSUME NEW i \in 1 .. Len(todo)
        PROVE  todo[i] \in {Head(todo)} \cup Range(rest)
    <3>1. CASE i = 1
      BY <1>1, <3>1
    <3>2. CASE i # 1
      <4>1. i - 1 \in DOMAIN rest /\ rest[i - 1] = todo[i]
        BY <1>1, <3>2
      <4>. HIDE DEF rest
      <4>. QED BY <4>1 DEF Range
    <3>. QED BY <3>1, <3>2
  <2>. HIDE DEF rest
  <2>. QED BY <1>1, <2>1 DEF Range
<1>3. Head(todo) \in S /\ Range(rest) \subseteq S
  <2>1. \A i \in DOMAIN rest : i + 1 \in DOMAIN todo /\ rest[i] = todo[i + 1]
    BY <1>1
  <2>2. 1 \in DOMAIN todo
    BY <1>1
  <2>. HIDE DEF rest
  <2>. QED BY <1>1, <2>1, <2>2 DEF Range
<1>. QED BY <1>2, <1>3

LEMMA TodoJoined ==
    ASSUME NEW todo, todo \in Seq(Range(todo)), NEW s
    PROVE  /\ <<s>> \o todo # <<>> /\ Head(<<s>> \o todo) = s /\ Tail(<<s>> \o todo) = todo
           /\ Range(<<s>> \o todo) = {s} \cup Range(todo)
           /\ <<>> \o todo = todo
<1>. DEFINE S == Range(todo) \cup {s}
            both == <<s>> \o todo
<1>1. todo \in Seq(S) /\ <<s>> \in Seq(S)
  OBVIOUS
<1>2. /\ both \in Seq(S) /\ both # <<>> /\ Head(both) = s /\ Tail(both) = todo
      /\ <<>> \o todo = todo
  <2>. HIDE DEF S
  <2>. QED BY <1>1
<1>3. both \in Seq(Range(both))
  <2>. HIDE DEF S, both
  <2>. QED BY <1>2 DEF Range
<1>. HIDE DEF both
<1>. QED BY <1>2, <1>3, TodoNext DEF both

\* The statements that replace the readings of a series.
LEMMA ReplacementsAre ==
    ASSUME NEW u, NEW readings, IsSeries(readings)
    PROVE  /\ Replacements(u, readings) \in Seq(Range(Replacements(u, readings)))
           /\ Range(Replacements(u, readings))
                = {ReplaceReading(u, t, readings[t]) : t \in DOMAIN readings}
<1>. DEFINE n == Cardinality(DOMAIN readings)
            q == Replacements(u, readings)
            time == Ascending(DOMAIN readings)
            S == DOMAIN readings
<1>1. n \in Nat /\ IsFiniteSet(S) /\ S \in SUBSET Int
  BY FS_CardinalityType DEF IsSeries
<1>2. q = [i \in 1 .. n |-> ReplaceReading(u, time[i], readings[time[i]])]
  BY DEF Replacements, InOrder
<1>3. \A i \in 1 .. n : time[i] \in S
  BY <1>1, AscendingElements
<1>4. \A t \in S : \E i \in 1 .. n : time[i] = t
  BY <1>1, AscendingPlaces
<1>. HIDE DEF n, q, time
<1>5. DOMAIN q = 1 .. n /\ \A i \in 1 .. n : q[i] = ReplaceReading(u, time[i], readings[time[i]])
  BY <1>2
<1>6. Range(q) = {ReplaceReading(u, t, readings[t]) : t \in S}
  BY <1>3, <1>4, <1>5 DEF Range
<1>7. q \in Seq(Range(q))
  <2>1. q \in [1 .. n -> Range(q)]
    BY <1>2, <1>5 DEF Range
  <2>. QED BY <1>1, <2>1
<1>. QED BY <1>6, <1>7 DEF q

\* What the statements of a sync do to sensors and readings.
LEMMA AppliedFields ==
    ASSUME NEW d, FileSound(d), NEW s
    PROVE  /\ s.op = "insertSensor" =>
                 /\ Applied(s, d).sensors = Put(d.sensors, s.u, s.sensor)
                 /\ Applied(s, d).readings = Put(d.readings, s.u, <<>>)
           /\ s.op = "updateSensor" =>
                 /\ Applied(s, d).sensors = [d.sensors EXCEPT ![s.u] = s.sensor]
                 /\ Applied(s, d).readings = d.readings
           /\ s.op = "replaceReading" =>
                 /\ Applied(s, d).sensors = d.sensors
                 /\ Applied(s, d).readings
                      = [d.readings EXCEPT ![s.u] = Put(d.readings[s.u], s.t, s.v)]
<1>1. CASE s.op = "insertSensor"
  <2>1. Applied(s, d) = [d EXCEPT !.sensors = Put(@, s.u, s.sensor), !.readings = Put(@, s.u, <<>>)]
    BY <1>1 DEF Applied
  <2>. QED BY <1>1, <2>1, FileFields DEF FileSound
<1>2. CASE s.op = "updateSensor"
  <2>1. Applied(s, d) = [d EXCEPT !.sensors[s.u] = s.sensor]
    BY <1>2 DEF Applied
  <2>. QED BY <1>2, <2>1, FileFields DEF FileSound
<1>3. CASE s.op = "replaceReading"
  <2>. DEFINE readings == [d.readings EXCEPT ![s.u] = Put(d.readings[s.u], s.t, s.v)]
  <2>1. Applied(s, d) = [d EXCEPT !.readings[s.u] = Put(@, s.t, s.v)]
    BY <1>3 DEF Applied
  <2>2. Applied(s, d) = [d EXCEPT !.readings = readings]
    BY <2>1
  <2>3. "sensors" \in DOMAIN d /\ "readings" \in DOMAIN d
    BY FileFields DEF FileSound
  <2>. HIDE DEF readings
  <2>4. Applied(s, d).sensors = d.sensors /\ Applied(s, d).readings = readings
    BY <2>2, <2>3
  <2>. QED BY <1>3, <2>4 DEF readings
<1>. QED BY <1>1, <1>2, <1>3

\* What goes along with the next statement.  The file has the sensors the readings
\* are of.
LEMMA BringingNext ==
    ASSUME NEW todo, todo \in Seq(Range(todo)), todo # <<>>, NEW source, NEW d, FileSound(d),
           NEW u, NEW x, NEW kept, Bringing(todo, kept, source, d, u, x),
           ~Refused(Head(todo), d),
           Head(todo).op \in {"insertSensor", "updateSensor", "replaceReading"},
           Head(todo).op = "replaceReading" => x \in DOMAIN d.sensors
    PROVE  Bringing(Tail(todo), kept, source, Applied(Head(todo), d), u, x)
<1>. DEFINE s == Head(todo)
            rest == Tail(todo)
            e == Applied(s, d)
<1>1. Range(todo) = {s} \cup Range(rest)
  BY TodoNext
<1>2. /\ DOMAIN d.readings = DOMAIN d.sensors
      /\ s.op = "insertSensor" => s.u \notin DOMAIN d.sensors
  BY DEF FileSound, Refused
<1>. HIDE DEF s, rest, e
<1>3. \A r \in Range(rest) \cup Range(kept) : r.op = "replaceReading" /\ r.u = x =>
         r.t \in DOMAIN source.readings[u] /\ r.v = source.readings[u][r.t]
  BY <1>1 DEF Bringing
<1>4. ASSUME NEW t \in DOMAIN source.readings[u]
      PROVE  \/ ReplaceReading(x, t, source.readings[u][t]) \in Range(rest)
             \/ /\ x \in DOMAIN e.readings /\ t \in DOMAIN e.readings[x]
                /\ e.readings[x][t] = source.readings[u][t]
  <2>. DEFINE v == source.readings[u][t]
  <2>1. \/ ReplaceReading(x, t, v) = s
        \/ ReplaceReading(x, t, v) \in Range(rest)
        \/ x \in DOMAIN d.readings /\ t \in DOMAIN d.readings[x] /\ d.readings[x][t] = v
    BY <1>1, <1>4 DEF Bringing
  <2>2. CASE s.op = "insertSensor"
    <3>1. e.readings = Put(d.readings, s.u, <<>>)
      BY <2>2, AppliedFields DEF e, s
    <3>. QED BY <1>2, <2>1, <2>2, <3>1 DEF ReplaceReading, Put
  <2>3. CASE s.op = "updateSensor"
    <3>1. e.readings = d.readings
      BY <2>3, AppliedFields DEF e, s
    <3>. QED BY <2>1, <2>3, <3>1 DEF ReplaceReading
  <2>4. CASE s.op = "replaceReading"
    <3>1. e.readings = [d.readings EXCEPT ![s.u] = Put(d.readings[s.u], s.t, s.v)]
      BY <2>4, AppliedFields DEF e, s
    <3>2. s.u = x => s.v = source.readings[u][s.t]
      BY <1>1, <2>4 DEF Bringing, s
    <3>3. /\ x \in DOMAIN d.readings /\ x \in DOMAIN e.readings
          /\ e.readings[x] = IF s.u = x THEN Put(d.readings[x], s.t, s.v) ELSE d.readings[x]
      BY <1>2, <2>4, <3>1 DEF s
    <3>4. CASE s.u = x /\ t = s.t
      BY <3>2, <3>3, <3>4 DEF Put
    <3>5. CASE s.u = x /\ t # s.t
      BY <2>1, <3>3, <3>5 DEF Put, ReplaceReading
    <3>6. CASE s.u # x
      BY <2>1, <3>3, <3>6 DEF ReplaceReading
    <3>. QED BY <3>4, <3>5, <3>6
  <2>5. s.op \in {"insertSensor", "updateSensor", "replaceReading"}
    BY DEF s
  <2>. QED BY <2>2, <2>3, <2>4, <2>5
<1>. QED BY <1>3, <1>4 DEF Bringing, s, rest, e

LEMMA SettledNext ==
    ASSUME NEW known, NEW todo, todo # <<>>, NEW d, FileSound(d), Settled(todo, known, d),
           \/ Head(todo).op = "replaceReading"
           \/ \E x \in DOMAIN known : Sends(Head(todo), known, x),
           \A x \in DOMAIN known : Has(d, known, x) \/ Head(todo) = InsertSensor(x, known[x])
    PROVE  Settled(<<>>, known, Applied(Head(todo), d))
<1>. DEFINE s == Head(todo)
            e == Applied(s, d)
<1>. HIDE DEF s, e
<1>1. CASE s.op = "replaceReading"
  <2>1. e.sensors = d.sensors
    BY <1>1, AppliedFields DEF e, s
  <2>2. \A x \in DOMAIN known : ~Sends(s, known, x)
    BY <1>1 DEF Sends, InsertSensor, UpdateSensor
  <2>. QED BY <2>1, <2>2 DEF Settled, e, s
<1>2. ASSUME NEW x \in DOMAIN known, s = InsertSensor(x, known[x])
      PROVE  Settled(<<>>, known, e)
  <2>1. s.op = "insertSensor" /\ s.u = x /\ s.sensor = known[x]
    BY <1>2 DEF InsertSensor
  <2>2. e.sensors = Put(d.sensors, x, known[x])
    <3>1. e.sensors = Put(d.sensors, s.u, s.sensor)
      BY <2>1, AppliedFields DEF e
    <3>. QED BY <2>1, <3>1
  <2>3. \A y \in DOMAIN known : y # x => ~Sends(s, known, y)
    BY <2>1 DEF Sends, InsertSensor, UpdateSensor
  <2>. QED BY <2>2, <2>3 DEF Settled, Put, s
<1>3. ASSUME NEW x \in DOMAIN known, s = UpdateSensor(x, known[x])
      PROVE  Settled(<<>>, known, e)
  <2>1. s.op = "updateSensor" /\ s.u = x /\ s.sensor = known[x]
    BY <1>3 DEF UpdateSensor
  <2>2. e.sensors = [d.sensors EXCEPT ![x] = known[x]]
    <3>1. e.sensors = [d.sensors EXCEPT ![s.u] = s.sensor]
      BY <2>1, AppliedFields DEF e
    <3>. QED BY <2>1, <3>1
  <2>3. \A y \in DOMAIN known : y # x => ~Sends(s, known, y)
    BY <2>1 DEF Sends, InsertSensor, UpdateSensor
  <2>4. x \in DOMAIN d.sensors
    BY <2>1 DEF Has, InsertSensor, s
  <2>. QED BY <2>2, <2>3, <2>4 DEF Settled, s
<1>. QED BY <1>1, <1>2, <1>3 DEF Sends, e, s

\* The next statement of a sync.
LEMMA SentNext ==
    ASSUME NEW known, NEW todo, todo \in Seq(Range(todo)), todo # <<>>, Sent(todo, known)
    PROVE  /\ Head(todo).op \in {"insertSensor", "updateSensor", "replaceReading"}
           /\ \/ Head(todo).op = "replaceReading"
              \/ \E x \in DOMAIN known : Sends(Head(todo), known, x)
           /\ OnlyReadings(Tail(todo))
           /\ Range(todo) = {Head(todo)} \cup Range(Tail(todo))
<1>1. Range(todo) = {Head(todo)} \cup Range(Tail(todo))
  BY TodoNext
<1>2. CASE OnlyReadings(todo)
  BY <1>1, <1>2 DEF OnlyReadings
<1>3. CASE OnlyReadings(Tail(todo)) /\ \E x \in DOMAIN known : Sends(Head(todo), known, x)
  BY <1>1, <1>3 DEF Sends, InsertSensor, UpdateSensor
<1>. QED BY <1>2, <1>3 DEF Sent

LEMMA StoreGoesOn ==
    ASSUME NEW known, NEW todo, todo \in Seq(Range(todo)), todo # <<>>,
           NEW kept, NEW left, NEW due, NEW source, NEW d, FileSound(d),
           StoreComes(known, todo, kept, left, due, source, d), ~Refused(Head(todo), d),
           \A x \in DOMAIN known : Has(d, known, x) \/ Head(todo) = InsertSensor(x, known[x])
    PROVE  StoreComes(known, Tail(todo), kept, left, due, source, Applied(Head(todo), d))
<1>. DEFINE rest == Tail(todo)
            e == Applied(Head(todo), d)
<1>1. /\ Head(todo).op \in {"insertSensor", "updateSensor", "replaceReading"}
      /\ \/ Head(todo).op = "replaceReading"
         \/ \E x \in DOMAIN known : Sends(Head(todo), known, x)
      /\ OnlyReadings(rest)
      /\ Range(todo) = {Head(todo)} \cup Range(rest)
  <2>1. Sent(todo, known)
    BY DEF StoreComes
  <2>. QED BY <2>1, SentNext
<1>2. Sent(rest, known)
  BY <1>1 DEF Sent
<1>3. Settled(rest, known, e)
  <2>1. Settled(todo, known, d)
    BY DEF StoreComes
  <2>2. Settled(<<>>, known, e)
    BY <1>1, <2>1, SettledNext
  <2>. QED BY <2>2 DEF Settled
<1>4. ASSUME due = FALSE
      PROVE  \E u \in DOMAIN source.sensors : \E x \in DOMAIN known :
                /\ source.readings[u] # <<>> /\ known[x] = source.sensors[u]
                /\ Bringing(rest, kept, source, e, u, x)
  <2>1. PICK u \in DOMAIN source.sensors, x \in DOMAIN known :
           /\ source.readings[u] # <<>> /\ known[x] = source.sensors[u]
           /\ Bringing(todo, kept, source, d, u, x)
    BY <1>4 DEF StoreComes
  <2>2. Head(todo).op = "replaceReading" => x \in DOMAIN d.sensors
    BY DEF Has, InsertSensor
  <2>3. Bringing(rest, kept, source, e, u, x)
    BY <1>1, <2>1, <2>2, BringingNext
  <2>. QED BY <2>1, <2>3
<1>5. due = TRUE => \A s \in Range(rest) : s.op # "replaceReading"
  BY <1>1 DEF StoreComes
<1>. HIDE DEF rest, e
<1>. QED BY <1>2, <1>3, <1>4, <1>5 DEF StoreComes, rest, e

LEMMA SensorGoesOn ==
    ASSUME NEW id, NEW known, NEW todo, todo \in Seq(Range(todo)), todo # <<>>,
           NEW kept, NEW left, NEW due, NEW source, NEW d, FileSound(d),
           SensorComes(id, known, todo, kept, left, due, source, d), ~Refused(Head(todo), d),
           \A x \in DOMAIN known : Has(d, known, x) \/ Head(todo) = InsertSensor(x, known[x])
    PROVE  SensorComes(id, known, Tail(todo), kept, left, due, source, Applied(Head(todo), d))
<1>. DEFINE rest == Tail(todo)
            e == Applied(Head(todo), d)
<1>1. Range(todo) = {Head(todo)} \cup Range(rest) /\ OnlyReadings(todo)
  BY TodoNext DEF SensorComes
<1>2. Head(todo).op = "replaceReading" /\ OnlyReadings(rest)
  BY <1>1 DEF OnlyReadings
<1>3. ASSUME NEW u \in Holders(known, id), Bringing(todo, <<>>, source, d, u, u)
      PROVE  Bringing(rest, <<>>, source, e, u, u)
  <2>1. u \in DOMAIN d.sensors
    BY <1>2 DEF Has, InsertSensor, Holders
  <2>. QED BY <1>2, <1>3, <2>1, BringingNext
<1>. HIDE DEF rest, e
<1>. QED BY <1>2, <1>3 DEF SensorComes, rest, e

\* A replacement is never refused, and a doomed sync is.
LEMMA DoomedRefused ==
    ASSUME NEW todo, NEW d, Doomed(todo, d)
    PROVE  Refused(Head(todo), d) /\ ~Ignored(Head(todo))
BY DEF Doomed, Refused, Ignored

LEMMA SyncRefused ==
    ASSUME NEW known, NEW todo, todo \in Seq(Range(todo)), todo # <<>>, NEW d
    PROVE  /\ Sent(todo, known) => ~(Refused(Head(todo), d) /\ Ignored(Head(todo)))
           /\ OnlyReadings(todo) => Sent(todo, known)
<1>1. Sent(todo, known) => Head(todo).op \in {"insertSensor", "updateSensor", "replaceReading"}
  BY SentNext
<1>. QED BY <1>1 DEF Refused, Ignored, Sent

\* The statement for the sensor of a job, which is then known as u.
Records(known, job, u, q) ==
    \/ /\ u = job.u /\ \A x \in DOMAIN known : known[x].id # job.sensor.id
       /\ q = <<InsertSensor(u, job.sensor)>>
    \/ /\ u \in DOMAIN known /\ known[u].id = job.sensor.id
       /\ \/ q = <<UpdateSensor(u, job.sensor)>> /\ known[u] # job.sensor
          \/ q = <<>> /\ known[u] = job.sensor

LEMMA RecordIs ==
    ASSUME ToolsInv, NEW p \in Procs, NEW job \in proc[p].left
    PROVE  Records(proc[p].known[Target(p)], job, LocalUuid(p, job), SyncSensorRecord(p, job))
<1>. DEFINE known == proc[p].known[Target(p)]
            u == LocalUuid(p, job)
            holders == Holders(known, job.sensor.id)
<1>1. /\ IsSensor(job.sensor) /\ \A x \in DOMAIN known : IsSensor(known[x])
  BY ProcFacts DEF ProcOK, LeftOK
<1>2. CASE holders = {}
  BY <1>2 DEF LocalUuid, SyncSensorRecord, Records, Holders
<1>3. CASE holders # {}
  <2>1. u \in holders
    BY <1>3 DEF LocalUuid
  <2>. HIDE DEF u
  <2>2. u \in DOMAIN known /\ known[u].id = job.sensor.id
    BY <2>1 DEF Holders
  <2>3. SyncSensorRecord(p, job)
          = IF known[u].def # job.sensor.def THEN <<UpdateSensor(u, job.sensor)>> ELSE <<>>
    BY <1>3 DEF SyncSensorRecord, u
  <2>4. known[u].def = job.sensor.def => known[u] = job.sensor
    BY <1>1, <2>2 DEF IsSensor
  <2>5. known[u].def # job.sensor.def => known[u] # job.sensor
    OBVIOUS
  <2>. HIDE DEF known
  <2>6. CASE known[u].def = job.sensor.def
    BY <2>2, <2>3, <2>4, <2>6 DEF Records, u, known
  <2>7. CASE known[u].def # job.sensor.def
    BY <2>2, <2>3, <2>5, <2>7 DEF Records, u, known
  <2>. QED BY <2>6, <2>7
<1>. QED BY <1>2, <1>3

\* What is written and what waits for a job with these readings.
AreReadings(u, readings, old, due, more, kept, still) ==
    /\ more \in Seq(Range(more)) /\ OnlyReadings(more)
    /\ kept \in Seq(Range(kept)) /\ OnlyReadings(kept)
    /\ \A s \in Range(more) \cup Range(kept) :
          \/ s \in Range(old)
          \/ s.u = u /\ s.t \in DOMAIN readings /\ s.v = readings[s.t]
    /\ still \in BOOLEAN
    /\ still = TRUE => due = TRUE /\ readings = <<>> /\ Range(more) = {}
    /\ still = FALSE /\ due = TRUE =>
          /\ readings # <<>>
          /\ \A t \in DOMAIN readings : ReplaceReading(u, t, readings[t]) \in Range(more)
    /\ due = TRUE /\ old = <<>> => kept = <<>>

LEMMA JoinedReadings ==
    ASSUME NEW old, old \in Seq(Range(old)), OnlyReadings(old),
           NEW q, q \in Seq(Range(q)), OnlyReadings(q)
    PROVE  /\ old \o q \in Seq(Range(old \o q)) /\ OnlyReadings(old \o q)
           /\ Range(old \o q) \subseteq Range(old) \cup Range(q)
           /\ Range(q) \subseteq Range(old \o q)
<1>. DEFINE S == Range(old) \cup Range(q)
            both == old \o q
<1>1. /\ old \in Seq(S) /\ q \in Seq(S)
  OBVIOUS
<1>2. /\ both \in Seq(S) /\ DOMAIN both = 1 .. Len(old) + Len(q)
      /\ Len(old) \in Nat /\ Len(q) \in Nat
      /\ DOMAIN q = 1 .. Len(q) /\ \A i \in 1 .. Len(q) : both[Len(old) + i] = q[i]
  <2>. HIDE DEF S
  <2>. QED BY <1>1
<1>3. both \in Seq(Range(both)) /\ Range(both) \subseteq S
  <2>. HIDE DEF S, both
  <2>1. ASSUME NEW R, \A i \in DOMAIN both : both[i] \in R
        PROVE  both \in Seq(R)
    BY <1>2, <2>1
  <2>2. Range(both) \subseteq S
    <3>1. \A i \in DOMAIN both : both[i] \in S
      BY <1>2
    <3>. QED BY <3>1 DEF Range
  <2>3. \A i \in DOMAIN both : both[i] \in Range(both)
    BY DEF Range
  <2>. QED BY <2>1, <2>2, <2>3
<1>4. Range(q) \subseteq Range(both)
  <2>1. ASSUME NEW i \in DOMAIN q
        PROVE  q[i] \in Range(both)
    <3>1. Len(old) + i \in DOMAIN both /\ both[Len(old) + i] = q[i]
      BY <1>2
    <3>. HIDE DEF both
    <3>. QED BY <3>1 DEF Range
  <2>. HIDE DEF both
  <2>. QED BY <2>1 DEF Range
<1>. HIDE DEF both
<1>. QED BY <1>3, <1>4 DEF OnlyReadings, both

LEMMA GoAlongAreReadings ==
    ASSUME NEW u, NEW readings, IsSeries(readings), NEW due \in BOOLEAN,
           NEW old, old \in Seq(Range(old)), OnlyReadings(old),
           NEW more, NEW kept, NEW still, GoAlong(u, readings, old, due, more, kept, still)
    PROVE  AreReadings(u, readings, old, due, more, kept, still)
<1>. DEFINE q == Replacements(u, readings)
            buffered == old \o q
<1>1. /\ q \in Seq(Range(q))
      /\ Range(q) = {ReplaceReading(u, t, readings[t]) : t \in DOMAIN readings}
  BY ReplacementsAre
<1>2. /\ OnlyReadings(q)
      /\ \A s \in Range(q) : s.u = u /\ s.t \in DOMAIN readings /\ s.v = readings[s.t]
      /\ \A t \in DOMAIN readings : ReplaceReading(u, t, readings[t]) \in Range(q)
  <2>. HIDE DEF q
  <2>. QED BY <1>1 DEF ReplaceReading, OnlyReadings
<1>3. /\ <<>> \in Seq(Range(<<>>)) /\ OnlyReadings(<<>>) /\ Range(<<>>) = {}
  BY DEF OnlyReadings, Range
<1>4. readings = <<>> /\ old = <<>> => buffered = <<>>
  <2>1. readings = <<>> => Range(q) = {}
    <3>1. readings = <<>> => DOMAIN readings = {}
      OBVIOUS
    <3>. HIDE DEF q
    <3>. QED BY <1>1, <3>1
  <2>. HIDE DEF q
  <2>2. Range(q) = {} => q = <<>>
    <3>1. q \in Seq({}) => q = <<>>
      OBVIOUS
    <3>. QED BY <1>1, <3>1
  <2>. QED BY <2>1, <2>2
<1>. HIDE DEF q
<1>5. /\ buffered \in Seq(Range(buffered)) /\ OnlyReadings(buffered)
      /\ Range(buffered) \subseteq Range(old) \cup Range(q)
      /\ Range(q) \subseteq Range(buffered)
  BY <1>1, <1>2, JoinedReadings
<1>. HIDE DEF buffered
<1>6. CASE readings # <<>> /\ more = buffered /\ kept = <<>> /\ still = FALSE
  BY <1>2, <1>3, <1>5, <1>6 DEF AreReadings
<1>7. CASE /\ due = TRUE => readings = <<>>
           /\ more = <<>> /\ kept = buffered /\ still = due
  BY <1>2, <1>3, <1>4, <1>5, <1>7 DEF AreReadings
<1>. QED BY <1>6, <1>7 DEF GoAlong, buffered, q

LEMMA StoreTakes ==
    ASSUME NEW known, NEW old, NEW left, NEW due, NEW source, NEW d, NEW job \in left,
           StoreComes(known, <<>>, old, left, due, source, d),
           FileSound(source), ~Duplicates(source),
           NEW u, NEW q, Records(known, job, u, q),
           NEW more, NEW kept, NEW still,
           GoAlong(u, source.readings[job.u], old, due, more, kept, still),
           NEW todo, todo = q \o more
    PROVE  \/ Doomed(todo, d)
           \/ StoreComes(Put(known, u, job.sensor), todo, kept, left \ {job}, still, source, d)
<1>. DEFINE new == Put(known, u, job.sensor)
            readings == source.readings[job.u]
<1>1. /\ due \in BOOLEAN /\ job.u \in DOMAIN source.sensors /\ job = Job(source.sensors, job.u)
      /\ job.sensor = source.sensors[job.u]
      /\ Settled(<<>>, known, d)
      /\ old \in Seq(Range(old)) /\ OnlyReadings(old)
      /\ due = TRUE => old = <<>>
  BY DEF StoreComes, Job
<1>2. AreReadings(u, readings, old, due, more, kept, still)
  <2>1. IsSeries(readings)
    BY <1>1 DEF FileSound
  <2>2. GoAlong(u, readings, old, due, more, kept, still)
    OBVIOUS
  <2>. HIDE DEF readings
  <2>. QED BY <1>1, <2>1, <2>2, GoAlongAreReadings
<1>3. /\ \A s : q = <<s>> => /\ todo # <<>> /\ Head(todo) = s /\ Tail(todo) = more
                              /\ Range(todo) = {s} \cup Range(more)
      /\ q = <<>> => todo = more
  <2>1. ASSUME NEW s, q = <<s>>
        PROVE  /\ todo # <<>> /\ Head(todo) = s /\ Tail(todo) = more
               /\ Range(todo) = {s} \cup Range(more)
    <3>1. /\ <<s>> \o more # <<>> /\ Head(<<s>> \o more) = s /\ Tail(<<s>> \o more) = more
          /\ Range(<<s>> \o more) = {s} \cup Range(more)
      BY <1>2, TodoJoined DEF AreReadings
    <3>2. todo = <<s>> \o more
      BY <2>1
    <3>. QED BY <3>1, <3>2
  <2>2. ASSUME q = <<>>
        PROVE  todo = more
    <3>1. todo = <<>> \o more /\ more \in Seq(Range(more))
      BY <1>2, <2>2 DEF AreReadings
    <3>. QED BY <3>1, TodoJoined
  <2>. QED BY <2>1, <2>2
<1>4. /\ DOMAIN new = DOMAIN known \cup {u} /\ new[u] = job.sensor
      /\ \A x \in DOMAIN known : x # u => new[x] = known[x]
  BY DEF Put
<1>. HIDE DEF new, readings
<1>5. CASE q = <<InsertSensor(u, job.sensor)>> /\ u \in DOMAIN d.sensors
  BY <1>3, <1>5 DEF Doomed, InsertSensor
<1>6. CASE ~(q = <<InsertSensor(u, job.sensor)>> /\ u \in DOMAIN d.sensors)
  <2>1. \/ q = <<InsertSensor(u, new[u])>> /\ u \notin DOMAIN known
        \/ u \in DOMAIN known /\ known[u].id = job.sensor.id /\ q = <<UpdateSensor(u, new[u])>>
        \/ u \in DOMAIN known /\ known[u] = job.sensor /\ q = <<>>
    BY <1>1, <1>4, <1>6 DEF Records, Settled
  <2>2. \A s \in Range(todo) : s.op = "replaceReading" => s \in Range(more)
    <3>1. /\ InsertSensor(u, new[u]).op # "replaceReading"
          /\ UpdateSensor(u, new[u]).op # "replaceReading"
      BY DEF InsertSensor, UpdateSensor
    <3>2. ASSUME NEW r, q = <<r>>, r.op # "replaceReading"
          PROVE  \A s \in Range(todo) : s.op = "replaceReading" => s \in Range(more)
      BY <1>3, <3>2
    <3>. QED BY <1>3, <2>1, <3>1, <3>2
  <2>3. Range(more) \subseteq Range(todo)
    BY <1>3, <2>1
  <2>4. Sent(todo, new)
    BY <1>2, <1>3, <1>4, <2>1 DEF Sent, Sends, AreReadings
  <2>5. Settled(todo, new, d)
    <3>1. ASSUME NEW x \in DOMAIN new, x # u
          PROVE  x \in DOMAIN d.sensors /\ d.sensors[x] = new[x]
      BY <1>1, <1>4, <3>1 DEF Settled
    <3>2. \/ u \in DOMAIN d.sensors /\ d.sensors[u] = new[u]
          \/ todo # <<>> /\ Sends(Head(todo), new, u)
      BY <1>1, <1>3, <1>4, <2>1 DEF Settled, Sends
    <3>. QED BY <3>1, <3>2 DEF Settled
  <2>12. ASSUME NEW v \in DOMAIN source.sensors, u \in DOMAIN known,
                known[u] = source.sensors[v]
         PROVE  v = job.u
    <3>1. source.sensors[v].id = source.sensors[job.u].id
      BY <1>1, <2>1, <2>12
    <3>. QED BY <1>1, <3>1 DEF Duplicates
  <2>6. \A v \in DOMAIN source.sensors : \A x \in DOMAIN known :
           known[x] = source.sensors[v] => x \in DOMAIN new /\ new[x] = source.sensors[v]
    BY <1>1, <1>4, <2>12
  <2>7. ASSUME NEW v \in DOMAIN source.sensors
        PROVE  \/ Job(source.sensors, v) \in left \ {job}
               \/ \E x \in DOMAIN new : new[x] = source.sensors[v]
    <3>1. CASE Job(source.sensors, v) = job
      <4>1. new[u] = source.sensors[v]
        BY <1>4, <3>1 DEF Job
      <4>. QED BY <1>4, <4>1
    <3>2. CASE Job(source.sensors, v) # job
      BY <2>6, <3>2 DEF StoreComes
    <3>. QED BY <3>1, <3>2
  <2>8. ASSUME still = TRUE
        PROVE  /\ kept = <<>>
               /\ \A s \in Range(todo) : s.op # "replaceReading"
               /\ \A v \in DOMAIN source.sensors :
                     source.readings[v] # <<>> => Job(source.sensors, v) \in left \ {job}
    <3>1. due = TRUE /\ readings = <<>> /\ Range(more) = {} /\ kept = <<>>
      BY <1>1, <1>2, <2>8 DEF AreReadings
    <3>2. ASSUME NEW v \in DOMAIN source.sensors, source.readings[v] # <<>>
          PROVE  Job(source.sensors, v) \in left \ {job}
      <4>1. Job(source.sensors, v) \in left
        BY <3>1, <3>2 DEF StoreComes
      <4>2. v # job.u
        BY <3>1, <3>2 DEF readings
      <4>3. Job(source.sensors, v).u = v
        BY DEF Job
      <4>. QED BY <4>1, <4>2, <4>3
    <3>. QED BY <2>2, <3>1, <3>2
  <2>9. ASSUME still = FALSE
        PROVE  \E v \in DOMAIN source.sensors : \E x \in DOMAIN new :
                  /\ source.readings[v] # <<>> /\ new[x] = source.sensors[v]
                  /\ Bringing(todo, kept, source, d, v, x)
    <3>1. CASE due = TRUE
      <4>1. readings # <<>>
        BY <1>2, <2>9, <3>1 DEF AreReadings
      <4>2. Range(old) = {}
        BY <1>1, <3>1 DEF Range
      <4>3. Bringing(todo, kept, source, d, job.u, u)
        BY <1>2, <2>2, <2>3, <2>9, <3>1, <4>2 DEF Bringing, readings, AreReadings
      <4>. QED BY <1>1, <1>4, <4>1, <4>3 DEF readings
    <3>2. CASE due = FALSE
      <4>1. PICK v \in DOMAIN source.sensors, x \in DOMAIN known :
               /\ source.readings[v] # <<>> /\ known[x] = source.sensors[v]
               /\ Bringing(<<>>, old, source, d, v, x)
        BY <3>2 DEF StoreComes
      <4>2. Range(<<>>) = {}
        BY DEF Range
      <4>3. x = u => source.readings[v] = readings
        BY <2>12, <4>1 DEF readings
      <4>4. \A s \in Range(todo) \cup Range(kept) : s.op = "replaceReading" /\ s.u = x =>
               s.t \in DOMAIN source.readings[v] /\ s.v = source.readings[v][s.t]
        BY <1>2, <2>2, <4>1, <4>3 DEF Bringing, AreReadings
      <4>5. Bringing(todo, kept, source, d, v, x)
        BY <4>1, <4>2, <4>4 DEF Bringing
      <4>. QED BY <2>6, <4>1, <4>5
    <3>. QED BY <1>1, <3>1, <3>2
  <2>10. /\ still \in BOOLEAN /\ kept \in Seq(Range(kept)) /\ OnlyReadings(kept)
         /\ \A j \in left \ {job} : j.u \in DOMAIN source.sensors /\ j = Job(source.sensors, j.u)
    BY <1>2 DEF StoreComes, AreReadings
  <2>11. StoreComes(new, todo, kept, left \ {job}, still, source, d)
    BY <2>4, <2>5, <2>7, <2>8, <2>9, <2>10 DEF StoreComes
  <2>. QED BY <2>11 DEF new
<1>. QED BY <1>5, <1>6

LEMMA SensorTakes ==
    ASSUME NEW id, NEW known, NEW old, NEW left, NEW due, NEW source, NEW d, NEW job \in left,
           SensorComes(id, known, <<>>, old, left, due, source, d),
           FileSound(source), job.u \in DOMAIN source.sensors,
           NEW u, NEW q, Records(known, job, u, q),
           NEW more, NEW kept, NEW still,
           GoAlong(u, source.readings[job.u], old, due, more, kept, still),
           NEW todo, todo = q \o more
    PROVE  SensorComes(id, Put(known, u, job.sensor), todo, kept, left \ {job}, still, source, d)
<1>. DEFINE new == Put(known, u, job.sensor)
            readings == source.readings[job.u]
<1>1. /\ due = TRUE /\ job.u \in Holders(known, id) /\ job.sensor = known[job.u]
      /\ \A x, y \in DOMAIN known : known[x].id = known[y].id => x = y
      /\ old = <<>>
  BY DEF SensorComes, Job
<1>2. u = job.u /\ u \in DOMAIN known /\ known[u] = job.sensor /\ q = <<>>
  <2>1. job.u \in DOMAIN known /\ known[job.u].id = job.sensor.id
    BY <1>1 DEF Holders
  <2>2. u \in DOMAIN known /\ known[u].id = known[job.u].id
    BY <1>1, <2>1 DEF Records
  <2>3. u = job.u
    BY <1>1, <2>1, <2>2
  <2>. QED BY <1>1, <2>1, <2>2, <2>3 DEF Records
<1>3. AreReadings(u, readings, old, due, more, kept, still) /\ Range(old) = {}
  <2>1. IsSeries(readings)
    BY <1>1 DEF FileSound
  <2>2. GoAlong(u, readings, old, due, more, kept, still)
    OBVIOUS
  <2>3. old \in Seq(Range(old)) /\ OnlyReadings(old) /\ Range(old) = {}
    BY <1>1 DEF OnlyReadings, Range
  <2>. HIDE DEF readings
  <2>. QED BY <1>1, <2>1, <2>2, <2>3, GoAlongAreReadings
<1>4. todo = more
  BY <1>2, <1>3, TodoJoined DEF AreReadings
<1>5. DOMAIN new = DOMAIN known /\ \A x \in DOMAIN known : new[x] = known[x]
  BY <1>2 DEF Put
<1>. HIDE DEF new
<1>6. /\ Holders(new, id) = Holders(known, id)
      /\ \A x \in Holders(known, id) : Job(new, x) = Job(known, x)
  BY <1>5 DEF Holders, Job
<1>13. Range(<<>>) = {} /\ kept = <<>> /\ OnlyReadings(todo) /\ still \in BOOLEAN
  BY <1>1, <1>3, <1>4 DEF Range, AreReadings
<1>7. Bringing(todo, <<>>, source, d, u, u)
  <2>1. CASE still = TRUE
    <3>1. readings = <<>> /\ Range(more) = {}
      BY <1>3, <2>1 DEF AreReadings
    <3>2. DOMAIN readings = {}
      <4>. HIDE DEF readings
      <4>. QED BY <3>1
    <3>. QED BY <1>2, <1>4, <1>13, <3>1, <3>2 DEF Bringing
  <2>2. CASE still = FALSE
    BY <1>1, <1>2, <1>3, <1>4, <1>13, <2>2 DEF Bringing, AreReadings
  <2>. QED BY <1>13, <2>1, <2>2
<1>8. \A x \in Holders(known, id) : x = u
  BY <1>1, <1>2 DEF Holders
<1>10. left \ {job} = {}
  <2>1. \A j \in left : j = Job(known, u)
    BY <1>8 DEF SensorComes
  <2>. QED BY <2>1
<1>11. \A x, y \in DOMAIN new : new[x].id = new[y].id => x = y
  BY <1>1, <1>5
<1>12. SensorComes(id, new, todo, kept, left \ {job}, still, source, d)
  BY <1>2, <1>6, <1>7, <1>8, <1>10, <1>11, <1>13 DEF SensorComes
<1>. QED BY <1>12 DEF new

-----------------------------------------------------------------------------
(* Processes that synchronise *)

LEMMA AlikeLoaded ==
    ASSUME NEW r, NEW F, NEW G, NEW f, Alike(F[f], G[f])
    PROVE  /\ VersionMatches(F[f]) => VersionMatches(G[f])
           /\ Loaded(r, F, f) => Loaded(r, G, f)
BY DEF Alike, VersionMatches, Loaded

LEMMA AlikeOpening ==
    ASSUME NEW r, NEW F, NEW G, Opening(r, F),
           Alike(F[FirstOpened(r)], G[FirstOpened(r)]), Alike(F[LastOpened(r)], G[LastOpened(r)])
    PROVE  Opening(r, G)
<1>1. /\ VersionMatches(F[FirstOpened(r)]) => VersionMatches(G[FirstOpened(r)])
      /\ VersionMatches(F[LastOpened(r)]) => VersionMatches(G[LastOpened(r)])
      /\ Loaded(r, F, FirstOpened(r)) => Loaded(r, G, FirstOpened(r))
      /\ Loaded(r, F, LastOpened(r)) => Loaded(r, G, LastOpened(r))
  BY AlikeLoaded
<1>2. r.pc = "load" => Head(r.opens) \in {FirstOpened(r), LastOpened(r)}
  BY DEF Opening
<1>. QED BY <1>1, <1>2 DEF Opening

LEMMA AlikeBringing ==
    ASSUME NEW todo, NEW kept, NEW source, NEW d, NEW u, NEW x,
           Bringing(todo, kept, source, d, u, x),
           NEW source2, source2.readings = source.readings,
           NEW d2, d2.readings = d.readings
    PROVE  Bringing(todo, kept, source2, d2, u, x)
BY DEF Bringing

LEMMA AlikeComes ==
    ASSUME NEW source, NEW source2, Alike(source, source2), NEW d, NEW d2, Alike(d, d2),
           NEW id, NEW known, NEW todo, NEW kept, NEW left, NEW due
    PROVE  /\ Doomed(todo, d) => Doomed(todo, d2)
           /\ StoreComes(known, todo, kept, left, due, source, d)
                => StoreComes(known, todo, kept, left, due, source2, d2)
           /\ SensorComes(id, known, todo, kept, left, due, source, d)
                => SensorComes(id, known, todo, kept, left, due, source2, d2)
<1>1. /\ source2.sensors = source.sensors /\ source2.readings = source.readings
      /\ d2.sensors = d.sensors /\ d2.readings = d.readings
  BY DEF Alike
<1>2. \A k, u, x : Bringing(todo, k, source, d, u, x) => Bringing(todo, k, source2, d2, u, x)
  BY <1>1, AlikeBringing
<1>3. Settled(todo, known, d) => Settled(todo, known, d2)
  BY <1>1 DEF Settled
<1>4. ASSUME StoreComes(known, todo, kept, left, due, source, d)
      PROVE  StoreComes(known, todo, kept, left, due, source2, d2)
  <2>1. due = FALSE =>
          \E u \in DOMAIN source2.sensors : \E x \in DOMAIN known :
             /\ source2.readings[u] # <<>> /\ known[x] = source2.sensors[u]
             /\ Bringing(todo, kept, source2, d2, u, x)
    BY <1>1, <1>2, <1>4 DEF StoreComes
  <2>. QED BY <1>1, <1>3, <1>4, <2>1 DEF StoreComes
<1>5. ASSUME SensorComes(id, known, todo, kept, left, due, source, d)
      PROVE  SensorComes(id, known, todo, kept, left, due, source2, d2)
  BY <1>1, <1>2, <1>5 DEF SensorComes
<1>6. Doomed(todo, d) => Doomed(todo, d2)
  BY <1>1 DEF Doomed
<1>. QED BY <1>4, <1>5, <1>6

\* A process that has ended, that missed something or that is no sync.
LEMMA NothingToSync ==
    ASSUME NEW r, NEW F, NEW held,
           r.cmd.tool \notin Syncs \/ r.pc \in Ended \/ r.missed \/ r.disturbed
    PROVE  SyncOK(r, F, held)
BY DEF SyncOK

LEMMA OpeningSyncs ==
    ASSUME NEW r, NEW F, NEW held, r.pc # "write",
           r.cmd.tool \in Syncs /\ r.pc \notin Ended /\ ~r.missed /\ ~r.disturbed => Opening(r, F)
    PROVE  SyncOK(r, F, held)
BY DEF SyncOK

LEMMA AlikeSyncOK ==
    ASSUME NEW r, NEW F, NEW G, NEW held \in BOOLEAN, SyncOK(r, F, held),
           Alike(F[r.cmd.file], G[r.cmd.file]), Alike(F[r.cmd.source], G[r.cmd.source])
    PROVE  SyncOK(r, G, held)
<1>. SUFFICES ASSUME r.cmd.tool \in Syncs, r.pc \notin Ended, ~r.missed, ~r.disturbed
              PROVE  SyncOK(r, G, held)
  BY NothingToSync
<1>. DEFINE source == F[r.cmd.source]
            source2 == G[r.cmd.source]
            d == Seen(r, F, held)
            d2 == Seen(r, G, held)
            known == r.known[r.cmd.file]
<1>1. CASE r.pc # "write"
  <2>1. Opening(r, F)
    BY <1>1 DEF SyncOK
  <2>2. FirstOpened(r) \in {r.cmd.file, r.cmd.source} /\ LastOpened(r) \in {r.cmd.file, r.cmd.source}
    BY DEF FirstOpened, LastOpened
  <2>3. Opening(r, G)
    BY <2>1, <2>2, AlikeOpening
  <2>. QED BY <1>1, <2>3, OpeningSyncs
<1>2. CASE r.pc = "write"
  <2>1. Alike(source, source2) /\ Alike(d, d2)
    BY DEF Seen, Alike
  <2>2. VersionMatches(source) => VersionMatches(source2)
    BY <2>1 DEF Alike, VersionMatches
  <2>. HIDE DEF source, source2, d, d2, known
  <2>3. CASE r.cmd.tool = "syncStore"
    <3>1. /\ VersionMatches(source)
          /\ Doomed(r.todo, d) \/ StoreComes(known, r.todo, r.kept, r.left, r.due, source, d)
      BY <1>2, <2>3 DEF SyncOK, source, d, known
    <3>2. Doomed(r.todo, d2) \/ StoreComes(known, r.todo, r.kept, r.left, r.due, source2, d2)
      BY <2>1, <3>1, AlikeComes
    <3>. QED BY <1>2, <2>2, <2>3, <3>1, <3>2 DEF SyncOK, source2, d2, known
  <2>4. CASE r.cmd.tool = "syncSensor"
    <3>1. SensorComes(r.cmd.id, known, r.todo, r.kept, r.left, r.due, source, d)
      BY <1>2, <2>4 DEF SyncOK, source, d, known
    <3>2. SensorComes(r.cmd.id, known, r.todo, r.kept, r.left, r.due, source2, d2)
      BY <2>1, <3>1, AlikeComes
    <3>. QED BY <1>2, <2>4, <3>2 DEF SyncOK, source2, d2, known
  <2>. QED BY <2>3, <2>4 DEF Syncs
<1>. QED BY <1>1, <1>2

LEMMA StopsSyncs ==
    ASSUME ToolsInv, NEW p \in Procs, NEW pc \in Ended, NEW missed, Stops(p, pc, missed)
    PROVE  SyncOK(proc'[p], file', lock'[Target(p)] = p)
<1>1. proc'[p].pc = pc
  BY ProcFacts DEF Stops, Fields
<1>. QED BY <1>1, NothingToSync

LEMMA StartSyncs ==
    ASSUME ToolsInv, NEW p \in Procs, SyncOK(proc[p], file, lock[Target(p)] = p), Start(p)
    PROVE  SyncOK(proc'[p], file', lock'[Target(p)] = p)
<1>. DEFINE r == proc[p]
            s == [r EXCEPT !.pc = "open", !.opens = ToOpen(p)]
<1>1. /\ DOMAIN proc = Procs /\ DOMAIN r = Fields /\ r.pc = "start" /\ file' = file
  BY ProcFacts DEF Start, At
<1>2. CASE Stops(p, "refused", FALSE)
  BY <1>2, StopsSyncs DEF Ended
<1>3. CASE r.cmd.tool \notin Syncs /\ proc' = [proc EXCEPT ![p].pc = "checked"]
  <2>1. proc'[p].cmd = r.cmd
    BY <1>1, <1>3 DEF Fields
  <2>. QED BY <1>3, <2>1, NothingToSync
<1>4. CASE proc' = [proc EXCEPT ![p].pc = "open", ![p].opens = ToOpen(p)]
  <2>1. proc'[p] = s
    BY <1>1, <1>4
  <2>2. /\ s.cmd = r.cmd /\ s.pc = "open" /\ s.opens = ToOpen(p) /\ s.due = r.due /\ s.left = r.left
        /\ s.missed = r.missed /\ s.disturbed = r.disturbed
    BY <1>1 DEF Fields
  <2>3. ASSUME r.cmd.tool \in Syncs, ~r.missed, ~r.disturbed
        PROVE  Opening(s, file)
    <3>1. Opening(r, file)
      BY <1>1, <2>3 DEF SyncOK, Ended
    <3>2. s.opens = <<FirstOpened(s), LastOpened(s)>>
      BY <2>2, <2>3 DEF FirstOpened, LastOpened, ToOpen, Syncs, Source, Target
    <3>. HIDE DEF s
    <3>. QED BY <2>2, <3>1, <3>2 DEF Opening
  <2>. HIDE DEF s
  <2>. QED BY <1>1, <2>1, <2>2, <2>3, OpeningSyncs
<1>5. r.cmd.tool \in {"create", "upgrade"} => r.cmd.tool \notin Syncs
  BY DEF Syncs
<1>. QED BY <1>2, <1>3, <1>4, <1>5 DEF Start

LEMMA CheckIntegritySyncs ==
    ASSUME ToolsInv, NEW p \in Procs, SyncOK(proc[p], file, lock[Target(p)] = p), CheckIntegrity(p)
    PROVE  SyncOK(proc'[p], file', lock'[Target(p)] = p)
<1>. DEFINE r == proc[p]
            s == [r EXCEPT !.pc = "load"]
            f == Head(r.opens)
<1>1. /\ DOMAIN proc = Procs /\ DOMAIN r = Fields /\ r.pc = "open"
      /\ file' = [file EXCEPT ![f].exists = TRUE]
      /\ Target(p) \in Files /\ Source(p) \in Files
  BY ProcFacts DEF CheckIntegrity, At
<1>2. CASE \E missed : Throws(p, missed)
  BY <1>2, StopsSyncs DEF Throws, Ended
<1>3. CASE VersionMatches(file[f]) /\ proc' = [proc EXCEPT ![p].pc = "load"]
  <2>1. proc'[p] = s
    BY <1>1, <1>3
  <2>2. /\ s.cmd = r.cmd /\ s.pc = "load" /\ s.opens = r.opens /\ s.due = r.due /\ s.left = r.left
        /\ s.missed = r.missed /\ s.disturbed = r.disturbed /\ s.known = r.known
    BY <1>1 DEF Fields
  <2>3. \A g \in Files : Alike(file[g], file'[g])
    BY <1>1, FileMarked
  <2>4. ASSUME r.cmd.tool \in Syncs, ~r.missed, ~r.disturbed
        PROVE  Opening(s, file')
    <3>1. Opening(r, file)
      BY <1>1, <2>4 DEF SyncOK, Ended
    <3>2. FirstOpened(s) = FirstOpened(r) /\ LastOpened(s) = LastOpened(r)
      BY <2>2 DEF FirstOpened, LastOpened
    <3>3. Opening(s, file)
      <4>1. \A g : Loaded(r, file, g) => Loaded(s, file, g)
        BY <2>2 DEF Loaded
      <4>2. VersionMatches(file[Head(s.opens)])
        BY <1>3, <2>2
      <4>. HIDE DEF s
      <4>. QED BY <1>1, <2>2, <3>1, <3>2, <4>1, <4>2 DEF Opening
    <3>4. FirstOpened(s) \in Files /\ LastOpened(s) \in Files
      BY <1>1, <2>2 DEF FirstOpened, LastOpened, Target, Source
    <3>. HIDE DEF s
    <3>. QED BY <2>3, <3>3, <3>4, AlikeOpening
  <2>. HIDE DEF s
  <2>. QED BY <2>1, <2>2, <2>4, OpeningSyncs
<1>. QED BY <1>2, <1>3 DEF CheckIntegrity

LEMMA PrepareSyncs ==
    ASSUME ToolsInv, NEW p \in Procs, SyncOK(proc[p], file, lock[Target(p)] = p), Prepare(p)
    PROVE  SyncOK(proc'[p], file', lock'[Target(p)] = p)
<1>. DEFINE r == proc[p]
            f == Head(r.opens)
<1>1. /\ DOMAIN proc = Procs /\ DOMAIN r = Fields /\ r.pc = "load" /\ file' = file
      /\ Target(p) \in Files /\ Source(p) \in Files /\ DOMAIN r.known = Files
  BY ProcFacts DEF Prepare, At, ProcOK
<1>2. CASE Throws(p, FALSE)
  BY <1>2, StopsSyncs DEF Throws, Ended
<1>3. ASSUME NEW list, NEW missed, proc' = [proc EXCEPT ![p] = Prepared(p, list, missed)],
             ~missed => list = file[f].sensors, r.missed => missed
      PROVE  SyncOK(proc'[p], file', lock'[Target(p)] = p)
  <2>. DEFINE s == Prepared(p, list, missed)
              opens == Tail(r.opens)
  <2>1. proc'[p] = s
    BY <1>1, <1>3
  <2>2. /\ s.cmd = r.cmd /\ s.opens = opens /\ s.due = r.due /\ s.left = r.left
        /\ s.missed = missed /\ s.disturbed = r.disturbed
        /\ s.known = [r.known EXCEPT ![f] = list]
        /\ s.pc = IF opens # <<>> THEN "open" ELSE IF r.cmd.tool = "create" THEN "done" ELSE "begin"
    BY <1>1 DEF Prepared, Fields
  <2>. HIDE DEF s
  <2>3. ASSUME r.cmd.tool \in Syncs, ~missed, ~r.disturbed
        PROVE  s.pc # "write" /\ Opening(s, file)
    <3>1. Opening(r, file)
      BY <1>1, <1>3, <2>3 DEF SyncOK, Ended
    <3>2. /\ FirstOpened(s) = FirstOpened(r) /\ LastOpened(s) = LastOpened(r)
          /\ FirstOpened(r) \in Files /\ LastOpened(r) \in Files
      BY <1>1, <2>2 DEF FirstOpened, LastOpened, Target, Source
    <3>3. \A g \in Files : Loaded(s, file, g) <=>
             VersionMatches(file[g]) /\ (IF g = f THEN file[f].sensors ELSE r.known[g]) = file[g].sensors
      BY <1>1, <1>3, <2>2, <2>3 DEF Loaded
    <3>4. VersionMatches(file[f]) /\ s.due = TRUE /\ s.left = {}
      BY <1>1, <2>2, <3>1 DEF Opening
    <3>5. CASE r.opens = <<FirstOpened(r), LastOpened(r)>>
      <4>1. f = FirstOpened(r) /\ opens = <<LastOpened(r)>> /\ opens # <<>>
        BY <3>5
      <4>2. s.pc = "open" /\ s.opens = <<LastOpened(r)>> /\ Loaded(s, file, FirstOpened(r))
        BY <2>2, <3>2, <3>3, <3>4, <4>1
      <4>. QED BY <3>2, <3>4, <4>2 DEF Opening
    <3>6. CASE r.opens = <<LastOpened(r)>> /\ Loaded(r, file, FirstOpened(r))
      <4>1. f = LastOpened(r) /\ opens = <<>>
        BY <3>6
      <4>2. r.cmd.tool # "create"
        BY <2>3 DEF Syncs
      <4>3. s.pc = "begin"
        <5>. HIDE DEF opens
        <5>. QED BY <2>2, <4>1, <4>2
      <4>4. Loaded(s, file, LastOpened(r)) /\ Loaded(s, file, FirstOpened(r))
        <5>1. VersionMatches(file[FirstOpened(r)]) /\ r.known[FirstOpened(r)] = file[FirstOpened(r)].sensors
          BY <3>6 DEF Loaded
        <5>. QED BY <3>2, <3>3, <3>4, <4>1, <5>1
      <4>. QED BY <3>2, <3>4, <4>3, <4>4 DEF Opening
    <3>. QED BY <1>1, <3>1, <3>5, <3>6 DEF Opening
  <2>. QED BY <1>1, <2>1, <2>2, <2>3, NothingToSync, OpeningSyncs
<1>4. CASE \E list, missed :
              /\ proc' = [proc EXCEPT ![p] = Prepared(p, list, missed)]
              /\ ~missed => list = file[Head(proc[p].opens)].sensors
              /\ proc[p].missed => missed
  <2>1. PICK list, missed :
           /\ proc' = [proc EXCEPT ![p] = Prepared(p, list, missed)]
           /\ ~missed => list = file[Head(proc[p].opens)].sensors
           /\ proc[p].missed => missed
    BY <1>4
  <2>. QED BY <1>3, <2>1
<1>. QED BY <1>2, <1>4, PrepareStep

LEMMA BeginSyncSyncs ==
    ASSUME ToolsInv, NEW p \in Procs, SyncOK(proc[p], file, lock[Target(p)] = p), BeginSync(p)
    PROVE  SyncOK(proc'[p], file', lock'[Target(p)] = p)
<1>. DEFINE r == proc[p]
            T == r.cmd.file
            S == r.cmd.source
<1>1. /\ DOMAIN proc = Procs /\ DOMAIN r = Fields /\ r.pc = "begin" /\ file' = file
      /\ T = Target(p) /\ S = Source(p) /\ lock' = lock /\ (lock[T] = p) = FALSE
      /\ r.cmd.tool = "syncStore" /\ r.todo = <<>> /\ r.kept = <<>>
  BY ProcFacts DEF BeginSync, At, ProcOK, Target, Source, Ended
<1>2. PICK nothing \in {FALSE} \cup {MayReadNothing(p, Source(p))} :
         LET sensors == IF nothing THEN <<>> ELSE file[Source(p)].sensors
         IN proc' = [proc EXCEPT ![p].pc = "write",
                                 ![p].left = {Job(sensors, u) : u \in DOMAIN sensors},
                                 ![p].missed = @ \/ nothing]
  BY DEF BeginSync
<1>. DEFINE sensors == IF nothing THEN <<>> ELSE file[Source(p)].sensors
            left == {Job(sensors, u) : u \in DOMAIN sensors}
            s == [r EXCEPT !.pc = "write", !.left = left, !.missed = @ \/ nothing]
            known == r.known[T]
            source == file[S]
            d == Seen(s, file, FALSE)
<1>3. proc'[p] = s
  BY <1>1, <1>2
<1>4. /\ s.cmd = r.cmd /\ s.pc = "write" /\ s.left = left /\ s.due = r.due /\ s.todo = r.todo
      /\ s.kept = r.kept
      /\ s.known = r.known /\ s.disturbed = r.disturbed /\ s.missed = (r.missed \/ nothing)
  BY <1>1 DEF Fields
<1>. SUFFICES ASSUME ~s.missed, ~s.disturbed
              PROVE  SyncOK(s, file, FALSE)
  BY <1>1, <1>3, NothingToSync
<1>5. ~nothing /\ ~r.missed /\ ~r.disturbed
  BY <1>4
<1>6. Opening(r, file)
  BY <1>1, <1>5 DEF SyncOK, Syncs, Ended
<1>7. /\ r.due = TRUE /\ VersionMatches(source)
      /\ known = file[T].sensors /\ d = file[T]
  BY <1>1, <1>4, <1>6 DEF Opening, Loaded, FirstOpened, LastOpened, Seen
<1>8. left = {Job(source.sensors, u) : u \in DOMAIN source.sensors}
  BY <1>1, <1>5
<1>. HIDE DEF s, left, d, source, known
<1>9. StoreComes(known, <<>>, <<>>, left, TRUE, source, d)
  <2>1. Range(<<>>) = {} /\ <<>> \in Seq({}) /\ OnlyReadings(<<>>)
    BY DEF Range, OnlyReadings
  <2>2. Sent(<<>>, known)
    BY DEF Sent
  <2>3. Settled(<<>>, known, d)
    BY <1>7 DEF Settled
  <2>4. \A job \in left : job.u \in DOMAIN source.sensors /\ job = Job(source.sensors, job.u)
    BY <1>8 DEF Job
  <2>. QED BY <1>8, <2>1, <2>2, <2>3, <2>4 DEF StoreComes
<1>. QED BY <1>1, <1>4, <1>7, <1>9 DEF SyncOK, known, source, d

LEMMA BeginSyncReadingsSyncs ==
    ASSUME ToolsInv, NEW p \in Procs, SyncOK(proc[p], file, lock[Target(p)] = p),
           BeginSyncReadings(p)
    PROVE  SyncOK(proc'[p], file', lock'[Target(p)] = p)
<1>. DEFINE r == proc[p]
            T == r.cmd.file
            known == r.known[T]
            left == {Job(known, u) : u \in Named(p)}
            s == [r EXCEPT !.pc = "write", !.left = left]
            source == file[r.cmd.source]
            d == Seen(s, file, FALSE)
<1>1. /\ DOMAIN proc = Procs /\ DOMAIN r = Fields /\ r.pc = "begin" /\ file' = file
      /\ T = Target(p) /\ lock' = lock /\ (lock[T] = p) = FALSE
      /\ r.cmd.tool = "syncSensor" /\ r.todo = <<>> /\ r.kept = <<>> /\ T \in Files
  BY ProcFacts DEF BeginSyncReadings, At, ProcOK, Target, Ended
<1>2. proc'[p] = s
  BY <1>1 DEF BeginSyncReadings
<1>3. /\ s.cmd = r.cmd /\ s.pc = "write" /\ s.left = left /\ s.due = r.due /\ s.todo = r.todo
      /\ s.kept = r.kept
      /\ s.known = r.known /\ s.disturbed = r.disturbed /\ s.missed = r.missed
  BY <1>1 DEF Fields
<1>. HIDE DEF s
<1>. SUFFICES ASSUME ~s.missed, ~s.disturbed
              PROVE  SyncOK(s, file, FALSE)
  BY <1>1, <1>2, NothingToSync
<1>4. Opening(r, file)
  BY <1>1, <1>3 DEF SyncOK, Syncs, Ended
<1>5. r.due = TRUE /\ VersionMatches(file[T]) /\ known = file[T].sensors
  BY <1>1, <1>4 DEF Opening, Loaded, FirstOpened
<1>6. \A u, x \in DOMAIN known : known[u].id = known[x].id => u = x
  <2>1. ~Duplicates(file[T])
    BY <1>1, <1>5 DEF ToolsInv, FileSound, VersionMatches
  <2>. QED BY <1>5, <2>1 DEF Duplicates
<1>7. SensorComes(r.cmd.id, known, <<>>, <<>>, left, TRUE, source, d)
  <2>1. OnlyReadings(<<>>)
    BY DEF OnlyReadings, Range
  <2>2. left = {Job(known, u) : u \in Holders(known, r.cmd.id)}
    BY <1>1 DEF Named
  <2>. HIDE DEF left, known
  <2>3. \A job \in left : job.u \in Holders(known, r.cmd.id) /\ job = Job(known, job.u)
    BY <2>2 DEF Job
  <2>. QED BY <1>6, <2>1, <2>2, <2>3 DEF SensorComes
<1>. HIDE DEF left
<1>. QED BY <1>1, <1>3, <1>5, <1>7 DEF SyncOK

LEMMA SyncReadingRecordsSyncs ==
    ASSUME ToolsInv, NEW p \in Procs, SyncOK(proc[p], file, lock[Target(p)] = p),
           SyncReadingRecords(p)
    PROVE  SyncOK(proc'[p], file', lock'[Target(p)] = p)
<1>. DEFINE r == proc[p]
            T == r.cmd.file
            S == r.cmd.source
            held == lock[T] = p
            known == r.known[T]
            source == file[S]
            d == Seen(r, file, held)
<1>1. /\ DOMAIN proc = Procs /\ DOMAIN r = Fields /\ ProcOK(r, file, held)
      /\ T = Target(p) /\ T \in Files /\ S = Source(p) /\ S \in Files
      /\ DOMAIN r.known = Files /\ FileSound(source)
  BY ProcFacts DEF Target, Source, ProcOK
<1>2. r.pc = "write" /\ r.todo = <<>> /\ file' = file /\ r.pc \notin Ended
  BY DEF SyncReadingRecords, At, Ended
<1>3. CASE Throws(p, FALSE)
  BY <1>3, StopsSyncs DEF Throws, Ended
<1>4. ASSUME NEW job \in r.left, NEW readings, NEW more, NEW kept, NEW due, NEW missed,
             Reads(p, job, readings, more, kept, due, missed),
             proc' = [proc EXCEPT ![p] = Recorded(p, job, more, kept, due, missed)],
             lock' = lock
      PROVE  SyncOK(proc'[p], file', lock'[Target(p)] = p)
  <2>. DEFINE u == LocalUuid(p, job)
              q == SyncSensorRecord(p, job)
              todo == q \o more
              new == Put(known, u, job.sensor)
              left == r.left \ {job}
              s == Recorded(p, job, more, kept, due, missed)
  <2>1. proc'[p] = s
    BY <1>1, <1>4
  <2>2. /\ s.cmd = r.cmd /\ s.pc = r.pc /\ s.todo = todo /\ s.left = left /\ s.due = due
        /\ s.kept = kept
        /\ s.known[T] = new /\ s.missed = missed /\ s.disturbed = r.disturbed
        /\ s.view = r.view
    BY <1>1 DEF Recorded, Fields
  <2>3. Seen(s, file, held) = d /\ (lock'[Target(p)] = p) = held
    BY <1>1, <1>4, <2>2 DEF Seen
  <2>. HIDE DEF s
  <2>. SUFFICES ASSUME ~missed, ~r.disturbed
                PROVE  SyncOK(s, file, held)
    BY <1>1, <1>2, <2>1, <2>2, <2>3, NothingToSync
  <2>4. /\ r.cmd.tool \in Syncs /\ ~r.missed /\ job.u \in DOMAIN r.known[S]
        /\ GoAlong(u, source.readings[job.u], r.kept, r.due, more, kept, due)
    BY <1>1, <1>4 DEF ProcOK, LeftOK, Reads
  <2>5. Records(known, job, u, q)
    BY <1>1, RecordIs
  <2>7. todo = q \o more /\ job \in r.left
    OBVIOUS
  <2>8. CASE r.cmd.tool = "syncStore"
    <3>1. /\ VersionMatches(source)
          /\ Doomed(<<>>, d) \/ StoreComes(known, <<>>, r.kept, r.left, r.due, source, d)
      BY <1>1, <1>2, <2>4, <2>8 DEF SyncOK
    <3>2. ~Duplicates(source) /\ StoreComes(known, <<>>, r.kept, r.left, r.due, source, d)
      BY <1>1, <3>1 DEF FileSound, VersionMatches, Doomed
    <3>. HIDE DEF r, known, source, d, u, q, todo
    <3>3. \/ Doomed(todo, d)
          \/ StoreComes(Put(known, u, job.sensor), todo, kept, r.left \ {job}, due, source, d)
      BY <1>1, <2>4, <2>5, <2>7, <3>2, StoreTakes
    <3>4. Doomed(todo, d) \/ StoreComes(new, todo, kept, left, due, source, d)
      BY <3>3
    <3>. HIDE DEF todo, new, left
    <3>5. /\ VersionMatches(source)
          /\ Doomed(s.todo, d) \/ StoreComes(s.known[T], s.todo, s.kept, s.left, s.due, source, d)
      BY <2>2, <3>1, <3>4
    <3>. QED BY <1>2, <2>2, <2>3, <2>8, <3>5 DEF SyncOK, source
  <2>9. CASE r.cmd.tool = "syncSensor"
    <3>1. SensorComes(r.cmd.id, known, <<>>, r.kept, r.left, r.due, source, d)
      BY <1>1, <1>2, <2>4, <2>9 DEF SyncOK
    <3>3. job.u \in DOMAIN source.sensors
      BY <1>1, <1>2, <1>4, <2>4 DEF ProcOK, LeftOK, Mirrored, Has
    <3>. HIDE DEF r, known, source, d, u, q, todo
    <3>4. SensorComes(r.cmd.id, Put(known, u, job.sensor), todo, kept, r.left \ {job}, due,
                      source, d)
      BY <1>1, <2>4, <2>5, <2>7, <3>1, <3>3, SensorTakes
    <3>5. SensorComes(r.cmd.id, new, todo, kept, left, due, source, d)
      BY <3>4
    <3>. HIDE DEF todo, new, left
    <3>6. SensorComes(s.cmd.id, s.known[T], s.todo, s.kept, s.left, s.due, source, d)
      BY <2>2, <3>5
    <3>. QED BY <1>2, <2>2, <2>3, <2>9, <3>6 DEF SyncOK, source
  <2>. QED BY <2>4, <2>8, <2>9 DEF Syncs
<1>5. CASE /\ lock' = lock
           /\ \E job \in r.left : \E readings, more, kept, due, missed :
                 /\ Reads(p, job, readings, more, kept, due, missed)
                 /\ proc' = [proc EXCEPT ![p] = Recorded(p, job, more, kept, due, missed)]
  <2>1. PICK job \in r.left : \E readings, more, kept, due, missed :
                 /\ Reads(p, job, readings, more, kept, due, missed)
                 /\ proc' = [proc EXCEPT ![p] = Recorded(p, job, more, kept, due, missed)]
    BY <1>5
  <2>2. PICK readings, more, kept, due, missed :
                 /\ Reads(p, job, readings, more, kept, due, missed)
                 /\ proc' = [proc EXCEPT ![p] = Recorded(p, job, more, kept, due, missed)]
    BY <2>1
  <2>. QED BY <1>4, <1>5, <2>2
<1>. QED BY <1>3, <1>5, RecordsStep

LEMMA ExecuteSyncs ==
    ASSUME ToolsInv, NEW p \in Procs, SyncOK(proc[p], file, lock[Target(p)] = p), Execute(p)
    PROVE  SyncOK(proc'[p], file', lock'[Target(p)] = p)
<1>. DEFINE r == proc[p]
            T == r.cmd.file
            held == lock[T] = p
            known == r.known[T]
            source == file[r.cmd.source]
            todo == r.todo
            x == Head(todo)
            d == Seen(r, file, held)
<1>1. /\ DOMAIN proc = Procs /\ DOMAIN lock = Files /\ DOMAIN r = Fields
      /\ ProcOK(r, file, held) /\ T = Target(p) /\ T \in Files /\ FileSound(file[T])
  BY ProcFacts DEF Target
<1>2. /\ r.pc = "write" /\ r.pc \notin Ended /\ todo # <<>> /\ file' = file
      /\ Data(p, T) = d /\ held \in BOOLEAN
  BY <1>1 DEF Execute, At, Ended, Data, Seen
<1>3. /\ FileSound(d)
      /\ \A u \in DOMAIN known : Has(d, known, u) \/ x = InsertSensor(u, known[u])
  BY <1>1, <1>2, SeenFile DEF ProcOK, Mirrored
<1>4. r.cmd.tool \in Syncs => Doomed(todo, d) \/ todo \in Seq(Range(todo))
  BY <1>1, <1>2 DEF ProcOK, OthersOK, Queue, Syncs, Schemers
<1>9. Doomed(todo, d) => Refused(x, d) /\ ~Ignored(x)
  BY DoomedRefused
<1>5. CASE \E missed : Throws(p, missed)
  BY <1>5, StopsSyncs DEF Throws, Ended
<1>6. CASE proc' = [[proc EXCEPT ![p].todo = Tail(@)] EXCEPT ![p].missed = TRUE]
  <2>1. proc'[p].missed = TRUE
    BY <1>1, <1>6 DEF Fields
  <2>. QED BY <2>1, NothingToSync
<1>7. CASE proc' = [proc EXCEPT ![p].todo = Tail(@)] /\ Refused(x, d) /\ Ignored(x)
  <2>1. /\ proc'[p].cmd = r.cmd /\ proc'[p].missed = r.missed
        /\ proc'[p].disturbed = r.disturbed
    BY <1>1, <1>7 DEF Fields
  <2>2. ASSUME r.cmd.tool \in Syncs, ~r.missed, ~r.disturbed
        PROVE  FALSE
    <3>1. \/ Doomed(todo, d)
          \/ StoreComes(known, todo, r.kept, r.left, r.due, source, d)
          \/ SensorComes(r.cmd.id, known, todo, r.kept, r.left, r.due, source, d)
      BY <1>1, <1>2, <2>2 DEF SyncOK, Syncs
    <3>. HIDE DEF todo, d, known, source, r
    <3>2. Doomed(todo, d) \/ Sent(todo, known) \/ OnlyReadings(todo)
      BY <3>1 DEF StoreComes, SensorComes
    <3>. QED BY <1>2, <1>4, <1>7, <1>9, <2>2, <3>2, SyncRefused
  <2>. QED BY <2>1, <2>2, NothingToSync
<1>8. CASE /\ ~Refused(x, d)
           /\ proc' = [[proc EXCEPT ![p].todo = Tail(@)] EXCEPT ![p].view = Applied(x, d)]
           /\ lock' = [lock EXCEPT ![T] = p]
  <2>. DEFINE s == [r EXCEPT !.todo = Tail(@), !.view = Applied(x, d)]
              e == Applied(x, d)
              rest == Tail(todo)
  <2>1. proc'[p] = s /\ (lock'[Target(p)] = p) = TRUE
    BY <1>1, <1>8
  <2>2. /\ s.cmd = r.cmd /\ s.pc = r.pc /\ s.known = r.known /\ s.left = r.left
        /\ s.due = r.due /\ s.missed = r.missed /\ s.disturbed = r.disturbed
        /\ s.view = e /\ s.todo = rest /\ s.kept = r.kept
    BY <1>1 DEF Fields
  <2>. HIDE DEF s
  <2>3. Seen(s, file, TRUE) = e
    BY <2>2 DEF Seen
  <2>. SUFFICES ASSUME r.cmd.tool \in Syncs, ~r.missed, ~r.disturbed
                PROVE  SyncOK(s, file, TRUE)
    BY <1>2, <2>1, <2>2, NothingToSync
  <2>6. todo \in Seq(Range(todo))
    BY <1>4, <1>8, <1>9
  <2>4. CASE r.cmd.tool = "syncStore"
    <3>1. /\ VersionMatches(source)
          /\ Doomed(todo, d) \/ StoreComes(known, todo, r.kept, r.left, r.due, source, d)
      BY <1>1, <1>2, <2>4 DEF SyncOK
    <3>. HIDE DEF r, known, source, todo, d
    <3>2. StoreComes(known, todo, r.kept, r.left, r.due, source, d)
      BY <1>8, <1>9, <3>1
    <3>3. StoreComes(known, rest, r.kept, r.left, r.due, source, e)
      BY <1>2, <1>3, <1>8, <2>6, <3>2, StoreGoesOn
    <3>. HIDE DEF rest, e
    <3>4. StoreComes(s.known[T], s.todo, s.kept, s.left, s.due, source, e)
      BY <2>2, <3>3 DEF known
    <3>. QED BY <1>2, <2>2, <2>3, <2>4, <3>1, <3>4 DEF SyncOK, source
  <2>5. CASE r.cmd.tool = "syncSensor"
    <3>1. SensorComes(r.cmd.id, known, todo, r.kept, r.left, r.due, source, d)
      BY <1>1, <1>2, <2>5 DEF SyncOK
    <3>. HIDE DEF r, known, source, todo, d
    <3>2. SensorComes(r.cmd.id, known, rest, r.kept, r.left, r.due, source, e)
      BY <1>2, <1>3, <1>8, <2>6, <3>1, SensorGoesOn
    <3>. HIDE DEF rest, e
    <3>3. SensorComes(s.cmd.id, s.known[T], s.todo, s.kept, s.left, s.due, source, e)
      BY <2>2, <3>2 DEF known
    <3>. QED BY <1>2, <2>2, <2>3, <2>5, <3>3 DEF SyncOK, source
  <2>. QED BY <2>4, <2>5 DEF Syncs
<1>. QED BY <1>1, <1>2, <1>5, <1>6, <1>7, <1>8 DEF Execute

LEMMA CommandKept ==
    ASSUME ToolsInv, NEW p \in Procs, Acts(p)
    PROVE  proc'[p].cmd = proc[p].cmd
<1>1. DOMAIN proc = Procs /\ DOMAIN proc[p] = Fields
  BY ProcFacts
<1>2. CASE ~ShowScript(p)
  BY <1>2, OthersShowNothing DEF SameShown
<1>3. CASE ShowScript(p)
  <2>1. \/ proc' = [proc EXCEPT ![p].pc = "done"]
        \/ proc' = [proc EXCEPT ![p].pc = "killed"]
        \/ proc' = [proc EXCEPT ![p].pc = "done", ![p].script = <<EmptyDay>>]
        \/ \E readings : proc' = [proc EXCEPT ![p].pc = "done", ![p].seen = readings,
                                              ![p].script = WriteValues(readings)]
    BY <1>3 DEF ShowScript
  <2>. QED BY <1>1, <2>1 DEF Fields
<1>. QED BY <1>2, <1>3

\* How a commit ends a process.
CommitEnds(p) ==
    /\ proc'[p].pc = "done"
    /\ proc[p].missed => proc'[p].missed
    /\ ~proc'[p].missed =>
          file'[Target(p)] = Seen(proc[p], file, lock[Target(p)] = p)

LEMMA CommitIsEnd ==
    ASSUME ToolsInv, NEW p \in Procs, Commit(p)
    PROVE  CommitEnds(p)
<1>. DEFINE r == proc[p]
            T == Target(p)
            ps == [proc EXCEPT ![p].pc = "done"]
<1>1. /\ DOMAIN proc = Procs /\ DOMAIN file = Files /\ T \in Files /\ DOMAIN r = Fields
      /\ T = r.cmd.file
  BY ProcFacts DEF Target
<1>2. ASSUME NEW missed, Stops(p, "done", missed)
      PROVE  proc'[p].pc = "done" /\ proc'[p].missed = (r.missed \/ missed)
  BY <1>1, <1>2 DEF Stops, Fields
<1>3. CASE lock[T] # p /\ Stops(p, "done", FALSE) /\ file' = file
  BY <1>1, <1>2, <1>3 DEF CommitEnds, Seen
<1>4. CASE Stops(p, "done", TRUE)
  BY <1>2, <1>4 DEF CommitEnds
<1>5. CASE /\ lock[T] = p /\ file' = [file EXCEPT ![T] = r.view]
           /\ proc' = Disturbed(ps, p, T)
  <2>1. DOMAIN ps = Procs /\ ps[p].pc = "done" /\ ps[p].missed = r.missed
    BY <1>1 DEF Fields
  <2>. HIDE DEF ps
  <2>2. proc'[p] = ps[p]
    BY <1>5, <2>1, DisturbedOnly
  <2>3. file'[T] = r.view
    BY <1>1, <1>5
  <2>. QED BY <1>1, <1>5, <2>1, <2>2, <2>3 DEF CommitEnds, Seen
<1>. QED BY <1>3, <1>4, <1>5 DEF Commit

\* No sync creates a file, or shows anything.
LEMMA OtherTools ==
    ASSUME ToolsInv, NEW p \in Procs,
           \/ CreateStore(p) \/ InitializeStep(p) \/ Initialized(p) \/ Begin(p)
           \/ CheckStore(p) \/ Dump(p) \/ Export(p) \/ ShowScript(p)
    PROVE  proc[p].cmd.tool \notin Syncs
<1>1. CASE CreateStore(p) \/ InitializeStep(p) \/ Initialized(p)
  <2>1. proc[p].cmd.tool \notin Schemers =>
           proc[p].pc \in {"start", "open", "load", "begin", "write"} \cup Ended
    BY ProcFacts DEF ProcOK, OthersOK
  <2>2. proc[p].pc \in {"checked", "initialize"}
    BY <1>1 DEF CreateStore, InitializeStep, Initialized, At
  <2>. QED BY <2>1, <2>2 DEF Schemers, Syncs, Ended
<1>2. CASE Begin(p) \/ CheckStore(p) \/ Dump(p) \/ Export(p) \/ ShowScript(p)
  BY <1>2 DEF Begin, CheckStore, Dump, Export, ShowScript, Syncs
<1>. QED BY <1>1, <1>2

LEMMA ActsSyncs ==
    ASSUME ToolsInv, NEW p \in Procs, SyncOK(proc[p], file, lock[Target(p)] = p), Acts(p)
    PROVE  SyncOK(proc'[p], file', lock'[Target(p)] = p)
<1>1. CASE Start(p)
  BY <1>1, StartSyncs
<1>2. CASE CheckIntegrity(p)
  BY <1>2, CheckIntegritySyncs
<1>3. CASE Prepare(p)
  BY <1>3, PrepareSyncs
<1>4. CASE BeginSync(p)
  BY <1>4, BeginSyncSyncs
<1>5. CASE BeginSyncReadings(p)
  BY <1>5, BeginSyncReadingsSyncs
<1>6. CASE SyncReadingRecords(p)
  BY <1>6, SyncReadingRecordsSyncs
<1>7. CASE Execute(p)
  BY <1>7, ExecuteSyncs
<1>8. CASE Commit(p)
  <2>1. proc'[p].pc \in Ended
    BY <1>8, CommitIsEnd DEF CommitEnds, Ended
  <2>. QED BY <2>1, NothingToSync
<1>9. CASE Kill(p)
  BY <1>9, StopsSyncs DEF Kill, Ended
<1>10. CASE \/ CreateStore(p) \/ InitializeStep(p) \/ Initialized(p) \/ Begin(p)
            \/ CheckStore(p) \/ Dump(p) \/ Export(p) \/ ShowScript(p)
  BY <1>10, OtherTools, CommandKept, NothingToSync
<1>. QED BY <1>1, <1>2, <1>3, <1>4, <1>5, <1>6, <1>7, <1>8, <1>9, <1>10 DEF Acts

LEMMA InitSyncs ==
    Init => SyncsInv
<1>. SUFFICES ASSUME Init, NEW p \in Procs
              PROVE  SyncOK(proc[p], file, Holds(p))
  BY DEF SyncsInv
<1>1. /\ proc[p].due = TRUE /\ proc[p].left = {}
      /\ proc[p].pc \in {"start", "done"}
  BY DEF Init, Started
<1>2. Opening(proc[p], file) /\ proc[p].pc # "write"
  BY <1>1 DEF Opening
<1>. QED BY <1>2, OpeningSyncs

LEMMA SyncsKept ==
    ASSUME ToolsInv, SyncsInv, [Next]_vars
    PROVE  SyncsInv'
<1>1. CASE UNCHANGED vars
  BY <1>1 DEF vars, SyncsInv, Holds, Target
<1>2. ASSUME NEW p \in Procs, Acts(p), NEW q \in Procs
      PROVE  SyncOK(proc'[q], file', lock'[proc'[q].cmd.file] = q)
  <2>. DEFINE r == proc[q]
              held == lock[r.cmd.file] = q
  <2>1. /\ DOMAIN r = Fields /\ Target(q) \in Files /\ Target(q) = r.cmd.file
        /\ Source(q) = r.cmd.source /\ SyncOK(r, file, held)
    BY ProcFacts DEF Target, Source, SyncsInv, Holds
  <2>2. CASE q = p
    BY <1>2, <2>1, <2>2, ActsSyncs, CommandKept
  <2>3. CASE q # p
    <3>1. Beside(q)
      BY <1>2, <2>3, ActsBeside
    <3>2. CASE proc'[q] = [r EXCEPT !.disturbed = TRUE]
      <4>1. proc'[q].disturbed = TRUE
        BY <2>1, <3>2 DEF Fields
      <4>. QED BY <4>1, NothingToSync
    <3>3. CASE proc'[q] = r /\ ~Running(q)
      BY <3>3, NothingToSync DEF Running
    <3>4. CASE /\ proc'[q] = r /\ Alike(file[Target(q)], file'[Target(q)])
               /\ Alike(file[Source(q)], file'[Source(q)])
      <4>1. (lock'[r.cmd.file] = q) = held /\ held \in BOOLEAN
        BY <2>1, <3>1 DEF Beside
      <4>2. SyncOK(r, file', held)
        <5>. HIDE DEF r, held
        <5>. QED BY <2>1, <3>4, <4>1, AlikeSyncOK
      <4>. QED BY <3>4, <4>1, <4>2
    <3>. QED BY <3>1, <3>2, <3>3, <3>4 DEF Beside
  <2>. QED BY <2>2, <2>3
<1>. QED BY <1>1, <1>2, NextActs DEF SyncsInv, Holds, Target

\* Nothing else ends a sync as a success.
LEMMA SyncEndsByCommit ==
    ASSUME ToolsInv, NEW p \in Procs, Acts(p), proc[p].cmd.tool \in Syncs,
           proc'[p].pc = "done"
    PROVE  Commit(p)
<1>. DEFINE r == proc[p]
<1>1. DOMAIN proc = Procs /\ DOMAIN r = Fields /\ r.cmd.tool \notin {"create", "upgrade"}
  BY ProcFacts DEF Syncs
<1>2. ASSUME NEW pc, pc # "done", NEW missed, Stops(p, pc, missed)
      PROVE  FALSE
  BY <1>1, <1>2 DEF Stops, Fields
<1>3. CASE Start(p)
  <2>1. CASE proc' = [proc EXCEPT ![p].pc = "open", ![p].opens = ToOpen(p)]
    BY <1>1, <2>1 DEF Fields
  <2>2. CASE proc' = [proc EXCEPT ![p].pc = "checked"]
    BY <1>1, <2>2 DEF Fields
  <2>. QED BY <1>2, <1>3, <2>1, <2>2 DEF Start
<1>4. CASE CheckIntegrity(p)
  <2>1. CASE proc' = [proc EXCEPT ![p].pc = "load"]
    BY <1>1, <2>1 DEF Fields
  <2>. QED BY <1>2, <1>4, <2>1 DEF CheckIntegrity, Throws
<1>5. CASE Prepare(p)
  <2>1. ASSUME NEW list, NEW missed,
               proc' = [proc EXCEPT ![p] = Prepared(p, list, missed)]
        PROVE  FALSE
    <3>1. proc'[p] = Prepared(p, list, missed)
      BY <1>1, <2>1
    <3>2. Prepared(p, list, missed).pc \in {"open", "begin"}
      BY <1>1 DEF Prepared, Fields
    <3>. QED BY <3>1, <3>2
  <2>. QED BY <1>2, <1>5, <2>1, PrepareStep DEF Throws
<1>6. CASE BeginSync(p) \/ BeginSyncReadings(p)
  <2>1. proc'[p].pc = "write"
    BY <1>1, <1>6 DEF BeginSync, BeginSyncReadings, Fields
  <2>. QED BY <2>1
<1>7. CASE SyncReadingRecords(p)
  <2>1. ASSUME NEW job, NEW more, NEW kept, NEW due, NEW missed,
               proc' = [proc EXCEPT ![p] = Recorded(p, job, more, kept, due, missed)]
        PROVE  FALSE
    <3>1. proc'[p] = Recorded(p, job, more, kept, due, missed)
      BY <1>1, <2>1
    <3>2. Recorded(p, job, more, kept, due, missed).pc = "write"
      BY <1>1, <1>7 DEF Recorded, Fields, SyncReadingRecords, At
    <3>. QED BY <3>1, <3>2
  <2>2. CASE \E job \in r.left : \E readings, more, kept, due, missed :
                /\ Reads(p, job, readings, more, kept, due, missed)
                /\ proc' = [proc EXCEPT ![p] = Recorded(p, job, more, kept, due, missed)]
    <3>1. PICK job \in r.left : \E readings, more, kept, due, missed :
             proc' = [proc EXCEPT ![p] = Recorded(p, job, more, kept, due, missed)]
      BY <2>2
    <3>2. PICK readings, more, kept, due, missed :
             proc' = [proc EXCEPT ![p] = Recorded(p, job, more, kept, due, missed)]
      BY <3>1
    <3>. QED BY <2>1, <3>2
  <2>. QED BY <1>2, <1>7, <2>2, RecordsStep DEF Throws
<1>8. CASE Execute(p)
  <2>1. r.pc = "write"
    BY <1>8 DEF Execute, At
  <2>2. CASE \/ proc' = [proc EXCEPT ![p].todo = Tail(@)]
             \/ proc' = [[proc EXCEPT ![p].todo = Tail(@)] EXCEPT ![p].missed = TRUE]
    BY <1>1, <2>1, <2>2 DEF Fields
  <2>3. ASSUME NEW d, proc' = [[proc EXCEPT ![p].todo = Tail(@)] EXCEPT ![p].view = d]
        PROVE  FALSE
    BY <1>1, <2>1, <2>3 DEF Fields
  <2>. QED BY <1>2, <1>8, <2>2, <2>3 DEF Execute, Throws
<1>9. CASE Kill(p)
  BY <1>2, <1>9 DEF Kill
<1>. QED BY <1>3, <1>4, <1>5, <1>6, <1>7, <1>8, <1>9, OtherTools DEF Acts

\* What has come over when nothing is left.
LEMMA StoreCame ==
    ASSUME NEW known, NEW kept, NEW due, NEW source, NEW d,
           StoreComes(known, <<>>, kept, {}, due, source, d)
    PROVE  /\ \A u \in DOMAIN source.sensors :
                 \E x \in DOMAIN d.sensors : d.sensors[x] = source.sensors[u]
           /\ {u \in DOMAIN source.sensors : source.readings[u] # <<>>} # {} =>
                 \E u \in {v \in DOMAIN source.sensors : source.readings[v] # <<>>} :
                    Brought(source, u, d)
<1>1. \A x \in DOMAIN known : x \in DOMAIN d.sensors /\ d.sensors[x] = known[x]
  BY DEF StoreComes, Settled
<1>2. \A u \in DOMAIN source.sensors : \E x \in DOMAIN known : known[x] = source.sensors[u]
  BY DEF StoreComes
<1>3. ASSUME NEW v \in DOMAIN source.sensors, source.readings[v] # <<>>
      PROVE  \E u \in {w \in DOMAIN source.sensors : source.readings[w] # <<>>} :
                Brought(source, u, d)
  <2>1. due = FALSE
    BY <1>3 DEF StoreComes
  <2>2. PICK u \in DOMAIN source.sensors, x \in DOMAIN known :
           /\ source.readings[u] # <<>> /\ known[x] = source.sensors[u]
           /\ Bringing(<<>>, kept, source, d, u, x)
    BY <2>1 DEF StoreComes
  <2>3. BroughtAs(source, u, d, x)
    BY <2>2 DEF Bringing, Range, BroughtAs
  <2>4. x \in DOMAIN d.sensors /\ d.sensors[x].id = source.sensors[u].id
    BY <1>1, <2>2
  <2>. QED BY <2>2, <2>3, <2>4 DEF Brought
<1>. QED BY <1>1, <1>2, <1>3

LEMMA SensorCame ==
    ASSUME NEW id, NEW known, NEW kept, NEW due, NEW source, NEW d,
           SensorComes(id, known, <<>>, kept, {}, due, source, d), NEW u \in Holders(known, id)
    PROVE  BroughtAs(source, u, d, u)
<1>1. Bringing(<<>>, <<>>, source, d, u, u)
  BY DEF SensorComes
<1>. QED BY <1>1 DEF Bringing, Range, BroughtAs

\* What a sync has brought when it ends.
Copied(p) ==
    LET s == file[Source(p)]
        t == file'[Target(p)]
        full == {u \in DOMAIN s.sensors : s.readings[u] # <<>>}
    IN /\ proc[p].cmd.tool = "syncStore" =>
             /\ \A u \in DOMAIN s.sensors :
                   \E x \in DOMAIN t.sensors : t.sensors[x] = s.sensors[u]
             /\ full # {} => \E u \in full : Brought(s, u, t)
       /\ proc[p].cmd.tool = "syncSensor" =>
             \A u \in Named(p) : u \in DOMAIN t.sensors /\ BroughtAs(s, u, t, u)

LEMMA CommitCopies ==
    ASSUME ToolsInv, SyncsInv, NEW p \in Procs, Commit(p), ~proc'[p].missed,
           ~proc[p].disturbed, proc[p].cmd.tool \in Syncs
    PROVE  Copied(p)
<1>. DEFINE r == proc[p]
            T == r.cmd.file
            held == lock[T] = p
            known == r.known[T]
            source == file[r.cmd.source]
            d == Seen(r, file, held)
<1>1. /\ ProcOK(r, file, held) /\ T = Target(p) /\ r.cmd.source = Source(p)
      /\ FileSound(file[T]) /\ FileSound(source)
  BY ProcFacts DEF Target, Source
<1>2. /\ r.pc = "write" /\ r.pc \notin Ended /\ r.todo = <<>> /\ r.left = {} /\ held \in BOOLEAN
  BY DEF Commit, At, Ended
<1>3. ~r.missed /\ file'[Target(p)] = d
  BY <1>1, CommitIsEnd DEF CommitEnds
<1>4. \A u \in DOMAIN known : u \in DOMAIN d.sensors
  BY <1>1, <1>2 DEF ProcOK, Mirrored, Has
<1>5. SyncOK(r, file, held)
  BY <1>1 DEF SyncsInv, Holds
<1>6. ASSUME r.cmd.tool = "syncStore"
      PROVE  /\ \A u \in DOMAIN source.sensors :
                   \E x \in DOMAIN d.sensors : d.sensors[x] = source.sensors[u]
             /\ {u \in DOMAIN source.sensors : source.readings[u] # <<>>} # {} =>
                   \E u \in {v \in DOMAIN source.sensors : source.readings[v] # <<>>} :
                      Brought(source, u, d)
  <2>1. Doomed(<<>>, d) \/ StoreComes(known, <<>>, r.kept, {}, r.due, source, d)
    BY <1>2, <1>3, <1>5, <1>6 DEF SyncOK
  <2>. HIDE DEF known, source, d
  <2>2. StoreComes(known, <<>>, r.kept, {}, r.due, source, d)
    BY <2>1 DEF Doomed
  <2>. QED BY <2>2, StoreCame
<1>7. ASSUME r.cmd.tool = "syncSensor", NEW u \in Holders(known, r.cmd.id)
      PROVE  u \in DOMAIN d.sensors /\ BroughtAs(source, u, d, u)
  <2>1. SensorComes(r.cmd.id, known, <<>>, r.kept, {}, r.due, source, d)
    BY <1>2, <1>3, <1>5, <1>7 DEF SyncOK
  <2>2. u \in DOMAIN d.sensors
    BY <1>4, <1>7 DEF Holders
  <2>. HIDE DEF known, source, d
  <2>. QED BY <1>7, <2>1, <2>2, SensorCame
<1>8. Named(p) = Holders(known, r.cmd.id) /\ source = file[Source(p)]
  BY <1>1 DEF Named
<1>. HIDE DEF r, known, source, d, T
<1>. QED BY <1>3, <1>6, <1>7, <1>8 DEF Copied, r

LEMMA StepCopies ==
    ASSUME ToolsInv, SyncsInv, [Next]_vars, NEW p \in Procs,
           Running(p), proc'[p].pc = "done", ~proc'[p].missed, ~proc[p].disturbed
    PROVE  Copied(p)
<1>1. CASE UNCHANGED vars
  BY <1>1 DEF vars, Running, Ended
<1>2. ASSUME NEW q \in Procs, Acts(q), q # p
      PROVE  FALSE
  <2>1. Beside(p)
    BY <1>2, ActsBeside
  <2>2. DOMAIN proc[p] = Fields
    BY ProcFacts
  <2>3. proc'[p].pc = proc[p].pc
    BY <2>1, <2>2 DEF Beside, Fields
  <2>. QED BY <2>3 DEF Running, Ended
<1>3. CASE Acts(p) /\ proc[p].cmd.tool \in Syncs
  BY <1>3, SyncEndsByCommit, CommitCopies
<1>4. CASE proc[p].cmd.tool \notin Syncs
  BY <1>4 DEF Copied, Syncs
<1>. QED BY <1>1, <1>2, <1>3, <1>4, NextActs

\* A klio-store sync that reports success, met no lock and had nobody write
\* beside it has brought over every sensor and its definition, and the readings
\* of one sensor at least, and a klio-sensor sync all readings of its sensor,
\* whatever the two files hold, the external ids in one and the other among it,
\* and whatever else runs or is killed without writing to them.
THEOREM SyncsCopy == Spec => SyncToolCopies
<1>1. Init => SyncsInv
  BY InitSyncs
<1>2. ToolsInv /\ SyncsInv /\ [Next]_vars => SyncsInv'
  BY SyncsKept
<1>3. ToolsInv /\ SyncsInv /\ [Next]_vars =>
         [\A p \in Procs :
             /\ Running(p) /\ proc'[p].pc = "done"
             /\ ~proc'[p].missed /\ ~proc[p].disturbed
             => Copied(p)]_vars
  BY StepCopies
<1>. QED BY <1>1, <1>2, <1>3, ToolsInvariant, PTL DEF Spec, SyncToolCopies, Copied
=============================================================================
