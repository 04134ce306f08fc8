----------------------------- MODULE Agent -----------------------------
(***************************************************************************)
(* The agent of one server and one Redis instance it runs in a container.  *)
(*                                                                         *)
(* Handlers for the server's requests work command by command: podman and  *)
(* redis-cli run as processes, files are copied one after the other.       *)
(* Beside them a health check lists the running containers, pings each     *)
(* and restarts what does not answer.  Nothing orders the two.  The agent  *)
(* may be restarted at any moment, a command may fail at any step, and     *)
(* Redis crashes, hangs, saves and takes writes on its own.                *)
(*                                                                         *)
(* A dataset is the number of the last write it contains, 0 when empty;    *)
(* every write of a behaviour has a number of its own.  Redis and podman   *)
(* are external, reduced to what the agent relies on.                      *)
(*                                                                         *)
(* Definitions named Faulty... are variants with one plausible mistake;    *)
(* the specification uses none of them.                                    *)
(***************************************************************************)
EXTENDS Naturals, FiniteSets

CONSTANTS
    Handler,    \* HTTP handlers in flight
    Retention,  \* backups to keep, 0 for all
    Tries,      \* restarts podman attempts on its own (on-failure:5)
    MaxClock,   \* bound: the seconds there are, hence names of backups
    MaxWrites,  \* bound: writes to the dataset
    NONE

ASSUME AgentNumbers ==
    /\ Retention \in Nat /\ Tries \in Nat
    /\ MaxClock \in Nat /\ MaxWrites \in Nat
ASSUME NoneIsNoData == NONE \notin Nat

VARIABLES
    box,     \* the container; with a process in it, that process
    mem,     \* the dataset in memory, NONE without a process
    saving,  \* the dataset a BGSAVE is writing, or NONE
    tries,   \* restarts by podman since the container was last started
    appends, \* the process keeps an AOF: appendonly when it was started
    conf,    \* the rendered configuration: appendonly yes, no, or no file
    disk,    \* data/: dump.rdb, appendonlydir, and whether Redis appends to it
    sets,    \* backup/
    known,   \* the agent has the password of the instance
    handler, \* the handlers
    health,  \* the health check's goroutine
    clock,   \* time.Now(), local and to the second
    writes   \* the number of the last write

redis == <<box, mem, saving, tries, appends>>
files == <<conf, disk, sets>>
agent == <<known, handler, health>>
vars == <<box, mem, saving, tries, appends, conf, disk, sets, known, handler, health, clock, writes>>

-----------------------------------------------------------------------------
Data == 0..MaxWrites

\* An AOF directory that was copied half.
HALF == MaxWrites + 1

\* A backup: a file ts.rdb, or with an AOF a directory ts of both files.  A
\* file that was not filled, or not created, has NONE.
BackupSet == [ts : 0..MaxClock, joint : BOOLEAN,
              dump : Data \cup {NONE}, aof : Data \cup {NONE, HALF}]

Idle == [pc |-> "idle", ts |-> 0, joint |-> FALSE]

HandlerState ==
    [pc    : {"idle", "run", "store", "clean", "halt", "boot", "bgsave", "rewrite",
              "mkdir", "open", "dump", "aof", "rotate", "putDump", "dropAof", "putAof", "serve"},
     ts    : 0..MaxClock,
     joint : BOOLEAN]

DataFiles == [rdb : Data \cup {NONE}, aof : Data \cup {NONE}, open : BOOLEAN]

HasProcess == box \in {"loading", "up", "hung"}

TypeOK ==
    /\ box \in {"none", "exited", "crashed", "loading", "up", "hung"}
    /\ mem \in Data \cup {NONE} /\ (mem = NONE <=> ~HasProcess)
    /\ saving \in Data \cup {NONE} /\ (saving # NONE => HasProcess)
    /\ tries \in 0..Tries
    /\ appends \in BOOLEAN /\ (appends => HasProcess)
    /\ conf \in {"none", "aof", "rdb"}
    /\ disk \in DataFiles
    /\ sets \subseteq BackupSet
    /\ known \in BOOLEAN
    /\ handler \in [Handler -> HandlerState]
    /\ health \in {"idle", "listed", "sick"}
    /\ clock \in 0..MaxClock /\ writes \in 0..MaxWrites

Init ==
    /\ box = "none" /\ mem = NONE /\ saving = NONE /\ tries = 0 /\ appends = FALSE
    /\ conf = "none" /\ disk = [rdb |-> NONE, aof |-> NONE, open |-> FALSE] /\ sets = {}
    /\ known = FALSE
    /\ handler = [h \in Handler |-> Idle]
    /\ health = "idle"
    /\ clock = 0 /\ writes = 0

-----------------------------------------------------------------------------
(* External: podman and Redis.                                             *)

\* Without a default for a missing file.
FaultyLoads(d) == IF conf = "aof" THEN d.aof ELSE d.rdb

\* What Redis 7 starts with: with appendonly only the AOF counts, and without
\* the file the dataset is empty, whatever dump.rdb holds.
Loads(d) ==
    LET file == IF conf = "aof" THEN d.aof ELSE d.rdb
    IN  IF file = NONE THEN 0 ELSE file

Booted(d) ==
    /\ box' = "loading"
    /\ mem' = Loads(d)
    /\ saving' = NONE
    /\ appends' = (conf = "aof")
    /\ disk' = IF conf = "aof" THEN [d EXCEPT !.aof = Loads(d), !.open = TRUE] ELSE d

\* A Redis that listens to SIGTERM saves before it exits (save 3600 1 ...).
Flushed ==
    IF box = "up" THEN [disk EXCEPT !.rdb = mem, !.open = FALSE]
    ELSE [disk EXCEPT !.open = FALSE]

PodmanStop ==
    /\ box # "none"
    /\ box' = "exited" /\ mem' = NONE /\ saving' = NONE /\ appends' = FALSE
    /\ disk' = Flushed
    /\ UNCHANGED tries

PodmanStart ==
    /\ box # "none"
    /\ IF HasProcess THEN UNCHANGED <<redis, disk>>
       ELSE Booted(disk) /\ tries' = 0

\* Stops the container first when it runs.
PodmanRestart ==
    /\ box # "none"
    /\ Booted(Flushed)
    /\ tries' = 0

Load ==
    /\ box = "loading"
    /\ box' = "up"
    /\ UNCHANGED <<mem, saving, tries, appends, files, agent, clock, writes>>

Write ==
    /\ box = "up"
    /\ writes < MaxWrites
    /\ writes' = writes + 1
    /\ mem' = writes'
    /\ disk' = IF disk.open THEN [disk EXCEPT !.aof = writes'] ELSE disk
    /\ UNCHANGED <<box, saving, tries, appends, conf, sets, agent, clock>>

SaveDone ==
    /\ saving # NONE
    /\ disk' = [disk EXCEPT !.rdb = saving]
    /\ saving' = NONE
    /\ UNCHANGED <<box, mem, tries, appends, conf, sets, agent, clock, writes>>

Hang ==
    /\ box = "up"
    /\ box' = "hung"
    /\ UNCHANGED <<mem, saving, tries, appends, files, agent, clock, writes>>

Crash ==
    /\ HasProcess
    /\ box' = "crashed" /\ mem' = NONE /\ saving' = NONE /\ appends' = FALSE
    /\ disk' = [disk EXCEPT !.open = FALSE]
    /\ UNCHANGED <<tries, conf, sets, agent, clock, writes>>

\* --restart on-failure:5
PodmanRetries ==
    /\ box = "crashed" /\ tries < Tries
    /\ Booted(disk)
    /\ tries' = tries + 1
    /\ UNCHANGED <<conf, sets, agent, clock, writes>>

\* Seconds pass; and local time can be set back, or ends its summer.
Clock ==
    /\ clock' \in 0..MaxClock \ {clock}
    /\ UNCHANGED <<redis, files, agent, writes>>

-----------------------------------------------------------------------------
(* Handlers, one command a step.                                           *)

Goto(h, pc) == handler' = [handler EXCEPT ![h].pc = pc]
Return(h)   == handler' = [handler EXCEPT ![h] = Idle]
At(h, pc)   == handler[h].pc = pc

\* writeRedisConfig: category or overrides say whether Redis appends.
Render(kind) == conf' = kind

\* The server creates under names that have no container.
CreateConf(h, kind) ==
    /\ At(h, "idle") /\ box = "none"
    /\ Render(kind)
    /\ Goto(h, "run")
    /\ UNCHANGED <<redis, disk, sets, known, health, clock, writes>>

\* The container runs before the agent knows the new password.
CreateRun(h) ==
    /\ At(h, "run") /\ box = "none"
    /\ Booted(disk)
    /\ tries' = 0
    /\ known' = FALSE
    /\ Goto(h, "store")
    /\ UNCHANGED <<conf, sets, health, clock, writes>>

CreateStore(h) ==
    /\ At(h, "store")
    /\ known' = TRUE
    /\ Return(h)
    /\ UNCHANGED <<redis, files, health, clock, writes>>

Start(h) ==
    /\ At(h, "idle")
    /\ PodmanStart
    /\ UNCHANGED <<conf, sets, agent, clock, writes>>

Stop(h) ==
    /\ At(h, "idle")
    /\ PodmanStop
    /\ UNCHANGED <<conf, sets, agent, clock, writes>>

\* podman rm -f
DeleteRemove(h, clean) ==
    /\ At(h, "idle")
    /\ box' = "none" /\ mem' = NONE /\ saving' = NONE /\ appends' = FALSE
    /\ disk' = Flushed
    /\ IF clean THEN Goto(h, "clean") ELSE UNCHANGED handler
    /\ UNCHANGED <<tries, conf, sets, known, health, clock, writes>>

\* The instance's directory, its backups with it.
DeleteClean(h) ==
    /\ At(h, "clean")
    /\ conf' = "none" /\ disk' = [rdb |-> NONE, aof |-> NONE, open |-> FALSE] /\ sets' = {}
    /\ Return(h)
    /\ UNCHANGED <<redis, known, health, clock, writes>>

\* A change that needs a restart.  The file is rendered anew, with the group's
\* category and this request's overrides: appendonly may change.  The password
\* of the request is stored unless it is empty.
ConfigRewrite(h, kind) ==
    /\ At(h, "idle")
    /\ known' \in {known, TRUE}
    /\ Render(kind)
    /\ Goto(h, "halt")
    /\ UNCHANGED <<redis, disk, sets, health, clock, writes>>

\* Errors of the two commands are ignored.
ConfigStop(h) ==
    /\ At(h, "halt")
    /\ PodmanStop \/ UNCHANGED <<redis, disk>>
    /\ Goto(h, "boot")
    /\ UNCHANGED <<conf, sets, known, health, clock, writes>>

ConfigStart(h) ==
    /\ At(h, "boot")
    /\ PodmanStart \/ UNCHANGED <<redis, disk>>
    /\ Return(h)
    /\ UNCHANGED <<conf, sets, known, health, clock, writes>>

\* A command fails and with it the request; what was done stays.
CommandFails(h) ==
    /\ handler[h].pc \in {"run", "bgsave", "rewrite", "open", "dump", "putDump", "putAof", "serve"}
    /\ Return(h)
    /\ UNCHANGED <<redis, files, known, health, clock, writes>>

-----------------------------------------------------------------------------
(* Backup.                                                                 *)

\* redis-cli ends with success also when the reply is an error; with a Redis
\* that hangs it does not end.
Answers == box \in {"loading", "up"}

\* Not with -LOADING or -NOAUTH.
Obeys == box = "up" /\ known

Whole(s) == s.dump # NONE /\ (s.joint => s.aof \in Data)

\* What has the name that the handler writes.
Entry(h) == {s \in sets : s.ts = handler[h].ts /\ s.joint = handler[h].joint}

Empty(h) == [ts |-> handler[h].ts, joint |-> handler[h].joint, dump |-> NONE, aof |-> NONE]

\* The name is the second in which the request came; nobody asks whether it is
\* taken.  Without an answer to INFO the AOF counts as off.
BackupBegin(h, joint) ==
    /\ At(h, "idle") /\ box # "hung"
    /\ joint => Answers /\ known /\ appends
    /\ handler' = [handler EXCEPT ![h] = [pc |-> "bgsave", ts |-> clock, joint |-> joint]]
    /\ UNCHANGED <<redis, files, known, health, clock, writes>>

\* What follows does not wait for the save: polling ends after sixty tries.
BgSave(h) ==
    /\ At(h, "bgsave") /\ Answers
    /\ saving' = IF Obeys /\ saving = NONE THEN mem ELSE saving
    /\ Goto(h, IF handler[h].joint THEN "rewrite" ELSE "open")
    /\ UNCHANGED <<box, mem, tries, appends, files, known, health, clock, writes>>

\* Nor for the rewrite, whose result holds the same data as the files before;
\* from then on a Redis that appends does so in the directory.
Rewrite(h) ==
    /\ At(h, "rewrite") /\ Answers
    /\ disk' = IF Obeys THEN [disk EXCEPT !.aof = mem, !.open = appends] ELSE disk
    /\ Goto(h, "mkdir")
    /\ UNCHANGED <<redis, conf, sets, known, health, clock, writes>>

\* A directory for both files; one that is there already stays as it is.
MakeSet(h) ==
    /\ At(h, "mkdir")
    /\ sets' = IF Entry(h) = {} THEN sets \cup {Empty(h)} ELSE sets
    /\ Goto(h, "open")
    /\ UNCHANGED <<redis, conf, disk, known, health, clock, writes>>

\* The dump is created or, if the name is taken, truncated.
OpenSet(h) ==
    /\ At(h, "open") /\ disk.rdb # NONE
    /\ sets' = (sets \ Entry(h))
                 \cup {[s EXCEPT !.dump = NONE] : s \in IF Entry(h) = {} THEN {Empty(h)} ELSE Entry(h)}
    /\ Goto(h, "dump")
    /\ UNCHANGED <<redis, conf, disk, known, health, clock, writes>>

CopyDump(h) ==
    /\ At(h, "dump") /\ disk.rdb # NONE
    /\ \E s \in Entry(h) : sets' = (sets \ {s}) \cup {[s EXCEPT !.dump = disk.rdb]}
    /\ Goto(h, IF handler[h].joint THEN "aof" ELSE "rotate")
    /\ UNCHANGED <<redis, conf, disk, known, health, clock, writes>>

\* cp -r copies into a directory that is there already, and so beside the AOF
\* that a restore would take.
Filled(s, aof) == IF s.aof = NONE THEN [s EXCEPT !.aof = aof] ELSE s

CopyAof(h) ==
    /\ At(h, "aof") /\ disk.aof # NONE
    /\ \E s \in Entry(h) : sets' = (sets \ {s}) \cup {Filled(s, disk.aof)}
    /\ Goto(h, "rotate")
    /\ UNCHANGED <<redis, conf, disk, known, health, clock, writes>>

\* It fails before or half way.
CopyAofFails(h) ==
    /\ At(h, "aof")
    /\ \/ sets' = sets
       \/ \E s \in Entry(h) : sets' = (sets \ {s}) \cup {Filled(s, HALF)}
    /\ Return(h)
    /\ UNCHANGED <<redis, conf, disk, known, health, clock, writes>>

\* Sorts the other way round.
FaultyNewest(n, S) == {s \in S : Cardinality({t \in S : t.ts < s.ts}) < n}

\* The order of the names: "ts" comes before "ts.rdb".
Later(t, s) == t.ts > s.ts \/ (t.ts = s.ts /\ s.joint /\ ~t.joint)

\* cleanupBackups sorts by name and counts entries, finished or not.
Newest(n, S) == {s \in S : Cardinality({t \in S : Later(t, s)}) < n}

Rotate(h) ==
    /\ At(h, "rotate")
    /\ sets' = IF Retention > 0 THEN Newest(Retention, sets) ELSE sets
    /\ Return(h)
    /\ UNCHANGED <<redis, conf, disk, known, health, clock, writes>>

-----------------------------------------------------------------------------
(* Restore.                                                                *)

\* Stops before it looks for the backup: under a name that no backup has the
\* next step fails.  The model leaves out restoring what a backup left, or is
\* about to leave, unfinished.
RestoreStop(h, ts) ==
    /\ At(h, "idle")
    /\ \A s \in sets : s.ts = ts => Whole(s)
    /\ PodmanStop
    /\ handler' = [handler EXCEPT ![h] = [pc |-> "putDump", ts |-> ts, joint |-> FALSE]]
    /\ UNCHANGED <<conf, sets, known, health, clock, writes>>

\* A directory of that name goes before a file.
PutDump(h) ==
    /\ At(h, "putDump")
    /\ \E s \in {t \in sets : t.ts = handler[h].ts} :
        /\ \A t \in sets : t.ts = s.ts /\ t.joint => s.joint
        /\ disk' = [disk EXCEPT !.rdb = s.dump]
        /\ handler' = [handler EXCEPT ![h].pc = "dropAof", ![h].joint = s.joint]
    /\ UNCHANGED <<redis, conf, sets, known, health, clock, writes>>

\* A Redis that runs meanwhile goes on with the files it has open.
DropAof(h) ==
    /\ At(h, "dropAof")
    /\ disk' = [disk EXCEPT !.aof = NONE, !.open = FALSE]
    /\ Goto(h, IF handler[h].joint THEN "putAof" ELSE "serve")
    /\ UNCHANGED <<redis, conf, sets, known, health, clock, writes>>

PutAof(h) ==
    /\ At(h, "putAof")
    /\ \E s \in Entry(h) : s.aof \in Data /\ disk' = [disk EXCEPT !.aof = s.aof, !.open = FALSE]
    /\ Goto(h, "serve")
    /\ UNCHANGED <<redis, conf, sets, known, health, clock, writes>>

RestoreStart(h) ==
    /\ At(h, "serve")
    /\ PodmanStart
    /\ Return(h)
    /\ UNCHANGED <<conf, sets, known, health, clock, writes>>

-----------------------------------------------------------------------------
(* The health check and the agent's restart.                               *)

\* podman ps lists running containers only.
HealthList ==
    /\ health = "idle" /\ HasProcess
    /\ health' = "listed"
    /\ UNCHANGED <<redis, files, known, handler, clock, writes>>

\* Without the deadline on the connection.
FaultyHealthPing ==
    /\ health = "listed" /\ box # "hung"
    /\ health' = IF box = "up" /\ known THEN "idle" ELSE "sick"
    /\ UNCHANGED <<redis, files, known, handler, clock, writes>>

\* With a deadline of three seconds.  -LOADING and -NOAUTH are no PONG.
HealthPing ==
    /\ health = "listed"
    /\ health' = IF box = "up" /\ known THEN "idle" ELSE "sick"
    /\ UNCHANGED <<redis, files, known, handler, clock, writes>>

\* The error of podman restart is ignored.
HealthRestart ==
    /\ health = "sick"
    /\ health' = "idle"
    /\ IF box = "none" THEN UNCHANGED <<redis, disk>> ELSE PodmanRestart
    /\ UNCHANGED <<conf, sets, known, handler, clock, writes>>

\* Passwords are read back from the configuration files.
AgentRestart ==
    /\ handler' = [h \in Handler |-> Idle]
    /\ health' = "idle"
    /\ known' = (conf # "none")
    /\ UNCHANGED <<redis, files, clock, writes>>

-----------------------------------------------------------------------------
External ==
    \/ Load \/ Write \/ SaveDone \/ Hang \/ Crash \/ PodmanRetries \/ Clock

Handle(h) ==
    \/ \E kind \in {"aof", "rdb"} : CreateConf(h, kind) \/ ConfigRewrite(h, kind)
    \/ CreateRun(h) \/ CreateStore(h)
    \/ Start(h) \/ Stop(h)
    \/ \E clean \in BOOLEAN : DeleteRemove(h, clean)
    \/ DeleteClean(h)
    \/ ConfigStop(h) \/ ConfigStart(h)
    \/ \E joint \in BOOLEAN : BackupBegin(h, joint)
    \/ BgSave(h) \/ Rewrite(h)
    \/ MakeSet(h) \/ OpenSet(h) \/ CopyDump(h) \/ CopyAof(h) \/ CopyAofFails(h) \/ Rotate(h)
    \/ \E ts \in 0..MaxClock : RestoreStop(h, ts)
    \/ PutDump(h) \/ DropAof(h) \/ PutAof(h) \/ RestoreStart(h)
    \/ CommandFails(h)

Next ==
    \/ External
    \/ \E h \in Handler : Handle(h)
    \/ HealthList \/ HealthPing \/ HealthRestart
    \/ AgentRestart

Spec == Init /\ [][Next]_vars

\* The health check ticks every thirty seconds, ping and podman come back, and
\* the agent is not restarted in the middle of every round.
LiveSpec == Spec /\ WF_vars(HealthList) /\ SF_vars(HealthPing) /\ SF_vars(HealthRestart)

-----------------------------------------------------------------------------
(* Properties.                                                             *)

\* The handler truncates a whole backup that has the name it writes.
Overwrites(h) == OpenSet(h) /\ \E s \in Entry(h) : Whole(s)

\* The backup that the handler has made is not the last by name, since the clock
\* was set back, or its AOF is what another of that second left half copied.
Misplaced(h) ==
    Rotate(h) /\ \E s \in Entry(h) : s.aof = HALF \/ \E t \in sets : Later(t, s)

\* Once a backup is whole there is one for as long as the instance's directory
\* is there: requests that fail half way, restarts of the agent and rotations
\* never cost the last one (ARCHITECTURE.md:733), but for two exceptions, in
\* which names do not say which backup is newer: two in one second, and a
\* clock that was set back.
KeepsAWhole ==
    [][(\E s \in sets : Whole(s)) =>
         \/ conf' = "none"
         \/ \E s \in sets' : Whole(s)
         \/ \E h \in Handler : Overwrites(h) \/ Misplaced(h)]_vars

\* An instance whose process hangs does not stay so, whatever handlers wait for
\* its answer (ARCHITECTURE.md:219).
HungIsRestarted == box = "hung" ~> box # "hung"

\* A restore that reports success has brought the instance up with the data of
\* the backup (ARCHITECTURE.md:764).
RestoreIsServed ==
    [][\A h \in Handler : RestoreStart(h) => \E s \in Entry(h) : mem' \in {s.dump, s.aof}]_vars

=============================================================================
