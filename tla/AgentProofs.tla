-------------------------- MODULE AgentProofs --------------------------
(***************************************************************************)
(* What holds of the agent for any number of handlers, backups to keep,    *)
(* seconds and writes: type correctness; and, for handlers one at a time,  *)
(* that the last whole backup is never lost.                               *)
(***************************************************************************)
EXTENDS Agent, FiniteSetTheorems, TLAPS

\* A boot fills the memory from the files and leaves files behind.
LEMMA BootTypes ==
    ASSUME NEW d \in DataFiles, Booted(d)
    PROVE  /\ box' = "loading" /\ saving' = NONE
           /\ mem' \in Data /\ mem' # NONE
           /\ appends' \in BOOLEAN /\ disk' \in DataFiles
<1>1. 0 \in Data
  BY AgentNumbers DEF Data
<1>2. Loads(d) \in Data
  BY <1>1 DEF Loads, DataFiles
<1>3. disk' \in DataFiles
  BY <1>2 DEF Booted, DataFiles
<1>4. NONE \notin Data
  BY NoneIsNoData, AgentNumbers DEF Data
<1> QED
  BY <1>2, <1>3, <1>4 DEF Booted

\* Stopping saves what is in memory.
LEMMA FlushTypes ==
    ASSUME TypeOK
    PROVE  Flushed \in DataFiles
BY DEF TypeOK, Flushed, DataFiles, HasProcess

\* What podman does to a container and its files.
LEMMA PodmanTypes ==
    ASSUME TypeOK, PodmanStop \/ PodmanStart \/ PodmanRestart
    PROVE  /\ box' \in {"exited", "loading", "up", "hung"}
           /\ mem' \in Data \cup {NONE} /\ (mem' = NONE <=> box' = "exited")
           /\ saving' \in Data \cup {NONE} /\ (saving' # NONE => box' # "exited")
           /\ tries' \in 0..Tries
           /\ appends' \in BOOLEAN /\ (appends' => box' # "exited")
           /\ disk' \in DataFiles
<1>1. CASE PodmanStop
  <2>1. disk' \in DataFiles
    BY <1>1, FlushTypes DEF PodmanStop
  <2> QED
    BY <1>1, <2>1 DEF PodmanStop, TypeOK
<1>2. CASE PodmanStart
  <2>1. CASE HasProcess
    BY <1>2, <2>1 DEF PodmanStart, TypeOK, HasProcess, redis
  <2>2. CASE ~HasProcess
    <3>1. disk \in DataFiles /\ Booted(disk) /\ tries' = 0
      BY <1>2, <2>2 DEF PodmanStart, TypeOK
    <3> QED
      BY <3>1, BootTypes, AgentNumbers
  <2> QED
    BY <2>1, <2>2
<1>3. CASE PodmanRestart
  <2>1. Flushed \in DataFiles /\ Booted(Flushed) /\ tries' = 0
    BY <1>3, FlushTypes DEF PodmanRestart
  <2> QED
    BY <2>1, BootTypes, AgentNumbers
<1> QED
  BY <1>1, <1>2, <1>3

\* The three ways a step changes a handler.
LEMMA HandlerTypes ==
    ASSUME TypeOK, NEW h \in Handler, NEW r \in HandlerState,
           handler' = [handler EXCEPT ![h] = r]
    PROVE  handler' \in [Handler -> HandlerState]
BY DEF TypeOK

LEMMA GotoTypes ==
    ASSUME TypeOK, NEW h \in Handler,
           NEW pc \in {"run", "store", "clean", "halt", "boot", "bgsave", "rewrite", "mkdir",
                       "open", "dump", "aof", "rotate", "putDump", "dropAof", "putAof", "serve"},
           Goto(h, pc)
    PROVE  handler' \in [Handler -> HandlerState]
BY DEF TypeOK, Goto, HandlerState

LEMMA ReturnTypes ==
    ASSUME TypeOK, NEW h \in Handler, Return(h)
    PROVE  handler' \in [Handler -> HandlerState]
<1>1. Idle \in HandlerState
  BY AgentNumbers DEF Idle, HandlerState
<1> QED
  BY <1>1 DEF TypeOK, Return

-----------------------------------------------------------------------------
(* Type correctness, action by action.                                     *)

LEMMA ExternalTypes ==
    ASSUME TypeOK, External
    PROVE  TypeOK'
<1> USE DEF TypeOK, redis, files, agent, HasProcess
<1>1. CASE Load
  BY <1>1 DEF Load
<1>2. CASE Write
  <2>1. writes' \in Data /\ writes' \in 0..MaxWrites /\ writes' # NONE
    BY <1>2, AgentNumbers, NoneIsNoData DEF Write, Data
  <2>2. disk' \in DataFiles
    BY <1>2, <2>1 DEF Write, DataFiles
  <2> QED
    BY <1>2, <2>1, <2>2 DEF Write
<1>3. CASE SaveDone
  <2>1. disk' \in DataFiles
    BY <1>3 DEF SaveDone, DataFiles
  <2> QED
    BY <1>3, <2>1 DEF SaveDone
<1>4. CASE Hang
  BY <1>4 DEF Hang
<1>5. CASE Crash
  <2>1. disk' \in DataFiles
    BY <1>5 DEF Crash, DataFiles
  <2> QED
    BY <1>5, <2>1 DEF Crash
<1>6. CASE PodmanRetries
  <2>1. Booted(disk) /\ disk \in DataFiles
    BY <1>6 DEF PodmanRetries
  <2>2. /\ box' = "loading" /\ saving' = NONE /\ mem' \in Data /\ mem' # NONE
        /\ appends' \in BOOLEAN /\ disk' \in DataFiles
    BY <2>1, BootTypes
  <2>3. tries' \in 0..Tries
    BY <1>6, AgentNumbers DEF PodmanRetries
  <2> QED
    BY <1>6, <2>2, <2>3 DEF PodmanRetries
<1>7. CASE Clock
  BY <1>7 DEF Clock
<1> QED
  BY <1>1, <1>2, <1>3, <1>4, <1>5, <1>6, <1>7 DEF External

LEMMA LifecycleTypes ==
    ASSUME TypeOK, NEW h \in Handler,
           \/ \E kind \in {"aof", "rdb"} : CreateConf(h, kind) \/ ConfigRewrite(h, kind)
           \/ CreateRun(h) \/ CreateStore(h)
           \/ Start(h) \/ Stop(h)
           \/ \E clean \in BOOLEAN : DeleteRemove(h, clean)
           \/ DeleteClean(h)
           \/ ConfigStop(h) \/ ConfigStart(h)
           \/ CommandFails(h)
    PROVE  TypeOK'
<1> USE DEF redis, files, agent, HasProcess
<1>1. CASE \E kind \in {"aof", "rdb"} : CreateConf(h, kind)
  <2>1. handler' \in [Handler -> HandlerState]
    BY <1>1, GotoTypes DEF CreateConf, Render
  <2> QED
    BY <1>1, <2>1 DEF CreateConf, Render, TypeOK
<1>2. CASE CreateRun(h)
  <2>1. handler' \in [Handler -> HandlerState]
    BY <1>2, GotoTypes DEF CreateRun
  <2>2. /\ box' = "loading" /\ saving' = NONE /\ mem' \in Data /\ mem' # NONE
        /\ appends' \in BOOLEAN /\ disk' \in DataFiles
    BY <1>2, BootTypes DEF CreateRun, TypeOK
  <2>3. tries' \in 0..Tries
    BY <1>2, AgentNumbers DEF CreateRun
  <2>4. known' \in BOOLEAN
    BY <1>2 DEF CreateRun
  <2> QED
    BY <1>2, <2>1, <2>2, <2>3, <2>4 DEF CreateRun, TypeOK
<1>3. CASE CreateStore(h)
  <2>1. handler' \in [Handler -> HandlerState]
    BY <1>3, ReturnTypes DEF CreateStore
  <2> QED
    BY <1>3, <2>1 DEF CreateStore, TypeOK
<1>4. CASE Start(h)
  BY <1>4, PodmanTypes DEF Start, TypeOK
<1>5. CASE Stop(h)
  BY <1>5, PodmanTypes DEF Stop, TypeOK
<1>6. ASSUME NEW clean \in BOOLEAN, DeleteRemove(h, clean)
      PROVE  TypeOK'
  <2>1. handler' \in [Handler -> HandlerState]
    BY <1>6, GotoTypes DEF DeleteRemove, TypeOK
  <2>2. disk' \in DataFiles
    BY <1>6, FlushTypes DEF DeleteRemove
  <2> QED
    BY <1>6, <2>1, <2>2 DEF DeleteRemove, TypeOK
<1>7. CASE DeleteClean(h)
  <2>1. handler' \in [Handler -> HandlerState]
    BY <1>7, ReturnTypes DEF DeleteClean
  <2>2. disk' \in DataFiles
    BY <1>7 DEF DeleteClean, DataFiles
  <2> QED
    BY <1>7, <2>1, <2>2 DEF DeleteClean, TypeOK
<1>8. ASSUME NEW kind \in {"aof", "rdb"}, ConfigRewrite(h, kind)
      PROVE  TypeOK'
  <2>1. handler' \in [Handler -> HandlerState]
    BY <1>8, GotoTypes DEF ConfigRewrite, Render
  <2> QED
    BY <1>8, <2>1 DEF ConfigRewrite, Render, TypeOK
<1>9. CASE ConfigStop(h)
  <2>1. handler' \in [Handler -> HandlerState]
    BY <1>9, GotoTypes DEF ConfigStop
  <2> QED
    BY <1>9, <2>1, PodmanTypes DEF ConfigStop, TypeOK
<1>10. CASE ConfigStart(h)
  <2>1. handler' \in [Handler -> HandlerState]
    BY <1>10, ReturnTypes DEF ConfigStart
  <2> QED
    BY <1>10, <2>1, PodmanTypes DEF ConfigStart, TypeOK
<1>11. CASE CommandFails(h)
  <2>1. handler' \in [Handler -> HandlerState]
    BY <1>11, ReturnTypes DEF CommandFails
  <2> QED
    BY <1>11, <2>1 DEF CommandFails, TypeOK
<1> QED
  BY <1>1, <1>2, <1>3, <1>4, <1>5, <1>6, <1>7, <1>8, <1>9, <1>10, <1>11

\* A backup in the making and one that gets an AOF.
LEMMA EmptyTypes ==
    ASSUME TypeOK, NEW h \in Handler
    PROVE  Empty(h) \in BackupSet
BY DEF Empty, TypeOK, HandlerState, BackupSet

LEMMA FilledTypes ==
    ASSUME NEW s \in BackupSet, NEW aof \in Data \cup {NONE, HALF}
    PROVE  Filled(s, aof) \in BackupSet
BY DEF Filled, BackupSet

LEMMA BackupTypes ==
    ASSUME TypeOK, NEW h \in Handler,
           \/ \E joint \in BOOLEAN : BackupBegin(h, joint)
           \/ BgSave(h) \/ Rewrite(h)
           \/ MakeSet(h) \/ OpenSet(h) \/ CopyDump(h) \/ CopyAof(h) \/ CopyAofFails(h) \/ Rotate(h)
    PROVE  TypeOK'
<1> USE DEF redis, files, agent, HasProcess
<1>1. ASSUME NEW joint \in BOOLEAN, BackupBegin(h, joint)
      PROVE  TypeOK'
  <2>1. [pc |-> "bgsave", ts |-> clock, joint |-> joint] \in HandlerState
    BY DEF TypeOK, HandlerState
  <2>2. handler' \in [Handler -> HandlerState]
    BY <1>1, <2>1, HandlerTypes DEF BackupBegin
  <2> QED
    BY <1>1, <2>2 DEF BackupBegin, TypeOK
<1>2. CASE BgSave(h)
  <2>1. handler' \in [Handler -> HandlerState]
    BY <1>2, GotoTypes DEF BgSave
  <2> QED
    BY <1>2, <2>1 DEF BgSave, TypeOK
<1>3. CASE Rewrite(h)
  <2>1. handler' \in [Handler -> HandlerState]
    BY <1>3, GotoTypes DEF Rewrite
  <2>2. disk' \in DataFiles
    BY <1>3 DEF Rewrite, TypeOK, DataFiles
  <2> QED
    BY <1>3, <2>1, <2>2 DEF Rewrite, TypeOK
<1>4. CASE MakeSet(h)
  <2>1. handler' \in [Handler -> HandlerState]
    BY <1>4, GotoTypes DEF MakeSet
  <2>2. sets' \subseteq BackupSet
    BY <1>4, EmptyTypes DEF MakeSet, TypeOK
  <2> QED
    BY <1>4, <2>1, <2>2 DEF MakeSet, TypeOK
<1>5. CASE OpenSet(h)
  <2>1. handler' \in [Handler -> HandlerState]
    BY <1>5, GotoTypes DEF OpenSet
  <2>2. \A s \in BackupSet : [s EXCEPT !.dump = NONE] \in BackupSet
    BY DEF BackupSet
  <2>3. Entry(h) \subseteq BackupSet /\ Empty(h) \in BackupSet /\ sets \subseteq BackupSet
    BY EmptyTypes DEF Entry, TypeOK
  <2>4. sets' \subseteq BackupSet
    BY <1>5, <2>2, <2>3 DEF OpenSet
  <2> QED
    BY <1>5, <2>1, <2>4 DEF OpenSet, TypeOK
<1>6. CASE CopyDump(h)
  <2>1. handler' \in [Handler -> HandlerState]
    BY <1>6, GotoTypes DEF CopyDump
  <2>2. sets' \subseteq BackupSet
    BY <1>6 DEF CopyDump, TypeOK, Entry, BackupSet, DataFiles
  <2> QED
    BY <1>6, <2>1, <2>2 DEF CopyDump, TypeOK
<1>7. CASE CopyAof(h)
  <2>1. handler' \in [Handler -> HandlerState]
    BY <1>7, GotoTypes DEF CopyAof
  <2>2. disk.aof \in Data \cup {NONE, HALF}
    BY DEF TypeOK, DataFiles
  <2>3. sets' \subseteq BackupSet
    BY <1>7, <2>2, FilledTypes DEF CopyAof, TypeOK, Entry
  <2> QED
    BY <1>7, <2>1, <2>3 DEF CopyAof, TypeOK
<1>8. CASE CopyAofFails(h)
  <2>1. handler' \in [Handler -> HandlerState]
    BY <1>8, ReturnTypes DEF CopyAofFails
  <2>2. sets' \subseteq BackupSet
    BY <1>8, FilledTypes DEF CopyAofFails, TypeOK, Entry
  <2> QED
    BY <1>8, <2>1, <2>2 DEF CopyAofFails, TypeOK
<1>9. CASE Rotate(h)
  <2>1. handler' \in [Handler -> HandlerState]
    BY <1>9, ReturnTypes DEF Rotate
  <2> QED
    BY <1>9, <2>1 DEF Rotate, Newest, TypeOK
<1> QED
  BY <1>1, <1>2, <1>3, <1>4, <1>5, <1>6, <1>7, <1>8, <1>9

LEMMA RestoreTypes ==
    ASSUME TypeOK, NEW h \in Handler,
           \/ \E ts \in 0..MaxClock : RestoreStop(h, ts)
           \/ PutDump(h) \/ DropAof(h) \/ PutAof(h) \/ RestoreStart(h)
    PROVE  TypeOK'
<1> USE DEF redis, files, agent, HasProcess
<1>1. ASSUME NEW ts \in 0..MaxClock, RestoreStop(h, ts)
      PROVE  TypeOK'
  <2>1. [pc |-> "putDump", ts |-> ts, joint |-> FALSE] \in HandlerState
    BY DEF HandlerState
  <2>2. handler' \in [Handler -> HandlerState]
    BY <1>1, <2>1, HandlerTypes DEF RestoreStop
  <2> QED
    BY <1>1, <2>2, PodmanTypes DEF RestoreStop, TypeOK
<1>2. CASE PutDump(h)
  <2>1. PICK s \in sets :
          /\ disk' = [disk EXCEPT !.rdb = s.dump]
          /\ handler' = [handler EXCEPT ![h].pc = "dropAof", ![h].joint = s.joint]
    BY <1>2 DEF PutDump
  <2>2. s \in BackupSet
    BY DEF TypeOK
  <2>3. disk' \in DataFiles
    BY <2>1, <2>2 DEF TypeOK, DataFiles, BackupSet
  <2>4. handler' \in [Handler -> HandlerState]
    BY <2>1, <2>2 DEF TypeOK, HandlerState, BackupSet
  <2> QED
    BY <1>2, <2>3, <2>4 DEF PutDump, TypeOK
<1>3. CASE PutAof(h)
  <2>1. handler' \in [Handler -> HandlerState]
    BY <1>3, GotoTypes DEF PutAof
  <2>2. disk' \in DataFiles
    BY <1>3 DEF PutAof, TypeOK, DataFiles
  <2> QED
    BY <1>3, <2>1, <2>2 DEF PutAof, TypeOK
<1>4. CASE RestoreStart(h)
  <2>1. handler' \in [Handler -> HandlerState]
    BY <1>4, ReturnTypes DEF RestoreStart
  <2> QED
    BY <1>4, <2>1, PodmanTypes DEF RestoreStart, TypeOK
<1>5. CASE DropAof(h)
  <2>1. handler' \in [Handler -> HandlerState]
    BY <1>5, GotoTypes DEF DropAof
  <2>2. disk' \in DataFiles
    BY <1>5 DEF DropAof, TypeOK, DataFiles
  <2> QED
    BY <1>5, <2>1, <2>2 DEF DropAof, TypeOK
<1> QED
  BY <1>1, <1>2, <1>3, <1>4, <1>5

LEMMA HealthTypes ==
    ASSUME TypeOK, HealthList \/ HealthPing \/ HealthRestart \/ AgentRestart
    PROVE  TypeOK'
<1> USE DEF redis, files, agent, HasProcess
<1>1. CASE HealthList
  BY <1>1 DEF HealthList, TypeOK
<1>2. CASE HealthPing
  BY <1>2 DEF HealthPing, TypeOK
<1>3. CASE HealthRestart
  BY <1>3, PodmanTypes DEF HealthRestart, TypeOK
<1>4. CASE AgentRestart
  <2>1. Idle \in HandlerState
    BY AgentNumbers DEF Idle, HandlerState
  <2> QED
    BY <1>4, <2>1 DEF AgentRestart, TypeOK
<1> QED
  BY <1>1, <1>2, <1>3, <1>4

LEMMA InitTypes == Init => TypeOK
<1> SUFFICES ASSUME Init
             PROVE  TypeOK
  OBVIOUS
<1>1. Idle \in HandlerState
  BY AgentNumbers DEF Idle, HandlerState
<1>2. disk \in DataFiles
  BY DEF Init, DataFiles
<1>3. tries \in 0..Tries /\ clock \in 0..MaxClock /\ writes \in 0..MaxWrites
  BY AgentNumbers DEF Init
<1> QED
  BY <1>1, <1>2, <1>3 DEF Init, TypeOK, HasProcess

LEMMA StepTypes == TypeOK /\ [Next]_vars => TypeOK'
<1> SUFFICES ASSUME TypeOK, [Next]_vars
             PROVE  TypeOK'
  OBVIOUS
<1>1. CASE External
  BY <1>1, ExternalTypes
<1>2. ASSUME NEW h \in Handler, Handle(h)
      PROVE  TypeOK'
  BY <1>2, LifecycleTypes, BackupTypes, RestoreTypes DEF Handle
<1>3. CASE HealthList \/ HealthPing \/ HealthRestart \/ AgentRestart
  BY <1>3, HealthTypes
<1>4. CASE UNCHANGED vars
  BY <1>4 DEF vars, TypeOK, HasProcess
<1> QED
  BY <1>1, <1>2, <1>3, <1>4 DEF Next

\* Every variable stays in its range, and there is a dataset in memory exactly
\* while the container runs.
THEOREM TypeCorrect == Spec => []TypeOK
BY InitTypes, StepTypes, PTL DEF Spec

-----------------------------------------------------------------------------
(* The last whole backup.                                                  *)

\* There is one backup of a name.
NamesAreUnique ==
    \A s, t \in sets : s.ts = t.ts /\ s.joint = t.joint => s = t

\* What a handler has made of its backup so far: the dump is there before the
\* AOF is copied, and both are when the others are counted.
BackupInvariant ==
    \A h \in Handler :
        /\ At(h, "aof") => \A s \in Entry(h) : s.dump # NONE
        /\ At(h, "rotate") => \E s \in Entry(h) : s.dump # NONE /\ (s.joint => s.aof # NONE)

KeepInv == TypeOK /\ NamesAreUnique /\ BackupInvariant

OneHandler == \A h, k \in Handler : h = k

\* A step that changes no backup and copies none.
LEMMA OtherStepsKeep ==
    ASSUME KeepInv, sets' = sets,
           \A h \in Handler : \/ handler'[h] = handler[h]
                              \/ handler'[h].pc \notin {"aof", "rotate"}
    PROVE  NamesAreUnique' /\ BackupInvariant'
BY DEF KeepInv, NamesAreUnique, BackupInvariant, Entry, At

LEMMA GotoKeeps ==
    ASSUME KeepInv, sets' = sets, NEW h \in Handler, NEW pc, pc \notin {"aof", "rotate"},
           Goto(h, pc)
    PROVE  NamesAreUnique' /\ BackupInvariant'
<1>1. \A k \in Handler : handler'[k] = handler[k] \/ handler'[k].pc = pc
  BY DEF Goto, KeepInv, TypeOK, HandlerState
<1> QED
  BY <1>1, OtherStepsKeep

LEMMA ReturnKeeps ==
    ASSUME KeepInv, sets' = sets, NEW h \in Handler, Return(h)
    PROVE  NamesAreUnique' /\ BackupInvariant'
<1>1. \A k \in Handler : handler'[k] = handler[k] \/ handler'[k].pc = "idle"
  BY DEF Return, Idle, KeepInv, TypeOK
<1> QED
  BY <1>1, OtherStepsKeep

\* Nothing but the steps below touches backups.
LEMMA LifecycleKeeps ==
    ASSUME KeepInv, NEW h \in Handler,
           \/ \E kind \in {"aof", "rdb"} : CreateConf(h, kind) \/ ConfigRewrite(h, kind)
           \/ CreateRun(h) \/ CreateStore(h)
           \/ Start(h) \/ Stop(h)
           \/ \E clean \in BOOLEAN : DeleteRemove(h, clean)
           \/ ConfigStop(h) \/ ConfigStart(h)
           \/ CommandFails(h)
    PROVE  NamesAreUnique' /\ BackupInvariant'
<1> USE DEF files, agent
<1>1. CASE Start(h) \/ Stop(h) \/ (\E clean \in BOOLEAN : DeleteRemove(h, clean) /\ ~clean)
  <2>1. sets' = sets /\ handler' = handler
    BY <1>1 DEF Start, Stop, DeleteRemove
  <2> QED
    BY <2>1, OtherStepsKeep
<1>2. CASE \E kind \in {"aof", "rdb"} : CreateConf(h, kind) \/ ConfigRewrite(h, kind)
  BY <1>2, GotoKeeps DEF CreateConf, ConfigRewrite, Render
<1>3. CASE CreateRun(h)
  BY <1>3, GotoKeeps DEF CreateRun
<1>4. CASE CreateStore(h) \/ ConfigStart(h) \/ CommandFails(h)
  BY <1>4, ReturnKeeps DEF CreateStore, ConfigStart, CommandFails
<1>5. CASE \E clean \in BOOLEAN : DeleteRemove(h, clean) /\ clean
  BY <1>5, GotoKeeps DEF DeleteRemove
<1>6. CASE ConfigStop(h)
  BY <1>6, GotoKeeps DEF ConfigStop
<1> QED
  BY <1>1, <1>2, <1>3, <1>4, <1>5, <1>6

LEMMA RestoreKeeps ==
    ASSUME KeepInv, NEW h \in Handler,
           \/ \E ts \in 0..MaxClock : RestoreStop(h, ts)
           \/ PutDump(h) \/ DropAof(h) \/ PutAof(h) \/ RestoreStart(h)
    PROVE  NamesAreUnique' /\ BackupInvariant'
<1>1. ASSUME NEW ts \in 0..MaxClock, RestoreStop(h, ts)
      PROVE  NamesAreUnique' /\ BackupInvariant'
  <2>1. sets' = sets /\ \A k \in Handler : handler'[k] = handler[k] \/ handler'[k].pc = "putDump"
    BY <1>1 DEF RestoreStop, KeepInv, TypeOK
  <2> QED
    BY <2>1, OtherStepsKeep
<1>2. CASE PutDump(h)
  <2>1. sets' = sets /\ \A k \in Handler : handler'[k] = handler[k] \/ handler'[k].pc = "dropAof"
    BY <1>2 DEF PutDump, KeepInv, TypeOK, HandlerState
  <2> QED
    BY <2>1, OtherStepsKeep
<1>3. CASE DropAof(h) \/ PutAof(h)
  BY <1>3, GotoKeeps DEF DropAof, PutAof
<1>4. CASE RestoreStart(h)
  BY <1>4, ReturnKeeps DEF RestoreStart
<1> QED
  BY <1>1, <1>2, <1>3, <1>4

\* The name of a backup that is copied into does not change.
LEMMA FilledKeepsName ==
    ASSUME NEW s \in BackupSet, NEW d, NEW aof
    PROVE  /\ [s EXCEPT !.dump = d].ts = s.ts /\ [s EXCEPT !.dump = d].joint = s.joint
           /\ [s EXCEPT !.dump = d].dump = d /\ [s EXCEPT !.dump = d].aof = s.aof
           /\ Filled(s, aof).ts = s.ts /\ Filled(s, aof).joint = s.joint
           /\ Filled(s, aof).dump = s.dump
           /\ Filled(s, aof).aof = IF s.aof = NONE THEN aof ELSE s.aof
BY DEF Filled, BackupSet

\* One backup is replaced by another of its name.
LEMMA ReplacedIsUnique ==
    ASSUME NamesAreUnique, NEW s \in sets, NEW e, e.ts = s.ts, e.joint = s.joint,
           sets' = (sets \ {s}) \cup {e}
    PROVE  NamesAreUnique'
BY DEF NamesAreUnique

\* The steps of the backup itself, with no other handler beside it.
LEMMA BackupKeeps ==
    ASSUME KeepInv, OneHandler, NEW h \in Handler,
           \/ \E joint \in BOOLEAN : BackupBegin(h, joint)
           \/ BgSave(h) \/ Rewrite(h) \/ DeleteClean(h)
           \/ MakeSet(h) \/ OpenSet(h) \/ CopyDump(h) \/ CopyAof(h) \/ CopyAofFails(h) \/ Rotate(h)
    PROVE  NamesAreUnique' /\ BackupInvariant'
<1> USE DEF files, agent
<1>0. /\ \A k \in Handler : k = h
      /\ handler \in [Handler -> HandlerState] /\ sets \subseteq BackupSet
  BY DEF OneHandler, KeepInv, TypeOK
<1>1. ASSUME NEW joint \in BOOLEAN, BackupBegin(h, joint)
      PROVE  NamesAreUnique' /\ BackupInvariant'
  <2>1. sets' = sets /\ \A k \in Handler : handler'[k] = handler[k] \/ handler'[k].pc = "bgsave"
    BY <1>0, <1>1 DEF BackupBegin
  <2> QED
    BY <2>1, OtherStepsKeep
<1>2. CASE BgSave(h)
  <2>1. PICK pc \in {"rewrite", "open"} : Goto(h, pc)
    BY <1>2 DEF BgSave
  <2> QED
    BY <1>2, <2>1, GotoKeeps DEF BgSave
<1>3. CASE Rewrite(h)
  BY <1>3, GotoKeeps DEF Rewrite
<1>4. CASE DeleteClean(h)
  BY <1>0, <1>4 DEF DeleteClean, Return, Idle, NamesAreUnique, BackupInvariant, At
<1>5. CASE MakeSet(h)
  <2>1. handler'[h].pc = "open"
    BY <1>0, <1>5 DEF MakeSet, Goto, HandlerState
  <2>2. NamesAreUnique'
    BY <1>5 DEF MakeSet, KeepInv, NamesAreUnique, Entry, Empty
  <2> QED
    BY <1>0, <2>1, <2>2 DEF BackupInvariant, At
<1>6. CASE OpenSet(h)
  <2>1. handler'[h].pc = "dump"
    BY <1>0, <1>6 DEF OpenSet, Goto, HandlerState
  <2>2. CASE Entry(h) = {}
    <3>1. sets' = sets \cup {[Empty(h) EXCEPT !.dump = NONE]}
      BY <1>6, <2>2 DEF OpenSet
    <3>2. [Empty(h) EXCEPT !.dump = NONE] = Empty(h)
      BY DEF Empty
    <3>3. NamesAreUnique'
      BY <2>2, <3>1, <3>2 DEF KeepInv, NamesAreUnique, Entry, Empty
    <3> QED
      BY <1>0, <2>1, <3>3 DEF BackupInvariant, At
  <2>3. CASE Entry(h) # {}
    <3>1. PICK s \in Entry(h) : TRUE
      BY <2>3
    <3>2. s \in sets /\ s \in BackupSet /\ Entry(h) = {s}
      BY <1>0, <3>1 DEF Entry, KeepInv, NamesAreUnique
    <3>3. sets' = (sets \ {s}) \cup {[s EXCEPT !.dump = NONE]}
      BY <1>6, <3>2 DEF OpenSet
    <3>4. NamesAreUnique'
      BY <3>2, <3>3, FilledKeepsName, ReplacedIsUnique DEF KeepInv
    <3> QED
      BY <1>0, <2>1, <3>4 DEF BackupInvariant, At
  <2> QED
    BY <2>2, <2>3
<1>7. CASE CopyDump(h)
  <2>1. PICK s \in Entry(h) : sets' = (sets \ {s}) \cup {[s EXCEPT !.dump = disk.rdb]}
    BY <1>7 DEF CopyDump
  <2> DEFINE e == [s EXCEPT !.dump = disk.rdb]
  <2>2. /\ s \in sets /\ s \in BackupSet /\ s.ts = handler[h].ts /\ s.joint = handler[h].joint
        /\ Entry(h) = {s}
    BY <1>0, <2>1 DEF Entry, KeepInv, NamesAreUnique
  <2>3. e.ts = s.ts /\ e.joint = s.joint /\ e.dump # NONE
    BY <1>7, <2>2, FilledKeepsName DEF CopyDump
  <2>4. /\ handler'[h].pc = (IF handler[h].joint THEN "aof" ELSE "rotate")
        /\ handler'[h].ts = handler[h].ts /\ handler'[h].joint = handler[h].joint
    BY <1>0, <1>7 DEF CopyDump, Goto, HandlerState
  <2>5. sets' = (sets \ {s}) \cup {e}
    BY <2>1
  <2> HIDE DEF e
  <2>6. NamesAreUnique'
    BY <2>2, <2>3, <2>5, ReplacedIsUnique DEF KeepInv
  <2>7. Entry(h)' = {e}
    BY <2>2, <2>3, <2>4, <2>5 DEF Entry
  <2> QED
    BY <1>0, <2>2, <2>3, <2>4, <2>6, <2>7 DEF BackupInvariant, At
<1>8. CASE CopyAof(h)
  <2>1. PICK s \in Entry(h) : sets' = (sets \ {s}) \cup {Filled(s, disk.aof)}
    BY <1>8 DEF CopyAof
  <2> DEFINE e == Filled(s, disk.aof)
  <2>2. /\ s \in sets /\ s \in BackupSet /\ s.ts = handler[h].ts /\ s.joint = handler[h].joint
        /\ s.dump # NONE
    BY <1>0, <1>8, <2>1 DEF Entry, KeepInv, BackupInvariant, CopyAof
  <2>3. e.ts = s.ts /\ e.joint = s.joint /\ e.dump # NONE /\ e.aof # NONE
    BY <1>8, <2>2, FilledKeepsName DEF CopyAof
  <2>4. /\ handler'[h].pc = "rotate"
        /\ handler'[h].ts = handler[h].ts /\ handler'[h].joint = handler[h].joint
    BY <1>0, <1>8 DEF CopyAof, Goto, HandlerState
  <2>5. sets' = (sets \ {s}) \cup {e}
    BY <2>1
  <2> HIDE DEF e
  <2>6. NamesAreUnique'
    BY <2>2, <2>3, <2>5, ReplacedIsUnique DEF KeepInv
  <2>7. e \in Entry(h)'
    BY <2>2, <2>3, <2>4, <2>5 DEF Entry
  <2> QED
    BY <1>0, <2>3, <2>4, <2>6, <2>7 DEF BackupInvariant, At
<1>9. CASE CopyAofFails(h)
  <2>1. handler'[h].pc = "idle"
    BY <1>0, <1>9 DEF CopyAofFails, Return, Idle
  <2>2. NamesAreUnique'
    <3>1. CASE sets' = sets
      BY <3>1 DEF KeepInv, NamesAreUnique
    <3>2. ASSUME NEW s \in Entry(h), sets' = (sets \ {s}) \cup {Filled(s, HALF)}
          PROVE  NamesAreUnique'
      <4>1. s \in sets /\ s \in BackupSet
        BY <1>0 DEF Entry
      <4> QED
        BY <3>2, <4>1, FilledKeepsName, ReplacedIsUnique DEF KeepInv
    <3> QED
      BY <1>9, <3>1, <3>2 DEF CopyAofFails
  <2> QED
    BY <1>0, <2>1, <2>2 DEF BackupInvariant, At
<1>10. CASE Rotate(h)
  <2>1. handler'[h].pc = "idle" /\ sets' \subseteq sets
    BY <1>0, <1>10 DEF Rotate, Return, Idle, Newest
  <2> QED
    BY <1>0, <2>1 DEF KeepInv, NamesAreUnique, BackupInvariant, At
<1> QED
  BY <1>1, <1>2, <1>3, <1>4, <1>5, <1>6, <1>7, <1>8, <1>9, <1>10

\* One handler at a time: the invariant holds.
LEMMA KeepInvariant ==
    ASSUME OneHandler
    PROVE  Spec => []KeepInv
<1>1. Init => KeepInv
  <2> SUFFICES ASSUME Init
               PROVE  KeepInv
    OBVIOUS
  <2>1. TypeOK
    BY InitTypes
  <2>2. NamesAreUnique /\ BackupInvariant
    BY DEF Init, NamesAreUnique, BackupInvariant, Idle, At
  <2> QED
    BY <2>1, <2>2 DEF KeepInv
<1>2. KeepInv /\ [Next]_vars => KeepInv'
  <2> SUFFICES ASSUME KeepInv, [Next]_vars
               PROVE  NamesAreUnique' /\ BackupInvariant' /\ TypeOK'
    BY DEF KeepInv
  <2>1. TypeOK'
    BY StepTypes DEF KeepInv
  <2>2. CASE External \/ HealthList \/ HealthPing \/ HealthRestart \/ UNCHANGED vars
    <3>1. sets' = sets /\ handler' = handler
      BY <2>2 DEF External, Load, Write, SaveDone, Hang, Crash, PodmanRetries, Clock, HealthList,
                  HealthPing, HealthRestart, vars, files, agent
    <3> QED
      BY <2>1, <3>1, OtherStepsKeep
  <2>3. CASE AgentRestart
    <3>1. sets' = sets /\ \A h \in Handler : handler'[h].pc = "idle"
      BY <2>3 DEF AgentRestart, files, Idle
    <3> QED
      BY <2>1, <3>1, OtherStepsKeep
  <2>4. ASSUME NEW h \in Handler, Handle(h)
        PROVE  NamesAreUnique' /\ BackupInvariant'
    BY <2>4, LifecycleKeeps, RestoreKeeps, BackupKeeps DEF Handle
  <2> QED
    BY <2>1, <2>2, <2>3, <2>4 DEF Next
<1> QED
  BY <1>1, <1>2, PTL DEF Spec

\* A rotation keeps a backup that no other comes after.
LEMMA RotationKeepsLast ==
    ASSUME NEW S, NEW w \in S, \A s \in S : ~Later(s, w), NEW n \in Nat, n > 0
    PROVE  w \in Newest(n, S)
<1>1. {t \in S : Later(t, w)} = {}
  OBVIOUS
<1>2. Cardinality({t \in S : Later(t, w)}) = 0
  BY <1>1, FS_EmptySet
<1> QED
  BY <1>2 DEF Newest

\* A whole backup stays whole when a dump is put in it, and an AOF changes
\* nothing.
LEMMA CopiesKeepWhole ==
    ASSUME NEW w \in BackupSet, Whole(w), NEW d, d # NONE, NEW aof
    PROVE  Whole([w EXCEPT !.dump = d]) /\ Whole(Filled(w, aof))
<1>1. w.joint => w.aof # NONE
  BY NoneIsNoData, AgentNumbers DEF Whole, Data
<1>2. Whole([w EXCEPT !.dump = d])
  BY FilledKeepsName DEF Whole
<1>3. Whole(Filled(w, aof))
  BY <1>1, FilledKeepsName DEF Whole
<1> QED
  BY <1>2, <1>3

\* When the agent has one request at a time, whatever fails or restarts and
\* for any number of backups to keep, the last whole backup is lost to nothing
\* but a second backup of one second and a clock that was set back.
THEOREM LastWholeIsKept ==
    ASSUME OneHandler
    PROVE  Spec => KeepsAWhole
<1> DEFINE HasWhole == \E s \in sets : Whole(s)
<1> DEFINE Excused == \E h \in Handler : Overwrites(h) \/ Misplaced(h)
<1>1. KeepInv /\ [Next]_vars => (HasWhole => conf' = "none" \/ HasWhole' \/ Excused)
  <2> SUFFICES ASSUME KeepInv, [Next]_vars, HasWhole, ~Excused
               PROVE  conf' = "none" \/ HasWhole'
    OBVIOUS
  <2>1. PICK w \in sets : Whole(w)
    OBVIOUS
  <2>2. w \in BackupSet /\ sets \subseteq BackupSet
    BY DEF KeepInv, TypeOK
  <2>3. ASSUME NEW h \in Handler, CopyDump(h)
        PROVE  HasWhole'
    <3>1. PICK s \in Entry(h) : sets' = (sets \ {s}) \cup {[s EXCEPT !.dump = disk.rdb]}
      BY <2>3 DEF CopyDump
    <3>2. w # s => w \in sets'
      BY <3>1
    <3>3. w = s => Whole([s EXCEPT !.dump = disk.rdb])
      BY <2>1, <2>2, <2>3, CopiesKeepWhole DEF CopyDump
    <3> QED
      BY <2>1, <3>1, <3>2, <3>3 DEF Whole
  <2>4. ASSUME NEW h \in Handler, NEW aof, NEW s \in Entry(h),
               sets' = (sets \ {s}) \cup {Filled(s, aof)}
        PROVE  HasWhole'
    <3>1. w # s => w \in sets'
      BY <2>4
    <3>2. w = s => Whole(Filled(s, aof))
      <4>1. PICK d : d # NONE
        BY NoneIsNoData, AgentNumbers
      <4> QED
        BY <2>1, <2>2, <4>1, CopiesKeepWhole
    <3> QED
      BY <2>1, <2>4, <3>1, <3>2 DEF Whole
  <2>5. ASSUME NEW h \in Handler, Rotate(h)
        PROVE  HasWhole'
    <3>1. PICK s \in Entry(h) : s.dump # NONE /\ (s.joint => s.aof # NONE)
      BY <2>5 DEF Rotate, KeepInv, BackupInvariant
    <3>2. s.aof # HALF /\ \A t \in sets : ~Later(t, s)
      BY <2>5 DEF Misplaced
    <3>3. s \in sets /\ Whole(s)
      BY <2>2, <3>1, <3>2 DEF Entry, Whole, BackupSet
    <3>4. Retention > 0 => s \in Newest(Retention, sets)
      BY <3>2, <3>3, RotationKeepsLast, AgentNumbers
    <3> QED
      BY <2>5, <3>3, <3>4 DEF Rotate
  <2>6. ASSUME NEW h \in Handler, OpenSet(h)
        PROVE  HasWhole'
    <3>1. w \notin Entry(h)
      BY <2>1, <2>6 DEF Overwrites
    <3>2. w \in sets'
      BY <2>6, <3>1 DEF OpenSet
    <3> QED
      BY <2>1, <3>2
  <2>7. ASSUME NEW h \in Handler, MakeSet(h)
        PROVE  HasWhole'
    BY <2>1, <2>7 DEF MakeSet
  <2>8. ASSUME NEW h \in Handler, DeleteClean(h)
        PROVE  conf' = "none"
    BY <2>8 DEF DeleteClean
  <2>9. CASE sets' = sets
    BY <2>9 DEF Whole
  <2>10. \/ sets' = sets
         \/ \E h \in Handler : \/ CopyDump(h) \/ Rotate(h) \/ OpenSet(h) \/ MakeSet(h) \/ DeleteClean(h)
                               \/ \E s \in Entry(h), aof \in {disk.aof, HALF} :
                                      sets' = (sets \ {s}) \cup {Filled(s, aof)}
    BY DEF Next, External, Handle, Load, Write, SaveDone, Hang, Crash, PodmanRetries, Clock,
           CreateConf, CreateRun, CreateStore, Start, Stop, DeleteRemove, ConfigRewrite, ConfigStop,
           ConfigStart, CommandFails, BackupBegin, BgSave, Rewrite, CopyAof, CopyAofFails, RestoreStop,
           PutDump, DropAof, PutAof, RestoreStart, HealthList, HealthPing, HealthRestart, AgentRestart,
           vars, files
  <2> QED
    BY <2>3, <2>4, <2>5, <2>6, <2>7, <2>8, <2>9, <2>10
<1>2. KeepInv /\ [Next]_vars =>
        [(\E s \in sets : Whole(s)) =>
            \/ conf' = "none"
            \/ \E s \in sets' : Whole(s)
            \/ \E h \in Handler : Overwrites(h) \/ Misplaced(h)]_vars
  BY <1>1 DEF Whole
<1> QED
  BY <1>2, KeepInvariant, PTL DEF Spec, KeepsAWhole

=============================================================================
