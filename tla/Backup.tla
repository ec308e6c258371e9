------------------------------- MODULE Backup -------------------------------
(***************************************************************************)
(* The backup coordinator (backup/api.ts, backup/state.ts): a host asks    *)
(* for a backup with POST /start, polls until the phase is "ready", takes  *)
(* a file system snapshot and sends POST /stop.  A task prepares the       *)
(* backup in the background (pause the scan workers, pg_backup_start,      *)
(* pg_dump), and a timer forces the end when no /stop arrives.             *)
(*                                                                         *)
(* A step of the model is what the process does between two awaits that    *)
(* really wait.  An await of a promise that is already settled does not    *)
(* let another request in, and is no step of its own.                      *)
(*                                                                         *)
(* The queries run on the pool of backup/pool.ts: at most MaxConnections   *)
(* sessions, the one released last is taken first, and a session that      *)
(* stays unused is closed.  Backup mode belongs to the session that called *)
(* pg_backup_start and ends with it.                                       *)
(***************************************************************************)
EXTENDS Sequences, SequencesExt, FiniteSets

CONSTANTS Runs,          \* the POST /start requests
          Stops,         \* the POST /stop requests
          Connections,   \* the sessions the pool may hold open
          NoRun, NoConnection

ASSUME BackupAssumption == /\ NoRun \notin Runs
                           /\ NoConnection \notin Connections

VARIABLES active, phase, label, pgBackupStarted, autoStopTimer,  \* state.ts
          prepTask,        \* the run whose prep the module's handles point to
          workersPaused,   \* photo/scan-worker.ts
          armed,           \* the runs whose timer has neither fired nor been cleared
          aborted,         \* the runs whose AbortSignal is set
          awaited,         \* the run whose prep a forced stop waits for
          pc,              \* where each task stands
          idle,            \* the pool's unused sessions, the last released last
          conn,            \* the session a task's query runs on
          inBackup,        \* the sessions in backup mode
          overlapped       \* history: a run was started beside another run or
                           \* beside an unfinished forced stop

state == <<active, phase, label, pgBackupStarted, autoStopTimer>>
pool == <<idle, conn, inBackup>>
vars == <<state, prepTask, awaited, workersPaused, armed, aborted, pc, pool, overlapped>>

Phases == {"idle", "draining", "dumping", "ready", "stopping", "failed"}
Over == {"idle", "failed"}

Prep(r) == <<"prep", r>>
Timer(r) == <<"auto", r>>
Stop(s) == <<"stop", s>>
Tasks == ({"prep", "auto"} \X Runs) \cup ({"stop"} \X Stops)

Querying == {"starting", "unwinding"}
InFlight(t) == pc[t] \notin {"new", "ended"}
Goto(t, where) == pc' = [pc EXCEPT ![t] = where]

Init ==
    /\ active = FALSE /\ phase = "idle" /\ label = NoRun
    /\ pgBackupStarted = FALSE /\ autoStopTimer = NoRun
    /\ prepTask = NoRun /\ workersPaused = FALSE
    /\ armed = {} /\ aborted = {} /\ awaited = [r \in Runs |-> NoRun]
    /\ pc = [t \in Tasks |-> "new"]
    /\ idle = <<>> /\ conn = [t \in Tasks |-> NoConnection] /\ inBackup = {}
    /\ overlapped = FALSE

-----------------------------------------------------------------------------
(* state.ts *)

SetBackupActive(r) ==
    /\ active' = TRUE /\ phase' = "draining" /\ label' = r
    /\ pgBackupStarted' = FALSE /\ autoStopTimer' = r

SetPhase(p) ==
    phase' = p /\ UNCHANGED <<active, label, pgBackupStarted, autoStopTimer>>

MarkFailed ==
    /\ active' = FALSE /\ phase' = "failed"
    /\ pgBackupStarted' = FALSE /\ autoStopTimer' = NoRun
    /\ UNCHANGED label

ClearBackupActive ==
    /\ active' = FALSE /\ phase' = "idle" /\ label' = NoRun
    /\ pgBackupStarted' = FALSE /\ autoStopTimer' = NoRun

ResumeWorkers == workersPaused' = FALSE

-----------------------------------------------------------------------------
(* The pool *)

InUse == {conn[t] : t \in Tasks} \ {NoConnection}
Idle == ToSet(idle)

(* A query takes the session released last, or opens one. *)
Connect(t) ==
    /\ pc[t] \in Querying /\ conn[t] = NoConnection
    /\ \/ /\ idle # <<>>
          /\ conn' = [conn EXCEPT ![t] = Last(idle)]
          /\ idle' = Front(idle)
       \/ /\ idle = <<>>
          /\ \E c \in Connections \ InUse : conn' = [conn EXCEPT ![t] = c]
          /\ UNCHANGED idle
    /\ UNCHANGED <<state, prepTask, awaited, workersPaused, armed, aborted, pc, inBackup, overlapped>>

Release(t) ==
    /\ idle' = Append(idle, conn[t])
    /\ conn' = [conn EXCEPT ![t] = NoConnection]

(* A session nobody used for a while is closed; its backup mode ends. *)
IdleTimeout ==
    \E i \in DOMAIN idle :
        /\ idle' = RemoveAt(idle, i)
        /\ inBackup' = inBackup \ {idle[i]}
        /\ UNCHANGED <<state, prepTask, awaited, workersPaused, armed, aborted, pc, conn, overlapped>>

(* A query fails: its session is lost, or none came in time. *)
QueryFails(t) ==
    /\ pc[t] \in Querying
    /\ conn[t] = NoConnection => idle = <<>>
    /\ conn' = [conn EXCEPT ![t] = NoConnection]
    /\ inBackup' = inBackup \ {conn[t]}
    /\ UNCHANGED idle

-----------------------------------------------------------------------------
(* bestEffortUnwind and what follows it *)

(* Prep r is over.  The forced stops that await it go on in the same turn: *)
(* they find nothing left to unwind, and mark the failed run failed again. *)
EndOfPrep(r) ==
    pc' = [t \in Tasks |-> IF t = Prep(r) \/ (pc[t] = "waiting" /\ awaited[t[2]] = r)
                           THEN "ended" ELSE pc[t]]

(* After the unwinding /stop clears the state, the two others mark it      *)
(* failed; both clear the timer.                                           *)
EndOfUnwind(t, timers) ==
    /\ ResumeWorkers
    /\ IF t[1] = "stop" THEN ClearBackupActive ELSE MarkFailed
    /\ armed' = timers \ {autoStopTimer}
    /\ IF t[1] = "prep" THEN EndOfPrep(t[2]) ELSE Goto(t, "ended")

(* Mutant of BestEffortUnwind: resumeWorkers is inside the if. *)
ResumeInsideIf(t, timers) ==
    \/ /\ pgBackupStarted
       /\ Goto(t, "unwinding")
       /\ SetPhase(IF t[1] = "stop" THEN "stopping" ELSE phase)
       /\ armed' = timers
       /\ UNCHANGED workersPaused
    \/ /\ ~pgBackupStarted
       /\ IF t[1] = "stop" THEN ClearBackupActive ELSE MarkFailed
       /\ armed' = timers \ {autoStopTimer}
       /\ IF t[1] = "prep" THEN EndOfPrep(t[2]) ELSE Goto(t, "ended")
       /\ UNCHANGED workersPaused

(* pg_backup_stop is sent only if pg_backup_start went through. *)
BestEffortUnwind(t, timers) ==
    \/ /\ pgBackupStarted
       /\ Goto(t, "unwinding")
       /\ SetPhase(IF t[1] = "stop" THEN "stopping" ELSE phase)
       /\ armed' = timers
       /\ UNCHANGED workersPaused
    \/ ~pgBackupStarted /\ EndOfUnwind(t, timers)

(* It ends the backup mode of its own session; a session that is not in    *)
(* backup mode answers 55000, which is swallowed like any other error.     *)
BackupStopped(t) ==
    /\ pc[t] = "unwinding" /\ conn[t] # NoConnection
    /\ inBackup' = inBackup \ {conn[t]}
    /\ Release(t)
    /\ EndOfUnwind(t, armed)
    /\ UNCHANGED <<prepTask, awaited, aborted, overlapped>>

BackupStopFails(t) ==
    /\ pc[t] = "unwinding"
    /\ QueryFails(t)
    /\ EndOfUnwind(t, armed)
    /\ UNCHANGED <<prepTask, awaited, aborted, overlapped>>

-----------------------------------------------------------------------------
(* POST /start *)

(* The residue of a failed run is cleared; while a run is active a second  *)
(* one is refused.                                                         *)
Start(r) ==
    /\ pc[Prep(r)] = "new"
    /\ IF phase = "failed" THEN ClearBackupActive ELSE UNCHANGED state
    /\ Goto(Prep(r), IF active /\ phase # "failed" THEN "ended" ELSE "tools")
    /\ UNCHANGED <<prepTask, awaited, workersPaused, armed, aborted, pool, overlapped>>

(* assertPgToolsAvailable runs two programs, so that other requests come   *)
(* in before the state is set; what Start found is not looked at again.    *)
ToolsAvailable(r) ==
    /\ pc[Prep(r)] = "tools"
    /\ SetBackupActive(r)
    /\ armed' = armed \cup {r}
    /\ prepTask' = r
    /\ workersPaused' = TRUE
    /\ Goto(Prep(r), "pausing")
    /\ overlapped' = (overlapped \/ active
                         \/ \E t \in Tasks : pc[t] \in {"unwinding", "waiting"})
    /\ UNCHANGED <<awaited, aborted, pool>>

ToolsMissing(r) ==
    /\ pc[Prep(r)] = "tools"
    /\ Goto(Prep(r), "ended")
    /\ UNCHANGED <<state, prepTask, awaited, workersPaused, armed, aborted, pool, overlapped>>

-----------------------------------------------------------------------------
(* runPrep, and handlePrepFailure for its errors *)

PrepFails(r) == BestEffortUnwind(Prep(r), armed)

(* pauseWorkers returns when no scan job is in flight, or after 30 s. *)
WorkersDrained(r) ==
    /\ pc[Prep(r)] = "pausing"
    /\ \/ /\ r \notin aborted
          /\ SetPhase("dumping")
          /\ Goto(Prep(r), "starting")
          /\ UNCHANGED <<workersPaused, armed>>
       \/ r \in aborted /\ PrepFails(r)
    /\ UNCHANGED <<prepTask, awaited, aborted, pool, overlapped>>

(* Mutant of BackupStarted: the look at the signal precedes the mark. *)
SignalBeforeMark(r) ==
    /\ pc[Prep(r)] = "starting"
    /\ conn[Prep(r)] \notin inBackup \cup {NoConnection}
    /\ inBackup' = inBackup \cup {conn[Prep(r)]}
    /\ Release(Prep(r))
    /\ \/ r \in aborted /\ PrepFails(r)
       \/ /\ r \notin aborted
          /\ pgBackupStarted' = TRUE
          /\ Goto(Prep(r), "dumping")
          /\ UNCHANGED <<active, phase, label, autoStopTimer, workersPaused, armed>>
    /\ UNCHANGED <<prepTask, awaited, aborted, overlapped>>

(* pg_backup_start; markPgBackupStarted precedes the look at the signal. *)
BackupStarted(r) ==
    /\ pc[Prep(r)] = "starting"
    /\ conn[Prep(r)] \notin inBackup \cup {NoConnection}
    /\ inBackup' = inBackup \cup {conn[Prep(r)]}
    /\ Release(Prep(r))
    /\ pgBackupStarted' = TRUE
    /\ Goto(Prep(r), IF r \in aborted THEN "unwinding" ELSE "dumping")
    /\ UNCHANGED <<active, phase, label, autoStopTimer, prepTask, awaited,
                    workersPaused, armed, aborted, overlapped>>

(* The server refuses too, a session already in backup mode for one. *)
BackupStartFails(r) ==
    /\ pc[Prep(r)] = "starting"
    /\ \/ QueryFails(Prep(r))
       \/ conn[Prep(r)] # NoConnection /\ Release(Prep(r)) /\ UNCHANGED inBackup
    /\ PrepFails(r)
    /\ UNCHANGED <<prepTask, awaited, aborted, overlapped>>

Dumped(r) ==
    /\ pc[Prep(r)] = "dumping" /\ r \notin aborted
    /\ SetPhase("ready")
    /\ EndOfPrep(r)
    /\ UNCHANGED <<prepTask, awaited, workersPaused, armed, aborted, pool, overlapped>>

(* pg_dump fails, or the signal killed it. *)
DumpFails(r) ==
    /\ pc[Prep(r)] = "dumping"
    /\ PrepFails(r)
    /\ UNCHANGED <<prepTask, awaited, aborted, pool, overlapped>>

-----------------------------------------------------------------------------
(* The safety timer *)

(* Mutants of AutoStopFires: it unwinds at once, with the prep still at    *)
(* work; it waits for the prep without the signal.                         *)
AutoStopAtOnce(r) ==
    /\ r \in armed
    /\ BestEffortUnwind(Timer(r), armed \ {r})
    /\ UNCHANGED <<prepTask, awaited, aborted, pool, overlapped>>

AutoStopWithoutSignal(r) ==
    /\ r \in armed
    /\ \/ /\ InFlight(Prep(prepTask))
          /\ Goto(Timer(r), "waiting")
          /\ awaited' = [awaited EXCEPT ![r] = prepTask]
          /\ armed' = armed \ {r}
          /\ UNCHANGED <<state, workersPaused>>
       \/ /\ ~InFlight(Prep(prepTask))
          /\ BestEffortUnwind(Timer(r), armed \ {r})
          /\ UNCHANGED awaited
    /\ UNCHANGED <<prepTask, aborted, pool, overlapped>>

(* autoStopTimeoutFired signals whichever prep the module's handles point  *)
(* to, and awaits it while it runs.                                        *)
AutoStopFires(r) ==
    /\ r \in armed
    /\ aborted' = aborted \cup {prepTask}
    /\ \/ /\ InFlight(Prep(prepTask))
          /\ Goto(Timer(r), "waiting")
          /\ awaited' = [awaited EXCEPT ![r] = prepTask]
          /\ armed' = armed \ {r}
          /\ UNCHANGED <<state, workersPaused>>
       \/ /\ ~InFlight(Prep(prepTask))
          /\ BestEffortUnwind(Timer(r), armed \ {r})
          /\ UNCHANGED awaited
    /\ UNCHANGED <<prepTask, pool, overlapped>>

-----------------------------------------------------------------------------
(* POST /stop *)

(* Nothing to do when idle, an acknowledgement when failed, refused while  *)
(* another task is at work.                                                *)
StopBackup(s) ==
    /\ pc[Stop(s)] = "new"
    /\ \/ /\ phase \in {"idle", "draining", "dumping", "stopping"}
          /\ Goto(Stop(s), "ended")
          /\ UNCHANGED <<state, workersPaused, armed>>
       \/ /\ phase = "failed"
          /\ ClearBackupActive
          /\ armed' = armed \ {autoStopTimer}
          /\ Goto(Stop(s), "ended")
          /\ UNCHANGED workersPaused
       \/ phase = "ready" /\ BestEffortUnwind(Stop(s), armed)
    /\ UNCHANGED <<prepTask, awaited, aborted, pool, overlapped>>

-----------------------------------------------------------------------------
(* The process dies: its memory, timers and sessions are gone. *)
Restart ==
    /\ active' = FALSE /\ phase' = "idle" /\ label' = NoRun
    /\ pgBackupStarted' = FALSE /\ autoStopTimer' = NoRun
    /\ prepTask' = NoRun /\ workersPaused' = FALSE
    /\ armed' = {} /\ aborted' = {} /\ awaited' = [r \in Runs |-> NoRun]
    /\ pc' = [t \in Tasks |-> IF InFlight(t) THEN "ended" ELSE pc[t]]
    /\ idle' = <<>> /\ conn' = [t \in Tasks |-> NoConnection] /\ inBackup' = {}
    /\ overlapped' = FALSE

-----------------------------------------------------------------------------
PrepNext(r) ==
    \/ ToolsAvailable(r) \/ ToolsMissing(r) \/ WorkersDrained(r)
    \/ BackupStarted(r) \/ BackupStartFails(r) \/ Dumped(r) \/ DumpFails(r)

QueryNext(t) == Connect(t) \/ BackupStopped(t) \/ BackupStopFails(t)

Next ==
    \/ \E r \in Runs : Start(r) \/ PrepNext(r) \/ AutoStopFires(r)
    \/ \E s \in Stops : StopBackup(s)
    \/ \E t \in Tasks : QueryNext(t)
    \/ IdleTimeout
    \/ Restart

Spec == Init /\ [][Next]_vars

(* Timers fire, queries are answered or fail, draining is bounded; pg_dump *)
(* may take for ever, but not once the signal has killed it.  No request   *)
(* is promised, and no restart.                                            *)
Fairness ==
    /\ \A r \in Runs : /\ WF_vars(AutoStopFires(r))
                       /\ WF_vars((pc[Prep(r)] = "dumping" => r \in aborted) /\ PrepNext(r))
    /\ \A t \in Tasks : WF_vars(QueryNext(t))

FairSpec == Spec /\ Fairness
-----------------------------------------------------------------------------
TypeOK ==
    /\ active \in BOOLEAN /\ phase \in Phases /\ label \in Runs \cup {NoRun}
    /\ pgBackupStarted \in BOOLEAN /\ autoStopTimer \in Runs \cup {NoRun}
    /\ prepTask \in Runs \cup {NoRun} /\ workersPaused \in BOOLEAN
    /\ armed \subseteq Runs /\ aborted \subseteq Runs
    /\ awaited \in [Runs -> Runs \cup {NoRun}]
    /\ pc \in [Tasks -> {"new", "tools", "pausing", "starting", "dumping",
                         "waiting", "unwinding", "ended"}]
    /\ Idle \subseteq Connections /\ IsInjective(idle)
    /\ conn \in [Tasks -> Connections \cup {NoConnection}]
    /\ inBackup \subseteq Idle \cup InUse
    /\ Idle \cap InUse = {}
    /\ overlapped \in BOOLEAN

(* Whatever overlaps with whatever, once a run is over the scan workers    *)
(* work: no path through a failure, a forced stop or a second run leaves   *)
(* them paused with nobody left to resume them.                            *)
NeverLeftPaused == phase \in Over => ~workersPaused

(* One run at a time: the maintenance flag is set exactly in the phases    *)
(* state.ts gives for it, and the host is told "ready" only while the      *)
(* application is closed and the workers are paused.                       *)
MaintenanceMatchesPhase ==
    ~overlapped => /\ active <=> phase \notin Over
                   /\ phase \in {"dumping", "ready"} => workersPaused

(* One run at a time: when it is over, by /stop, by a failure at any step  *)
(* or by the timer, no session is left in backup mode.                     *)
BackupModeReleased ==
    (~overlapped /\ phase \in Over /\ \A t \in Tasks : ~InFlight(t)) => inBackup = {}

(* The safety timer: maintenance mode ends though no /stop ever comes,     *)
(* also when two runs overlap and the second takes the first one's place   *)
(* in the state.                                                           *)
MaintenanceEnds == active ~> ~active

(* What the host relies on: when the phase is "ready" pg_backup_start is   *)
(* in effect (scripts/host/fk-encore-backup.sh).                           *)
SnapshotInBackupMode == phase = "ready" => inBackup # {}

(* The timer of an earlier run does not force the end of a later one       *)
(* (backup/state.test.ts).                                                 *)
NoStaleForceStop ==
    [][\A r \in Runs : (pc[Timer(r)] = "new" /\ pc'[Timer(r)] # "new" /\ active)
          => label = r]_vars
=============================================================================
