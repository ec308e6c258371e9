----------------------------- MODULE BackupProofs -----------------------------
(* Theorems about Backup, for any number of requests and sessions.           *)
EXTENDS Backup, LineLemmas, TLAPS

Places == {"new", "tools", "pausing", "starting", "dumping", "waiting", "unwinding", "ended"}

PlacesOK == pc \in [Tasks -> Places]

LEMMA TaskNames ==
  /\ \A r \in Runs : Prep(r) \in Tasks /\ Timer(r) \in Tasks
  /\ \A s \in Stops : Stop(s) \in Tasks
  /\ \A r \in Runs : \A t \in Tasks : t = Prep(r) => t[1] = "prep" /\ t[2] = r
  BY DEF Tasks, Prep, Timer, Stop

LEMMA EndOfUnwindPlaces ==
  ASSUME PlacesOK, NEW t \in Tasks, NEW timers, EndOfUnwind(t, timers)
  PROVE  /\ PlacesOK'
         /\ \A u \in Tasks : pc'[u] # pc[u] => pc'[u] = "ended"
         /\ pc'[t] = "ended"
<1>1. CASE t[1] = "prep"
  <2>1. t = Prep(t[2])
    BY <1>1 DEF Tasks, Prep
  <2> QED
    BY <1>1, <2>1 DEF EndOfUnwind, EndOfPrep, PlacesOK, Places
<1>2. CASE t[1] # "prep"
  BY <1>2 DEF EndOfUnwind, Goto, PlacesOK, Places
<1> QED
  BY <1>1, <1>2

LEMMA UnwindPlaces ==
  ASSUME PlacesOK, NEW t \in Tasks, NEW timers, BestEffortUnwind(t, timers)
  PROVE  /\ PlacesOK'
         /\ \A u \in Tasks : pc'[u] # pc[u] => pc'[u] = "ended" \/ (u = t /\ pc'[u] = "unwinding")
         /\ pc'[t] \in {"ended", "unwinding"}
<1>1. CASE EndOfUnwind(t, timers)
  BY <1>1, EndOfUnwindPlaces
<1>2. CASE Goto(t, "unwinding")
  BY <1>2 DEF Goto, PlacesOK, Places
<1> QED
  BY <1>1, <1>2 DEF BestEffortUnwind

LEMMA UnwindKeeps ==
  ASSUME PlacesOK, NEW t \in Tasks, NEW timers, BestEffortUnwind(t, timers) \/ EndOfUnwind(t, timers),
         NEW u \in Tasks, u # t, pc[u] # "waiting"
  PROVE  pc'[u] = pc[u]
<1>1. CASE t[1] = "prep"
  <2>1. t = Prep(t[2])
    BY <1>1 DEF Tasks, Prep
  <2> QED
    BY <1>1, <2>1 DEF BestEffortUnwind, EndOfUnwind, EndOfPrep, Goto, PlacesOK
<1>2. CASE t[1] # "prep"
  BY <1>2 DEF BestEffortUnwind, EndOfUnwind, Goto, PlacesOK
<1> QED
  BY <1>1, <1>2

LEMMA PlacesStep == PlacesOK /\ [Next]_vars => PlacesOK'
<1> SUFFICES ASSUME PlacesOK, [Next]_vars PROVE PlacesOK'
  OBVIOUS
<1> USE TaskNames
<1>1. ASSUME NEW r \in Runs, Start(r) \/ ToolsAvailable(r) \/ ToolsMissing(r) \/ BackupStarted(r)
      PROVE  PlacesOK'
  BY <1>1 DEF Start, ToolsAvailable, ToolsMissing, BackupStarted, Goto, PlacesOK, Places
<1>2. ASSUME NEW r \in Runs, WorkersDrained(r) \/ BackupStartFails(r) \/ DumpFails(r)
      PROVE  PlacesOK'
  <2>1. CASE BestEffortUnwind(Prep(r), armed)
    BY <2>1, UnwindPlaces
  <2>2. CASE Goto(Prep(r), "starting")
    BY <2>2 DEF Goto, PlacesOK, Places
  <2> QED
    BY <1>2, <2>1, <2>2 DEF WorkersDrained, BackupStartFails, DumpFails, PrepFails
<1>3. ASSUME NEW r \in Runs, Dumped(r) PROVE PlacesOK'
  BY <1>3 DEF Dumped, EndOfPrep, PlacesOK, Places
<1>4. ASSUME NEW r \in Runs, AutoStopFires(r) PROVE PlacesOK'
  <2>1. CASE BestEffortUnwind(Timer(r), armed \ {r})
    BY <2>1, UnwindPlaces
  <2>2. CASE Goto(Timer(r), "waiting")
    BY <2>2 DEF Goto, PlacesOK, Places
  <2> QED
    BY <1>4, <2>1, <2>2 DEF AutoStopFires
<1>5. ASSUME NEW s \in Stops, StopBackup(s) PROVE PlacesOK'
  <2>1. CASE BestEffortUnwind(Stop(s), armed)
    BY <2>1, UnwindPlaces
  <2>2. CASE Goto(Stop(s), "ended")
    BY <2>2 DEF Goto, PlacesOK, Places
  <2> QED
    BY <1>5, <2>1, <2>2 DEF StopBackup
<1>6. ASSUME NEW t \in Tasks, QueryNext(t) PROVE PlacesOK'
  <2>1. CASE Connect(t)
    BY <2>1 DEF Connect, PlacesOK
  <2>2. CASE EndOfUnwind(t, armed)
    BY <2>2, EndOfUnwindPlaces
  <2> QED
    BY <1>6, <2>1, <2>2 DEF QueryNext, BackupStopped, BackupStopFails
<1>7. CASE IdleTimeout \/ UNCHANGED vars
  BY <1>7 DEF IdleTimeout, vars, PlacesOK
<1>8. CASE Restart
  BY <1>8 DEF Restart, PlacesOK, Places
<1> QED
  BY <1>1, <1>2, <1>3, <1>4, <1>5, <1>6, <1>7, <1>8 DEF Next, PrepNext

-----------------------------------------------------------------------------
(* Nobody leaves the workers paused *)

(* What an unwinding does to the state, at once or when its query is over. *)
LEMMA UnwindEffect ==
  ASSUME NEW t, NEW timers, BestEffortUnwind(t, timers) \/ EndOfUnwind(t, timers)
  PROVE  \/ /\ phase' = (IF t[1] = "stop" THEN "stopping" ELSE phase)
            /\ active' = active /\ workersPaused' = workersPaused
            /\ pgBackupStarted /\ Goto(t, "unwinding")
         \/ /\ phase' \in Over /\ active' = FALSE /\ workersPaused' = FALSE
            /\ EndOfUnwind(t, timers)
  BY DEF BestEffortUnwind, EndOfUnwind, SetPhase, MarkFailed, ClearBackupActive, ResumeWorkers, Over

LEMMA PausedStep == NeverLeftPaused /\ [Next]_vars => NeverLeftPaused'
<1> SUFFICES ASSUME NeverLeftPaused, [Next]_vars PROVE NeverLeftPaused'
  OBVIOUS
<1> USE DEF NeverLeftPaused
<1>1. ASSUME NEW t, NEW timers, BestEffortUnwind(t, timers) \/ EndOfUnwind(t, timers)
      PROVE  NeverLeftPaused'
  BY <1>1, UnwindEffect DEF Over
<1>2. CASE UNCHANGED state /\ UNCHANGED workersPaused
  BY <1>2 DEF state
<1>3. ASSUME NEW r \in Runs, Start(r) PROVE NeverLeftPaused'
  BY <1>2, <1>3 DEF Start, ClearBackupActive, Over
<1>4. ASSUME NEW r \in Runs, ToolsAvailable(r) PROVE NeverLeftPaused'
  BY <1>4 DEF ToolsAvailable, SetBackupActive, Over
<1>5. ASSUME NEW r \in Runs, ToolsMissing(r) PROVE NeverLeftPaused'
  BY <1>2, <1>5 DEF ToolsMissing
<1>6. ASSUME NEW r \in Runs, WorkersDrained(r) PROVE NeverLeftPaused'
  BY <1>1, <1>6 DEF WorkersDrained, PrepFails, SetPhase, Over
<1>7. ASSUME NEW r \in Runs, BackupStarted(r) PROVE NeverLeftPaused'
  BY <1>7 DEF BackupStarted
<1>8. ASSUME NEW r \in Runs, BackupStartFails(r) \/ DumpFails(r) PROVE NeverLeftPaused'
  BY <1>1, <1>8 DEF BackupStartFails, DumpFails, PrepFails
<1>9. ASSUME NEW r \in Runs, Dumped(r) PROVE NeverLeftPaused'
  BY <1>9 DEF Dumped, SetPhase, Over
<1>10. ASSUME NEW r \in Runs, AutoStopFires(r) PROVE NeverLeftPaused'
  BY <1>1, <1>2, <1>10 DEF AutoStopFires
<1>11. ASSUME NEW s \in Stops, StopBackup(s) PROVE NeverLeftPaused'
  BY <1>1, <1>2, <1>11 DEF StopBackup, ClearBackupActive, Over
<1>12. ASSUME NEW t \in Tasks, QueryNext(t) PROVE NeverLeftPaused'
  BY <1>1, <1>2, <1>12 DEF QueryNext, Connect, BackupStopped, BackupStopFails
<1>13. CASE IdleTimeout \/ UNCHANGED vars
  BY <1>2, <1>13 DEF IdleTimeout, vars
<1>14. CASE Restart
  BY <1>14 DEF Restart
<1> QED
  BY <1>3, <1>4, <1>5, <1>6, <1>7, <1>8, <1>9, <1>10, <1>11, <1>12, <1>13, <1>14 DEF Next, PrepNext

(* Whatever overlaps, a run that is over has left the scan workers at work. *)
THEOREM WorkersResume == Spec => []NeverLeftPaused
<1>1. Init => NeverLeftPaused
  BY DEF Init, NeverLeftPaused
<1> QED
  BY <1>1, PausedStep, PTL DEF Spec

-----------------------------------------------------------------------------
(* One run at a time *)

PrepAtWork(r) == pc[Prep(r)] \in {"pausing", "starting", "dumping", "unwinding"}

(* The run whose prep is at work is the one the module's state is about, and
   nobody else unwinds. *)
OneRun ==
  ~overlapped =>
    \A r \in Runs : PrepAtWork(r) =>
      /\ prepTask = r /\ active /\ workersPaused
      /\ phase \in {"draining", "dumping"}
      /\ \A t \in Tasks : pc[t] = "unwinding" => t = Prep(r)

RunInv == PlacesOK /\ MaintenanceMatchesPhase /\ OneRun

NoneAtWork == \A r \in Runs : ~PrepAtWork(r)

(* Where a step leaves the places alone that are not its own, the preps at  *)
(* work after it were at work before.                                       *)
LEMMA AtWorkBefore ==
  ASSUME NEW r \in Runs, \A u \in Tasks : pc'[u] # pc[u] => pc'[u] = "ended"
  PROVE  PrepAtWork(r)' => PrepAtWork(r)
  BY TaskNames DEF PrepAtWork

(* An unwinding by somebody else than a prep at work. *)
LEMMA ForeignUnwind ==
  ASSUME RunInv, NoneAtWork \/ overlapped, overlapped' = overlapped,
         NEW t \in Tasks, t[1] # "prep", NEW timers,
         BestEffortUnwind(t, timers) \/ EndOfUnwind(t, timers),
         t[1] = "stop" => active
  PROVE  RunInv'
<1> USE TaskNames DEF RunInv
<1>1. PlacesOK'
  BY UnwindPlaces, EndOfUnwindPlaces
<1>2. \A u \in Tasks : pc'[u] # pc[u] => pc'[u] = "ended" \/ u = t
  BY UnwindPlaces, EndOfUnwindPlaces
<1>3. NoneAtWork' \/ overlapped'
  <2> SUFFICES ASSUME NoneAtWork, NEW r \in Runs, PrepAtWork(r)' PROVE FALSE
    BY DEF NoneAtWork
  <2> Prep(r) # t
    BY DEF Prep
  <2> QED
    BY <1>2 DEF NoneAtWork, PrepAtWork
<1>4. MaintenanceMatchesPhase'
  BY UnwindEffect DEF MaintenanceMatchesPhase, Over
<1> QED
  BY <1>1, <1>3, <1>4 DEF OneRun, NoneAtWork

(* An unwinding by the prep at work. *)
LEMMA OwnUnwind ==
  ASSUME RunInv, NEW r \in Runs, PrepAtWork(r), overlapped' = overlapped,
         prepTask' = prepTask, NEW timers,
         BestEffortUnwind(Prep(r), timers) \/ EndOfUnwind(Prep(r), timers)
  PROVE  RunInv'
<1> USE TaskNames DEF RunInv
<1> DEFINE t == Prep(r)
<1>1. t \in Tasks /\ t[1] = "prep" /\ t[2] = r
  OBVIOUS
<1>2. PlacesOK'
  BY <1>1, UnwindPlaces, EndOfUnwindPlaces
<1>3. \A u \in Tasks : pc'[u] # pc[u] => pc'[u] = "ended" \/ (u = t /\ pc'[u] = "unwinding")
  BY <1>1, UnwindPlaces, EndOfUnwindPlaces
<1>4. MaintenanceMatchesPhase'
  BY <1>1, UnwindEffect DEF MaintenanceMatchesPhase, Over
<1>5. ASSUME ~overlapped', NEW q \in Runs, PrepAtWork(q)'
      PROVE  PrepAtWork(q) /\ q = r
  <2>1. PrepAtWork(q)
    BY <1>3, <1>5 DEF PrepAtWork
  <2> QED
    BY <2>1, <1>5 DEF OneRun
<1>6. ASSUME EndOfUnwind(t, timers) PROVE OneRun'
  <2>1. pc'[t] = "ended"
    BY <1>1, <1>6, EndOfUnwindPlaces
  <2> QED
    BY <2>1, <1>5 DEF OneRun, PrepAtWork
<1>7. ASSUME Goto(t, "unwinding"), phase' = phase, active' = active,
             workersPaused' = workersPaused
      PROVE  OneRun'
  <2> SUFFICES ASSUME ~overlapped', NEW q \in Runs, PrepAtWork(q)'
               PROVE  /\ prepTask = q /\ active /\ workersPaused
                      /\ phase \in {"draining", "dumping"}
                      /\ \A u \in Tasks : pc'[u] = "unwinding" => u = Prep(q)
    BY <1>7 DEF OneRun
  <2>1. q = r
    BY <1>5
  <2>2. \A u \in Tasks : pc'[u] = "unwinding" => u = t
    BY <1>3 DEF OneRun
  <2> QED
    BY <2>1, <2>2 DEF OneRun
<1> QED
  BY <1>1, <1>2, <1>4, <1>6, <1>7, UnwindEffect

LEMMA RunStep == RunInv /\ [Next]_vars => RunInv'
<1> SUFFICES ASSUME RunInv, [Next]_vars PROVE RunInv'
  OBVIOUS
<1> USE TaskNames DEF RunInv
<1>p. PlacesOK'
  BY PlacesStep
<1>1. CASE UNCHANGED <<pc, prepTask, overlapped, workersPaused, state>>
  BY <1>1 DEF PlacesOK, MaintenanceMatchesPhase, OneRun, PrepAtWork, state
<1>2. ASSUME NEW r \in Runs, Start(r) PROVE RunInv'
  <2>1. \A q \in Runs : PrepAtWork(q)' => PrepAtWork(q)
    BY <1>2 DEF Start, Goto, PrepAtWork, PlacesOK
  <2>2. MaintenanceMatchesPhase'
    BY <1>2 DEF Start, ClearBackupActive, state, MaintenanceMatchesPhase, Over
  <2>3. \A u \in Tasks : pc'[u] = "unwinding" => pc[u] = "unwinding"
    BY <1>2 DEF Start, Goto, PlacesOK
  <2>4. CASE phase = "failed"
    BY <1>2, <1>p, <2>1, <2>2, <2>4 DEF Start, OneRun
  <2>5. CASE phase # "failed"
    <3>1. UNCHANGED <<state, prepTask, workersPaused, overlapped>>
      BY <1>2, <2>5 DEF Start
    <3> QED
      BY <1>p, <2>1, <2>2, <2>3, <3>1 DEF OneRun, state
  <2> QED
    BY <2>4, <2>5
<1>3. ASSUME NEW r \in Runs, ToolsAvailable(r) PROVE RunInv'
  <2>1. MaintenanceMatchesPhase'
    BY <1>3 DEF ToolsAvailable, SetBackupActive, MaintenanceMatchesPhase, Over
  <2>2. OneRun'
    <3> SUFFICES ASSUME ~overlapped', NEW q \in Runs, PrepAtWork(q)'
                 PROVE  q = r /\ \A u \in Tasks : pc'[u] # "unwinding"
      BY <1>3 DEF ToolsAvailable, SetBackupActive, OneRun
    <3>1. ~overlapped /\ ~active /\ \A u \in Tasks : pc[u] # "unwinding"
      BY <1>3 DEF ToolsAvailable
    <3>2. \A u \in Tasks : pc'[u] # "unwinding"
      BY <1>3, <3>1 DEF ToolsAvailable, Goto, PlacesOK
    <3>3. q # r => PrepAtWork(q)
      BY <1>3 DEF ToolsAvailable, Goto, PlacesOK, PrepAtWork
    <3> QED
      BY <3>1, <3>2, <3>3 DEF OneRun
  <2> QED
    BY <1>p, <2>1, <2>2
<1>4. ASSUME NEW r \in Runs, ToolsMissing(r) PROVE RunInv'
  <2>1. \A q \in Runs : PrepAtWork(q)' => PrepAtWork(q)
    BY <1>4 DEF ToolsMissing, Goto, PrepAtWork, PlacesOK
  <2>2. \A u \in Tasks : pc'[u] = "unwinding" => pc[u] = "unwinding"
    BY <1>4 DEF ToolsMissing, Goto, PlacesOK
  <2>3. UNCHANGED <<state, prepTask, workersPaused, overlapped>>
    BY <1>4 DEF ToolsMissing
  <2> QED
    BY <1>p, <2>1, <2>2, <2>3 DEF OneRun, MaintenanceMatchesPhase, state
<1>5. ASSUME NEW r \in Runs, WorkersDrained(r) PROVE RunInv'
  <2>0. PrepAtWork(r)
    BY <1>5 DEF WorkersDrained, PrepAtWork
  <2>1. CASE BestEffortUnwind(Prep(r), armed)
    BY <1>5, <2>0, <2>1, OwnUnwind DEF WorkersDrained
  <2>2. CASE SetPhase("dumping") /\ Goto(Prep(r), "starting") /\ workersPaused' = workersPaused
    <3>1. \A q \in Runs : PrepAtWork(q)' => PrepAtWork(q)
      BY <2>2, <2>0 DEF Goto, PrepAtWork, PlacesOK
    <3>2. \A u \in Tasks : pc'[u] = "unwinding" => pc[u] = "unwinding"
      BY <2>2 DEF Goto, PlacesOK
    <3>3. MaintenanceMatchesPhase'
      BY <1>5, <2>0, <2>2 DEF WorkersDrained, SetPhase, MaintenanceMatchesPhase, OneRun, Over
    <3>4. OneRun'
      BY <1>5, <2>0, <2>2, <3>1, <3>2 DEF WorkersDrained, SetPhase, OneRun
    <3> QED
      BY <1>p, <3>3, <3>4
  <2> QED
    BY <1>5, <2>1, <2>2 DEF WorkersDrained, PrepFails
<1>6. ASSUME NEW r \in Runs, BackupStarted(r) PROVE RunInv'
  <2>0. PrepAtWork(r)
    BY <1>6 DEF BackupStarted, PrepAtWork
  <2>1. \A q \in Runs : PrepAtWork(q)' => PrepAtWork(q)
    BY <1>6, <2>0 DEF BackupStarted, Goto, PrepAtWork, PlacesOK
  <2>2. \A u \in Tasks : pc'[u] = "unwinding" => pc[u] = "unwinding" \/ u = Prep(r)
    BY <1>6 DEF BackupStarted, Goto, PlacesOK
  <2>3. UNCHANGED <<active, phase, prepTask, workersPaused, overlapped>>
    BY <1>6 DEF BackupStarted
  <2>4. OneRun'
    BY <2>0, <2>1, <2>2, <2>3 DEF OneRun
  <2> QED
    BY <1>p, <2>3, <2>4 DEF MaintenanceMatchesPhase
<1>7. ASSUME NEW r \in Runs, BackupStartFails(r) \/ DumpFails(r) PROVE RunInv'
  <2>0. PrepAtWork(r)
    BY <1>7 DEF BackupStartFails, DumpFails, PrepAtWork
  <2> QED
    BY <1>7, <2>0, OwnUnwind DEF BackupStartFails, DumpFails, PrepFails
<1>8. ASSUME NEW r \in Runs, Dumped(r) PROVE RunInv'
  <2>0. PrepAtWork(r)
    BY <1>8 DEF Dumped, PrepAtWork
  <2>1. \A q \in Runs : PrepAtWork(q)' => PrepAtWork(q) /\ q # r
    BY <1>8 DEF Dumped, EndOfPrep, PrepAtWork, PlacesOK
  <2>2. MaintenanceMatchesPhase'
    BY <1>8, <2>0 DEF Dumped, SetPhase, MaintenanceMatchesPhase, OneRun, Over
  <2>3. OneRun'
    BY <1>8, <2>0, <2>1 DEF Dumped, OneRun
  <2> QED
    BY <1>p, <2>2, <2>3
<1>9. ASSUME NEW r \in Runs, AutoStopFires(r) PROVE RunInv'
  <2>1. CASE InFlight(Prep(prepTask))
    <3>1. UNCHANGED <<state, workersPaused, prepTask, overlapped>> /\ Goto(Timer(r), "waiting")
      BY <1>9, <2>1 DEF AutoStopFires
    <3>2. \A q \in Runs : PrepAtWork(q)' => PrepAtWork(q)
      BY <3>1 DEF Goto, PrepAtWork, PlacesOK
    <3>3. \A u \in Tasks : pc'[u] = "unwinding" => pc[u] = "unwinding"
      BY <3>1 DEF Goto, PlacesOK
    <3> QED
      BY <1>p, <3>1, <3>2, <3>3 DEF OneRun, MaintenanceMatchesPhase, state
  <2>2. CASE ~InFlight(Prep(prepTask))
    <3>1. BestEffortUnwind(Timer(r), armed \ {r}) /\ overlapped' = overlapped
      BY <1>9, <2>2 DEF AutoStopFires
    <3>2. NoneAtWork \/ overlapped
      BY <2>2 DEF NoneAtWork, OneRun, PrepAtWork, InFlight
    <3>3. Timer(r)[1] = "auto"
      BY DEF Timer
    <3> QED
      BY <3>1, <3>2, <3>3, ForeignUnwind
  <2> QED
    BY <2>1, <2>2
<1>10. ASSUME NEW s \in Stops, StopBackup(s) PROVE RunInv'
  <2>1. CASE phase = "ready" /\ BestEffortUnwind(Stop(s), armed)
    <3>1. NoneAtWork \/ overlapped
      BY <2>1 DEF NoneAtWork, OneRun
    <3>2. active \/ overlapped
      BY <2>1 DEF MaintenanceMatchesPhase, Over
    <3>3. Stop(s)[1] = "stop"
      BY DEF Stop
    <3>4. CASE ~overlapped
      BY <1>10, <2>1, <3>1, <3>2, <3>3, <3>4, ForeignUnwind DEF StopBackup
    <3>5. CASE overlapped
      BY <1>10, <1>p, <3>5 DEF StopBackup, MaintenanceMatchesPhase, OneRun
    <3> QED
      BY <3>4, <3>5
  <2>2. CASE Goto(Stop(s), "ended") /\ workersPaused' = workersPaused
    <3>1. \A q \in Runs : PrepAtWork(q)' => PrepAtWork(q)
      BY <2>2 DEF Goto, PrepAtWork, PlacesOK
    <3>2. \A u \in Tasks : pc'[u] = "unwinding" => pc[u] = "unwinding"
      BY <2>2 DEF Goto, PlacesOK
    <3>3. overlapped' = overlapped /\ prepTask' = prepTask
      BY <1>10 DEF StopBackup
    <3>4. CASE UNCHANGED state
      BY <1>p, <2>2, <3>1, <3>2, <3>3, <3>4 DEF OneRun, MaintenanceMatchesPhase, state
    <3>5. CASE phase = "failed" /\ ClearBackupActive
      <4>1. MaintenanceMatchesPhase'
        BY <3>5 DEF ClearBackupActive, MaintenanceMatchesPhase, Over
      <4> QED
        BY <1>p, <3>1, <3>3, <3>5, <4>1 DEF OneRun
    <3> QED
      BY <1>10, <2>2, <3>4, <3>5, <2>1 DEF StopBackup
  <2> QED
    BY <1>10, <2>1, <2>2 DEF StopBackup
<1>11. ASSUME NEW t \in Tasks, QueryNext(t) PROVE RunInv'
  <2>1. CASE Connect(t)
    BY <1>1, <2>1 DEF Connect
  <2>2. ASSUME BackupStopped(t) \/ BackupStopFails(t) PROVE RunInv'
    <3>1. /\ pc[t] = "unwinding" /\ EndOfUnwind(t, armed)
          /\ overlapped' = overlapped /\ prepTask' = prepTask
      BY <2>2 DEF BackupStopped, BackupStopFails
    <3>2. CASE t[1] = "prep"
      <4>1. t[2] \in Runs /\ t = Prep(t[2])
        BY <3>2 DEF Tasks, Prep
      <4>2. PrepAtWork(t[2])
        BY <3>1, <4>1 DEF PrepAtWork
      <4> QED
        BY <3>1, <4>1, <4>2, OwnUnwind
    <3>3. CASE t[1] # "prep"
      <4>1. NoneAtWork \/ overlapped
        BY <3>1, <3>3 DEF NoneAtWork, OneRun
      <4>2. PlacesOK' /\ \A u \in Tasks : pc'[u] # pc[u] => pc'[u] = "ended"
        BY <3>1, EndOfUnwindPlaces
      <4>3. NoneAtWork' \/ overlapped'
        BY <3>1, <4>1, <4>2, AtWorkBefore DEF NoneAtWork
      <4>4. MaintenanceMatchesPhase'
        BY <3>1, <3>3 DEF EndOfUnwind, ResumeWorkers, MarkFailed, ClearBackupActive,
             MaintenanceMatchesPhase, Over
      <4> QED
        BY <4>2, <4>3, <4>4 DEF OneRun, NoneAtWork
    <3> QED
      BY <3>2, <3>3
  <2> QED
    BY <1>11, <2>1, <2>2 DEF QueryNext
<1>12. CASE IdleTimeout \/ UNCHANGED vars
  BY <1>1, <1>12 DEF IdleTimeout, vars
<1>13. CASE Restart
  <2>1. NoneAtWork'
    BY <1>13 DEF Restart, NoneAtWork, PrepAtWork, InFlight
  <2> QED
    BY <1>13, <1>p, <2>1 DEF Restart, NoneAtWork, OneRun, MaintenanceMatchesPhase, Over
<1> QED
  BY <1>2, <1>3, <1>4, <1>5, <1>6, <1>7, <1>8, <1>9, <1>10, <1>11, <1>12, <1>13 DEF Next, PrepNext

(* One run at a time: the maintenance flag and the workers' pause belong to *)
(* the phase the host is told.                                              *)
THEOREM MaintenanceIsTrue == Spec => []MaintenanceMatchesPhase
<1>1. Init => RunInv
  BY DEF Init, RunInv, PlacesOK, Places, MaintenanceMatchesPhase, OneRun, PrepAtWork, Over, Tasks, Prep
<1>2. RunInv => MaintenanceMatchesPhase
  BY DEF RunInv
<1> QED
  BY <1>1, <1>2, RunStep, PTL DEF Spec

-----------------------------------------------------------------------------
(* The pool *)

PoolOK ==
  /\ idle \in Seq(Connections) /\ IsInjective(idle)
  /\ conn \in [Tasks -> Connections \cup {NoConnection}]
  /\ \A t, u \in Tasks : conn[t] = conn[u] /\ conn[t] # NoConnection => t = u
  /\ \A t \in Tasks : conn[t] \notin Idle
  /\ inBackup \subseteq Idle \cup InUse

LEMMA IdleSessions == PoolOK => Idle \subseteq Connections
<1> SUFFICES ASSUME PoolOK, NEW c \in Idle PROVE c \in Connections
  OBVIOUS
<1>1. PICK i \in DOMAIN idle : c = idle[i]
  BY DEF Idle, ToSet
<1> QED
  BY <1>1 DEF PoolOK

LEMMA PoolConnect ==
  ASSUME PoolOK, NEW t \in Tasks, Connect(t)
  PROVE  /\ PoolOK' /\ inBackup' = inBackup
         /\ \A u \in Tasks \ {t} : conn'[u] = conn[u]
         /\ conn'[t] # NoConnection
         /\ idle # << >> => conn'[t] = Last(idle)
<1> USE BackupAssumption DEF PoolOK
<1>1. CASE /\ idle # << >> /\ conn' = [conn EXCEPT ![t] = Last(idle)] /\ idle' = Front(idle)
  <2> DEFINE c == Last(idle)
  <2>1. /\ c \in Connections /\ c \in Idle
        /\ idle' \in Seq(Connections) /\ IsInjective(idle')
        /\ Idle' = Idle \ {c}
    BY <1>1, LinePopped DEF Idle
  <2>2. /\ conn' \in [Tasks -> Connections \cup {NoConnection}] /\ conn'[t] = c
        /\ \A u \in Tasks \ {t} : conn'[u] = conn[u]
    BY <1>1, <2>1
  <2> HIDE DEF c
  <2>3. conn[t] = NoConnection /\ inBackup' = inBackup
    BY DEF Connect
  <2>4. InUse' = InUse \cup {c}
    BY <2>1, <2>2, <2>3 DEF InUse
  <2>5. \A u, v \in Tasks : conn'[u] = conn'[v] /\ conn'[u] # NoConnection => u = v
    BY <2>1, <2>2
  <2> QED
    BY <1>1, <2>1, <2>2, <2>3, <2>4, <2>5 DEF c
<1>2. CASE /\ idle = << >> /\ idle' = idle
           /\ \E c \in Connections \ InUse : conn' = [conn EXCEPT ![t] = c]
  <2>1. PICK c \in Connections \ InUse : conn' = [conn EXCEPT ![t] = c]
    BY <1>2
  <2>2. /\ conn' \in [Tasks -> Connections \cup {NoConnection}] /\ conn'[t] = c
        /\ \A u \in Tasks \ {t} : conn'[u] = conn[u] /\ conn[u] # c
    BY <2>1 DEF InUse
  <2>3. conn[t] = NoConnection /\ inBackup' = inBackup
    BY DEF Connect
  <2>4. Idle = {} /\ Idle' = {}
    BY <1>2 DEF Idle, ToSet
  <2>5. InUse' = InUse \cup {c}
    BY <2>2, <2>3 DEF InUse
  <2>6. \A u, v \in Tasks : conn'[u] = conn'[v] /\ conn'[u] # NoConnection => u = v
    BY <2>2
  <2> QED
    BY <1>2, <2>2, <2>3, <2>4, <2>5, <2>6
<1> QED
  BY <1>1, <1>2 DEF Connect

(* A session given back, perhaps in another mode than before. *)
LEMMA PoolRelease ==
  ASSUME PoolOK, NEW t \in Tasks, conn[t] # NoConnection, Release(t),
         inBackup' \subseteq inBackup \cup {conn[t]}
  PROVE  /\ PoolOK' /\ idle' # << >> /\ Last(idle') = conn[t]
         /\ \A u \in Tasks \ {t} : conn'[u] = conn[u]
         /\ conn'[t] = NoConnection
<1> USE BackupAssumption DEF PoolOK
<1> DEFINE c == conn[t]
<1>1. c \in Connections /\ c \notin Idle
  OBVIOUS
<1>2. /\ idle' \in Seq(Connections) /\ IsInjective(idle')
      /\ Idle' = Idle \cup {c}
      /\ idle' # << >> /\ Last(idle') = c
  BY <1>1, LineJoined DEF Release, Idle
<1>3. /\ conn' \in [Tasks -> Connections \cup {NoConnection}] /\ conn'[t] = NoConnection
      /\ \A u \in Tasks \ {t} : conn'[u] = conn[u]
  BY DEF Release
<1>4. InUse \ {c} \subseteq InUse'
  BY <1>3 DEF InUse
<1>5. \A u \in Tasks : conn'[u] \notin Idle'
  <2>1. NoConnection \notin Idle'
    BY <1>1, <1>2, IdleSessions
  <2>2. \A u \in Tasks \ {t} : conn[u] \notin Idle \cup {c}
    BY <1>1
  <2> QED
    BY <1>2, <1>3, <2>1, <2>2
<1>6. \A u, v \in Tasks : conn'[u] = conn'[v] /\ conn'[u] # NoConnection => u = v
  BY <1>3
<1> QED
  BY <1>1, <1>2, <1>3, <1>4, <1>5, <1>6

LEMMA PoolQueryFails ==
  ASSUME PoolOK, NEW t \in Tasks, QueryFails(t)
  PROVE  /\ PoolOK' /\ idle' = idle /\ inBackup' = inBackup \ {conn[t]}
         /\ \A u \in Tasks \ {t} : conn'[u] = conn[u]
         /\ conn'[t] = NoConnection
<1> USE BackupAssumption DEF PoolOK
<1>1. /\ conn' \in [Tasks -> Connections \cup {NoConnection}] /\ conn'[t] = NoConnection
      /\ \A u \in Tasks \ {t} : conn'[u] = conn[u]
      /\ idle' = idle /\ inBackup' = inBackup \ {conn[t]}
  BY DEF QueryFails
<1>2. Idle' = Idle /\ NoConnection \notin Idle
  <2>1. Idle' = Idle
    BY <1>1 DEF Idle
  <2> QED
    BY <2>1, IdleSessions
<1>3. InUse \ {conn[t]} \subseteq InUse'
  BY <1>1 DEF InUse
<1> QED
  BY <1>1, <1>2, <1>3

LEMMA PoolIdleTimeout ==
  ASSUME PoolOK, IdleTimeout
  PROVE  /\ PoolOK' /\ conn' = conn
         /\ \E c \in Idle : inBackup' = inBackup \ {c}
                            /\ (c # Last(idle) => idle' # << >> /\ Last(idle') = Last(idle))
<1> USE BackupAssumption DEF PoolOK
<1>1. PICK i \in DOMAIN idle : idle' = RemoveAt(idle, i) /\ inBackup' = inBackup \ {idle[i]}
  BY DEF IdleTimeout
<1>2. /\ idle' \in Seq(Connections) /\ IsInjective(idle')
      /\ Idle' = Idle \ {idle[i]} /\ idle[i] \in Idle
      /\ idle[i] # Last(idle) => idle' # << >> /\ Last(idle') = Last(idle)
  <2>1. idle[i] \in Idle
    BY DEF Idle, ToSet
  <2> QED
    BY <1>1, <2>1, LineRemoved DEF Idle
<1>3. conn' = conn /\ InUse' = InUse
  BY DEF IdleTimeout, InUse
<1> QED
  BY <1>1, <1>2, <1>3

(* A task holds a session while its query runs, and at no other time. *)
HeldByQueries == \A t \in Tasks : conn[t] # NoConnection => pc[t] \in Querying

PoolInv == PlacesOK /\ PoolOK /\ HeldByQueries

(* The steps that leave the sessions alone. *)
LEMMA PoolUntouched ==
  ASSUME PoolInv, PlacesOK', UNCHANGED pool,
         \A u \in Tasks : pc[u] \in Querying => pc'[u] = pc[u]
  PROVE  PoolInv'
  BY DEF PoolInv, PoolOK, HeldByQueries, pool, Idle, InUse

(* A timer has not fired while it is armed, and is armed once.              *)
TimersFresh ==
  \A r \in Runs :
    /\ r \in armed => pc[Timer(r)] = "new" /\ pc[Prep(r)] \notin {"new", "tools"}
    /\ pc[Prep(r)] \in {"new", "tools"} => pc[Timer(r)] = "new"

LEMMA NamesApart ==
  /\ \A r, q \in Runs : Prep(r) # Timer(q) /\ (Prep(r) = Prep(q) => r = q) /\ (Timer(r) = Timer(q) => r = q)
  /\ \A r \in Runs, s \in Stops : Prep(r) # Stop(s) /\ Timer(r) # Stop(s)
  BY DEF Prep, Timer, Stop

LEMMA UnwindTimers ==
  ASSUME NEW t, NEW timers, BestEffortUnwind(t, timers) \/ EndOfUnwind(t, timers)
  PROVE  armed' \subseteq timers
  BY DEF BestEffortUnwind, EndOfUnwind

LEMMA FreshStep == PlacesOK /\ TimersFresh /\ [Next]_vars => TimersFresh'
<1> SUFFICES ASSUME PlacesOK, TimersFresh, [Next]_vars PROVE TimersFresh'
  OBVIOUS
<1> USE TaskNames, NamesApart
<1>1. ASSUME NEW t \in Tasks, NEW timers \in SUBSET armed,
             BestEffortUnwind(t, timers) \/ EndOfUnwind(t, timers),
             pc[t] \notin {"new", "tools"}
      PROVE  TimersFresh'
  <2>1. armed' \subseteq armed
    BY <1>1, UnwindTimers
  <2>2. \A u \in Tasks : pc'[u] # pc[u] => pc'[u] = "ended" \/ pc'[u] = "unwinding"
    BY <1>1, UnwindPlaces, EndOfUnwindPlaces
  <2>3. \A u \in Tasks : pc[u] = "new" => pc'[u] = "new"
    BY <1>1, UnwindKeeps
  <2> QED
    BY <2>1, <2>2, <2>3 DEF TimersFresh
<1>2. ASSUME armed' \subseteq armed, NEW t \in Tasks, NEW where, Goto(t, where),
             where \in {"new", "tools"} => pc[t] \in {"new", "tools"},
             \A r \in Runs : t # Timer(r)
      PROVE  TimersFresh'
  BY <1>2 DEF TimersFresh, Goto, PlacesOK
<1>3. ASSUME NEW r \in Runs, Start(r) \/ ToolsMissing(r) PROVE TimersFresh'
  BY <1>2, <1>3 DEF Start, ToolsMissing
<1>4. ASSUME NEW r \in Runs, ToolsAvailable(r) PROVE TimersFresh'
  <2>1. armed' = armed \cup {r} /\ Goto(Prep(r), "pausing") /\ pc[Timer(r)] = "new"
    BY <1>4 DEF ToolsAvailable, TimersFresh
  <2> QED
    BY <2>1 DEF Goto, PlacesOK, TimersFresh
<1>5. ASSUME NEW r \in Runs, WorkersDrained(r) PROVE TimersFresh'
  <2>1. CASE BestEffortUnwind(Prep(r), armed)
    BY <1>1, <1>5, <2>1 DEF WorkersDrained
  <2>2. CASE Goto(Prep(r), "starting") /\ armed' = armed
    BY <1>2, <2>2
  <2> QED
    BY <1>5, <2>1, <2>2 DEF WorkersDrained, PrepFails
<1>6. ASSUME NEW r \in Runs, BackupStarted(r) PROVE TimersFresh'
  BY <1>2, <1>6 DEF BackupStarted
<1>7. ASSUME NEW r \in Runs, BackupStartFails(r) \/ DumpFails(r) PROVE TimersFresh'
  BY <1>1, <1>7 DEF BackupStartFails, DumpFails, PrepFails
<1>8. ASSUME NEW r \in Runs, Dumped(r) PROVE TimersFresh'
  BY <1>8 DEF TimersFresh, Dumped, EndOfPrep, PlacesOK
<1>9. ASSUME NEW r \in Runs, AutoStopFires(r) PROVE TimersFresh'
  <2>0. pc[Timer(r)] = "new" /\ pc[Prep(r)] \notin {"new", "tools"} /\ r \in armed
    BY <1>9 DEF AutoStopFires, TimersFresh
  <2>1. CASE BestEffortUnwind(Timer(r), armed \ {r})
    <3>1. armed' \subseteq armed \ {r}
      BY <2>1, UnwindTimers
    <3>2. \A u \in Tasks : pc'[u] # pc[u] => pc'[u] = "ended" \/ pc'[u] = "unwinding"
      BY <2>1, UnwindPlaces
    <3>3. \A u \in Tasks : pc[u] = "new" => pc'[u] = "new" \/ u = Timer(r)
      BY <2>1, UnwindKeeps
    <3> QED
      BY <2>0, <3>1, <3>2, <3>3 DEF TimersFresh
  <2>2. CASE Goto(Timer(r), "waiting") /\ armed' = armed \ {r}
    BY <2>0, <2>2 DEF TimersFresh, Goto, PlacesOK
  <2> QED
    BY <1>9, <2>1, <2>2 DEF AutoStopFires
<1>10. ASSUME NEW s \in Stops, StopBackup(s) PROVE TimersFresh'
  <2>1. CASE BestEffortUnwind(Stop(s), armed)
    <3>1. armed' \subseteq armed
      BY <2>1, UnwindTimers
    <3>2. \A u \in Tasks : pc'[u] # pc[u] => pc'[u] = "ended" \/ pc'[u] = "unwinding"
      BY <2>1, UnwindPlaces
    <3>3. \A u \in Tasks : pc[u] = "new" => pc'[u] = "new" \/ u = Stop(s)
      BY <2>1, UnwindKeeps
    <3> QED
      BY <3>1, <3>2, <3>3 DEF TimersFresh
  <2>2. CASE Goto(Stop(s), "ended") /\ armed' \subseteq armed
    BY <1>2, <2>2
  <2> QED
    BY <1>10, <2>1, <2>2 DEF StopBackup
<1>11. ASSUME NEW t \in Tasks, QueryNext(t) PROVE TimersFresh'
  <2>1. CASE Connect(t)
    BY <2>1 DEF Connect, TimersFresh
  <2>2. CASE BackupStopped(t) \/ BackupStopFails(t)
    BY <1>1, <2>2 DEF BackupStopped, BackupStopFails
  <2> QED
    BY <1>11, <2>1, <2>2 DEF QueryNext
<1>12. CASE IdleTimeout \/ UNCHANGED vars
  BY <1>12 DEF IdleTimeout, vars, TimersFresh
<1>13. CASE Restart
  BY <1>13 DEF Restart, InFlight, TimersFresh
<1> QED
  BY <1>3, <1>4, <1>5, <1>6, <1>7, <1>8, <1>9, <1>10, <1>11, <1>12, <1>13 DEF Next, PrepNext

(* What an unwinding that does not wait for a query leaves of the sessions.  *)
LEMMA UnwindHeld ==
  ASSUME PlacesOK, HeldByQueries, NEW t \in Tasks, NEW timers,
         BestEffortUnwind(t, timers) \/ EndOfUnwind(t, timers),
         conn'[t] = NoConnection, \A u \in Tasks \ {t} : conn'[u] = conn[u]
  PROVE  HeldByQueries'
<1> SUFFICES ASSUME NEW u \in Tasks \ {t}, conn[u] # NoConnection PROVE pc'[u] \in Querying
  BY DEF HeldByQueries
<1>1. pc[u] \in Querying
  BY DEF HeldByQueries
<1>2. pc'[u] = pc[u]
  BY <1>1, UnwindKeeps DEF Querying
<1> QED
  BY <1>1, <1>2

LEMMA PoolStep == PoolInv /\ TimersFresh /\ [Next]_vars => PoolInv'
<1> SUFFICES ASSUME PoolInv, TimersFresh, [Next]_vars PROVE PoolInv'
  OBVIOUS
<1> USE TaskNames, NamesApart DEF PoolInv
<1>p. PlacesOK'
  BY PlacesStep
<1>1. ASSUME UNCHANGED pool, NEW t \in Tasks, NEW where, Goto(t, where), pc[t] \notin Querying
      PROVE  PoolInv'
  <2>1. \A u \in Tasks : pc[u] \in Querying => pc'[u] = pc[u]
    BY <1>1 DEF Goto, PlacesOK
  <2> QED
    BY <1>1, <1>p, <2>1, PoolUntouched
<1>2. ASSUME UNCHANGED pool, NEW t \in Tasks, NEW timers, BestEffortUnwind(t, timers),
             pc[t] \notin Querying
      PROVE  PoolInv'
  <2>1. \A u \in Tasks : pc[u] \in Querying => pc'[u] = pc[u]
    BY <1>2, UnwindKeeps DEF Querying
  <2> QED
    BY <1>2, <1>p, <2>1, PoolUntouched
<1>3. ASSUME NEW r \in Runs, Start(r) \/ ToolsMissing(r) \/ ToolsAvailable(r) PROVE PoolInv'
  <2>1. pc[Prep(r)] \notin Querying /\ UNCHANGED pool /\ \E where : Goto(Prep(r), where)
    BY <1>3 DEF Start, ToolsMissing, ToolsAvailable, Querying
  <2> QED
    BY <1>1, <2>1
<1>4. ASSUME NEW r \in Runs, WorkersDrained(r) \/ DumpFails(r) PROVE PoolInv'
  <2>1. pc[Prep(r)] \notin Querying /\ UNCHANGED pool
    BY <1>4 DEF WorkersDrained, DumpFails, Querying
  <2>2. CASE BestEffortUnwind(Prep(r), armed)
    BY <1>2, <2>1, <2>2
  <2>3. CASE Goto(Prep(r), "starting")
    BY <1>1, <2>1, <2>3
  <2> QED
    BY <1>4, <2>2, <2>3 DEF WorkersDrained, DumpFails, PrepFails
<1>5. ASSUME NEW r \in Runs, BackupStarted(r) PROVE PoolInv'
  <2> DEFINE t == Prep(r)
  <2>1. /\ conn[t] # NoConnection /\ Release(t) /\ inBackup' \subseteq inBackup \cup {conn[t]}
        /\ pc[t] = "starting"
    BY <1>5 DEF BackupStarted
  <2>2. /\ PoolOK' /\ conn'[t] = NoConnection
        /\ \A u \in Tasks \ {t} : conn'[u] = conn[u]
    BY <2>1, PoolRelease
  <2>3. \A u \in Tasks \ {t} : pc'[u] = pc[u]
    BY <1>5 DEF BackupStarted, Goto, PlacesOK
  <2> QED
    BY <1>p, <2>2, <2>3 DEF HeldByQueries
<1>6. ASSUME NEW t \in Tasks, NEW timers, BestEffortUnwind(t, timers) \/ EndOfUnwind(t, timers),
             \/ QueryFails(t)
             \/ /\ conn[t] # NoConnection /\ Release(t)
                /\ inBackup' \subseteq inBackup \cup {conn[t]}
      PROVE  PoolInv'
  <2>1. PoolOK' /\ conn'[t] = NoConnection /\ \A u \in Tasks \ {t} : conn'[u] = conn[u]
    BY <1>6, PoolRelease, PoolQueryFails
  <2> QED
    BY <1>6, <1>p, <2>1, UnwindHeld
<1>7. ASSUME NEW r \in Runs, BackupStartFails(r) PROVE PoolInv'
  <2>1. inBackup' = inBackup => inBackup' \subseteq inBackup \cup {conn[Prep(r)]}
    OBVIOUS
  <2> QED
    BY <1>6, <1>7, <2>1 DEF BackupStartFails, PrepFails
<1>8. ASSUME NEW r \in Runs, Dumped(r) PROVE PoolInv'
  <2>1. UNCHANGED pool /\ \A u \in Tasks : pc[u] \in Querying => pc'[u] = pc[u]
    BY <1>8 DEF Dumped, EndOfPrep, Querying, PlacesOK
  <2> QED
    BY <1>p, <2>1, PoolUntouched
<1>9. ASSUME NEW r \in Runs, AutoStopFires(r) PROVE PoolInv'
  <2>1. UNCHANGED pool /\ pc[Timer(r)] \notin Querying
    BY <1>9 DEF AutoStopFires, TimersFresh, Querying
  <2>2. BestEffortUnwind(Timer(r), armed \ {r}) \/ Goto(Timer(r), "waiting")
    BY <1>9 DEF AutoStopFires
  <2> QED
    BY <1>1, <1>2, <2>1, <2>2
<1>10. ASSUME NEW s \in Stops, StopBackup(s) PROVE PoolInv'
  <2>1. UNCHANGED pool /\ pc[Stop(s)] \notin Querying
    BY <1>10 DEF StopBackup, Querying
  <2>2. BestEffortUnwind(Stop(s), armed) \/ Goto(Stop(s), "ended")
    BY <1>10 DEF StopBackup
  <2> QED
    BY <1>1, <1>2, <2>1, <2>2
<1>11. ASSUME NEW t \in Tasks, QueryNext(t) PROVE PoolInv'
  <2>1. CASE Connect(t)
    BY <1>p, <2>1, PoolConnect DEF Connect, HeldByQueries
  <2>2. CASE BackupStopped(t)
    <3>1. inBackup' \subseteq inBackup \cup {conn[t]}
      BY <2>2 DEF BackupStopped
    <3> QED
      BY <1>6, <2>2, <3>1 DEF BackupStopped
  <2>3. CASE BackupStopFails(t)
    BY <1>6, <2>3 DEF BackupStopFails
  <2> QED
    BY <1>11, <2>1, <2>2, <2>3 DEF QueryNext
<1>12. CASE IdleTimeout
  BY <1>p, <1>12, PoolIdleTimeout DEF IdleTimeout, HeldByQueries
<1>13. CASE UNCHANGED vars
  BY <1>p, <1>13, PoolUntouched DEF vars
<1>14. CASE Restart
  <2>1. idle' = << >> /\ conn' = [t \in Tasks |-> NoConnection] /\ inBackup' = {}
    BY <1>14 DEF Restart
  <2>2. << >> \in Seq(Connections) /\ IsInjective(<< >>) /\ ToSet(<< >>) = {}
    BY DEF IsInjective, ToSet
  <2>3. NoConnection \notin Idle' /\ \A t \in Tasks : conn'[t] = NoConnection
    BY <2>1, <2>2 DEF Idle
  <2> QED
    BY <1>p, <2>1, <2>2, <2>3 DEF PoolOK, HeldByQueries
<1> QED
  BY <1>3, <1>4, <1>5, <1>7, <1>8, <1>9, <1>10, <1>11, <1>12, <1>13, <1>14 DEF Next, PrepNext

-----------------------------------------------------------------------------
(* Types *)

Values ==
  /\ active \in BOOLEAN /\ phase \in Phases /\ label \in Runs \cup {NoRun}
  /\ pgBackupStarted \in BOOLEAN /\ autoStopTimer \in Runs \cup {NoRun}
  /\ prepTask \in Runs \cup {NoRun} /\ workersPaused \in BOOLEAN
  /\ armed \subseteq Runs /\ aborted \subseteq Runs
  /\ awaited \in [Runs -> Runs \cup {NoRun}]
  /\ overlapped \in BOOLEAN
  /\ armed # {} => prepTask \in Runs

LEMMA UnwindValues ==
  ASSUME Values, NEW t, NEW timers \in SUBSET armed,
         BestEffortUnwind(t, timers) \/ EndOfUnwind(t, timers),
         UNCHANGED <<prepTask, awaited, overlapped>>, aborted' \subseteq Runs
  PROVE  Values'
<1>1. /\ active' \in BOOLEAN /\ phase' \in Phases /\ label' \in Runs \cup {NoRun}
      /\ pgBackupStarted' \in BOOLEAN /\ autoStopTimer' \in Runs \cup {NoRun}
      /\ workersPaused' \in BOOLEAN
  BY DEF BestEffortUnwind, EndOfUnwind, SetPhase, MarkFailed, ClearBackupActive, ResumeWorkers,
     Values, Phases
<1>2. armed' \subseteq armed
  BY UnwindTimers
<1> QED
  BY <1>1, <1>2 DEF Values

LEMMA ValuesStep == Values /\ [Next]_vars => Values'
<1> SUFFICES ASSUME Values, [Next]_vars PROVE Values'
  OBVIOUS
<1>1. ASSUME NEW r \in Runs, Start(r) \/ ToolsMissing(r) PROVE Values'
  BY <1>1 DEF Start, ToolsMissing, ClearBackupActive, state, Values, Phases
<1>2. ASSUME NEW r \in Runs, ToolsAvailable(r) PROVE Values'
  BY <1>2 DEF ToolsAvailable, SetBackupActive, Values, Phases
<1>3. ASSUME NEW r \in Runs, WorkersDrained(r) PROVE Values'
  <2>1. CASE BestEffortUnwind(Prep(r), armed)
    BY <1>3, <2>1, UnwindValues DEF WorkersDrained, Values
  <2>2. CASE SetPhase("dumping") /\ UNCHANGED <<workersPaused, armed>>
    BY <1>3, <2>2 DEF WorkersDrained, SetPhase, Values, Phases
  <2> QED
    BY <1>3, <2>1, <2>2 DEF WorkersDrained, PrepFails
<1>4. ASSUME NEW r \in Runs, BackupStarted(r) PROVE Values'
  BY <1>4 DEF BackupStarted, Values
<1>5. ASSUME NEW r \in Runs, BackupStartFails(r) \/ DumpFails(r) PROVE Values'
  BY <1>5, UnwindValues DEF BackupStartFails, DumpFails, PrepFails, Values
<1>6. ASSUME NEW r \in Runs, Dumped(r) PROVE Values'
  BY <1>6 DEF Dumped, SetPhase, Values, Phases
<1>7. ASSUME NEW r \in Runs, AutoStopFires(r) PROVE Values'
  <2>1. prepTask \in Runs /\ aborted' \subseteq Runs /\ UNCHANGED <<prepTask, overlapped>>
    BY <1>7 DEF AutoStopFires, Values
  <2>2. CASE BestEffortUnwind(Timer(r), armed \ {r}) /\ UNCHANGED awaited
    BY <2>1, <2>2, UnwindValues
  <2>3. CASE /\ awaited' = [awaited EXCEPT ![r] = prepTask]
             /\ armed' = armed \ {r}
             /\ UNCHANGED <<state, workersPaused>>
    BY <2>1, <2>3 DEF state, Values
  <2> QED
    BY <1>7, <2>2, <2>3 DEF AutoStopFires
<1>8. ASSUME NEW s \in Stops, StopBackup(s) PROVE Values'
  <2>1. CASE BestEffortUnwind(Stop(s), armed)
    BY <1>8, <2>1, UnwindValues DEF StopBackup, Values
  <2>2. CASE UNCHANGED <<state, workersPaused, armed>>
    BY <1>8, <2>2 DEF StopBackup, state, Values
  <2>3. CASE ClearBackupActive /\ armed' = armed \ {autoStopTimer} /\ UNCHANGED workersPaused
    BY <1>8, <2>3 DEF StopBackup, ClearBackupActive, Values, Phases
  <2> QED
    BY <1>8, <2>1, <2>2, <2>3 DEF StopBackup
<1>9. ASSUME NEW t \in Tasks, QueryNext(t) PROVE Values'
  <2>1. CASE Connect(t)
    BY <2>1 DEF Connect, state, Values
  <2>2. CASE BackupStopped(t) \/ BackupStopFails(t)
    BY <2>2, UnwindValues DEF BackupStopped, BackupStopFails, Values
  <2> QED
    BY <1>9, <2>1, <2>2 DEF QueryNext
<1>10. CASE IdleTimeout \/ UNCHANGED vars
  BY <1>10 DEF IdleTimeout, vars, state, Values
<1>11. CASE Restart
  BY <1>11 DEF Restart, Values, Phases
<1> QED
  BY <1>1, <1>2, <1>3, <1>4, <1>5, <1>6, <1>7, <1>8, <1>9, <1>10, <1>11 DEF Next, PrepNext

Typed == Values /\ PoolInv /\ TimersFresh

LEMMA TypedInit == Init => Typed
<1> SUFFICES ASSUME Init PROVE Typed
  OBVIOUS
<1>1. << >> \in Seq(Connections) /\ IsInjective(<< >>) /\ ToSet(<< >>) = {}
  BY DEF IsInjective, ToSet
<1>2. Values /\ PlacesOK /\ HeldByQueries
  BY DEF Init, Values, Phases, PlacesOK, Places, HeldByQueries
<1>3. PoolOK
  BY <1>1 DEF Init, PoolOK, Idle
<1>4. TimersFresh
  BY TaskNames DEF Init, TimersFresh
<1> QED
  BY <1>2, <1>3, <1>4 DEF Typed, PoolInv

LEMMA TypedStep == Typed /\ [Next]_vars => Typed'
  BY ValuesStep, PoolStep, FreshStep DEF Typed, PoolInv

(* Every session is idle or in use, by one task, and those in backup mode   *)
(* are among them; nothing else is ill typed either.                        *)
THEOREM TypeCorrect == Spec => []TypeOK
<1>1. Typed => TypeOK
  <2> SUFFICES ASSUME Typed PROVE TypeOK
    OBVIOUS
  <2>1. Idle \subseteq Connections
    BY IdleSessions DEF Typed, PoolInv
  <2>2. Idle \cap InUse = {}
    BY DEF Typed, PoolInv, PoolOK, InUse
  <2> QED
    BY <2>1, <2>2 DEF Typed, Values, PoolInv, PoolOK, PlacesOK, Places, TypeOK
<1> QED
  BY <1>1, TypedInit, TypedStep, PTL DEF Spec

-----------------------------------------------------------------------------
(* Backup mode ends with the run *)

Unwinding(t) == pc[t] = "unwinding"

(* The session in backup mode is the next to be taken, and somebody is to   *)
(* take it ...                                                              *)
LiesReady ==
  /\ idle # << >> /\ inBackup = {Last(idle)}
  /\ \A t \in Tasks : Unwinding(t) => conn[t] = NoConnection
  /\ pgBackupStarted \/ \E t \in Tasks : Unwinding(t)

(* ... or has it. *)
InHand == \E t \in Tasks : Unwinding(t) /\ conn[t] # NoConnection /\ inBackup = {conn[t]}

BeforeStart(r) == pc[Prep(r)] \in {"pausing", "starting"}

ModeOK ==
  /\ phase \in Over => ~pgBackupStarted
  /\ \A r \in Runs : BeforeStart(r) => inBackup = {} /\ ~pgBackupStarted
  /\ inBackup = {} \/ LiesReady \/ InHand

(* Only a prep sends pg_backup_start. *)
OnlyPrepsStart == \A t \in Tasks : pc[t] = "starting" => \E r \in Runs : t = Prep(r)

LEMMA StartingArePreps == PlacesOK /\ OnlyPrepsStart /\ [Next]_vars => OnlyPrepsStart'
<1> SUFFICES ASSUME PlacesOK, OnlyPrepsStart, [Next]_vars PROVE OnlyPrepsStart'
  OBVIOUS
<1> USE TaskNames DEF OnlyPrepsStart
<1>1. ASSUME NEW t \in Tasks, NEW where, Goto(t, where),
             where = "starting" => \E r \in Runs : t = Prep(r)
      PROVE  OnlyPrepsStart'
  BY <1>1 DEF Goto, PlacesOK
<1>2. ASSUME NEW t \in Tasks, NEW timers, BestEffortUnwind(t, timers) \/ EndOfUnwind(t, timers)
      PROVE  OnlyPrepsStart'
  BY <1>2, UnwindPlaces, EndOfUnwindPlaces
<1>3. ASSUME NEW r \in Runs, Start(r) \/ ToolsAvailable(r) \/ ToolsMissing(r)
      PROVE  OnlyPrepsStart'
  BY <1>1, <1>3 DEF Start, ToolsAvailable, ToolsMissing
<1>4. ASSUME NEW r \in Runs, WorkersDrained(r) \/ BackupStarted(r) \/ BackupStartFails(r) \/ DumpFails(r)
      PROVE  OnlyPrepsStart'
  BY <1>1, <1>2, <1>4 DEF WorkersDrained, BackupStarted, BackupStartFails, DumpFails, PrepFails
<1>5. ASSUME NEW r \in Runs, Dumped(r) PROVE OnlyPrepsStart'
  BY <1>5 DEF Dumped, EndOfPrep, PlacesOK
<1>6. ASSUME NEW r \in Runs, AutoStopFires(r) PROVE OnlyPrepsStart'
  BY <1>1, <1>2, <1>6 DEF AutoStopFires
<1>7. ASSUME NEW s \in Stops, StopBackup(s) PROVE OnlyPrepsStart'
  BY <1>1, <1>2, <1>7 DEF StopBackup
<1>8. ASSUME NEW t \in Tasks, QueryNext(t) PROVE OnlyPrepsStart'
  BY <1>2, <1>8 DEF QueryNext, Connect, BackupStopped, BackupStopFails
<1>9. CASE IdleTimeout \/ UNCHANGED vars
  BY <1>9 DEF IdleTimeout, vars
<1>10. CASE Restart
  BY <1>10 DEF Restart, InFlight
<1> QED
  BY <1>3, <1>4, <1>5, <1>6, <1>7, <1>8, <1>9, <1>10 DEF Next, PrepNext

ModeInv == Typed /\ RunInv /\ OnlyPrepsStart /\ (~overlapped => ModeOK)

LEMMA ModeKept ==
  ASSUME ModeOK, UNCHANGED pool, pgBackupStarted <=> pgBackupStarted',
         phase' \in Over => ~pgBackupStarted',
         \A t \in Tasks : Unwinding(t) <=> Unwinding(t)',
         \A r \in Runs : BeforeStart(r)' => BeforeStart(r)
  PROVE  ModeOK'
<1>1. UNCHANGED <<idle, conn, inBackup>>
  BY DEF pool
<1>2. inBackup = {} => inBackup' = {}
  BY <1>1
<1>3. LiesReady => LiesReady'
  BY <1>1 DEF LiesReady
<1>4. InHand => InHand'
  BY <1>1 DEF InHand
<1> QED
  BY <1>1, <1>2, <1>3, <1>4 DEF ModeOK

(* Somebody begins to unwind, or finds nothing to stop. *)
LEMMA ModeUnwind ==
  ASSUME ModeInv, ModeOK, UNCHANGED pool, NEW t \in Tasks, NEW timers,
         BestEffortUnwind(t, timers), pc[t] \notin Querying,
         phase \in Over => t[1] # "stop"
  PROVE  ModeOK'
<1> USE TaskNames DEF ModeInv, Typed, PoolInv
<1>0. UNCHANGED <<idle, conn, inBackup>> /\ ~Unwinding(t) /\ conn[t] = NoConnection
  BY DEF pool, Unwinding, Querying, HeldByQueries
<1>1. CASE pgBackupStarted /\ Goto(t, "unwinding") /\ SetPhase(IF t[1] = "stop" THEN "stopping" ELSE phase)
  <2>1. \A u \in Tasks : Unwinding(u)' <=> Unwinding(u) \/ u = t
    BY <1>1 DEF Goto, Unwinding, PlacesOK
  <2>2. pgBackupStarted' /\ phase \notin Over /\ phase' \notin Over
    BY <1>1 DEF SetPhase, ModeOK, Over
  <2>3. \A r \in Runs : ~BeforeStart(r)'
    BY <1>1 DEF Goto, BeforeStart, PlacesOK, ModeOK
  <2>4. LiesReady => LiesReady'
    BY <1>0, <2>1, <2>2 DEF LiesReady
  <2>5. InHand => InHand'
    BY <1>0, <2>1 DEF InHand
  <2> QED
    BY <1>0, <2>2, <2>3, <2>4, <2>5 DEF ModeOK
<1>2. CASE ~pgBackupStarted /\ EndOfUnwind(t, timers)
  <2>1. \A u \in Tasks : u # t /\ pc[u] # "waiting" => pc'[u] = pc[u]
    BY <1>2, UnwindKeeps
  <2>2. \A u \in Tasks : pc'[u] # pc[u] => pc'[u] = "ended"
    BY <1>2, EndOfUnwindPlaces
  <2>3. \A u \in Tasks : Unwinding(u) <=> Unwinding(u)'
    BY <1>0, <2>1, <2>2 DEF Unwinding
  <2>4. \A r \in Runs : BeforeStart(r)' => BeforeStart(r)
    BY <2>2 DEF BeforeStart
  <2>5. pgBackupStarted' = FALSE
    BY <1>2 DEF EndOfUnwind, MarkFailed, ClearBackupActive
  <2> QED
    BY <1>2, <2>3, <2>4, <2>5, ModeKept
<1> QED
  BY <1>1, <1>2 DEF BestEffortUnwind

(* An unwinding ends with its query. *)
LEMMA ModeStopped ==
  ASSUME ModeInv, ModeOK, ~overlapped, NEW t \in Tasks, Unwinding(t), EndOfUnwind(t, armed),
         \/ QueryFails(t)
         \/ conn[t] # NoConnection /\ inBackup' = inBackup \ {conn[t]} /\ Release(t)
  PROVE  ModeOK'
<1> USE TaskNames DEF ModeInv, Typed, PoolInv
<1>1. /\ inBackup' = inBackup \ {conn[t]} /\ ~LiesReady
      /\ \A u \in Tasks \ {t} : conn'[u] = conn[u]
  <2>1. CASE QueryFails(t)
    BY <2>1, PoolQueryFails DEF QueryFails, LiesReady
  <2>2. CASE conn[t] # NoConnection /\ inBackup' = inBackup \ {conn[t]} /\ Release(t)
    <3>1. inBackup' \subseteq inBackup \cup {conn[t]}
      BY <2>2
    <3> QED
      BY <2>2, <3>1, PoolRelease DEF LiesReady
  <2> QED
    BY <2>1, <2>2
<1>2. \A u \in Tasks : pc'[u] # pc[u] => pc'[u] = "ended"
  BY EndOfUnwindPlaces
<1>3. pgBackupStarted' = FALSE
  BY DEF EndOfUnwind, MarkFailed, ClearBackupActive
<1>4. \A r \in Runs : BeforeStart(r)' => inBackup' = {}
  BY <1>1, <1>2 DEF BeforeStart, ModeOK
<1>5. inBackup' = {} \/ InHand'
  <2> SUFFICES ASSUME InHand, inBackup' # {} PROVE InHand'
    BY <1>1 DEF ModeOK
  <2>1. PICK u \in Tasks : Unwinding(u) /\ conn[u] # NoConnection /\ inBackup = {conn[u]}
    BY DEF InHand
  <2>2. u # t
    BY <1>1, <2>1
  <2>3. conn[u] # conn[t]
    BY <2>1, <2>2 DEF PoolOK
  <2>4. pc'[u] = pc[u]
    BY <2>1, <2>2, UnwindKeeps DEF Unwinding
  <2> QED
    BY <1>1, <2>1, <2>2, <2>3, <2>4 DEF InHand, Unwinding
<1> QED
  BY <1>3, <1>4, <1>5 DEF ModeOK

LEMMA ModeStep == ModeInv /\ [Next]_vars => ModeInv'
<1> SUFFICES ASSUME ModeInv, [Next]_vars, ~overlapped' PROVE ModeOK'
  BY TypedStep, RunStep, StartingArePreps DEF ModeInv, RunInv
<1> USE TaskNames, NamesApart
<1>t. PlacesOK /\ PoolInv /\ PoolOK /\ RunInv /\ MaintenanceMatchesPhase
  BY DEF ModeInv, Typed, PoolInv, RunInv
<1>m. ~overlapped => ModeOK
  BY DEF ModeInv
<1>1. ASSUME overlapped' = overlapped, UNCHANGED pool,
             pgBackupStarted' = pgBackupStarted, phase' \in Over => phase \in Over,
             NEW t \in Tasks, NEW where, Goto(t, where), ~Unwinding(t), where # "unwinding",
             (\E r \in Runs : t = Prep(r)) =>
                where \notin {"pausing", "starting"} \/ pc[t] \in {"pausing", "starting"}
      PROVE  ModeOK'
  <2>1. \A u \in Tasks : Unwinding(u) <=> Unwinding(u)'
    BY <1>1, <1>t DEF Goto, Unwinding, PlacesOK
  <2>2. \A r \in Runs : BeforeStart(r)' => BeforeStart(r)
    BY <1>1, <1>t DEF Goto, BeforeStart, PlacesOK
  <2>3. ModeOK /\ (phase' \in Over => ~pgBackupStarted')
    BY <1>1, <1>m DEF ModeOK
  <2> QED
    BY <1>1, <2>1, <2>2, <2>3, ModeKept
<1>2. ASSUME overlapped' = overlapped, UNCHANGED pool, phase = "failed", ClearBackupActive,
             NEW t \in Tasks, NEW where \in {"tools", "ended"}, Goto(t, where), ~Unwinding(t)
      PROVE  ModeOK'
  <2>1. \A u \in Tasks : Unwinding(u) <=> Unwinding(u)'
    BY <1>2, <1>t DEF Goto, Unwinding, PlacesOK
  <2>2. \A r \in Runs : BeforeStart(r)' => BeforeStart(r)
    BY <1>2, <1>t DEF Goto, BeforeStart, PlacesOK
  <2>3. ModeOK /\ ~pgBackupStarted /\ pgBackupStarted' = FALSE
    BY <1>2, <1>m DEF ModeOK, Over, ClearBackupActive
  <2> QED
    BY <1>2, <2>1, <2>2, <2>3, ModeKept
<1>3. ASSUME NEW r \in Runs, Start(r) PROVE ModeOK'
  BY <1>1, <1>2, <1>3 DEF Start, state, Unwinding, Over
<1>4. ASSUME NEW r \in Runs, ToolsMissing(r) PROVE ModeOK'
  BY <1>1, <1>4 DEF ToolsMissing, state, Unwinding
<1>5. ASSUME NEW r \in Runs, ToolsAvailable(r) PROVE ModeOK'
  <2>1. /\ ~overlapped /\ ~active /\ \A t \in Tasks : ~Unwinding(t)
        /\ pgBackupStarted' = FALSE /\ phase' = "draining" /\ inBackup' = inBackup
    BY <1>5 DEF ToolsAvailable, SetBackupActive, pool, Unwinding
  <2>2. ~pgBackupStarted
    BY <2>1, <1>m, <1>t DEF MaintenanceMatchesPhase, ModeOK
  <2>3. inBackup = {}
    BY <2>1, <2>2, <1>m DEF ModeOK, LiesReady, InHand
  <2> QED
    BY <2>1, <2>3 DEF ModeOK, Over
<1>6. ASSUME NEW r \in Runs, WorkersDrained(r) PROVE ModeOK'
  <2>1. pc[Prep(r)] = "pausing" /\ overlapped' = overlapped /\ UNCHANGED pool
    BY <1>6 DEF WorkersDrained
  <2>2. CASE BestEffortUnwind(Prep(r), armed)
    BY <1>m, <2>1, <2>2, ModeUnwind DEF Prep, Querying
  <2>3. CASE SetPhase("dumping") /\ Goto(Prep(r), "starting")
    BY <1>1, <2>1, <2>3 DEF SetPhase, Unwinding, Over
  <2> QED
    BY <1>6, <2>2, <2>3 DEF WorkersDrained, PrepFails
<1>7. ASSUME NEW r \in Runs, DumpFails(r) PROVE ModeOK'
  BY <1>m, <1>7, ModeUnwind DEF DumpFails, PrepFails, Prep, Querying
<1>8. ASSUME NEW r \in Runs, BackupStarted(r) PROVE ModeOK'
  <2> DEFINE t == Prep(r)
  <2>1. /\ ~overlapped /\ pc[t] = "starting" /\ Release(t) /\ conn[t] # NoConnection
        /\ inBackup' = inBackup \cup {conn[t]} /\ pgBackupStarted' = TRUE /\ phase' = phase
    BY <1>8 DEF BackupStarted
  <2>2. inBackup = {} /\ PrepAtWork(r)
    BY <1>m, <2>1 DEF ModeOK, BeforeStart, PrepAtWork
  <2>3. /\ phase \notin Over /\ \A q \in Runs : PrepAtWork(q) => q = r
        /\ \A u \in Tasks : ~Unwinding(u)
    BY <1>t, <2>1, <2>2 DEF RunInv, OneRun, Over, Unwinding
  <2>4. /\ idle' # << >> /\ Last(idle') = conn[t] /\ conn'[t] = NoConnection
        /\ \A u \in Tasks \ {t} : conn'[u] = conn[u]
    BY <1>t, <2>1, PoolRelease
  <2>5. \A u \in Tasks : Unwinding(u)' => u = t
    BY <1>8, <1>t, <2>3 DEF BackupStarted, Goto, Unwinding, PlacesOK
  <2>6. LiesReady'
    BY <2>1, <2>2, <2>4, <2>5 DEF LiesReady
  <2>7. \A q \in Runs : ~BeforeStart(q)'
    BY <1>8, <1>t, <2>3 DEF BackupStarted, Goto, BeforeStart, PrepAtWork, PlacesOK
  <2> QED
    BY <2>1, <2>3, <2>6, <2>7 DEF ModeOK
<1>9. ASSUME NEW r \in Runs, BackupStartFails(r) PROVE ModeOK'
  <2> DEFINE t == Prep(r)
  <2>1. ~overlapped /\ pc[t] = "starting"
    BY <1>9 DEF BackupStartFails
  <2>2. inBackup = {} /\ ~pgBackupStarted
    BY <1>m, <2>1 DEF ModeOK, BeforeStart
  <2>3. inBackup' = {}
    BY <1>9, <2>2 DEF BackupStartFails, QueryFails
  <2>4. pgBackupStarted' = FALSE
    BY <1>9, <2>2 DEF BackupStartFails, PrepFails, BestEffortUnwind, EndOfUnwind, MarkFailed, ClearBackupActive
  <2> QED
    BY <2>3, <2>4 DEF ModeOK
<1>10. ASSUME NEW r \in Runs, Dumped(r) PROVE ModeOK'
  <2>1. /\ UNCHANGED pool /\ pgBackupStarted' = pgBackupStarted /\ phase' = "ready"
        /\ overlapped' = overlapped
    BY <1>10 DEF Dumped, SetPhase
  <2>2. \A u \in Tasks : Unwinding(u) <=> Unwinding(u)'
    BY <1>10, <1>t DEF Dumped, EndOfPrep, Unwinding, PlacesOK
  <2>3. \A q \in Runs : BeforeStart(q)' => BeforeStart(q)
    BY <1>10, <1>t DEF Dumped, EndOfPrep, BeforeStart, PlacesOK
  <2> QED
    BY <1>m, <2>1, <2>2, <2>3, ModeKept DEF Over
<1>11. ASSUME NEW r \in Runs, AutoStopFires(r) PROVE ModeOK'
  <2>1. /\ UNCHANGED pool /\ overlapped' = overlapped /\ pc[Timer(r)] = "new"
        /\ Timer(r)[1] = "auto"
    BY <1>11 DEF AutoStopFires, ModeInv, Typed, TimersFresh, Timer
  <2>2. CASE BestEffortUnwind(Timer(r), armed \ {r})
    BY <1>m, <2>1, <2>2, ModeUnwind DEF Querying
  <2>3. CASE Goto(Timer(r), "waiting") /\ UNCHANGED state
    BY <1>1, <2>1, <2>3 DEF state, Unwinding
  <2> QED
    BY <1>11, <2>2, <2>3 DEF AutoStopFires
<1>12. ASSUME NEW s \in Stops, StopBackup(s) PROVE ModeOK'
  <2>1. /\ UNCHANGED pool /\ overlapped' = overlapped /\ pc[Stop(s)] = "new"
    BY <1>12 DEF StopBackup
  <2>2. CASE phase = "ready" /\ BestEffortUnwind(Stop(s), armed)
    BY <1>m, <2>1, <2>2, ModeUnwind DEF Querying, Over
  <2>3. CASE Goto(Stop(s), "ended") /\ UNCHANGED state
    BY <1>1, <2>1, <2>3 DEF state, Unwinding
  <2>4. CASE phase = "failed" /\ ClearBackupActive /\ Goto(Stop(s), "ended")
    BY <1>2, <2>1, <2>4 DEF Unwinding
  <2> QED
    BY <1>12, <2>2, <2>3, <2>4 DEF StopBackup
<1>13. ASSUME NEW t \in Tasks, Connect(t) PROVE ModeOK'
  <2>1. /\ UNCHANGED <<phase, pgBackupStarted, pc, overlapped>> /\ inBackup' = inBackup
        /\ \A u \in Tasks \ {t} : conn'[u] = conn[u]
        /\ conn[t] = NoConnection /\ conn'[t] # NoConnection
        /\ idle # << >> => conn'[t] = Last(idle)
        /\ pc[t] \in Querying
    BY <1>13, <1>t, PoolConnect DEF Connect, state
  <2>2. InHand => InHand'
    BY <2>1 DEF InHand, Unwinding
  <2>3. ASSUME LiesReady PROVE inBackup = {} \/ InHand'
    <3>1. CASE pc[t] = "unwinding"
      BY <2>1, <2>3, <3>1 DEF LiesReady, InHand, Unwinding
    <3>2. CASE pc[t] = "starting" /\ \E r \in Runs : t = Prep(r)
      BY <1>m, <2>1, <3>2 DEF ModeOK, BeforeStart
    <3> QED
      BY <2>1, <3>1, <3>2 DEF Querying, ModeInv, OnlyPrepsStart
  <2> QED
    BY <1>m, <2>1, <2>2, <2>3 DEF ModeOK, BeforeStart
<1>14. ASSUME NEW t \in Tasks, BackupStopped(t) \/ BackupStopFails(t) PROVE ModeOK'
  BY <1>m, <1>14, ModeStopped DEF BackupStopped, BackupStopFails, Unwinding
<1>15. CASE IdleTimeout
  <2>1. PICK c \in Idle : inBackup' = inBackup \ {c}
                          /\ (c # Last(idle) => idle' # << >> /\ Last(idle') = Last(idle))
    BY <1>15, <1>t, PoolIdleTimeout
  <2>2. UNCHANGED <<phase, pgBackupStarted, pc, conn, overlapped>>
    BY <1>15 DEF IdleTimeout, state
  <2>3. InHand => InHand'
    BY <1>t, <2>1, <2>2 DEF InHand, PoolOK, Unwinding
  <2>4. LiesReady => inBackup' = {} \/ LiesReady'
    BY <2>1, <2>2 DEF LiesReady, Unwinding
  <2> QED
    BY <1>m, <2>1, <2>2, <2>3, <2>4 DEF ModeOK, BeforeStart
<1>16. CASE UNCHANGED vars
  BY <1>m, <1>16, ModeKept DEF vars, state, Unwinding, BeforeStart, ModeOK
<1>17. CASE Restart
  <2>1. inBackup' = {} /\ pgBackupStarted' = FALSE
    BY <1>17 DEF Restart
  <2> QED
    BY <2>1 DEF ModeOK
<1> QED
  BY <1>3, <1>4, <1>5, <1>6, <1>7, <1>8, <1>9, <1>10, <1>11, <1>12, <1>13, <1>14, <1>15, <1>16, <1>17
     DEF Next, PrepNext, QueryNext

(* With one run at a time no session is left in backup mode, whichever way  *)
(* the run ends and whichever session pg_backup_stop gets.                  *)
THEOREM ModeReleased == Spec => []BackupModeReleased
<1>1. Init => ModeInv
  <2> SUFFICES ASSUME Init PROVE ModeInv
    OBVIOUS
  <2>1. RunInv
    BY TaskNames DEF Init, RunInv, PlacesOK, Places, MaintenanceMatchesPhase, OneRun, PrepAtWork, Over
  <2>2. ModeOK
    BY DEF Init, ModeOK
  <2>3. OnlyPrepsStart
    BY DEF Init, OnlyPrepsStart
  <2> QED
    BY <2>1, <2>2, <2>3, TypedInit DEF ModeInv
<1>2. ModeInv => BackupModeReleased
  <2> SUFFICES ASSUME ModeInv, ~overlapped, phase \in Over, \A t \in Tasks : ~InFlight(t)
               PROVE  inBackup = {}
    BY DEF BackupModeReleased
  <2>1. ~pgBackupStarted /\ \A t \in Tasks : ~Unwinding(t)
    BY DEF ModeInv, ModeOK, InFlight, Unwinding
  <2> QED
    BY <2>1 DEF ModeInv, ModeOK, LiesReady, InHand
<1> QED
  BY <1>1, <1>2, ModeStep, PTL DEF Spec
=============================================================================
