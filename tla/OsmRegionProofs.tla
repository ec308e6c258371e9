---------------------------- MODULE OsmRegionProofs ----------------------------
(* Theorems about LocalCron, for any job and any number of runs started by      *)
(* hand, and then about OsmRegion, whose importer is such a job, for any number *)
(* of imports under way, all scenarios and all bounds.                         *)
EXTENDS OsmRegion, TLAPS, FiniteSetTheorems

-----------------------------------------------------------------------------
(* A job of LocalCron *)

(* A save of a run is the run's own, and its last step. *)
OwnSave ==
  \A s \in saves : s.by \in Runs =>
    /\ run[s.by] = "save"
    /\ \A t \in saves : t.by = s.by => t = s

(* Unless the row may be another one's, the only save under way writes the flag
   as it is, and so did the last one. *)
LastSaveTells ==
  ~mixed =>
    /\ saves = {} => saved.enabled = enabled
    /\ \A s \in saves : s.row.enabled = enabled /\ \A t \in saves : t = s

(* What blurred is the history of. *)
Alone ==
  ~blurred =>
    \A r \in Runs : run[r] = "job" =>
      /\ enabled
      /\ \A q \in Runs \ {r} : run[q] = "idle"

CronInv == CronTypeOK /\ OwnSave /\ LastSaveTells /\ Alone /\ StatusTells

-----------------------------------------------------------------------------
LEMMA RowType ==
  ASSUME NEW e \in BOOLEAN, NEW s \in Statuses
  PROVE  Row(e, s) \in SavedRows /\ Row(e, s).enabled = e
  BY DEF Row, SavedRows, Statuses

LEMMA TimerIsARun == "timer" \in Runs /\ "admin" \notin Runs /\ Runs \subseteq Savers
  BY HandsAssumption DEF Runs, Savers

(* What an unfinished save knows of its run, and leaves behind. *)
LEMMA ThroughEffect ==
  ASSUME CronInv, NEW s \in saves, Through(s.by), saves' = saves \ {s}
  PROVE  /\ run' \in [Runs -> {"idle", "job", "save"}]
         /\ \A q \in Runs : run'[q] = run[q] \/ (q = s.by /\ run[q] = "save" /\ run'[q] = "idle")
         /\ AtWork' = AtWork
         /\ armed' \in BOOLEAN /\ status' \in Statuses
         /\ UNCHANGED <<enabled, blurred>>
         /\ OwnSave' /\ Alone' /\ StatusTells'
<1> USE TimerIsARun DEF CronInv
<1>1. s.by \in Savers
  BY DEF CronTypeOK
<1>2. run' \in [Runs -> {"idle", "job", "save"}]
  BY DEF Through, CronTypeOK
<1>3. \A q \in Runs : run'[q] = run[q] \/ (q = s.by /\ run[q] = "save" /\ run'[q] = "idle")
  BY DEF Through, CronTypeOK, OwnSave
<1>4. AtWork' = AtWork
  BY <1>3 DEF AtWork
<1>5. armed' \in BOOLEAN /\ status' \in Statuses
  BY DEF Through, Rearmed, ArmedStatus, CronTypeOK, Statuses
<1>6. UNCHANGED <<enabled, blurred>>
  BY DEF Through
<1>7. OwnSave'
  BY <1>3 DEF OwnSave
<1>8. Alone'
  BY <1>3, <1>6 DEF Alone
<1>9. StatusTells'
  <2>1. CASE s.by # "timer"
    <3>1. status' = status
      BY <2>1 DEF Through
    <3> QED
      BY <3>1, <1>4, <1>6 DEF StatusTells
  <2>2. CASE s.by = "timer"
    <3>1. run["timer"] = "save" /\ status' = ArmedStatus(status)
      BY <2>2 DEF Through, OwnSave
    <3>2. ~blurred => AtWork = {}
      BY <3>1 DEF Alone, AtWork
    <3>3. status' # "running" /\ (status' = "paused" <=> status = "paused")
      BY <3>1 DEF ArmedStatus
    <3> QED
      BY <3>2, <3>3, <1>4, <1>6 DEF StatusTells
  <2> QED
    BY <2>1, <2>2
<1> QED
  BY <1>2, <1>3, <1>4, <1>5, <1>6, <1>7, <1>8, <1>9

(* What a save that is sent off needs to know of memory. *)
LEMMA SaveEffect ==
  ASSUME CronInv, NEW w \in Savers, NEW saving \in SavedRows, Save(w, saving),
         saving.enabled = enabled', UNCHANGED saved
  PROVE  /\ saves' \subseteq [by : Savers, row : SavedRows]
         /\ mixed' \in BOOLEAN
         /\ LastSaveTells'
<1>1. saves' \subseteq [by : Savers, row : SavedRows] /\ mixed' \in BOOLEAN
  BY DEF Save, CronInv, CronTypeOK
<1>2. LastSaveTells'
  <2>1. ~mixed' => saves' = {[by |-> w, row |-> saving]}
    BY DEF Save
  <2>2. saves' # {}
    BY DEF Save
  <2> QED
    BY <2>1, <2>2 DEF LastSaveTells
<1> QED
  BY <1>1, <1>2

-----------------------------------------------------------------------------
LEMMA CronInvInit == CronInit => CronInv
<1> SUFFICES ASSUME CronInit PROVE CronInv
  OBVIOUS
<1> USE DEF CronInit
<1>1. CronTypeOK
  BY DEF CronTypeOK, Statuses, SavedRows
<1>2. OwnSave /\ LastSaveTells
  BY DEF OwnSave, LastSaveTells
<1>3. Alone /\ StatusTells
  BY DEF Alone, StatusTells, AtWork
<1> QED
  BY <1>1, <1>2, <1>3 DEF CronInv

LEMMA BeginStep ==
  ASSUME CronInv, NEW r \in Runs, Begin(r), enabled, armed' \in BOOLEAN
  PROVE  CronInv'
<1> USE DEF CronInv
<1>1. CronTypeOK'
  BY DEF Begin, CronTypeOK, Statuses
<1>2. OwnSave'
  BY DEF Begin, OwnSave, CronTypeOK
<1>3. LastSaveTells'
  BY DEF Begin, LastSaveTells
<1>4. Alone'
  BY DEF Begin, Alone, CronTypeOK
<1>5. StatusTells'
  <2>1. r \in AtWork'
    BY DEF Begin, AtWork, CronTypeOK
  <2> QED
    BY <2>1 DEF Begin, StatusTells
<1> QED
  BY <1>1, <1>2, <1>3, <1>4, <1>5

LEMMA SkipStep ==
  ASSUME CronInv, ~enabled, status' = ArmedStatus(status),
         UNCHANGED <<enabled, armed, run, saves, saved, mixed, blurred>>
  PROVE  CronInv'
<1> USE DEF CronInv
<1>1. CronTypeOK'
  BY DEF CronTypeOK, ArmedStatus, Statuses
<1>2. OwnSave' /\ LastSaveTells' /\ Alone'
  BY DEF OwnSave, LastSaveTells, Alone
<1>3. StatusTells'
  <2>1. ~blurred => AtWork = {}
    BY DEF Alone, AtWork
  <2>2. status' # "running" /\ (status' = "paused" <=> status = "paused")
    BY DEF ArmedStatus
  <2>3. AtWork' = AtWork
    BY DEF AtWork
  <2> QED
    BY <2>1, <2>2, <2>3 DEF StatusTells
<1> QED
  BY <1>1, <1>2, <1>3

LEMMA EndStep ==
  ASSUME CronInv, NEW r \in Runs, NEW outcome \in {"ok", "error"}, End(r, outcome)
  PROVE  CronInv'
<1> USE TimerIsARun DEF CronInv
<1>1. Row(enabled, outcome) \in SavedRows /\ Row(enabled, outcome).enabled = enabled
  BY RowType DEF CronTypeOK, Statuses
<1>2. /\ saves' \subseteq [by : Savers, row : SavedRows]
      /\ mixed' \in BOOLEAN
      /\ LastSaveTells'
  <2>1. Save(r, Row(enabled, outcome)) /\ enabled' = enabled /\ UNCHANGED saved /\ r \in Savers
    BY DEF End
  <2> QED
    BY <1>1, <2>1, SaveEffect
<1>3. CronTypeOK'
  BY <1>2 DEF End, CronTypeOK, Statuses
<1>4. OwnSave'
  <2>1. /\ run[r] = "job"
        /\ run' = [run EXCEPT ![r] = "save"]
        /\ saves' = saves \cup {[by |-> r, row |-> Row(enabled, outcome)]}
    BY DEF End, Save
  <2>2. \A s \in saves : s.by # r
    BY <2>1 DEF OwnSave
  <2> QED
    BY <2>1, <2>2 DEF OwnSave, CronTypeOK
<1>5. Alone'
  BY DEF End, Alone, CronTypeOK
<1>6. StatusTells'
  <2>1. AtWork' = AtWork \ {r} /\ r \in AtWork
    BY DEF End, AtWork, CronTypeOK
  <2>2. ~blurred => enabled /\ AtWork = {r}
    BY <2>1 DEF Alone, AtWork
  <2> QED
    BY <2>1, <2>2 DEF End, StatusTells
<1> QED
  BY <1>2, <1>3, <1>4, <1>5, <1>6

LEMMA ThroughStep ==
  ASSUME CronInv, NEW s \in saves, Land(s) \/ SaveFails(s)
  PROVE  CronInv'
<1> USE DEF CronInv
<1>1. Through(s.by) /\ saves' = saves \ {s}
  BY DEF Land, SaveFails
<1>2. /\ run' \in [Runs -> {"idle", "job", "save"}]
      /\ armed' \in BOOLEAN /\ status' \in Statuses
      /\ UNCHANGED <<enabled, blurred>>
      /\ OwnSave' /\ Alone' /\ StatusTells'
  BY <1>1, ThroughEffect
<1>3. saved' \in SavedRows /\ mixed' \in BOOLEAN
  BY DEF Land, SaveFails, CronTypeOK
<1>4. CronTypeOK'
  BY <1>1, <1>2, <1>3 DEF CronTypeOK
<1>5. LastSaveTells'
  BY <1>2 DEF Land, SaveFails, LastSaveTells
<1> QED
  BY <1>2, <1>4, <1>5

LEMMA SetEnabledStep ==
  ASSUME CronInv, NEW e \in BOOLEAN, SetEnabled(e)
  PROVE  CronInv'
<1> USE TimerIsARun DEF CronInv
<1>1. Toggled(e) \in Statuses /\ status' = Toggled(e) /\ enabled' = e
  BY DEF SetEnabled, Toggled, Statuses, CronTypeOK
<1>2. ToggledRow(e) \in SavedRows /\ ToggledRow(e).enabled = e
  BY <1>1, RowType DEF ToggledRow
<1>3. /\ saves' \subseteq [by : Savers, row : SavedRows]
      /\ mixed' \in BOOLEAN
      /\ LastSaveTells'
  <2>1. "admin" \in Savers /\ Save("admin", ToggledRow(e)) /\ UNCHANGED saved
    BY DEF SetEnabled, Savers
  <2> QED
    BY <1>1, <1>2, <2>1, SaveEffect
<1>4. CronTypeOK'
  BY <1>1, <1>3 DEF SetEnabled, CronTypeOK
<1>5. OwnSave'
  BY DEF SetEnabled, Save, OwnSave
<1>6. AtWork' = AtWork /\ (blurred' <=> AtWork # {})
  BY DEF SetEnabled, AtWork
<1>7. Alone'
  BY <1>6 DEF SetEnabled, Alone, AtWork
<1>8. StatusTells'
  BY <1>1, <1>6 DEF Toggled, StatusTells
<1> QED
  BY <1>3, <1>4, <1>5, <1>7, <1>8

LEMMA CronRestartStep == CronInv /\ CronRestart => CronInv'
<1> SUFFICES ASSUME CronInv, CronRestart PROVE CronInv'
  OBVIOUS
<1> USE DEF CronInv
<1>1. PICK hydrated \in BOOLEAN :
        /\ enabled' = (hydrated => saved.enabled)
        /\ status' = CASE hydrated /\ ~saved.enabled -> "paused"
                       [] hydrated /\ saved.enabled /\ saved.last # "none" -> saved.last
                       [] OTHER -> "scheduled"
        /\ mixed' = (~hydrated /\ ~saved.enabled)
  BY DEF CronRestart
<1>2. saved.enabled \in BOOLEAN /\ saved.last \in {"none", "ok", "error"}
  BY DEF CronTypeOK, SavedRows
<1>3. /\ status' \in {"paused", "ok", "error", "scheduled"}
      /\ status' = "paused" <=> hydrated /\ ~saved.enabled
  BY <1>1, <1>2
<1>4. /\ armed' = TRUE /\ saves' = {} /\ blurred' = FALSE /\ saved' = saved
      /\ run' = [r \in Runs |-> "idle"]
  BY DEF CronRestart
<1>5. CronTypeOK'
  BY <1>1, <1>2, <1>3, <1>4 DEF CronTypeOK, Statuses
<1>6. OwnSave' /\ Alone'
  BY <1>4 DEF OwnSave, Alone
<1>7. LastSaveTells'
  BY <1>1, <1>2, <1>4 DEF LastSaveTells
<1>8. StatusTells'
  <2>1. AtWork' = {}
    BY <1>4 DEF AtWork
  <2> QED
    BY <2>1, <1>1, <1>3 DEF StatusTells
<1> QED
  BY <1>5, <1>6, <1>7, <1>8

LEMMA CronInvStep == CronInv /\ [CronStep]_cronVars => CronInv'
<1> SUFFICES ASSUME CronInv, [CronStep]_cronVars PROVE CronInv'
  OBVIOUS
<1>1. CASE Fire
  <2>1. CASE enabled /\ Begin("timer") /\ armed' = FALSE
    BY <2>1, BeginStep, TimerIsARun
  <2>2. CASE ~enabled
    BY <1>1, <2>2, SkipStep DEF Fire
  <2> QED
    BY <1>1, <2>1, <2>2 DEF Fire
<1>2. ASSUME NEW h \in Hands, RunNow(h) PROVE CronInv'
  BY <1>2, BeginStep DEF RunNow, Runs, CronInv, CronTypeOK
<1>3. ASSUME NEW r \in Runs, NEW outcome \in {"ok", "error"}, End(r, outcome) PROVE CronInv'
  BY <1>3, EndStep
<1>4. ASSUME NEW s \in saves, Land(s) \/ SaveFails(s) PROVE CronInv'
  BY <1>4, ThroughStep
<1>5. ASSUME NEW e \in BOOLEAN, SetEnabled(e) PROVE CronInv'
  BY <1>5, SetEnabledStep
<1>6. CASE CronRestart
  BY <1>6, CronRestartStep
<1>7. CASE UNCHANGED cronVars
  BY <1>7 DEF cronVars, CronInv, CronTypeOK, OwnSave, LastSaveTells, Alone, StatusTells, AtWork
<1> QED
  BY <1>1, <1>2, <1>3, <1>4, <1>5, <1>6, <1>7 DEF CronStep

-----------------------------------------------------------------------------
LEMMA CronInvariant == CronSpec => []CronInv
<1>1. CronInit => CronInv
  BY CronInvInit
<1>2. CronInv /\ [CronStep]_cronVars => CronInv'
  BY CronInvStep
<1> QED
  BY <1>1, <1>2, PTL DEF CronSpec

(* Whatever runs overlap, a row saved last says of the job whether it is paused. *)
THEOREM RowsAgree == CronSpec => []SavedAgrees
<1>1. CronInv => SavedAgrees
  BY DEF CronInv, LastSaveTells, SavedAgrees
<1> QED
  BY <1>1, CronInvariant, PTL

(* The status on display is true of a job whose runs do not overlap. *)
THEOREM StatusIsTrue == CronSpec => []StatusTells
<1>1. CronInv => StatusTells
  BY DEF CronInv
<1> QED
  BY <1>1, CronInvariant, PTL

-----------------------------------------------------------------------------
(* The importer's job is a job of LocalCron *)

LEMMA StepIsCronStep == [RegionNext]_vars => [CronStep]_cronVars
<1> SUFFICES ASSUME [RegionNext]_vars PROVE [CronStep]_cronVars
  OBVIOUS
<1>1. CASE BeginTick
  BY <1>1 DEF BeginTick, CronStep
<1>2. CASE CooldownOver \/ Forget \/ Drop \/ GeoRestart \/ Create \/ Conclude \/ RequestFails
  BY <1>2 DEF CooldownOver, Forget, Drop, GeoRestart, Create, Conclude, RequestFails
<1>3. ASSUME NEW r \in Runs, Tick(r) \/ TickFails(r) PROVE [CronStep]_cronVars
  <2>1. ASSUME NEW outcome \in {"ok", "error"}, EndTick(r, outcome) PROVE CronStep
    BY <2>1 DEF EndTick, CronStep
  <2>2. CASE Pick(r)
    BY <2>1, <2>2 DEF Pick
  <2>3. CASE CheckDisk(r) \/ AskGeo(r) \/ Reconcile(r) \/ StartImport(r) \/ TickFails(r)
    BY <2>3 DEF CheckDisk, AskGeo, Reconcile, StartImport, TickFails
  <2>4. CASE Write(r)
    BY <2>1, <2>4 DEF Write
  <2>5. CASE Backfill(r)
    BY <2>1, <2>5 DEF Backfill
  <2>6. CASE GiveUp(r)
    BY <2>1, <2>6 DEF GiveUp
  <2> QED
    BY <1>3, <2>2, <2>3, <2>4, <2>5, <2>6 DEF Tick
<1>4. ASSUME NEW p \in Procs, Import(p) PROVE [CronStep]_cronVars
  BY <1>4 DEF Import, Download, CreateTables, Load, ImportEnds, ImportFails
<1>5. ASSUME NEW kind \in RegionRequests, Ask(kind) PROVE [CronStep]_cronVars
  BY <1>5 DEF Ask
<1>6. ASSUME NEW h \in Hands, RunTickNow(h) PROVE [CronStep]_cronVars
  BY <1>6 DEF RunTickNow, CronStep
<1>7. ASSUME NEW e \in BOOLEAN, Toggle(e) PROVE [CronStep]_cronVars
  BY <1>7 DEF Toggle, CronStep
<1>8. ASSUME NEW s \in saves, Saved(s) PROVE [CronStep]_cronVars
  BY <1>8 DEF Saved, CronStep
<1>9. CASE AppRestart
  BY <1>9 DEF AppRestart, CronStep
<1>10. CASE UNCHANGED vars
  BY <1>10 DEF vars, cronVars
<1> QED
  BY <1>1, <1>2, <1>3, <1>4, <1>5, <1>6, <1>7, <1>8, <1>9, <1>10 DEF RegionNext

(* A step of the importer, of the admin, of the geo service or of a failure is
   a step of its job in the scheduler or leaves the job alone. *)
THEOREM ImplementsCron == FairSpec => CronSpec
<1>1. RegionInit => CronInit
  BY DEF RegionInit
<1> QED
  BY <1>1, StepIsCronStep, PTL DEF FairSpec, CronSpec

(* So what holds of every job holds of the importer's. *)
THEOREM ImporterIsShownTrue == FairSpec => [](SavedAgrees /\ StatusTells)
  BY ImplementsCron, RowsAgree, StatusIsTrue, PTL

-----------------------------------------------------------------------------
(* Type correctness *)

(* Which requests come by a statement. *)
RequestKind ==
  /\ req.at \in {"forget", "await"} => req.kind \in {"remove", "reimport"}
  /\ req.at = "update" => req.kind \in {"approve", "reimport"}
  /\ req.at = "delete" => req.kind = "remove"

RegionTypes ==
  /\ scenario \in Scenarios
  /\ row \in RegionStatus \cup {"none"} /\ cooling \in BOOLEAN
  /\ tick \in [Runs -> TickSteps]
  /\ verdict \in [Runs -> {"none", "importing", "ready_running", "failed", "blocked_disk"}]
  /\ \A r \in Runs : tick[r] = "write" => verdict[r] # "none"
  /\ tracker \in {"none", "running", "ready", "failed"}
  /\ data \in {"absent", "empty", "partial", "full"}
  /\ proc \in [Procs -> {"idle", "download", "create", "load", "fill", "broken"}]
  /\ dropping \in BOOLEAN /\ crossed \in BOOLEAN
  /\ req \in [at : {"idle", "forget", "await", "update", "delete"},
              kind : {"none", "approve", "remove", "reimport"}]
  /\ RequestKind
  /\ stale \subseteq Savers
  /\ disturbed \in BOOLEAN

(* A tick is the work of a run. *)
TickIsWork == \A r \in Runs : tick[r] # "idle" <=> run[r] = "job"

Counted == requests \in 0 .. scenario.maxRequests /\ faults \in 0 .. scenario.maxFaults

Typed == CronInv /\ RegionTypes /\ TickIsWork /\ Counted

LEMMA TypedIsTypeOK == Typed => TypeOK
  BY DEF Typed, CronInv, RegionTypes, TickIsWork, Counted, TypeOK

LEMMA StatusNames ==
  RegionStatus = {"pending_approval", "importing", "ready_running", "ready_stopped",
                  "blocked_disk", "failed"}
  BY DEF RegionStatus, Transitions

LEMMA CountedInit == RegionInit => Counted
  BY ScenariosAssumption DEF RegionInit, Counted

LEMMA CountedStep == RegionTypes /\ Counted /\ [RegionNext]_vars => Counted'
<1> SUFFICES ASSUME RegionTypes, Counted, [RegionNext]_vars PROVE Counted'
  OBVIOUS
<1>1. scenario.maxRequests \in Nat /\ scenario.maxFaults \in Nat
  BY ScenariosAssumption DEF RegionTypes
<1>2. scenario' = scenario
  BY DEF RegionNext, vars, BeginTick, CooldownOver, Tick, TickFails, Import, Forget, Drop,
         GeoRestart, Create, Conclude, RequestFails, Ask, RunTickNow, Toggle, Saved,
         AppRestart, Pick, CheckDisk, AskGeo, Reconcile, StartImport, Write, Backfill,
         GiveUp, Download, CreateTables, Load, ImportEnds, ImportFails
<1>3. faults' = faults \/ Fault
  BY DEF RegionNext, vars, BeginTick, CooldownOver, Tick, TickFails, Import, Forget, Drop,
         GeoRestart, Create, Conclude, RequestFails, Ask, RunTickNow, Toggle, Saved,
         AppRestart, Pick, CheckDisk, AskGeo, Reconcile, StartImport, Write, Backfill,
         GiveUp, Download, CreateTables, Load, ImportEnds, ImportFails
<1>4. requests' = requests \/ (requests < scenario.maxRequests /\ requests' = requests + 1)
  BY DEF RegionNext, vars, BeginTick, CooldownOver, Tick, TickFails, Import, Forget, Drop,
         GeoRestart, Create, Conclude, RequestFails, Ask, RunTickNow, Toggle, Saved,
         AppRestart, Pick, CheckDisk, AskGeo, Reconcile, StartImport, Write, Backfill,
         GiveUp, Download, CreateTables, Load, ImportEnds, ImportFails, Request
<1> QED
  BY <1>1, <1>2, <1>3, <1>4 DEF Fault, Counted

LEMMA RegionTypesInit == RegionInit => RegionTypes
<1> SUFFICES ASSUME RegionInit PROVE RegionTypes
  OBVIOUS
<1> USE DEF RegionInit
<1>1. scenario \in Scenarios /\ row \in {"none", "ready_running", "failed"}
  BY ScenariosAssumption
<1>2. tracker \in {"none", "running", "ready", "failed"}
  BY <1>1
<1>3. data \in {"absent", "empty", "partial", "full"}
  BY <1>1
<1>4. tick \in [Runs -> TickSteps] /\ verdict \in [Runs -> {"none", "importing", "ready_running", "failed", "blocked_disk"}]
  BY DEF TickSteps
<1>5. /\ req \in [at : {"idle", "forget", "await", "update", "delete"},
                kind : {"none", "approve", "remove", "reimport"}]
      /\ RequestKind
  BY DEF NoRequest, RequestKind
<1>6. proc \in [Procs -> {"idle", "download", "create", "load", "fill", "broken"}]
  OBVIOUS
<1>7. /\ row \in RegionStatus \cup {"none"}
      /\ \A r \in Runs : tick[r] = "write" => verdict[r] # "none"
  BY <1>1, StatusNames
<1> QED
  BY <1>1, <1>2, <1>3, <1>4, <1>5, <1>6, <1>7 DEF RegionTypes

(* What a statement about the row leaves. *)
LEMMA SetRowTypes ==
  ASSUME RegionTypes, NEW who \in Savers, NEW s \in RegionStatus \cup {"none"},
         SetRow(who, s) \/ Update(who, s)
  PROVE  row' \in RegionStatus \cup {"none"} /\ cooling' \in BOOLEAN /\ stale' \subseteq Savers
<1>1. Others(who) \subseteq Savers
  BY DEF Others, Midway, Savers
<1> QED
  BY <1>1 DEF SetRow, Update, RegionTypes

LEMMA RequestTypes ==
  ASSUME RegionTypes, NEW b \in BOOLEAN, req' = AfterDrop(b)
  PROVE  /\ req' \in [at : {"idle", "forget", "await", "update", "delete"},
                      kind : {"none", "approve", "remove", "reimport"}]
         /\ RequestKind'
<1>1. CASE req.at # "await"
  BY <1>1 DEF AfterDrop, RegionTypes, RequestKind
<1>2. CASE req.at = "await" /\ req.kind = "remove"
  BY <1>2 DEF AfterDrop, RegionTypes, RequestKind
<1>3. CASE req.at = "await" /\ req.kind = "reimport"
  BY <1>3 DEF AfterDrop, RegionTypes, RequestKind, NoRequest
<1> QED
  BY <1>1, <1>2, <1>3 DEF RegionTypes, RequestKind

LEMMA AnsweredEffect ==
  ASSUME NEW r \in Runs, NEW answer \in {"none", "running", "failed", "ready"},
         Answered(r, answer)
  PROVE  \/ /\ answer = "none"
            /\ tick' = [tick EXCEPT ![r] = "start"]
            /\ verdict' = verdict
         \/ /\ answer # "none"
            /\ tick' = [tick EXCEPT ![r] = "write"]
            /\ \E v \in {"importing", "failed", "ready_running"} :
                 /\ verdict' = [verdict EXCEPT ![r] = v]
                 /\ v = "ready_running" <=> answer = "ready"
<1>1. CASE answer = "none"
  BY <1>1 DEF Answered, Goto
<1>2. CASE answer = "running"
  BY <1>2 DEF Answered, Goto, Decide
<1>3. CASE answer = "failed"
  BY <1>3 DEF Answered, Goto, Decide
<1>4. CASE answer = "ready"
  BY <1>4 DEF Answered, Goto, Decide
<1> QED
  BY <1>1, <1>2, <1>3, <1>4

LEMMA TickTypesStep ==
  ASSUME RegionTypes, NEW r \in Runs, Tick(r) \/ TickFails(r)
  PROVE  RegionTypes'
<1> USE TimerIsARun DEF RegionTypes
<1>0. ASSUME NEW outcome, EndTick(r, outcome)
      PROVE  /\ tick' \in [Runs -> TickSteps]
             /\ verdict' \in [Runs -> {"none", "importing", "ready_running", "failed", "blocked_disk"}]
             /\ \A q \in Runs : tick'[q] = "write" => verdict'[q] # "none"
  BY <1>0 DEF EndTick, TickSteps
<1>1. CASE Pick(r)
  <2>1. CASE row = "importing" /\ ~cooling
    BY <1>1, <2>1 DEF Pick, Goto, TickSteps, RequestKind, geoVars
  <2>2. CASE ~(row = "importing" /\ ~cooling)
    BY <1>0, <1>1, <2>2 DEF Pick, RequestKind, geoVars
  <2> QED
    BY <2>1, <2>2
<1>2. CASE CheckDisk(r)
  BY <1>2 DEF CheckDisk, Goto, Decide, TickSteps, RequestKind, geoVars
<1>3. CASE AskGeo(r)
  <2>1. CASE tracker = "none" /\ HasData
    BY <1>3, <2>1 DEF AskGeo, Goto, TickSteps, RequestKind, geoVars
  <2>2. CASE ~(tracker = "none" /\ HasData)
    BY <1>3, <2>2, AnsweredEffect DEF AskGeo, TickSteps, RequestKind, geoVars
  <2> QED
    BY <2>1, <2>2
<1>4. CASE Reconcile(r)
  <2>1. \E answer \in {"ready", "none"} : Answered(r, answer)
    BY <1>4 DEF Reconcile
  <2>2. /\ tick' \in [Runs -> TickSteps]
        /\ verdict' \in [Runs -> {"none", "importing", "ready_running", "failed", "blocked_disk"}]
        /\ \A q \in Runs : tick'[q] = "write" => verdict'[q] # "none"
    BY <2>1, AnsweredEffect DEF TickSteps
  <2>3. tracker' \in {"none", "running", "ready", "failed"} /\ crossed' \in BOOLEAN
    BY <1>4 DEF Reconcile, Running
  <2>4. RequestKind'
    BY <1>4 DEF Reconcile, RequestKind
  <2> QED
    BY <1>4, <2>2, <2>3, <2>4 DEF Reconcile
<1>5. CASE StartImport(r)
  <2>1. proc' \in [Procs -> {"idle", "download", "create", "load", "fill", "broken"}]
    BY <1>5 DEF StartImport
  <2>2. tracker' \in {"none", "running", "ready", "failed"} /\ disturbed' \in BOOLEAN
    BY <1>5 DEF StartImport, Running
  <2> QED
    BY <1>5, <2>1, <2>2 DEF StartImport, Goto, Decide, TickSteps, RequestKind
<1>6. CASE Write(r)
  <2>1. row' \in RegionStatus \cup {"none"} /\ cooling' \in BOOLEAN /\ stale' \subseteq Savers
    BY <1>6, SetRowTypes, StatusNames DEF Write, Savers
  <2>2. CASE verdict[r] = "ready_running"
    BY <1>6, <2>1, <2>2 DEF Write, Goto, TickSteps, RequestKind, geoVars
  <2>3. CASE verdict[r] # "ready_running"
    BY <1>0, <1>6, <2>1, <2>3 DEF Write, RequestKind, geoVars
  <2> QED
    BY <2>2, <2>3
<1>7. CASE Backfill(r)
  BY <1>0, <1>7 DEF Backfill, RequestKind, geoVars
<1>8. CASE GiveUp(r)
  <2>1. row' \in RegionStatus \cup {"none"} /\ cooling' \in BOOLEAN /\ stale' \subseteq Savers
    BY <1>8, SetRowTypes, StatusNames DEF GiveUp, Savers
  <2> QED
    BY <1>0, <1>8, <2>1 DEF GiveUp, RequestKind, geoVars
<1>9. CASE TickFails(r)
  BY <1>9 DEF TickFails, Goto, TickSteps, RequestKind, geoVars
<1> QED
  BY <1>1, <1>2, <1>3, <1>4, <1>5, <1>6, <1>7, <1>8, <1>9 DEF Tick

LEMMA GeoTypesStep ==
  ASSUME RegionTypes,
         \/ \E p \in Procs : Import(p)
         \/ Forget \/ Drop \/ GeoRestart
  PROVE  RegionTypes'
<1> USE DEF RegionTypes
<1>1. ASSUME NEW p \in Procs, Import(p) PROVE RegionTypes'
  <2>1. CASE Download(p) \/ CreateTables(p) \/ Load(p)
    BY <2>1 DEF Download, CreateTables, Load, RequestKind
  <2>2. CASE ImportEnds(p) \/ ImportFails(p)
    <3>1. crossed' \in BOOLEAN
      BY <2>2 DEF ImportEnds, ImportFails, StillCrossed
    <3>2. /\ tracker' \in {"none", "running", "ready", "failed"}
          /\ proc' \in [Procs -> {"idle", "download", "create", "load", "fill", "broken"}]
          /\ data' \in {"absent", "empty", "partial", "full"}
      BY <2>2 DEF ImportEnds, ImportFails, Finalized
    <3>3. RequestKind'
      BY <2>2 DEF ImportEnds, ImportFails, RequestKind
    <3> QED
      BY <2>2, <3>1, <3>2, <3>3 DEF ImportEnds, ImportFails
  <2> QED
    BY <1>1, <2>1, <2>2 DEF Import
<1>2. CASE Forget
  BY <1>2 DEF Forget, Forgotten, RequestKind
<1>3. CASE Drop
  <2>1. /\ req' \in [at : {"idle", "forget", "await", "update", "delete"},
                     kind : {"none", "approve", "remove", "reimport"}]
        /\ RequestKind'
    BY <1>3, RequestTypes DEF Drop
  <2> QED
    BY <1>3, <2>1 DEF Drop
<1>4. CASE GeoRestart
  <2>1. /\ req' \in [at : {"idle", "forget", "await", "update", "delete"},
                     kind : {"none", "approve", "remove", "reimport"}]
        /\ RequestKind'
    BY <1>4, RequestTypes DEF GeoRestart
  <2>2. /\ tick' \in [Runs -> TickSteps]
        /\ \A r \in Runs : tick'[r] = "write" => tick[r] = "write"
    BY <1>4 DEF GeoRestart, TickSteps
  <2> QED
    BY <1>4, <2>1, <2>2 DEF GeoRestart
<1> QED
  BY <1>1, <1>2, <1>3, <1>4

(* A step of the app alone: what is left to show of it. *)
LEMMA AppTypesKept ==
  ASSUME RegionTypes, UNCHANGED <<scenario, tick, verdict, geoVars, req, disturbed>>,
         row' \in RegionStatus \cup {"none"}, cooling' \in BOOLEAN, stale' \subseteq Savers
  PROVE  RegionTypes'
<1>1. /\ scenario' = scenario /\ tick' = tick /\ verdict' = verdict /\ tracker' = tracker
      /\ data' = data /\ proc' = proc /\ dropping' = dropping /\ crossed' = crossed
      /\ req' = req /\ disturbed' = disturbed
  BY DEF geoVars
<1>2. RequestKind'
  BY <1>1 DEF RegionTypes, RequestKind
<1>3. /\ tick' \in [Runs -> TickSteps]
      /\ verdict' \in [Runs -> {"none", "importing", "ready_running", "failed", "blocked_disk"}]
      /\ \A r \in Runs : tick'[r] = "write" => verdict'[r] # "none"
  BY <1>1 DEF RegionTypes
<1>4. proc' \in [Procs -> {"idle", "download", "create", "load", "fill", "broken"}]
  BY <1>1 DEF RegionTypes
<1>5. req' \in [at : {"idle", "forget", "await", "update", "delete"},
                kind : {"none", "approve", "remove", "reimport"}]
  BY <1>1 DEF RegionTypes
<1>6. /\ scenario' \in Scenarios /\ disturbed' \in BOOLEAN /\ dropping' \in BOOLEAN
      /\ crossed' \in BOOLEAN
      /\ tracker' \in {"none", "running", "ready", "failed"}
      /\ data' \in {"absent", "empty", "partial", "full"}
  BY <1>1 DEF RegionTypes
<1> QED
  BY <1>2, <1>3, <1>4, <1>5, <1>6 DEF RegionTypes

LEMMA AppTypesStep ==
  ASSUME RegionTypes,
         \/ BeginTick \/ CooldownOver \/ Create \/ Conclude \/ RequestFails \/ AppRestart
         \/ \E kind \in RegionRequests \ {"create"} : Ask(kind)
         \/ \E h \in Hands : RunTickNow(h)
         \/ \E e \in BOOLEAN : Toggle(e)
         \/ \E s \in saves : Saved(s)
  PROVE  RegionTypes'
<1> USE TimerIsARun DEF RegionTypes
<1>1. CASE BeginTick
  BY <1>1 DEF BeginTick, TickSteps, RequestKind, geoVars
<1>2. CASE CooldownOver
  <2>1. cooling' = FALSE /\ UNCHANGED <<row, stale, scenario, tick, verdict, geoVars, req, disturbed>>
    BY <1>2 DEF CooldownOver
  <2> QED
    BY <2>1, AppTypesKept
<1>3. CASE Create
  <2>1. row' \in RegionStatus \cup {"none"} /\ cooling' \in BOOLEAN /\ stale' \subseteq Savers
    BY <1>3, SetRowTypes, StatusNames DEF Create, Savers
  <2>2. UNCHANGED <<scenario, tick, verdict, geoVars, req, disturbed>>
    BY <1>3 DEF Create
  <2> QED
    BY <2>1, <2>2, AppTypesKept
<1>4. CASE Conclude
  <2>1. row' \in RegionStatus \cup {"none"} /\ cooling' \in BOOLEAN /\ stale' \subseteq Savers
    BY <1>4, SetRowTypes, StatusNames DEF Conclude, Savers
  <2> QED
    BY <1>4, <2>1 DEF Conclude, NoRequest, RequestKind, geoVars
<1>5. CASE RequestFails
  BY <1>5 DEF RequestFails, NoRequest, RequestKind, geoVars
<1>6. CASE AppRestart
  BY <1>6 DEF AppRestart, NoRequest, RequestKind, geoVars, TickSteps
<1>7. ASSUME NEW kind \in RegionRequests \ {"create"}, Ask(kind) PROVE RegionTypes'
  BY <1>7 DEF Ask, RegionRequests, RequestKind, geoVars
<1>8. ASSUME NEW h \in Hands, RunTickNow(h) PROVE RegionTypes'
  BY <1>8 DEF RunTickNow, Runs, TickSteps, RequestKind, geoVars
<1>9. ASSUME NEW e \in BOOLEAN, Toggle(e) PROVE RegionTypes'
  BY <1>9 DEF Toggle, RequestKind, geoVars
<1>10. ASSUME NEW s \in saves, Saved(s) PROVE RegionTypes'
  BY <1>10 DEF Saved, RequestKind, geoVars
<1> QED
  BY <1>1, <1>2, <1>3, <1>4, <1>5, <1>6, <1>7, <1>8, <1>9, <1>10

LEMMA RegionTypesStep == RegionTypes /\ [RegionNext]_vars => RegionTypes'
<1> SUFFICES ASSUME RegionTypes, [RegionNext]_vars PROVE RegionTypes'
  OBVIOUS
<1>1. CASE UNCHANGED vars
  BY <1>1 DEF vars, RegionTypes, RequestKind
<1> QED
  BY <1>1, TickTypesStep, GeoTypesStep, AppTypesStep DEF RegionNext

LEMMA TickIsWorkStep == Typed /\ [RegionNext]_vars => TickIsWork'
<1> SUFFICES ASSUME Typed, [RegionNext]_vars PROVE TickIsWork'
  OBVIOUS
<1>0. /\ tick \in [Runs -> TickSteps] /\ run \in [Runs -> {"idle", "job", "save"}]
      /\ TickIsWork /\ OwnSave
  BY DEF Typed, CronInv, CronTypeOK, RegionTypes
<1> USE <1>0, TimerIsARun DEF TickIsWork
<1>1. CASE BeginTick
  <2>1. CASE enabled
    <3>1. /\ run["timer"] = "idle" /\ run' = [run EXCEPT !["timer"] = "job"]
          /\ tick' = [tick EXCEPT !["timer"] = "pick"]
      BY <1>1, <2>1 DEF BeginTick, Fire, Begin
    <3> QED
      BY <3>1
  <2>2. CASE ~enabled
    <3>1. run' = run /\ tick' = tick
      BY <1>1, <2>2 DEF BeginTick, Fire
    <3> QED
      BY <3>1
  <2> QED
    BY <2>1, <2>2
<1>2. CASE CooldownOver \/ Forget \/ Drop \/ Create \/ Conclude \/ RequestFails
  BY <1>2 DEF CooldownOver, Forget, Drop, Create, Conclude, RequestFails, cronVars
<1>3. CASE GeoRestart
  <2>1. run' = run /\ \A r \in Runs : tick'[r] = "idle" <=> tick[r] = "idle"
    BY <1>3 DEF GeoRestart, cronVars
  <2> QED
    BY <2>1
<1>4. ASSUME NEW r \in Runs, Tick(r) \/ TickFails(r) PROVE TickIsWork'
  <2>1. ASSUME NEW outcome, EndTick(r, outcome) PROVE TickIsWork'
    BY <2>1 DEF EndTick, End
  <2>2. ASSUME UNCHANGED cronVars, tick[r] # "idle",
               NEW to \in TickSteps \ {"idle"}, tick' = [tick EXCEPT ![r] = to]
        PROVE  TickIsWork'
    BY <2>2 DEF cronVars
  <2>3. CASE Pick(r)
    BY <1>4, <2>1, <2>2, <2>3 DEF Pick, Goto, TickSteps
  <2>4. CASE CheckDisk(r) \/ StartImport(r) \/ TickFails(r)
    BY <2>2, <2>4 DEF CheckDisk, StartImport, TickFails, Goto, TickSteps
  <2>5. CASE AskGeo(r) \/ Reconcile(r)
    <3>1. UNCHANGED cronVars /\ tick[r] # "idle"
      BY <2>5 DEF AskGeo, Reconcile
    <3>2. \E to \in TickSteps \ {"idle"} : tick' = [tick EXCEPT ![r] = to]
      BY <2>5, AnsweredEffect DEF AskGeo, Reconcile, Goto, TickSteps, Typed, RegionTypes
    <3> QED
      BY <2>2, <3>1, <3>2
  <2>6. CASE Write(r)
    BY <2>1, <2>2, <2>6 DEF Write, Goto, TickSteps
  <2>7. CASE Backfill(r) \/ GiveUp(r)
    BY <2>1, <2>7 DEF Backfill, GiveUp
  <2> QED
    BY <1>4, <2>3, <2>4, <2>5, <2>6, <2>7 DEF Tick
<1>5. ASSUME NEW p \in Procs, Import(p) PROVE TickIsWork'
  BY <1>5 DEF Import, Download, CreateTables, Load, ImportEnds, ImportFails, cronVars
<1>6. ASSUME NEW kind \in RegionRequests, Ask(kind) PROVE TickIsWork'
  BY <1>6 DEF Ask, cronVars
<1>7. ASSUME NEW h \in Hands, RunTickNow(h) PROVE TickIsWork'
  BY <1>7 DEF RunTickNow, RunNow, Begin, Runs
<1>8. ASSUME NEW e \in BOOLEAN, Toggle(e) PROVE TickIsWork'
  BY <1>8 DEF Toggle, SetEnabled
<1>9. ASSUME NEW s \in saves, Saved(s) PROVE TickIsWork'
  <2>1. Through(s.by) /\ tick' = tick
    BY <1>9 DEF Saved, Land, SaveFails
  <2> QED
    BY <2>1 DEF Through, OwnSave
<1>10. CASE AppRestart
  <2>1. tick' = [r \in Runs |-> "idle"] /\ run' = [r \in Runs |-> "idle"]
    BY <1>10 DEF AppRestart, CronRestart
  <2> QED
    BY <2>1
<1>11. CASE UNCHANGED vars
  BY <1>11 DEF vars
<1> QED
  BY <1>1, <1>2, <1>3, <1>4, <1>5, <1>6, <1>7, <1>8, <1>9, <1>10, <1>11 DEF RegionNext

LEMMA TypedInvariant == FairSpec => []Typed
<1>1. RegionInit => Typed
  <2>1. RegionInit => TickIsWork
    BY DEF RegionInit, CronInit, TickIsWork
  <2>2. RegionInit => CronInv
    BY CronInvInit DEF RegionInit
  <2> QED
    BY <2>1, <2>2, CountedInit, RegionTypesInit DEF Typed
<1>2. Typed /\ [RegionNext]_vars => Typed'
  <2>1. Typed /\ [RegionNext]_vars => CronInv'
    BY StepIsCronStep, CronInvStep DEF Typed
  <2> QED
    BY <2>1, CountedStep, RegionTypesStep, TickIsWorkStep DEF Typed
<1> QED
  BY <1>1, <1>2, PTL DEF FairSpec

(* Every variable keeps to its values, and a tick to its run. *)
THEOREM TypeCorrect == FairSpec => []TypeOK
  BY TypedInvariant, TypedIsTypeOK, PTL

-----------------------------------------------------------------------------
(* One import at a time *)

ImportsApart ==
  /\ \A p, q \in Importing : p = q
  /\ \A p \in Procs : proc[p] # "broken"
  /\ tracker = "running" <=> Importing # {}

(* Unless it was changed under an import, the entry tells whether there is one. *)
EntryTells == ~crossed => ImportsApart

LEMMA EntryTellsInit == RegionInit => EntryTells
<1> SUFFICES ASSUME RegionInit PROVE ImportsApart
  BY DEF EntryTells
<1>1. Importing = {} /\ tracker # "running" /\ \A p \in Procs : proc[p] = "idle"
  BY ScenariosAssumption DEF RegionInit, Importing
<1> QED
  BY <1>1 DEF ImportsApart

LEMMA TickEntryStep ==
  ASSUME Typed, EntryTells, NEW r \in Runs, Reconcile(r) \/ StartImport(r), ~crossed'
  PROVE  ImportsApart'
<1>0. proc \in [Procs -> {"idle", "download", "create", "load", "fill", "broken"}]
  BY DEF Typed, RegionTypes
<1>1. ImportsApart
  BY DEF EntryTells, Reconcile, StartImport
<1>2. CASE Reconcile(r)
  <2>1. /\ Importing' = Importing /\ proc' = proc
        /\ tracker' = tracker \/ (tracker' = "ready" /\ ~Running)
    BY <1>2 DEF Reconcile, Importing
  <2> QED
    BY <1>1, <2>1 DEF ImportsApart, Running
<1>3. CASE StartImport(r) /\ Running
  BY <1>1, <1>3 DEF StartImport, ImportsApart, Importing
<1>4. CASE StartImport(r) /\ ~Running
  <2>1. Importing = {}
    BY <1>1, <1>4 DEF ImportsApart, Running
  <2>2. PICK p \in Procs : proc[p] = "idle" /\ proc' = [proc EXCEPT ![p] = "download"]
    BY <1>4, ProcsAssumption DEF StartImport
  <2>3. Importing' = {p} /\ tracker' = "running"
    BY <1>0, <1>4, <2>1, <2>2 DEF StartImport, Importing
  <2> QED
    BY <1>0, <1>1, <2>2, <2>3 DEF ImportsApart
<1> QED
  BY <1>2, <1>3, <1>4

LEMMA GeoEntryStep ==
  ASSUME Typed, EntryTells, Forget \/ GeoRestart \/ \E p \in Procs : Import(p), ~crossed'
  PROVE  ImportsApart'
<1>0. proc \in [Procs -> {"idle", "download", "create", "load", "fill", "broken"}]
  BY DEF Typed, RegionTypes
<1>1. CASE Forget
  <2>1. Importing = {} /\ ImportsApart
    BY <1>1 DEF Forget, EntryTells
  <2>2. proc' = proc /\ tracker' # "running"
    <3>1. Connected = {}
      BY <2>1 DEF Connected, Importing
    <3> QED
      BY <1>0, <1>1, <3>1 DEF Forget, Forgotten
  <2> QED
    BY <2>1, <2>2 DEF ImportsApart, Importing
<1>2. CASE GeoRestart
  BY <1>2 DEF GeoRestart, ImportsApart, Importing
<1>3. ASSUME NEW p \in Procs, Download(p) \/ CreateTables(p) \/ Load(p) PROVE ImportsApart'
  <2>1. ImportsApart /\ p \in Importing
    BY <1>3 DEF Download, CreateTables, Load, EntryTells, Importing
  <2>2. /\ Importing' = Importing /\ tracker' = tracker
        /\ \A q \in Procs : proc'[q] = "broken" => proc[q] = "broken"
    BY <1>0, <1>3 DEF Download, CreateTables, Load, Importing
  <2> QED
    BY <2>1, <2>2 DEF ImportsApart
<1>4. ASSUME NEW p \in Procs, ImportEnds(p) \/ ImportFails(p) PROVE ImportsApart'
  <2>1. /\ proc' = [proc EXCEPT ![p] = "idle"] /\ tracker' # "running"
        /\ ~StillCrossed(p) /\ proc[p] # "idle"
    BY <1>4 DEF ImportEnds, ImportFails, Finalized, Importing
  <2>2. \A q \in Procs \ {p} : proc[q] = "idle"
    <3>1. CASE crossed
      BY <2>1, <3>1 DEF StillCrossed
    <3>2. CASE ~crossed
      BY <1>0, <2>1, <3>2 DEF EntryTells, ImportsApart, Importing
    <3> QED
      BY <3>1, <3>2
  <2>3. \A q \in Procs : proc'[q] = "idle"
    BY <1>0, <2>1, <2>2
  <2> QED
    BY <2>1, <2>3 DEF ImportsApart, Importing
<1> QED
  BY <1>1, <1>2, <1>3, <1>4 DEF Import

LEMMA EntryTellsStep == Typed /\ EntryTells /\ [RegionNext]_vars => EntryTells'
<1> SUFFICES ASSUME Typed, EntryTells, [RegionNext]_vars, ~crossed' PROVE ImportsApart'
  BY DEF EntryTells
<1>1. CASE UNCHANGED <<tracker, proc, crossed>>
  BY <1>1 DEF EntryTells, ImportsApart, Importing
<1>2. CASE \/ \E r \in Runs : Reconcile(r) \/ StartImport(r)
           \/ Forget \/ GeoRestart \/ \E p \in Procs : Import(p)
  BY <1>2, TickEntryStep, GeoEntryStep
<1>3. \/ UNCHANGED <<tracker, proc, crossed>>
      \/ \E r \in Runs : Reconcile(r) \/ StartImport(r)
      \/ Forget \/ GeoRestart \/ \E p \in Procs : Import(p)
  BY DEF RegionNext, vars, geoVars, BeginTick, CooldownOver, Tick, TickFails, Drop, Create,
         Conclude, RequestFails, Ask, RunTickNow, Toggle, Saved, AppRestart, Pick, CheckDisk,
         AskGeo, Write, Backfill, GiveUp
<1> QED
  BY <1>1, <1>2, <1>3

LEMMA EntryTellsInvariant == FairSpec => []EntryTells
<1>1. RegionInit => EntryTells
  BY EntryTellsInit
<1>2. Typed /\ EntryTells /\ [RegionNext]_vars => EntryTells'
  BY EntryTellsStep
<1> QED
  BY <1>1, <1>2, TypedInvariant, PTL DEF FairSpec

(* However ticks, retries, failed requests and restarts overlap, the region is
   not loaded twice at once and shown as running only while it is, for any number
   of imports, unless and as long as an import runs whose entry was changed under
   it: by a drop of the region, or by a reconciliation that had asked the database
   before the import began. *)
THEOREM LoadedOnce == FairSpec => []OneImport
<1>1. EntryTells => OneImport
  <2> SUFFICES ASSUME ImportsApart
               PROVE  /\ Cardinality(Importing) <= 1
                      /\ tracker = "running" <=> Importing # {}
    BY DEF EntryTells, OneImport
  <2>1. CASE Importing = {}
    BY <2>1, FS_EmptySet DEF ImportsApart
  <2>2. CASE Importing # {}
    <3>1. PICK p \in Importing : Importing = {p}
      BY <2>2 DEF ImportsApart
    <3>2. Cardinality(Importing) = 1
      BY <3>1, FS_Singleton
    <3> QED
      BY <3>2, <2>2 DEF ImportsApart
  <2> QED
    BY <2>1, <2>2
<1> QED
  BY <1>1, EntryTellsInvariant, PTL

-----------------------------------------------------------------------------
(* What is known of the database *)

(* The tick takes the region for ready. *)
TakesForReady(r) ==
  tick[r] = "reconcile" \/ (tick[r] = "write" /\ verdict[r] = "ready_running")

(* The request has dropped the database and not yet said so. *)
DropUntold == req.at \in {"update", "delete"} /\ req.kind # "approve"

ReadyIsReady ==
  /\ tracker = "ready" => data = "full"
  /\ \A r \in Runs : TakesForReady(r) => data = "full" /\ Importing = {}
  /\ row \in Reimportable /\ ~DropUntold => data = "full" /\ Importing = {}

DropsAlone ==
  dropping => Midway = {} /\ Importing = {} /\ tracker = "none" /\ req.at = "await"

Orderly == ImportsApart /\ ReadyIsReady /\ DropsAlone

DataInv == ~disturbed => Orderly

LEMMA DataInvInit == RegionInit => DataInv
<1> SUFFICES ASSUME RegionInit PROVE Orderly
  BY DEF DataInv
<1> USE DEF RegionInit
<1>1. row \in {"none", "ready_running", "failed"}
  BY ScenariosAssumption
<1>2. Importing = {} /\ Midway = {}
  BY DEF Importing, Midway
<1>3. tracker # "running" /\ (tracker = "ready" <=> row = "ready_running")
  BY <1>1
<1>4. row = "ready_running" => data = "full"
  OBVIOUS
<1>5. ImportsApart
  BY <1>2, <1>3 DEF ImportsApart
<1>6. ReadyIsReady
  BY <1>1, <1>2, <1>3, <1>4 DEF ReadyIsReady, TakesForReady, Reimportable
<1>7. DropsAlone
  BY DEF DropsAlone
<1> QED
  BY <1>5, <1>6, <1>7 DEF Orderly

(* A step that leaves the geo service alone, lets no tick take the region for
   ready that does not already, and makes no row ready. *)
LEMMA QuietStep ==
  ASSUME Orderly, UNCHANGED geoVars,
         dropping => Midway' = {} /\ req'.at = "await",
         \A r \in Runs : TakesForReady(r)' => TakesForReady(r),
         row' \in Reimportable => row' = row \/ \E r \in Runs : TakesForReady(r),
         DropUntold => DropUntold' \/ row' \notin Reimportable
  PROVE  Orderly'
<1> USE DEF Orderly, geoVars
<1>1. Importing' = Importing
  BY DEF Importing
<1>2. ImportsApart'
  BY <1>1 DEF ImportsApart
<1>3. ReadyIsReady'
  BY <1>1 DEF ReadyIsReady, Reimportable
<1>4. DropsAlone'
  BY <1>1 DEF DropsAlone
<1> QED
  BY <1>2, <1>3, <1>4

LEMMA TickDataStep ==
  ASSUME Typed, Orderly, NEW r \in Runs, Tick(r) \/ TickFails(r), ~disturbed'
  PROVE  Orderly'
<1>0. tick \in [Runs -> TickSteps] /\ verdict \in [Runs -> {"none", "importing", "ready_running", "failed", "blocked_disk"}]
  BY DEF Typed, RegionTypes
<1> USE <1>0
<1>1. ASSUME NEW outcome, EndTick(r, outcome)
      PROVE  /\ Midway' \subseteq Midway
             /\ \A q \in Runs : TakesForReady(q)' => TakesForReady(q)
  BY <1>1 DEF EndTick, Midway, TakesForReady
<1>2. CASE Pick(r)
  <2>1. CASE row = "importing" /\ ~cooling
    <3>1. ~dropping /\ tick' = [tick EXCEPT ![r] = "check"] /\ verdict' = verdict
      BY <1>2, <2>1 DEF Pick, Goto
    <3>2. \A q \in Runs : TakesForReady(q)' => TakesForReady(q)
      BY <3>1 DEF TakesForReady
    <3> QED
      BY <1>2, <3>1, <3>2, QuietStep DEF Pick, DropUntold, geoVars
  <2>2. CASE ~(row = "importing" /\ ~cooling)
    <3>1. /\ Midway' \subseteq Midway
          /\ \A q \in Runs : TakesForReady(q)' => TakesForReady(q)
      BY <1>1, <1>2, <2>2 DEF Pick
    <3> QED
      BY <1>2, <3>1, QuietStep DEF Pick, DropUntold, geoVars, Orderly, DropsAlone
  <2> QED
    BY <2>1, <2>2
<1>3. CASE CheckDisk(r)
  <2>1. r \in Midway /\ Midway' \subseteq Midway
    BY <1>3 DEF CheckDisk, Goto, Midway
  <2>2. \A q \in Runs : TakesForReady(q)' => TakesForReady(q)
    BY <1>3 DEF CheckDisk, Goto, Decide, TakesForReady
  <2> QED
    BY <1>3, <2>1, <2>2, QuietStep DEF CheckDisk, DropUntold, geoVars, Orderly, DropsAlone
<1>4. CASE AskGeo(r) \/ Reconcile(r)
  <2>1. r \in Midway /\ ~dropping
    BY <1>4 DEF AskGeo, Reconcile, Midway, Orderly, DropsAlone
  <2>2. /\ Importing' = Importing /\ data' = data /\ dropping' = dropping
        /\ row' = row /\ req' = req
    BY <1>4 DEF AskGeo, Reconcile, geoVars, Importing
  <2>3. CASE AskGeo(r) /\ tracker = "none" /\ HasData
    <3>1. data = "full" /\ Importing = {} /\ tracker' = tracker /\ proc' = proc
      BY <2>3 DEF AskGeo, HasData, geoVars, Orderly, ImportsApart
    <3>2. ReadyIsReady'
      BY <2>2, <3>1 DEF Orderly, ReadyIsReady, DropUntold, Reimportable
    <3> QED
      BY <2>1, <2>2, <3>1, <3>2 DEF Orderly, ImportsApart, DropsAlone
  <2>4. CASE AskGeo(r) /\ ~(tracker = "none" /\ HasData)
    <3>1. Answered(r, tracker) /\ tracker \in {"none", "running", "failed", "ready"}
      BY <2>4 DEF AskGeo, Typed, RegionTypes
    <3>2. tracker = "ready" => data = "full" /\ Importing = {}
      BY DEF Orderly, ReadyIsReady, ImportsApart
    <3>3. \A q \in Runs : TakesForReady(q)' => TakesForReady(q) \/ tracker = "ready"
      BY <3>1, AnsweredEffect DEF TakesForReady
    <3>4. ReadyIsReady'
      BY <2>2, <2>4, <3>2, <3>3 DEF AskGeo, geoVars, Orderly, ReadyIsReady, DropUntold, Reimportable
    <3> QED
      BY <2>1, <2>2, <2>4, <3>4 DEF AskGeo, geoVars, Orderly, ImportsApart, DropsAlone
  <2>5. CASE Reconcile(r)
    <3>1. data = "full" /\ Importing = {} /\ proc' = proc
      BY <2>5 DEF Reconcile, Orderly, ReadyIsReady, TakesForReady
    <3>2. tracker' = "ready" \/ tracker' = tracker
      BY <2>5 DEF Reconcile
    <3>3. ReadyIsReady'
      BY <2>2, <3>1 DEF Orderly, ReadyIsReady, DropUntold, Reimportable
    <3> QED
      BY <2>1, <2>2, <3>1, <3>2, <3>3 DEF Orderly, ImportsApart, DropsAlone
  <2> QED
    BY <1>4, <2>3, <2>4, <2>5
<1>5. CASE StartImport(r)
  <2>1. r \in Midway /\ ~dropping
    BY <1>5 DEF StartImport, Goto, Midway, Orderly, DropsAlone
  <2>2. \A q \in Runs : TakesForReady(q)' => TakesForReady(q)
    BY <1>5 DEF StartImport, Goto, Decide, TakesForReady
  <2>3. CASE Running
    BY <1>5, <2>1, <2>2, <2>3, QuietStep DEF StartImport, DropUntold, geoVars
  <2>4. CASE ~Running
    <3>1. ~HasData /\ Importing = {}
      BY <1>5, <2>4 DEF StartImport, Running, Orderly, ImportsApart
    <3>2. PICK p \in Procs : proc[p] = "idle" /\ proc' = [proc EXCEPT ![p] = "download"]
      BY <1>5, <2>4, ProcsAssumption DEF StartImport
    <3>3. Importing' = {p} /\ tracker' = "running"
      BY <1>5, <2>4, <3>1, <3>2 DEF StartImport, Importing, Typed, RegionTypes
    <3>4. ImportsApart'
      BY <3>2, <3>3 DEF Orderly, ImportsApart, Typed, RegionTypes
    <3>5. data # "full"
      BY <3>1 DEF HasData
    <3>6. ReadyIsReady'
      BY <1>5, <2>2, <3>3, <3>5 DEF StartImport, Orderly, ReadyIsReady, DropUntold, Reimportable
    <3> QED
      BY <1>5, <2>1, <3>4, <3>6 DEF StartImport, Orderly, DropsAlone
  <2> QED
    BY <2>3, <2>4
<1>6. CASE Write(r)
  <2>1. r \in Midway /\ ~dropping
    BY <1>6 DEF Write, Midway, Orderly, DropsAlone
  <2>2. \A q \in Runs : TakesForReady(q)' => TakesForReady(q)
    BY <1>1, <1>6 DEF Write, Goto, TakesForReady
  <2>3. row' \in Reimportable => row' = row \/ TakesForReady(r)
    BY <1>6, StatusNames DEF Write, Update, SetRow, TakesForReady, Reimportable
  <2> QED
    BY <1>6, <2>1, <2>2, <2>3, QuietStep DEF Write, DropUntold, geoVars
<1>7. CASE Backfill(r) \/ GiveUp(r)
  <2>1. r \in Midway /\ ~dropping
    BY <1>7 DEF Backfill, GiveUp, Midway, Orderly, DropsAlone
  <2>2. \A q \in Runs : TakesForReady(q)' => TakesForReady(q)
    BY <1>1, <1>7 DEF Backfill, GiveUp
  <2>3. row' \in Reimportable => row' = row
    BY <1>7 DEF Backfill, GiveUp, Update, SetRow, Reimportable
  <2> QED
    BY <1>7, <2>1, <2>2, <2>3, QuietStep DEF Backfill, GiveUp, DropUntold, geoVars
<1>8. CASE TickFails(r)
  <2>1. r \in Midway /\ ~dropping
    BY <1>8 DEF TickFails, Midway, Orderly, DropsAlone
  <2>2. \A q \in Runs : TakesForReady(q)' => TakesForReady(q)
    BY <1>8 DEF TickFails, Goto, TakesForReady
  <2> QED
    BY <1>8, <2>1, <2>2, QuietStep DEF TickFails, DropUntold, geoVars
<1> QED
  BY <1>2, <1>3, <1>4, <1>5, <1>6, <1>7, <1>8 DEF Tick

LEMMA ImportDataStep ==
  ASSUME Typed, Orderly, NEW p \in Procs, Import(p)
  PROVE  Orderly'
<1> USE DEF Orderly
<1>0. proc \in [Procs -> {"idle", "download", "create", "load", "fill", "broken"}]
  BY DEF Typed, RegionTypes
<1>1. p \in Importing
  BY <1>0 DEF Import, Download, CreateTables, Load, ImportEnds, ImportFails, ImportsApart,
              Importing
<1>2. /\ Importing = {p} /\ tracker = "running" /\ ~dropping
      /\ \A r \in Runs : ~TakesForReady(r)
      /\ row \in Reimportable => DropUntold
  BY <1>1 DEF ImportsApart, ReadyIsReady, DropsAlone
<1>3. /\ UNCHANGED <<row, tick, verdict, req, dropping>>
      /\ \A r \in Runs : ~TakesForReady(r)'
      /\ row' \in Reimportable => DropUntold'
  BY <1>2 DEF Import, Download, CreateTables, Load, ImportEnds, ImportFails, TakesForReady,
              DropUntold, Reimportable
<1>4. CASE Download(p) \/ CreateTables(p) \/ Load(p)
  <2>1. Importing' = {p} /\ tracker' = "running" /\ \A q \in Procs : proc'[q] # "broken"
    BY <1>0, <1>2, <1>4 DEF Download, CreateTables, Load, Importing, ImportsApart
  <2> QED
    BY <1>2, <1>3, <2>1 DEF ImportsApart, ReadyIsReady, DropsAlone
<1>5. CASE ImportEnds(p) \/ ImportFails(p)
  <2>1. Importing' = {} /\ \A q \in Procs : proc'[q] # "broken"
    BY <1>0, <1>2, <1>5 DEF ImportEnds, ImportFails, Importing, ImportsApart
  <2>2. tracker' \in {"ready", "failed"} /\ (tracker' = "ready" => data' = "full")
    BY <1>5 DEF ImportEnds, ImportFails, Finalized
  <2> QED
    BY <1>2, <1>3, <2>1, <2>2 DEF ImportsApart, ReadyIsReady, DropsAlone
<1> QED
  BY <1>4, <1>5 DEF Import

LEMMA DropDataStep ==
  ASSUME Typed, Orderly, Forget \/ Drop \/ GeoRestart, ~disturbed'
  PROVE  Orderly'
<1> USE DEF Orderly
<1>0. /\ proc \in [Procs -> {"idle", "download", "create", "load", "fill", "broken"}]
      /\ tick \in [Runs -> TickSteps] /\ RequestKind
      /\ req \in [at : {"idle", "forget", "await", "update", "delete"},
                 kind : {"none", "approve", "remove", "reimport"}]
  BY DEF Typed, RegionTypes
<1>1. CASE Forget
  <2>1. Importing = {} /\ Midway = {} /\ Connected = {}
    BY <1>1 DEF Forget, Importing, Connected
  <2>2. Importing' = {} /\ Midway' = {} /\ proc' = proc
    BY <1>0, <1>1, <2>1 DEF Forget, Importing, Midway, Connected
  <2>3. ImportsApart' /\ DropsAlone'
    BY <1>1, <2>2 DEF Forget, Forgotten, ImportsApart, DropsAlone
  <2>4. ReadyIsReady'
    BY <1>1, <2>1, <2>2 DEF Forget, Forgotten, ReadyIsReady, TakesForReady, DropUntold,
                            Reimportable
  <2> QED
    BY <2>3, <2>4
<1>2. CASE Drop
  <2>1. Midway = {} /\ Importing = {} /\ tracker = "none" /\ req.at = "await"
    BY <1>2 DEF Drop, DropsAlone
  <2>2. /\ proc' = proc /\ tick' = tick /\ verdict' = verdict /\ row' = row
        /\ tracker' = tracker /\ ~dropping'
    BY <1>2 DEF Drop
  <2>3. Importing' = {} /\ \A r \in Runs : ~TakesForReady(r)'
    BY <1>0, <2>1, <2>2 DEF Importing, Midway, TakesForReady
  <2>4. ImportsApart' /\ DropsAlone'
    BY <2>1, <2>2, <2>3 DEF ImportsApart, DropsAlone
  <2>5. data' = data \/ (data' = "absent" /\ DropUntold')
    <3>1. data' = data \/ (data' = "absent" /\ req' = AfterDrop(TRUE))
      BY <1>2 DEF Drop
    <3>2. CASE req.kind = "remove"
      BY <1>0, <2>1, <3>1, <3>2 DEF AfterDrop, DropUntold
    <3>3. CASE req.kind = "reimport"
      BY <1>0, <2>1, <3>1, <3>3 DEF AfterDrop, DropUntold
    <3> QED
      BY <1>0, <2>1, <3>2, <3>3 DEF RequestKind
  <2>6. ~DropUntold
    BY <2>1 DEF DropUntold
  <2>7. ReadyIsReady'
    BY <2>1, <2>2, <2>3, <2>5, <2>6 DEF ReadyIsReady, Reimportable
  <2> QED
    BY <2>4, <2>7
<1>3. CASE GeoRestart
  <2>1. /\ proc' = [p \in Procs |-> "idle"] /\ tracker' = "none" /\ ~dropping'
        /\ verdict' = verdict /\ row' = row /\ data' = data
    BY <1>3 DEF GeoRestart
  <2>2. Importing' = {}
    BY <2>1 DEF Importing
  <2>3. ImportsApart' /\ DropsAlone'
    BY <2>1, <2>2 DEF ImportsApart, DropsAlone
  <2>4. \A r \in Runs : TakesForReady(r)' => TakesForReady(r)
    BY <1>3 DEF GeoRestart, TakesForReady
  <2>5. DropUntold => DropUntold'
    BY <1>3 DEF GeoRestart, AfterDrop, DropUntold
  <2>6. ReadyIsReady'
    BY <2>1, <2>2, <2>4, <2>5 DEF ReadyIsReady, Reimportable
  <2> QED
    BY <2>3, <2>6
<1> QED
  BY <1>1, <1>2, <1>3

LEMMA AppDataStep ==
  ASSUME Typed, Orderly, ~disturbed',
         \/ BeginTick \/ CooldownOver \/ Create \/ Conclude \/ RequestFails \/ AppRestart
         \/ \E kind \in RegionRequests \ {"create"} : Ask(kind)
         \/ \E h \in Hands : RunTickNow(h)
         \/ \E e \in BOOLEAN : Toggle(e)
         \/ \E s \in saves : Saved(s)
  PROVE  Orderly'
<1>0. /\ tick \in [Runs -> TickSteps] /\ RequestKind
      /\ req.at \in {"idle", "forget", "await", "update", "delete"}
      /\ dropping => Midway = {} /\ req.at = "await"
  BY DEF Typed, RegionTypes, Orderly, DropsAlone
<1> USE <1>0
<1>1. ASSUME UNCHANGED <<row, req, verdict, geoVars>>,
             \A r \in Runs : tick'[r] \in {tick[r], "idle", "pick"}
      PROVE  Orderly'
  <2>1. Midway' \subseteq Midway /\ \A r \in Runs : TakesForReady(r)' => TakesForReady(r)
    BY <1>1 DEF Midway, TakesForReady
  <2> QED
    BY <1>1, <2>1, QuietStep DEF DropUntold
<1>2. CASE BeginTick
  <2>1. \A r \in Runs : tick'[r] \in {tick[r], "idle", "pick"}
    BY <1>2 DEF BeginTick
  <2> QED
    BY <1>1, <1>2, <2>1 DEF BeginTick
<1>3. CASE CooldownOver
  BY <1>1, <1>3 DEF CooldownOver
<1>4. ASSUME NEW h \in Hands, RunTickNow(h) PROVE Orderly'
  <2>1. \A r \in Runs : tick'[r] \in {tick[r], "idle", "pick"}
    BY <1>4 DEF RunTickNow
  <2> QED
    BY <1>1, <1>4, <2>1 DEF RunTickNow
<1>5. ASSUME NEW e \in BOOLEAN, Toggle(e) PROVE Orderly'
  BY <1>1, <1>5 DEF Toggle
<1>6. ASSUME NEW s \in saves, Saved(s) PROVE Orderly'
  BY <1>1, <1>6 DEF Saved
<1>7. ASSUME UNCHANGED <<tick, verdict, geoVars>>, dropping => req'.at = "await",
             row' \in Reimportable => row' = row,
             DropUntold => DropUntold' \/ row' \notin Reimportable
      PROVE  Orderly'
  <2>1. Midway' = Midway /\ \A r \in Runs : TakesForReady(r)' => TakesForReady(r)
    BY <1>7 DEF Midway, TakesForReady
  <2> QED
    BY <1>7, <2>1, QuietStep
<1>8. CASE Create
  BY <1>7, <1>8 DEF Create, SetRow, Reimportable, DropUntold
<1>9. CASE Conclude
  BY <1>7, <1>9 DEF Conclude, Update, SetRow, Reimportable
<1>10. CASE RequestFails
  BY <1>7, <1>10 DEF RequestFails, DropUntold, NoRequest
<1>11. ASSUME NEW kind \in RegionRequests \ {"create"}, Ask(kind) PROVE Orderly'
  BY <1>7, <1>11 DEF Ask, Request, DropUntold
<1>12. CASE AppRestart
  <2>1. ~DropUntold /\ ~dropping
    BY <1>12 DEF AppRestart, DropUntold, RequestKind
  <2>2. \A r \in Runs : ~TakesForReady(r)'
    BY <1>12 DEF AppRestart, TakesForReady
  <2> QED
    BY <1>12, <2>1, <2>2, QuietStep DEF AppRestart
<1> QED
  BY <1>2, <1>3, <1>4, <1>5, <1>6, <1>8, <1>9, <1>10, <1>11, <1>12

LEMMA DataInvStep == Typed /\ DataInv /\ [RegionNext]_vars => DataInv'
<1> SUFFICES ASSUME Typed, DataInv, [RegionNext]_vars, ~disturbed' PROVE Orderly'
  BY DEF DataInv
<1>1. Orderly
  <2>1. disturbed => disturbed'
    BY DEF RegionNext, vars, geoVars, BeginTick, CooldownOver, Tick, TickFails, Import, Forget, Drop,
           GeoRestart, Create, Conclude, RequestFails, Ask, RunTickNow, Toggle, Saved,
           AppRestart, Pick, CheckDisk, AskGeo, Reconcile, StartImport, Write, Backfill,
           GiveUp, Download, CreateTables, Load, ImportEnds, ImportFails
  <2> QED
    BY <2>1 DEF DataInv
<1>2. CASE UNCHANGED vars
  <2>1. Midway' = Midway /\ \A r \in Runs : TakesForReady(r)' => TakesForReady(r)
    BY <1>2 DEF vars, Midway, TakesForReady
  <2> QED
    BY <1>1, <1>2, <2>1, QuietStep DEF vars, geoVars, DropUntold, Orderly, DropsAlone
<1> QED
  BY <1>1, <1>2, TickDataStep, ImportDataStep, DropDataStep, AppDataStep DEF RegionNext

LEMMA DataInvariant == FairSpec => []DataInv
<1>1. RegionInit => DataInv
  BY DataInvInit
<1>2. Typed /\ DataInv /\ [RegionNext]_vars => DataInv'
  BY DataInvStep
<1> QED
  BY <1>1, <1>2, TypedInvariant, PTL DEF FairSpec

(* A region shown as ready has its whole database. *)
THEOREM ReadyHasItsData == FairSpec => []ReadyIsComplete
<1>1. DataInv => ReadyIsComplete
  BY DEF DataInv, Orderly, ReadyIsReady, DropUntold, ReadyIsComplete
<1> QED
  BY <1>1, DataInvariant, PTL

-----------------------------------------------------------------------------
(* The arrows of the state machine *)

(* Whoever is not stale finds the row as it was when it was read, or as its own
   tick left it. *)
SeesRow ==
  /\ \A r \in Midway \ stale :
       row = "importing" \/ (row = "ready_running" /\ tick[r] \in {"backfill", "giveup"})
  /\ req.at # "idle" /\ "admin" \notin stale =>
       /\ req.kind = "approve" => row \in Approvable
       /\ req.kind = "reimport" => row \in Reimportable

LEMMA SeesRowInit == RegionInit => SeesRow
  BY DEF RegionInit, SeesRow, Midway, NoRequest

(* A step that leaves the row alone, and what is read of it. *)
LEMMA RowKept ==
  ASSUME SeesRow, row' = row, stale' = stale,
         \A r \in Runs : \/ tick'[r] \in {tick[r], "idle", "pick"}
                         \/ r \in Midway /\ tick[r] \notin {"backfill", "giveup"}
                         \/ r \in Midway /\ tick'[r] = "giveup",
         req' = req \/ req'.at = "idle" \/ (req.at # "idle" /\ req'.kind = req.kind)
  PROVE  SeesRow'
<1>1. \A r \in Midway' : r \in Midway
  BY DEF Midway
<1>2. \A r \in Midway' : tick[r] \in {"backfill", "giveup"} => tick'[r] \in {"backfill", "giveup"}
  BY DEF Midway
<1> QED
  BY <1>1, <1>2 DEF SeesRow, Approvable, Reimportable

(* Whoever has read another row than the one a statement leaves is stale. *)
LEMMA RowChanged ==
  ASSUME SeesRow, NEW who \in Savers, NEW s, SetRow(who, s), s # row,
         \A r \in Runs : r = who \/ tick'[r] = tick[r],
         who = "admin" => req'.at = "idle",
         who # "admin" => req' = req,
         who \in Midway' \ stale =>
           s = "importing" \/ (s = "ready_running" /\ tick'[who] \in {"backfill", "giveup"})
  PROVE  SeesRow'
<1>1. row' = s /\ stale' = stale \cup Others(who)
  BY DEF SetRow
<1>2. \A r \in Midway' \ stale' : r = who
  BY <1>1 DEF Midway, Others
<1>3. req'.at # "idle" => "admin" \in stale'
  BY <1>1 DEF Others
<1>4. stale \subseteq stale'
  BY <1>1
<1> QED
  BY <1>1, <1>2, <1>3, <1>4 DEF SeesRow

LEMMA SeesRowStep == Typed /\ SeesRow /\ [RegionNext]_vars => SeesRow'
<1> SUFFICES ASSUME Typed, SeesRow, [RegionNext]_vars PROVE SeesRow'
  OBVIOUS
<1>0. /\ tick \in [Runs -> TickSteps] /\ RequestKind
      /\ req \in [at : {"idle", "forget", "await", "update", "delete"},
                 kind : {"none", "approve", "remove", "reimport"}]
      /\ row \in RegionStatus \cup {"none"}
      /\ \A r \in Runs : tick[r] = "write" => verdict[r] # "none"
  BY DEF Typed, RegionTypes
<1> USE <1>0, TimerIsARun
<1>1. ASSUME NEW r \in Runs, Tick(r) \/ TickFails(r) PROVE SeesRow'
  <2>0. ASSUME NEW outcome, EndTick(r, outcome)
        PROVE  tick' = [tick EXCEPT ![r] = "idle"]
    BY <2>0 DEF EndTick
  <2>1. CASE Pick(r)
    <3>1. CASE row = "importing" /\ ~cooling
      <4>1. tick' = [tick EXCEPT ![r] = "check"] /\ row' = row /\ req' = req /\ stale' = stale \ {r}
        BY <2>1, <3>1 DEF Pick, Goto
      <4>2. Midway' = Midway \cup {r} /\ \A q \in Runs : q # r => tick'[q] = tick[q]
        BY <4>1 DEF Midway
      <4>3. \A q \in Midway' \ stale' : q = r \/ q \in Midway \ stale
        BY <4>1, <4>2
      <4> QED
        BY <3>1, <4>1, <4>2, <4>3, HandsAssumption DEF SeesRow, Approvable, Reimportable, Runs
    <3>2. CASE ~(row = "importing" /\ ~cooling)
      <4>1. tick' = [tick EXCEPT ![r] = "idle"] /\ row' = row /\ req' = req /\ stale' = stale \ {r}
        BY <2>0, <2>1, <3>2 DEF Pick
      <4>2. Midway' \subseteq Midway \ {r} /\ \A q \in Runs : q # r => tick'[q] = tick[q]
        BY <4>1 DEF Midway
      <4> QED
        BY <4>1, <4>2, HandsAssumption DEF SeesRow, Approvable, Reimportable, Runs
    <3> QED
      BY <3>1, <3>2
  <2>2. CASE CheckDisk(r) \/ AskGeo(r) \/ Reconcile(r) \/ StartImport(r)
    <3>1. /\ row' = row /\ stale' = stale /\ req' = req
          /\ tick[r] \in {"check", "ask", "reconcile", "start"}
      BY <2>2 DEF CheckDisk, AskGeo, Reconcile, StartImport, Goto
    <3>2. \A q \in Runs : q # r => tick'[q] = tick[q]
      BY <2>2, AnsweredEffect DEF CheckDisk, AskGeo, Reconcile, StartImport, Goto, Typed, RegionTypes
    <3> QED
      BY <3>1, <3>2, RowKept DEF Midway
  <2>3. CASE TickFails(r)
    BY <2>3, RowKept DEF TickFails, Goto, Midway
  <2>4. CASE Write(r)
    <3>1. \A q \in Runs : q = r \/ tick'[q] = tick[q]
      BY <2>0, <2>4 DEF Write, Goto
    <3>2. r \in Midway /\ req' = req /\ r \in Savers /\ r # "admin"
      BY <2>4 DEF Write, Midway
    <3>3. CASE row' = row /\ stale' = stale
      <4>1. tick[r] = "write"
        BY <2>4 DEF Write
      <4> QED
        BY <3>1, <3>2, <3>3, <4>1, RowKept
    <3>4. CASE SetRow(r, verdict[r]) /\ verdict[r] # row
      <4>1. tick'[r] # "idle" => verdict[r] = "ready_running" /\ tick'[r] = "backfill"
        BY <2>0, <2>4 DEF Write, Goto
      <4> QED
        BY <3>1, <3>2, <3>4, <4>1, RowChanged DEF Midway
    <3> QED
      BY <2>4, <3>3, <3>4 DEF Write, Update, SetRow
  <2>5. CASE Backfill(r)
    BY <2>0, <2>5, RowKept DEF Backfill
  <2>6. CASE GiveUp(r)
    <3>1. tick' = [tick EXCEPT ![r] = "idle"] /\ req' = req /\ r \in Savers /\ r # "admin"
      BY <2>0, <2>6 DEF GiveUp
    <3>2. CASE row' = row /\ stale' = stale
      BY <3>1, <3>2, RowKept
    <3>3. CASE SetRow(r, "failed") /\ row # "failed"
      BY <3>1, <3>3, RowChanged DEF Midway
    <3> QED
      BY <2>6, <3>2, <3>3 DEF GiveUp, Update, SetRow
  <2> QED
    BY <1>1, <2>1, <2>2, <2>3, <2>4, <2>5, <2>6 DEF Tick
<1>2. CASE BeginTick
  BY <1>2, RowKept DEF BeginTick
<1>3. CASE CooldownOver
  BY <1>3, RowKept DEF CooldownOver
<1>4. ASSUME NEW p \in Procs, Import(p) PROVE SeesRow'
  BY <1>4, RowKept DEF Import, Download, CreateTables, Load, ImportEnds, ImportFails
<1>5. CASE Forget
  BY <1>5, RowKept DEF Forget
<1>6. ASSUME NEW b \in BOOLEAN, req' = AfterDrop(b)
      PROVE  req' = req \/ req'.at = "idle" \/ (req.at # "idle" /\ req'.kind = req.kind)
  <2>1. CASE req.at = "await" /\ req.kind = "remove"
    BY <1>6, <2>1 DEF AfterDrop
  <2>2. CASE req.at = "await" /\ req.kind = "reimport"
    BY <1>6, <2>2 DEF AfterDrop, NoRequest
  <2> QED
    BY <1>6, <2>1, <2>2 DEF AfterDrop, RequestKind
<1>7. CASE Drop
  BY <1>6, <1>7, RowKept DEF Drop
<1>8. CASE GeoRestart
  <2>1. \A r \in Runs : tick'[r] = tick[r] \/ (r \in Midway /\ tick'[r] = "giveup")
    BY <1>8 DEF GeoRestart, Midway
  <2> QED
    BY <1>6, <1>8, <2>1, RowKept DEF GeoRestart
<1>9. CASE Create
  <2>1. PICK s \in {"importing", "pending_approval"} : SetRow("admin", s)
    BY <1>9 DEF Create
  <2>2. tick' = tick /\ req' = req /\ req.at = "idle" /\ "admin" \in Savers /\ s # row
    BY <1>9, <2>1 DEF Create, Request, Savers
  <2>3. "admin" \notin Midway'
    BY <2>2 DEF Midway
  <2> QED
    BY <2>1, <2>2, <2>3, RowChanged
<1>10. CASE Conclude
  <2>1. tick' = tick /\ req'.at = "idle" /\ "admin" \in Savers
    BY <1>10 DEF Conclude, NoRequest, Savers
  <2>2. "admin" \notin Midway'
    BY <2>1 DEF Midway
  <2>3. CASE row' = row /\ stale' = stale
    BY <2>1, <2>3, RowKept
  <2>4. ASSUME NEW s, SetRow("admin", s), s # row PROVE SeesRow'
    BY <2>1, <2>2, <2>4, RowChanged
  <2> QED
    BY <1>10, <2>3, <2>4 DEF Conclude, Update, SetRow
<1>11. CASE RequestFails
  <2>1. \/ req'.at = "idle"
        \/ req.kind = "remove" /\ req'.kind = "remove"
    BY <1>11 DEF RequestFails, NoRequest
  <2>2. row' = row /\ tick' = tick /\ stale' = stale \ {"admin"}
    BY <1>11 DEF RequestFails
  <2>3. \A r \in Midway' \ stale' : r \in Midway \ stale
    BY <2>2 DEF Midway
  <2> QED
    BY <2>1, <2>2, <2>3 DEF SeesRow
<1>12. ASSUME NEW kind \in RegionRequests \ {"create"}, Ask(kind) PROVE SeesRow'
  <2>1. /\ row' = row /\ tick' = tick /\ stale' = stale \ {"admin"}
        /\ req'.kind = kind /\ Begun(kind)
    BY <1>12 DEF Ask
  <2>2. \A r \in Midway' \ stale' : r \in Midway \ stale
    BY <2>1 DEF Midway
  <2>3. (kind = "approve" => row \in Approvable) /\ (kind = "reimport" => row \in Reimportable)
    BY <2>1 DEF Begun
  <2> QED
    BY <2>1, <2>2, <2>3 DEF SeesRow, Approvable, Reimportable
<1>13. ASSUME NEW h \in Hands, RunTickNow(h) PROVE SeesRow'
  BY <1>13, RowKept DEF RunTickNow
<1>14. ASSUME NEW e \in BOOLEAN, Toggle(e) PROVE SeesRow'
  BY <1>14, RowKept DEF Toggle
<1>15. ASSUME NEW s \in saves, Saved(s) PROVE SeesRow'
  BY <1>15, RowKept DEF Saved
<1>16. CASE AppRestart
  BY <1>16 DEF AppRestart, SeesRow, Midway, NoRequest
<1>17. CASE UNCHANGED vars
  BY <1>17, RowKept DEF vars
<1> QED
  BY <1>1, <1>2, <1>3, <1>4, <1>5, <1>7, <1>8, <1>9, <1>10, <1>11, <1>12, <1>13, <1>14,
     <1>15, <1>16, <1>17 DEF RegionNext

(* Only a writer whose view of the row is stale moves it off the arrows. *)
LEMMA StepFollowsLifecycle ==
  ASSUME Typed, SeesRow, [RegionNext]_vars, row' # row, row # "none", row' # "none"
  PROVE  row' \in Transitions[row] \/ WritesStale
<1>0. /\ tick \in [Runs -> TickSteps]
      /\ verdict \in [Runs -> {"none", "importing", "ready_running", "failed", "blocked_disk"}]
      /\ RequestKind
  BY DEF Typed, RegionTypes
<1>1. ASSUME NEW r \in Runs, Write(r) \/ GiveUp(r)
      PROVE  row' \in Transitions[row] \/ WritesStale
  <2>1. CASE r \in stale
    <3>1. tick[r] \in {"write", "giveup"} /\ tick'[r] # tick[r]
      BY <1>0, <1>1 DEF Write, GiveUp, EndTick, Goto
    <3> QED
      BY <2>1, <3>1 DEF WritesStale
  <2>2. CASE r \notin stale
    <3>1. r \in Midway
      BY <1>1 DEF Write, GiveUp, Midway
    <3>2. row = "importing" \/ (row = "ready_running" /\ tick[r] \in {"backfill", "giveup"})
      BY <2>2, <3>1 DEF SeesRow
    <3>3. CASE Write(r)
      <4>1. row = "importing" /\ row' = verdict[r] /\ verdict[r] # "importing"
        BY <3>2, <3>3 DEF Write, Update, SetRow
      <4> QED
        BY <1>0, <4>1 DEF Transitions
    <3>4. CASE GiveUp(r)
      <4>1. row' = "failed"
        BY <3>4 DEF GiveUp, Update, SetRow
      <4> QED
        BY <3>2, <4>1 DEF Transitions
    <3> QED
      BY <1>1, <3>3, <3>4
  <2> QED
    BY <2>1, <2>2
<1>2. CASE Conclude
  <2>1. req.at = "update" /\ row' = "importing" /\ req' = NoRequest
    BY <1>2 DEF Conclude, Update, SetRow
  <2>2. CASE "admin" \in stale
    BY <2>1, <2>2 DEF WritesStale
  <2>3. CASE "admin" \notin stale
    <3>1. row \in Approvable \/ row \in Reimportable
      BY <1>0, <2>1, <2>3 DEF SeesRow, RequestKind
    <3>2. CASE row \in Approvable
      BY <2>1, <3>2 DEF Approvable
    <3>3. CASE row \in Reimportable
      BY <2>1, <3>3 DEF Reimportable, Transitions
    <3> QED
      BY <3>1, <3>2, <3>3
  <2> QED
    BY <2>2, <2>3
<1>3. \/ \E r \in Runs : Write(r) \/ GiveUp(r)
      \/ Conclude
  BY DEF RegionNext, vars, BeginTick, CooldownOver, Tick, TickFails, Import, Forget, Drop,
         GeoRestart, Create, RequestFails, Ask, RunTickNow, Toggle, Saved,
         AppRestart, Pick, CheckDisk, AskGeo, Reconcile, StartImport, Backfill,
         Download, CreateTables, Load, ImportEnds, ImportFails
<1> QED
  BY <1>1, <1>2, <1>3

(* The row only moves along the arrows, or by a stale writer. *)
THEOREM LifecycleFollowed == FairSpec => FollowsLifecycle
<1>1. RegionInit => SeesRow
  BY SeesRowInit
<1>2. Typed /\ SeesRow /\ [RegionNext]_vars => SeesRow'
  BY SeesRowStep
<1>3. Typed /\ SeesRow /\ [RegionNext]_vars =>
        [row' # row /\ row # "none" /\ row' # "none" =>
           row' \in Transitions[row] \/ WritesStale]_vars
  BY StepFollowsLifecycle
<1> QED
  BY <1>1, <1>2, <1>3, TypedInvariant, PTL DEF FairSpec, FollowsLifecycle
=============================================================================
