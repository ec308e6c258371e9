------------------------------- MODULE OsmRegion -------------------------------
(***************************************************************************)
(* One map region: its row of osm_region_imports, which the ticks of the   *)
(* importer and the admin's requests write (osm-admin/importer.ts,         *)
(* region.service.ts, reimport.ts, retention.ts), and the geo service,     *)
(* which imports and drops the region's database and keeps what it knows   *)
(* of an import in memory (geo/src/import.ts).  A tick is the work of a    *)
(* job of LocalCron, so the timer's tick and one started by hand may       *)
(* overlap.                                                                *)
(*                                                                         *)
(* A step is what lies between two awaits.  The size of the extract is     *)
(* known, every call is answered or fails, and requests and drops come one *)
(* at a time.                                                              *)
(***************************************************************************)
EXTENDS LocalCron

CONSTANTS Procs,      \* imports the geo service may have under way
          Scenarios   \* bounds: where a region starts, which requests are made,
                      \* how many of them, and how many things fail or restart

RegionRequests == {"create", "approve", "remove", "reimport"}
CronRequests   == {"run", "pause", "resume"}

ASSUME ScenariosAssumption ==
  \A S \in Scenarios :
    /\ S.from \subseteq {"none", "ready_running", "failed"}
    /\ S.requests \subseteq RegionRequests \cup CronRequests
    /\ S.maxRequests \in Nat /\ S.maxFaults \in Nat

ASSUME ProcsAssumption == Procs # {}

VARIABLES
  scenario,   \* the one of Scenarios this is
  row,        \* the row's status, "none" if there is no row
  cooling,    \* its updated_at is less than TICK_COOLDOWN_MS ago
  tick,       \* where the tick of a run stands
  verdict,    \* what it is about to write
  tracker,    \* the geo service's entry: "none", "running", "ready", "failed"
  data,       \* the database: "absent", "empty", "partial", "full"
  proc,       \* where an import of the geo service stands
  dropping,   \* it is between forgetting a region and DROP DATABASE
  crossed,    \* history: the entry was changed under the imports under way
  req,        \* [at, kind] of the admin's request
  requests,   \* requests so far
  faults,     \* failures so far
  stale,      \* history: whose view of the row is not the row any more
  disturbed   \* history: a drop was cut short or crossed, or an import met an
              \* earlier one's data

geoVars == <<tracker, data, proc, dropping, crossed>>
vars == <<enabled, status, armed, run, saves, saved, mixed, blurred,
          scenario, row, cooling, tick, verdict, tracker, data, proc, dropping,
          crossed, req, requests, faults, stale, disturbed>>

Transitions ==
  [pending_approval |-> {"importing", "failed"},
   importing        |-> {"ready_running", "blocked_disk", "failed"},
   ready_running    |-> {"ready_stopped", "importing", "failed"},
   ready_stopped    |-> {"ready_running", "importing", "failed"},
   blocked_disk     |-> {"pending_approval", "failed"},
   failed           |-> {"pending_approval", "importing"}]

RegionStatus == DOMAIN Transitions

NoRequest == [at |-> "idle", kind |-> "none"]

Fault == faults < scenario.maxFaults /\ faults' = faults + 1

\* A region nobody has asked for, one in use, or one whose import failed.
RegionInit ==
  /\ CronInit
  /\ scenario \in Scenarios
  /\ row \in scenario.from
  /\ tracker = CASE row = "none" -> "none" [] row = "failed" -> "failed"
                 [] row = "ready_running" -> "ready"
  /\ data = CASE row = "none" -> "absent" [] row = "failed" -> "empty"
              [] row = "ready_running" -> "full"
  /\ cooling = FALSE
  /\ tick = [r \in Runs |-> "idle"]
  /\ verdict = [r \in Runs |-> "none"]
  /\ proc = [p \in Procs |-> "idle"]
  /\ dropping = FALSE /\ crossed = FALSE
  /\ req = NoRequest
  /\ requests = 0 /\ faults = 0
  /\ stale = {}
  /\ disturbed = FALSE

-----------------------------------------------------------------------------
(* The row *)

\* Ticks that have picked the row and not ended.
Midway == {r \in Runs : tick[r] \notin {"idle", "pick"}}

\* Everybody with a view of the row, but the one who changes it.
Others(who) == (Midway \cup (IF req.at = "idle" THEN {} ELSE {"admin"})) \ {who}

\* A statement of who brings the row to status s: an INSERT, an UPDATE by slug,
\* which a missing row turns into nothing, or a DELETE.
SetRow(who, s) ==
  /\ row' = s
  /\ cooling' = (s # "none")
  /\ stale' = IF s = row THEN stale ELSE stale \cup Others(who)

Update(who, s) ==
  IF row = "none" THEN UNCHANGED <<row, cooling, stale>> ELSE SetRow(who, s)

CooldownOver ==
  /\ cooling
  /\ cooling' = FALSE
  /\ UNCHANGED <<cronVars, scenario, row, tick, verdict, geoVars, req, requests,
                 faults, stale, disturbed>>

-----------------------------------------------------------------------------
(* The importer's tick *)

Goto(r, from, to) == tick[r] = from /\ tick' = [tick EXCEPT ![r] = to]

\* The tick ends, and with it the work of its run.
EndTick(r, outcome) ==
  /\ tick' = [tick EXCEPT ![r] = "idle"]
  /\ verdict' = [verdict EXCEPT ![r] = "none"]
  /\ End(r, outcome)

Decide(r, v) == verdict' = [verdict EXCEPT ![r] = v]

\* A run begins with a tick.
BeginTick ==
  /\ Fire
  /\ tick' = [tick EXCEPT !["timer"] = IF enabled THEN "pick" ELSE @]
  /\ UNCHANGED <<scenario, row, cooling, verdict, geoVars, req, requests, faults,
                 stale, disturbed>>

\* The SELECT of tickImporter.
Pick(r) ==
  /\ tick[r] = "pick"
  /\ IF row = "importing" /\ ~cooling
     THEN /\ Goto(r, "pick", "check")
          /\ disturbed' = (disturbed \/ dropping)
          /\ UNCHANGED <<cronVars, verdict>>
     ELSE EndTick(r, "ok") /\ UNCHANGED disturbed
  /\ stale' = stale \ {r}
  /\ UNCHANGED <<scenario, row, cooling, geoVars, req, requests, faults>>

CheckDisk(r) ==
  /\ \/ Goto(r, "check", "ask") /\ UNCHANGED <<verdict, faults>>
     \/ Fault /\ Goto(r, "check", "write") /\ Decide(r, "blocked_disk")
  /\ UNCHANGED <<cronVars, scenario, row, cooling, geoVars, req, requests, stale,
                 disturbed>>

\* What reconcileImportStatus asks for: the tables, with a row in osm_pois.
HasData == data \in {"partial", "full"}

\* What becomes of the geo service's answer.
Answered(r, answer) ==
  CASE answer = "none"    -> Goto(r, tick[r], "start") /\ UNCHANGED verdict
    [] answer = "running" -> Goto(r, tick[r], "write") /\ Decide(r, "importing")
    [] answer = "failed"  -> Goto(r, tick[r], "write") /\ Decide(r, "failed")
    [] answer = "ready"   -> Goto(r, tick[r], "write") /\ Decide(r, "ready_running")

\* getImportStatus: what is in memory, or else what the database says.
AskGeo(r) ==
  /\ tick[r] = "ask"
  /\ IF tracker = "none" /\ HasData
     THEN /\ Goto(r, "ask", "reconcile")
          /\ disturbed' = (disturbed \/ data = "partial")
          /\ UNCHANGED verdict
     ELSE Answered(r, tracker) /\ UNCHANGED disturbed
  /\ UNCHANGED <<cronVars, scenario, row, cooling, geoVars, req, requests, faults,
                 stale>>

\* Mutant: an import under way is not looked at.
NeverRunning == FALSE

Running == tracker = "running"

\* reconcileImportStatus: the entry is made once the answer of the database is
\* back, whatever it says by then; an error is as if there were no tables.
Reconcile(r) ==
  /\ tick[r] = "reconcile"
  /\ \/ /\ Answered(r, "ready")
        /\ tracker' = "ready"
        /\ crossed' = (crossed \/ Running)
        /\ UNCHANGED faults
     \/ Fault /\ Answered(r, "none") /\ UNCHANGED <<tracker, crossed>>
  /\ UNCHANGED <<cronVars, scenario, row, cooling, data, proc, dropping, req,
                 requests, stale, disturbed>>

\* startImport of the geo service
StartImport(r) ==
  /\ Goto(r, "start", "write")
  /\ Decide(r, "importing")
  /\ IF Running THEN UNCHANGED <<tracker, proc>>
     ELSE /\ tracker' = "running"
          /\ LET p == CHOOSE q \in Procs : proc[q] = "idle"
                             \/ \A x \in Procs : proc[x] # "idle" IN
               proc[p] = "idle" /\ proc' = [proc EXCEPT ![p] = "download"]
  /\ disturbed' = (disturbed \/ (~Running /\ HasData))
  /\ UNCHANGED <<cronVars, scenario, row, cooling, data, dropping, crossed, req,
                 requests, faults, stale>>

\* The tick's UPDATE, of the status or of updated_at alone.
Write(r) ==
  /\ tick[r] = "write"
  /\ IF verdict[r] = "importing" THEN Update(r, row) ELSE Update(r, verdict[r])
  /\ IF verdict[r] = "ready_running"
     THEN Goto(r, "write", "backfill") /\ UNCHANGED <<cronVars, verdict>>
     ELSE EndTick(r, "ok")
  /\ UNCHANGED <<scenario, geoVars, req, requests, faults, disturbed>>

\* enqueuePoiDetectionForRegion
Backfill(r) ==
  /\ tick[r] = "backfill"
  /\ EndTick(r, "ok")
  /\ UNCHANGED <<scenario, row, cooling, geoVars, req, requests, faults, stale,
                 disturbed>>

\* Whatever throws in the tick, its last UPDATE is the one to failed ...
TickFails(r) ==
  /\ Fault
  /\ tick[r] \in {"check", "ask", "reconcile", "start", "write", "backfill"}
  /\ Goto(r, tick[r], "giveup")
  /\ UNCHANGED <<cronVars, scenario, row, cooling, verdict, geoVars, req,
                 requests, stale, disturbed>>

\* ... and where that throws as well, the job does.
GiveUp(r) ==
  /\ tick[r] = "giveup"
  /\ \/ Update(r, "failed") /\ EndTick(r, "ok") /\ UNCHANGED faults
     \/ Fault /\ EndTick(r, "error") /\ UNCHANGED <<row, cooling, stale>>
  /\ UNCHANGED <<scenario, geoVars, req, requests, disturbed>>

-----------------------------------------------------------------------------
(* The geo service *)

Importing == {p \in Procs : proc[p] \notin {"idle", "broken"}}

\* downloadPbf
Download(p) ==
  /\ proc[p] = "download"
  /\ proc' = [proc EXCEPT ![p] = "create"]
  /\ UNCHANGED <<cronVars, scenario, row, cooling, tick, verdict, tracker, data,
                 dropping, crossed, req, requests, faults, stale, disturbed>>

\* ensureDatabase, ensurePostgisAndSchema and osm2pgsql --create, which makes
\* its tables anew ...
CreateTables(p) ==
  /\ proc[p] = "create"
  /\ proc' = [proc EXCEPT ![p] = "load"]
  /\ data' = "empty"
  /\ UNCHANGED <<cronVars, scenario, row, cooling, tick, verdict, tracker,
                 dropping, crossed, req, requests, faults, stale, disturbed>>

\* ... and fills them bit by bit.
Load(p) ==
  /\ proc[p] = "load"
  /\ proc' = [proc EXCEPT ![p] = "fill"]
  /\ data' = "partial"
  /\ UNCHANGED <<cronVars, scenario, row, cooling, tick, verdict, tracker,
                 dropping, crossed, req, requests, faults, stale, disturbed>>

\* finalize enters the outcome whatever has become of the entry since.
Finalized(state) == state

\* The entry is an import's own again once the last one is over.
StillCrossed(p) == crossed /\ \E q \in Procs \ {p} : proc[q] # "idle"

\* verifyImportData, and the entry.
ImportEnds(p) ==
  /\ proc[p] = "fill"
  /\ proc' = [proc EXCEPT ![p] = "idle"]
  /\ data' = "full"
  /\ tracker' = Finalized("ready")
  /\ crossed' = StillCrossed(p)
  /\ UNCHANGED <<cronVars, scenario, row, cooling, tick, verdict, dropping, req,
                 requests, faults, stale, disturbed>>

\* A step of the import fails: at any time by itself, for certain once its
\* connections are gone, and perhaps where another import has the same tables.
ImportFails(p) ==
  /\ \/ proc[p] = "broken" /\ UNCHANGED faults
     \/ p \in Importing /\ Importing # {p} /\ UNCHANGED faults
     \/ p \in Importing /\ Importing = {p} /\ Fault
  /\ proc' = [proc EXCEPT ![p] = "idle"]
  /\ tracker' = Finalized("failed")
  /\ crossed' = StillCrossed(p)
  /\ UNCHANGED <<cronVars, scenario, row, cooling, tick, verdict, data, dropping,
                 req, requests, stale, disturbed>>

Connected == {p \in Procs : proc[p] \in {"load", "fill"}}

\* Mutant: the entry is kept.
Kept == tracker

\* What dropRegion leaves of the entry.
Forgotten == "none"

\* dropRegion: the entry goes first and connections to the database are cut ...
Forget ==
  /\ req.at = "forget" /\ ~dropping
  /\ req' = [req EXCEPT !.at = "await"]
  /\ dropping' = TRUE
  /\ tracker' = Forgotten
  /\ proc' = [p \in Procs |-> IF p \in Connected THEN "broken" ELSE proc[p]]
  /\ crossed' = (crossed \/ Importing # {})
  /\ disturbed' = (disturbed \/ Importing # {} \/ Midway # {})
  /\ UNCHANGED <<cronVars, scenario, row, cooling, tick, verdict, data, requests,
                 faults, stale>>

\* The request goes on where its kind says, whether the drop succeeds or not.
AfterDrop(succeeds) ==
  IF req.at # "await" THEN req
  ELSE CASE req.kind = "remove" -> [req EXCEPT !.at = "delete"]
         [] req.kind = "reimport" /\ succeeds -> [req EXCEPT !.at = "update"]
         [] req.kind = "reimport" /\ ~succeeds -> NoRequest

\* ... then the database, unless there are new ones.
Drop ==
  /\ dropping
  /\ dropping' = FALSE
  /\ \/ Connected = {} /\ data' = "absent" /\ req' = AfterDrop(TRUE) /\ UNCHANGED faults
     \/ Connected # {} /\ req' = AfterDrop(FALSE) /\ UNCHANGED <<data, faults>>
     \/ Fault /\ req' = AfterDrop(FALSE) /\ UNCHANGED data
  /\ UNCHANGED <<cronVars, scenario, row, cooling, tick, verdict, tracker, proc,
                 crossed, requests, stale, disturbed>>

\* The geo service restarts: imports and calls under way fail, and what it knew
\* of them is lost.
GeoRestart ==
  /\ Fault
  /\ tracker' = "none"
  /\ proc' = [p \in Procs |-> "idle"]
  /\ dropping' = FALSE /\ crossed' = FALSE
  /\ tick' = [r \in Runs |-> IF tick[r] = "reconcile" THEN "giveup" ELSE tick[r]]
  /\ req' = AfterDrop(FALSE)
  /\ UNCHANGED <<cronVars, scenario, row, cooling, verdict, data, requests, stale,
                 disturbed>>

-----------------------------------------------------------------------------
(* The admin's requests *)

Request(kind) ==
  /\ req.at = "idle"
  /\ kind \in scenario.requests
  /\ requests < scenario.maxRequests
  /\ requests' = requests + 1

\* createPending; small regions are approved at once.
Create ==
  /\ Request("create")
  /\ row = "none"
  /\ \E s \in {"importing", "pending_approval"} : SetRow("admin", s)
  /\ UNCHANGED <<cronVars, scenario, tick, verdict, geoVars, req, faults, disturbed>>

\* Mutant: a region blocked by its disk may be approved like a failed one.
ApprovableOrBlocked == {"pending_approval", "failed", "blocked_disk"}

\* What approve does not refuse and does not find done.
Approvable == {s \in RegionStatus \ {"importing", "ready_running", "ready_stopped"} :
                 "importing" \in Transitions[s]}

\* REIMPORTABLE
Reimportable == {"ready_running", "ready_stopped"}

\* remove, which the retention sweep calls for regions at rest as well.
Begun(kind) ==
  CASE kind = "approve"  -> row \in Approvable
    [] kind = "remove"   -> row # "none"
    [] kind = "reimport" -> row \in Reimportable

\* The SELECT of approve, remove or reimportOutdated.
Ask(kind) ==
  /\ Request(kind)
  /\ Begun(kind)
  /\ req' = [at |-> IF kind = "approve" THEN "update" ELSE "forget", kind |-> kind]
  /\ stale' = stale \ {"admin"}
  /\ UNCHANGED <<cronVars, scenario, row, cooling, tick, verdict, geoVars, faults,
                 disturbed>>

\* The UPDATE of approve and reimportOutdated, the DELETE of remove.
Conclude ==
  /\ req.at \in {"update", "delete"}
  /\ IF req.at = "update" THEN Update("admin", "importing")
     ELSE SetRow("admin", "none")
  /\ req' = NoRequest
  /\ UNCHANGED <<cronVars, scenario, tick, verdict, geoVars, requests, faults,
                 disturbed>>

\* A statement of the admin's request fails, or its call never reaches geo.
RequestFails ==
  /\ Fault
  /\ req.at \in {"forget", "update", "delete"}
  /\ req' = IF req.at = "forget" /\ req.kind = "remove"
            THEN [req EXCEPT !.at = "delete"] ELSE NoRequest
  /\ stale' = stale \ {"admin"}
  /\ disturbed' = (disturbed \/ (req.at # "forget" /\ req.kind # "approve"))
  /\ UNCHANGED <<cronVars, scenario, row, cooling, tick, verdict, geoVars, requests>>

\* The admin's requests of the job.
RunTickNow(h) ==
  /\ Request("run")
  /\ RunNow(h)
  /\ tick' = [tick EXCEPT ![h] = "pick"]
  /\ UNCHANGED <<scenario, row, cooling, verdict, geoVars, req, faults, stale,
                 disturbed>>

Toggle(e) ==
  /\ Request(IF e THEN "resume" ELSE "pause")
  /\ SetEnabled(e)
  /\ UNCHANGED <<scenario, row, cooling, tick, verdict, geoVars, req, faults,
                 stale, disturbed>>

-----------------------------------------------------------------------------
(* The app *)

\* A save of the job's row comes to its end.
Saved(s) ==
  /\ \/ Land(s) /\ UNCHANGED faults
     \/ SaveFails(s) /\ Fault
  /\ UNCHANGED <<scenario, row, cooling, tick, verdict, geoVars, req, requests,
                 stale, disturbed>>

\* The app restarts; the geo service goes on.
AppRestart ==
  /\ Fault
  /\ CronRestart
  /\ tick' = [r \in Runs |-> "idle"]
  /\ verdict' = [r \in Runs |-> "none"]
  /\ req' = NoRequest
  /\ stale' = {}
  /\ disturbed' = (disturbed \/ req.at \in {"await", "delete"}
                     \/ (req.at = "update" /\ req.kind = "reimport"))
  /\ UNCHANGED <<scenario, row, cooling, geoVars, requests>>

Tick(r) ==
  Pick(r) \/ CheckDisk(r) \/ AskGeo(r) \/ Reconcile(r) \/ StartImport(r)
    \/ Write(r) \/ Backfill(r) \/ GiveUp(r)

Import(p) ==
  Download(p) \/ CreateTables(p) \/ Load(p) \/ ImportEnds(p) \/ ImportFails(p)

RegionNext ==
  \/ BeginTick \/ CooldownOver
  \/ \E r \in Runs : Tick(r) \/ TickFails(r)
  \/ \E p \in Procs : Import(p)
  \/ Forget \/ Drop \/ GeoRestart
  \/ Create \/ Conclude \/ RequestFails
  \/ \E kind \in RegionRequests \ {"create"} : Ask(kind)
  \/ \E h \in Hands : RunTickNow(h)
  \/ \E e \in BOOLEAN : Toggle(e)
  \/ \E s \in saves : Saved(s)
  \/ AppRestart

\* Timers fire, ticks, imports, drops, saves and requests come to their end.
RegionFairness ==
  /\ WF_vars(BeginTick) /\ WF_vars(CooldownOver)
  /\ \A r \in Runs : WF_vars(Tick(r))
  /\ \A p \in Procs : WF_vars(Import(p))
  /\ WF_vars(Forget) /\ WF_vars(Drop) /\ WF_vars(Conclude)
  /\ WF_vars(\E s \in saves : Saved(s))

FairSpec == RegionInit /\ [][RegionNext]_vars /\ RegionFairness

-----------------------------------------------------------------------------
TickSteps == {"idle", "pick", "check", "ask", "reconcile", "start", "write",
              "backfill", "giveup"}

TypeOK ==
  /\ CronTypeOK
  /\ scenario \in Scenarios
  /\ row \in RegionStatus \cup {"none"} /\ cooling \in BOOLEAN
  /\ tick \in [Runs -> TickSteps]
  /\ \A r \in Runs : tick[r] # "idle" <=> run[r] = "job"
  /\ verdict \in [Runs -> {"none", "importing", "ready_running", "failed", "blocked_disk"}]
  /\ tracker \in {"none", "running", "ready", "failed"}
  /\ data \in {"absent", "empty", "partial", "full"}
  /\ proc \in [Procs -> {"idle", "download", "create", "load", "fill", "broken"}]
  /\ dropping \in BOOLEAN /\ crossed \in BOOLEAN
  /\ req \in [at : {"idle", "forget", "await", "update", "delete"},
              kind : {"none", "approve", "remove", "reimport"}]
  /\ requests \in 0 .. scenario.maxRequests /\ faults \in 0 .. scenario.maxFaults
  /\ stale \subseteq Savers
  /\ disturbed \in BOOLEAN

(* Overlapping ticks, retries, failed requests and restarts of either side never
   have the geo service load a region twice at once, and an import it shows as
   running is really under way (startImport, finalize).  Exempt are imports under
   which the entry was changed, until they are over: the region was dropped while
   one was under way, or a reconciliation that had asked the database before an
   import began, as two ticks can after a restart, made its entry after that. *)
OneImport ==
  ~crossed =>
    /\ Cardinality(Importing) <= 1
    /\ tracker = "running" <=> Importing # {}

(* A region shown as ready has its whole database: a region that was removed and
   asked for again, whose import failed and was retried, or whose re-import was
   refused halfway is not taken for ready on the strength of what the geo service
   or a late tick remembers (tickImporter, reconcileImportStatus, dropRegion).
   Exempt are the moments of a drop and, from then on, a region whose drop met an
   import or a tick or was cut short by a restart or a failed statement, one whose
   half-loaded data a tick asked about after a restart, and one whose import was
   started with the data of an earlier one still there. *)
ReadyIsComplete ==
  row \in Reimportable /\ ~disturbed /\ ~dropping /\ req.at \notin {"update", "delete"} =>
    data = "full"

\* Somebody writes the row whose view of it is not the row any more.
WritesStale ==
  \/ \E r \in stale \cap Runs : tick[r] \in {"write", "giveup"} /\ tick'[r] # tick[r]
  \/ "admin" \in stale /\ req.at # "idle" /\ req' = NoRequest

(* The status only moves along the arrows of the state machine, although the
   ticks write it by slug without looking at the present one: the overlap of two
   ticks, or of a tick and a request, that changed the row in between is the only
   way off them (transition, approve, reimportOutdated). *)
FollowsLifecycle ==
  [][row' # row /\ row # "none" /\ row' # "none" =>
       row' \in Transitions[row] \/ WritesStale]_vars

(* A region does not stay in importing: whatever fails or restarts on either
   side, the ticks find the import ready or failed, as long as the importer's
   job is not paused (tickImporter, finalize, armNext). *)
ImportingEnds == []<>(row # "importing" \/ ~enabled)
=============================================================================
