------------------------------ MODULE PhotoScan ------------------------------
(***************************************************************************)
(* The photo scan queue: rows of photo_scan_queue that one worker per      *)
(* service claims, runs under one of a few database slots and settles by   *)
(* id (photo/scan-queue.ts, scan-worker.ts, worker-db-slots.ts), the jobs  *)
(* themselves as far as they read what another job writes                  *)
(* (photo.service.ts, osm-admin/poi-detection.ts), the follow-up jobs that *)
(* a finished job queues without waiting, the requests that queue, reset,  *)
(* retry and cancel jobs, and restarts.                                    *)
(*                                                                         *)
(* All statements but the order of claims filter on one photo, so the      *)
(* module follows one, geotagged inside an imported region, in sight of    *)
(* one of its points of interest and seen by one user, with the workers'   *)
(* default concurrency of one.  One statement is one action.  A worker's   *)
(* last statement and the release of its slot, which follows at once, are  *)
(* one action, and so are the inserts of a photo's faces.                  *)
(* Results are known by whether they are there and are those of the        *)
(* photo's present faces.                                                  *)
(***************************************************************************)
EXTENDS Integers, Sequences, FiniteSets, SequencesExt

CONSTANTS Capacity,   \* SLOT_CAPACITY
          Scenarios   \* the services of an installation, in their order, and
                      \* bounds: which requests are made there after the upload,
                      \* how many, and how many statements and calls fail or
                      \* restarts happen

AllServices == {"embedding", "face_detection", "face_assignment",
                "poi_detection", "quality"}
AllRequests == {"force", "missing", "retry", "cancel", "region", "poi_empty"}

ASSUME ScenariosAssumption ==
  \A S \in Scenarios :
    /\ S.services \in Seq(AllServices) /\ "embedding" \in ToSet(S.services)
    /\ "face_detection" \in ToSet(S.services) <=> "face_assignment" \in ToSet(S.services)
    /\ S.requests \subseteq AllRequests
    /\ S.maxRequests \in Nat /\ S.maxFaults \in Nat
ASSUME CapacityAssumption == Capacity \in Nat \ {0}

VARIABLES
  scenario,   \* the one of Scenarios this is
  active,     \* the row in uq_active_scan_*: "none", "pending", "processing"
  force,      \* the services whose row has its force flag set
  done,       \* how many done rows a service has
  failed,     \* how many failed rows
  failedForce,  \* the services that have a failed row with its force flag set
  embedding,  \* the embedding service has the photo's vector
  matched,    \* photo_poi_matches has rows
  faces,      \* faces has rows
  assigned,   \* they are assigned to the user's persons
  scored,     \* the quality score has taken them into account
  step,       \* where the worker of a service stands
  forced,     \* the force flag its job was claimed with
  seen,       \* what it has read: "nothing", "current" or by now "gone"
  owns,       \* services whose worker's row is still in the table
  inUse,      \* database slots held
  waiters,    \* workers waiting for one, in their order
  followUps,  \* services with a follow-up about to be queued
  req,        \* [at, kind, todo] of the request being served
  booted,     \* resetStuckJobs is through since the process started
  requests,   \* requests so far
  faults,     \* failures so far
  lost        \* history: an event since has lost a run that was due

rows == <<active, force, done, failed, failedForce>>
data == <<embedding, matched, faces, assigned, scored>>
work == <<step, forced, seen, owns, inUse, waiters>>
vars == <<scenario, active, force, done, failed, failedForce, embedding, matched,
          faces, assigned, scored, step, forced, seen, owns, inUse, waiters,
          followUps, req, booted, requests, faults, lost>>

\* Services that ask a model: withAiSlot, assertServiceAvailable.
AiServices == {"embedding", "face_detection", "quality"}

\* enabledServices; one flag switches both face services on.
EnabledServices == scenario.services
enabled == ToSet(EnabledServices)

PerUser == {"face_assignment"}
Global  == AllServices \ PerUser

Idle == [at |-> "idle", kind |-> "upload", todo |-> << >>]

Goto(s, from, to) == step[s] = from /\ step' = [step EXCEPT ![s] = to]

Fault == faults < scenario.maxFaults /\ faults' = faults + 1

\* The upload has inserted the photo and is about to queue its jobs.
Init ==
  /\ scenario \in Scenarios
  /\ active = [s \in AllServices |-> "none"]
  /\ force = {} /\ failedForce = {}
  /\ done = [s \in AllServices |-> 0]
  /\ failed = [s \in AllServices |-> 0]
  /\ embedding = FALSE /\ matched = FALSE
  /\ faces = FALSE /\ assigned = FALSE /\ scored = FALSE
  /\ step = [s \in AllServices |-> "idle"]
  /\ forced = [s \in AllServices |-> FALSE]
  /\ seen = [s \in AllServices |-> "nothing"]
  /\ owns = {}
  /\ inUse = 0 /\ waiters = << >>
  /\ followUps = {}
  /\ req = [at |-> "insert", kind |-> "upload", todo |-> EnabledServices]
  /\ booted = TRUE
  /\ requests = 0 /\ faults = 0
  /\ lost = FALSE

-----------------------------------------------------------------------------
(* photo_scan_queue and the database slots *)

\* Mutant: a failed row counts as one that is still to come.
EverQueued(s) == active[s] # "none" \/ failed[s] > 0

\* hasActiveEmbeddingJob, and detectionRunning of assignFacesForUser.
Outstanding(s) == active[s] # "none"

\* dequeueNextJob, then acquireDbSlot.
Claim(s) ==
  /\ active[s] = "pending"
  /\ Goto(s, "idle", IF inUse < Capacity THEN "start" ELSE "waiting")
  /\ active' = [active EXCEPT ![s] = "processing"]
  /\ owns' = owns \cup {s}
  /\ forced' = [forced EXCEPT ![s] = s \in force]
  /\ inUse' = IF inUse < Capacity THEN inUse + 1 ELSE inUse
  /\ waiters' = IF inUse < Capacity THEN waiters ELSE Append(waiters, s)
  /\ UNCHANGED <<scenario, force, done, failed, failedForce, data, seen, followUps, req,
                 booted, requests, faults, lost>>

\* Mutant: the slot is handed over and counted as free.
AfterRelease == inUse - 1

\* A slot handed to the next in line stays in use.
Kept == IF waiters = << >> THEN inUse - 1 ELSE inUse

\* The worker of s is through with its row, in state "to", and its slot goes to
\* the next in line (releaseDbSlot); what it knew is forgotten.
Settle(s, from, to) ==
  /\ step[s] = from
  /\ active' = IF s \in owns THEN [active EXCEPT ![s] = to] ELSE active
  /\ force' = IF s \in owns /\ to = "none" THEN force \ {s} ELSE force
  /\ owns' = owns \ {s}
  /\ seen' = [seen EXCEPT ![s] = "nothing"]
  /\ forced' = [forced EXCEPT ![s] = FALSE]
  /\ inUse' = Kept
  /\ waiters' = IF waiters = << >> THEN waiters ELSE Tail(waiters)
  /\ step' = IF waiters = << >> THEN [step EXCEPT ![s] = "idle"]
             ELSE [step EXCEPT ![s] = "idle", ![Head(waiters)] = "start"]

\* Mutant: quality is not queued again after face_detection.
FollowUpsWithoutQuality(s) ==
  CASE s = "embedding"      -> {"poi_detection"} \cap enabled
    [] s = "face_detection" -> {"face_assignment"}
    [] s \notin {"embedding", "face_detection"} -> {}

\* Mutant: the feature flag of the follow-up's service is not looked at.
FollowUpsUnasked(s) ==
  CASE s = "embedding"      -> {"poi_detection"}
    [] s = "face_detection" -> {"face_assignment", "quality"}
    [] s \notin {"embedding", "face_detection"} -> {}

\* What the completion of a job queues, without waiting for it; quality also
\* where it is switched off.
FollowUpsOf(s) ==
  CASE s = "embedding"      -> {"poi_detection"} \cap enabled
    [] s = "face_detection" -> {"face_assignment", "quality"}
    [] s \notin {"embedding", "face_detection"} -> {}

\* markJobDone
Finish(s) ==
  /\ Settle(s, "finish", "none")
  /\ done' = IF s \in owns THEN [done EXCEPT ![s] = @ + 1] ELSE done
  /\ followUps' = followUps \cup FollowUpsOf(s)
  /\ UNCHANGED <<scenario, failed, failedForce, data, req, booted, requests,
                 faults, lost>>

\* A statement about the row fails and the error is swallowed: the row stays.
Swallowed(s, from) ==
  /\ Fault
  /\ Settle(s, from, active[s])
  /\ UNCHANGED <<failed, failedForce>>

\* markJobFailed
Fail(s) ==
  /\ \/ /\ Settle(s, "fail", "none")
        /\ failed' = IF s \in owns THEN [failed EXCEPT ![s] = @ + 1] ELSE failed
        /\ failedForce' = failedForce \cup ({s} \cap owns \cap force)
        /\ UNCHANGED faults
     \/ Swallowed(s, "fail")
  /\ UNCHANGED <<scenario, done, data, followUps, req, booted, requests, lost>>

\* deferJob
Defer(s) ==
  /\ \/ Settle(s, "defer", "pending") /\ UNCHANGED <<failed, failedForce, faults>>
     \/ Swallowed(s, "defer")
  /\ UNCHANGED <<scenario, done, data, followUps, req, booted, requests, lost>>

\* The model or its line is not available: ServiceUnavailableError,
\* AiSlotTimeoutError, MlRpcTimeoutError.
Unavailable(s) ==
  /\ Fault
  /\ s \in AiServices
  /\ step[s] \in {"start", "score"}
  /\ step' = [step EXCEPT ![s] = "defer"]
  /\ UNCHANGED <<scenario, rows, data, forced, seen, owns, inUse, waiters,
                 followUps, req, booted, requests, lost>>

\* The job throws.
JobFails(s) ==
  /\ Fault
  /\ step[s] \in {"start", "read", "assign", "missing", "replace",
                  "insert", "score", "finish"}
  /\ step' = [step EXCEPT ![s] = "fail"]
  /\ UNCHANGED <<scenario, rows, data, forced, seen, owns, inUse, waiters,
                 followUps, req, booted, requests, lost>>

-----------------------------------------------------------------------------
(* The jobs *)

\* indexPhotoEmbeddings: the service has stored the vector when it answers.
Embed ==
  /\ Goto("embedding", "start", "finish")
  /\ embedding' = TRUE
  /\ UNCHANGED <<scenario, rows, matched, faces, assigned, scored, forced, seen,
                 owns, inUse, waiters, followUps, req, booted, requests,
                 faults, lost>>

\* detectPhotoFaces: without force, faces that are there are kept ...
CheckFaces ==
  /\ ~forced["face_detection"]
  /\ Goto("face_detection", "start", IF faces THEN "finish" ELSE "detect")
  /\ UNCHANGED <<scenario, rows, data, forced, seen, owns, inUse, waiters,
                 followUps, req, booted, requests, faults, lost>>

\* What others have read of the old faces is no longer there.
FacesGone == [s \in AllServices |->
                IF s # "poi_detection" /\ seen[s] = "current" THEN "gone" ELSE seen[s]]

\* ... with force they are deleted, and with them what is assigned to them ...
DropFaces ==
  /\ forced["face_detection"]
  /\ Goto("face_detection", "start", "detect")
  /\ faces' = FALSE /\ assigned' = FALSE /\ scored' = FALSE
  /\ seen' = FacesGone
  /\ UNCHANGED <<scenario, rows, embedding, matched, forced, owns, inUse,
                 waiters, followUps, req, booted, requests, faults, lost>>

\* ... and the detector's faces are stored, one by one: who reads in between and
\* finds some is as one who has found none.  An error, a timeout or an insert
\* that fails is logged and the job goes on as if there were no more faces.
DetectFaces ==
  /\ Goto("face_detection", "detect", "finish")
  /\ \/ /\ faces' = TRUE /\ assigned' = FALSE /\ scored' = FALSE
        /\ seen' = FacesGone
        /\ UNCHANGED <<faults, lost>>
     \/ /\ Fault /\ lost' = TRUE
        /\ UNCHANGED <<faces, assigned, scored, seen>>
  /\ UNCHANGED <<scenario, rows, embedding, matched, forced, owns, inUse,
                 waiters, followUps, req, booted, requests>>

\* assignFacesForUser: not while a detection is under way ...
CheckDetection ==
  /\ Goto("face_assignment", "start",
          IF Outstanding("face_detection") THEN "defer" ELSE "read")
  /\ UNCHANGED <<scenario, rows, data, forced, seen, owns, inUse, waiters,
                 followUps, req, booted, requests, faults, lost>>

Seeing(s) == [seen EXCEPT ![s] = IF faces THEN "current" ELSE "nothing"]

\* ... the faces are read and the user's old assignments of them deleted; what
\* comes between the two undoes the assignments as well ...
ReadFaces ==
  /\ Goto("face_assignment", "read", IF faces THEN "assign" ELSE "finish")
  /\ seen' = Seeing("face_assignment")
  /\ assigned' = FALSE
  /\ UNCHANGED <<scenario, rows, embedding, matched, faces, scored, forced, owns,
                 inUse, waiters, followUps, req, booted, requests, faults, lost>>

\* ... and only to faces that still exist: a foreign key.
AssignFaces ==
  /\ Goto("face_assignment", "assign",
          IF seen["face_assignment"] = "current" THEN "finish" ELSE "fail")
  /\ assigned' = (assigned \/ seen["face_assignment"] = "current")
  /\ UNCHANGED <<scenario, rows, embedding, matched, faces, scored, forced, seen,
                 owns, inUse, waiters, followUps, req, booted, requests,
                 faults, lost>>

\* indexPhotoQuality: does nothing where it is switched off; the faces are read
\* before the model is asked.
ReadBoxes ==
  /\ Goto("quality", "start", IF "quality" \in enabled THEN "score" ELSE "finish")
  /\ seen' = IF "quality" \in enabled THEN Seeing("quality") ELSE seen
  /\ UNCHANGED <<scenario, rows, data, forced, owns, inUse, waiters, followUps,
                 req, booted, requests, faults, lost>>

StoreScore ==
  /\ Goto("quality", "score", "finish")
  /\ scored' = (seen["quality"] = "current")
  /\ UNCHANGED <<scenario, rows, embedding, matched, faces, assigned, forced,
                 seen, owns, inUse, waiters, followUps, req, booted, requests,
                 faults, lost>>

\* detectPoisForPhoto first asks for the points of interest: where geo fails, or
\* none of their reference images can be had, there is nothing to match with and
\* the job is done.  The follow-up of a vector that is not there yet runs again.
NothingToMatch ==
  /\ Fault /\ lost' = (lost \/ embedding)
  /\ Goto("poi_detection", "start", "finish")
  /\ UNCHANGED <<scenario, rows, data, forced, seen, owns, inUse, waiters,
                 followUps, req, booted, requests>>

\* Then it reads the vector: an error of the embedding service is a missing one.
ReadEmbedding ==
  /\ \/ /\ Goto("poi_detection", "start", IF embedding THEN "replace" ELSE "missing")
        /\ seen' = [seen EXCEPT !["poi_detection"] =
                      IF embedding THEN "current" ELSE "nothing"]
        /\ UNCHANGED <<faults, lost>>
     \/ /\ Fault /\ lost' = (lost \/ embedding)
        /\ Goto("poi_detection", "start", "missing")
        /\ UNCHANGED seen
  /\ UNCHANGED <<scenario, rows, data, forced, owns, inUse, waiters, followUps,
                 req, booted, requests>>

CheckEmbedding ==
  /\ Goto("poi_detection", "missing",
          IF Outstanding("embedding") THEN "defer" ELSE "finish")
  /\ UNCHANGED <<scenario, rows, data, forced, seen, owns, inUse, waiters,
                 followUps, req, booted, requests, faults, lost>>

\* persistPoiMatches
DeleteMatches ==
  /\ Goto("poi_detection", "replace", "insert")
  /\ matched' = FALSE
  /\ UNCHANGED <<scenario, rows, embedding, faces, assigned, scored, forced,
                 seen, owns, inUse, waiters, followUps, req, booted, requests,
                 faults, lost>>

InsertMatches ==
  /\ Goto("poi_detection", "insert", "finish")
  /\ matched' = TRUE
  /\ UNCHANGED <<scenario, rows, embedding, faces, assigned, scored, forced,
                 seen, owns, inUse, waiters, followUps, req, booted, requests,
                 faults, lost>>

-----------------------------------------------------------------------------
(* Follow-ups *)

\* The run under way has read before the new data and goes on with that.
PastItsRead(s) ==
  step[s] \notin {"idle", "waiting", "start"} /\ seen[s] # "current"

\* ON CONFLICT DO NOTHING: an active row stands for the new one.
Inserted(s, f) ==
  /\ active' = [active EXCEPT ![s] = IF @ = "none" THEN "pending" ELSE @]
  /\ force' = IF active[s] = "none" /\ f THEN force \cup {s} ELSE force

\* enqueuePoiDetectionAfterEmbedding, enqueueFaceAssignmentForAllUsers and
\* hasFacesForPhoto with the enqueuePhotoScan it guards.
FollowUp(s) ==
  /\ s \in followUps
  /\ followUps' = followUps \ {s}
  /\ IF s = "quality" /\ ~faces
     THEN UNCHANGED <<active, force, lost>>
     ELSE /\ Inserted(s, FALSE)
          /\ lost' = (lost \/ (active[s] # "none" /\ PastItsRead(s)))
  /\ UNCHANGED <<scenario, done, failed, failedForce, data, work, req, booted,
                 requests, faults>>

\* A statement fails: the error is logged.
FollowUpFails(s) ==
  /\ Fault
  /\ s \in followUps
  /\ followUps' = followUps \ {s}
  /\ lost' = TRUE
  /\ UNCHANGED <<scenario, rows, data, work, req, booted, requests>>

-----------------------------------------------------------------------------
(* Requests *)

AtRest ==
  /\ booted /\ followUps = {} /\ req.at = "idle"
  /\ \A s \in AllServices : active[s] = "none" /\ step[s] = "idle"

FirstStatement(kind) ==
  CASE kind \in {"force", "region", "poi_empty"} -> "drop"
    [] kind = "missing"                          -> "find"
    [] kind = "retry"                            -> "retry"
    [] kind = "cancel"                           -> "cancel"

ServicesOf(kind) ==
  CASE kind \in {"force", "missing"}     -> EnabledServices
    [] kind \in {"region", "poi_empty"}  -> <<"poi_detection">>
    [] kind \in {"retry", "cancel"}      -> <<"face_assignment", "embedding">>

\* One that finds nothing to do changes nothing.
Applies(kind) ==
  /\ kind \in {"region", "poi_empty"} => "poi_detection" \in enabled
  /\ kind = "missing" => \E s \in enabled : done[s] = 0
  /\ kind = "retry" => \E s \in enabled : failed[s] > 0
  /\ kind = "cancel" => \E s \in enabled : active[s] = "pending"

\* A forced rescan of a photo at rest starts over.
Request(kind) ==
  /\ requests < scenario.maxRequests
  /\ req.at = "idle"
  /\ kind \in scenario.requests
  /\ Applies(kind)
  /\ requests' = requests + 1
  /\ req' = [at |-> FirstStatement(kind), kind |-> kind, todo |-> ServicesOf(kind)]
  /\ lost' = (lost /\ ~(kind = "force" /\ AtRest))
  /\ UNCHANGED <<scenario, rows, data, work, followUps, booted, faults>>

Current == Head(req.todo)

\* On to the next service, or through.
NextService ==
  req' = IF Len(req.todo) = 1 THEN Idle
         ELSE [at |-> IF req.kind = "upload" THEN "insert" ELSE FirstStatement(req.kind),
               kind |-> req.kind, todo |-> Tail(req.todo)]

\* The candidateFilter of enqueuePoiDetectionForEmptyMatches.
Candidate ==
  req.kind = "poi_empty" =>
    done["embedding"] > 0 /\ active["poi_detection"] = "none" /\ ~matched

\* getMissingPhotoIds
FindMissing ==
  /\ req.at = "find"
  /\ IF done[Current] = 0 THEN req' = [req EXCEPT !.at = "drop"] ELSE NextService
  /\ UNCHANGED <<scenario, rows, data, work, followUps, booted, requests, faults, lost>>

\* DELETE of the rows that are neither pending nor processing ...
DropSettled ==
  /\ req.at = "drop"
  /\ done' = [done EXCEPT ![Current] = IF Candidate THEN 0 ELSE @]
  /\ failed' = [failed EXCEPT ![Current] = IF Candidate THEN 0 ELSE @]
  /\ failedForce' = IF Candidate THEN failedForce \ {Current} ELSE failedForce
  /\ req' = [req EXCEPT !.at = IF req.kind = "force" THEN "reset" ELSE "insert"]
  /\ UNCHANGED <<scenario, active, force, data, work, followUps, booted,
                 requests, faults, lost>>

RowsOf(s) == done[s] + failed[s] + (IF active[s] = "none" THEN 0 ELSE 1)

\* ... UPDATE of all that remain, one at work included, to pending and forced;
\* two of them would violate the unique index ...
ResetRows ==
  /\ req.at = "reset"
  /\ IF RowsOf(Current) = 1
     THEN /\ active' = [active EXCEPT ![Current] = "pending"]
          /\ force' = force \cup {Current}
          /\ done' = [done EXCEPT ![Current] = 0]
          /\ failed' = [failed EXCEPT ![Current] = 0]
          /\ failedForce' = failedForce \ {Current}
     ELSE UNCHANGED rows
  /\ CASE RowsOf(Current) = 0 -> req' = [req EXCEPT !.at = "insert"]
       [] RowsOf(Current) = 1 -> NextService
       [] RowsOf(Current) > 1 -> req' = Idle
  /\ lost' = (lost \/ RowsOf(Current) > 1)
  /\ UNCHANGED <<scenario, data, work, followUps, booted, requests, faults>>

\* ... and an INSERT where there was none.
InsertRow ==
  /\ req.at = "insert"
  /\ IF Candidate THEN Inserted(Current, req.kind = "force")
                  ELSE UNCHANGED <<active, force>>
  /\ NextService
  /\ UNCHANGED <<scenario, done, failed, failedForce, data, work, followUps,
                 booted, requests, faults, lost>>

\* The two statements of requeueFailed and cancelPendingScans: first the
\* per-user rows, then the global ones.
Half == IF Current = "face_assignment" THEN PerUser ELSE Global

\* A row the index does not admit makes the statement fail as a whole.
RetryFailed ==
  /\ req.at = "retry"
  /\ LET F == {s \in Half : failed[s] > 0} IN
       IF \A s \in F : failed[s] = 1 /\ active[s] = "none"
       THEN /\ active' = [s \in AllServices |-> IF s \in F THEN "pending" ELSE active[s]]
            /\ failed' = [s \in AllServices |-> IF s \in F THEN 0 ELSE failed[s]]
            /\ force' = force \cup (failedForce \cap F)
            /\ failedForce' = failedForce \ F
            /\ NextService
       ELSE req' = Idle /\ UNCHANGED <<active, force, failed, failedForce>>
  /\ UNCHANGED <<scenario, done, data, work, followUps, booted,
                 requests, faults, lost>>

CancelPending ==
  /\ req.at = "cancel"
  /\ LET P == {s \in Half : active[s] = "pending"} IN
       /\ active' = [s \in AllServices |-> IF s \in P THEN "none" ELSE active[s]]
       /\ force' = force \ P
       /\ owns' = owns \ P
       /\ lost' = (lost \/ P # {})
  /\ NextService
  /\ UNCHANGED <<scenario, done, failed, failedForce, data, step, forced, seen, inUse,
                 waiters, followUps, booted, requests, faults>>

RequestFails ==
  /\ Fault
  /\ req.at # "idle"
  /\ req' = Idle
  /\ lost' = TRUE
  /\ UNCHANGED <<scenario, rows, data, work, followUps, booted, requests>>

-----------------------------------------------------------------------------
(* Restarts *)

\* The process dies and comes back with empty memory.
Crash ==
  /\ Fault
  /\ step' = [s \in AllServices |-> "idle"]
  /\ forced' = [s \in AllServices |-> FALSE]
  /\ seen' = [s \in AllServices |-> "nothing"]
  /\ owns' = {}
  /\ inUse' = 0 /\ waiters' = << >>
  /\ followUps' = {}
  /\ req' = Idle
  /\ booted' = FALSE
  /\ lost' = (lost \/ followUps # {} \/ req.at # "idle")
  /\ UNCHANGED <<scenario, rows, data, requests>>

\* resetStuckJobs; a woken worker may have claimed a row before it.
ResetStuckJobs ==
  /\ ~booted
  /\ booted' = TRUE
  /\ active' = [s \in AllServices |->
                  IF active[s] = "processing" THEN "pending" ELSE active[s]]
  /\ UNCHANGED <<scenario, force, done, failed, failedForce, data, work, followUps, req,
                 requests, faults, lost>>

-----------------------------------------------------------------------------
\* A row in processing that nobody works on any more.
Abandoned(s) == active[s] = "processing" /\ s \notin owns /\ booted

\* Nothing to do, or nothing that can be done before the next restart.
Quiet == (AtRest \/ \E s \in AllServices : Abandoned(s)) /\ UNCHANGED vars

Job(s) ==
  \/ Finish(s) \/ Fail(s) \/ Defer(s)
  \/ s = "embedding" /\ Embed
  \/ s = "face_detection" /\ (CheckFaces \/ DropFaces \/ DetectFaces)
  \/ s = "face_assignment" /\ (CheckDetection \/ ReadFaces \/ AssignFaces)
  \/ s = "quality" /\ (ReadBoxes \/ StoreScore)
  \/ s = "poi_detection" /\ (NothingToMatch \/ ReadEmbedding \/ CheckEmbedding
                               \/ DeleteMatches \/ InsertMatches)

Serve ==
  FindMissing \/ DropSettled \/ ResetRows \/ InsertRow \/ RetryFailed \/ CancelPending

Next ==
  \/ \E s \in AllServices :
       \/ Claim(s) \/ Job(s) \/ Unavailable(s) \/ JobFails(s)
       \/ FollowUp(s) \/ FollowUpFails(s)
  \/ \E kind \in scenario.requests : Request(kind)
  \/ Serve \/ RequestFails
  \/ Crash \/ ResetStuckJobs
  \/ Quiet

\* Workers poll, jobs, follow-ups and requests run to their end.  What may hold
\* claims back as a whole (a backup's pause, pressure on the event loop, a model
\* server that is down) is assumed to be over in the end.
Fairness ==
  /\ \A s \in AllServices :
       WF_vars(Claim(s)) /\ WF_vars(Job(s)) /\ WF_vars(FollowUp(s))
  /\ WF_vars(Serve)
  /\ WF_vars(ResetStuckJobs)

FairSpec == Init /\ [][Next]_vars /\ Fairness

-----------------------------------------------------------------------------
Steps == {"idle", "waiting", "start", "detect", "read", "assign",
          "score", "missing", "replace", "insert", "finish", "defer", "fail"}

\* The services that may have rows.
Queued == enabled \cup (IF "face_detection" \in enabled THEN {"quality"} ELSE {})

TypeOK ==
  /\ scenario \in Scenarios
  /\ active \in [AllServices -> {"none", "pending", "processing"}]
  /\ \A s \in AllServices \ Queued : active[s] = "none" /\ step[s] = "idle"
  /\ \A s \in force : active[s] # "none"
  /\ \A s \in failedForce : failed[s] > 0
  /\ forced \in [AllServices -> BOOLEAN]
  /\ done \in [AllServices -> Nat] /\ failed \in [AllServices -> Nat]
  /\ {embedding, matched, faces, assigned, scored, booted, lost} \subseteq BOOLEAN
  /\ step \in [AllServices -> Steps]
  /\ seen \in [AllServices -> {"nothing", "current", "gone"}]
  /\ owns \subseteq Queued
  /\ inUse \in Nat /\ waiters \in Seq(Queued)
  /\ followUps \subseteq Queued
  /\ req.at \in {"idle", "find", "drop", "reset", "insert", "retry", "cancel"}
  /\ req.todo \in Seq(AllServices)
  /\ requests \in 0 .. scenario.maxRequests
  /\ faults \in 0 .. scenario.maxFaults

Holders == {s \in AllServices : step[s] \notin {"idle", "waiting"}}

(* The semaphore counts exactly the workers that hold a slot, never more than
   there are; a worker waits only while none is free, and whoever waits is in
   line: a slot handed over neither gets lost nor counts twice (acquireDbSlot,
   releaseDbSlot and the finally of processNext). *)
SlotAccounting ==
  /\ inUse = Cardinality(Holders) /\ inUse <= Capacity
  /\ waiters # << >> => inUse = Capacity
  /\ ToSet(waiters) = {s \in AllServices : step[s] = "waiting"}
  /\ IsInjective(waiters)

(* Once nothing is left to do, a photo with a vector has been matched to the
   points of interest, and one with faces has them assigned and scored, in
   whatever order its jobs ran, were forced again, failed and were retried
   (the follow-ups of processNext).  Exempt is a photo one of whose jobs failed
   and one that lost a run: a follow-up or a request was lost to an error or a
   restart or cancelled, a job ended done although its detection, its read of
   the vector or that of the points of interest and their reference images had
   failed, or the follow-up met a run that had already read the old data. *)
FollowUpArrives ==
  AtRest /\ ~lost /\ (\A s \in AllServices : failed[s] = 0) =>
    /\ embedding /\ "poi_detection" \in enabled => matched
    /\ faces => assigned /\ ("quality" \in enabled => scored)

(* The queue drains: however often jobs wait for a slot they claimed their row
   before, and are deferred without a limit while another job is queued, every
   job comes to an end, or a failed statement has left a row in processing that
   only a restart sets free, provided that claims are not held back for ever
   (deferJob, hasActiveEmbeddingJob, assignFacesForUser, acquireDbSlot). *)
QueueDrains == []<>(AtRest \/ \E s \in AllServices : Abandoned(s))
=============================================================================
