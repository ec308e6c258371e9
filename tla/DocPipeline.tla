----------------------------- MODULE DocPipeline -----------------------------
(***************************************************************************)
(* The documents pipeline: text_extract -> classify -> embed, as rows of   *)
(* document_scan_queue that one worker per service claims and settles      *)
(* (documents/scan-queue.ts, scan-worker.ts, document-ops.ts), the         *)
(* requests that queue a document again (documents.ts, reprocess.ts), the  *)
(* admin's cancel and retry, and restarts.                                 *)
(*                                                                         *)
(* All statements but the order of claims filter on one document, so the   *)
(* module follows one.  Between two SQL statements every other worker and  *)
(* request may act: one statement is one action.  A claim is one UPDATE;   *)
(* the re-queue it may miss in its snapshot reads nothing the claim        *)
(* writes, so the two are as if the claim came first.                      *)
(* Texts, classifications and embeddings are known by the version of the   *)
(* file they come from; 0 stands for none.                                 *)
(***************************************************************************)
EXTENDS Integers, Sequences

CONSTANTS Clients,      \* callers of the re-queueing endpoints
          Requests,     \* which requests they make
          Budgets,      \* bound: <<requests, failures and restarts>> of a behaviour
          MaxDefers     \* MAX_JOB_DEFERS

AllRequests == {"replace", "rerun", "classify_only", "resume", "embed",
                "cancel", "retry"}

ASSUME RequestsAssumption == Requests \subseteq AllRequests
ASSUME BoundsAssumption ==
  Budgets \subseteq Nat \X Nat /\ MaxDefers \in Nat \ {0}

Services == {"text_extract", "classify", "embed"}
DOCUMENT_SERVICES == <<"text_extract", "classify", "embed">>
Readers == {"classify", "embed"}   \* services that wait for text_extract

VARIABLES
  active,     \* the row in uq_active_document_scan: "none", "pending", "processing"
  done,       \* there is a done row of text_extract; others are never read
  failed,     \* how many failed rows a service has
  defers,     \* defer_count of the active row, 0 without one
  status,     \* documents.status
  file,       \* [version, kind] of the PDF on disk
  text,       \* file version of documents.extracted_text
  category,   \* text version that classify read
  embedding,  \* text version in document_embeddings
  step,       \* where the worker of a service stands
  seen,       \* [text, waiting] as read by the job: is a text still to come?
  owns,       \* services whose worker's row is still in the table
  req,        \* [at, kind, todo] of each client
  booted,     \* resetStuckJobs is through since the process started
  healthy,    \* the LLM service answers its health check
  requests,   \* requests so far
  faults,     \* failures so far
  disturbed   \* history: an event since the last re-queue at rest lost a job

rows == <<active, done, failed, defers>>
doc  == <<status, file, text, category, embedding>>
work == <<step, seen, owns, booted>>
vars == <<active, done, failed, defers, status, file, text, category,
          embedding, step, seen, owns, req, booted, healthy, requests, faults,
          disturbed>>

FileKinds == {"text", "blank", "locked"}
Waiting   == {"pending", "extracting"}   \* isWaitingForTextExtraction
Idle      == [at |-> "idle", kind |-> "rerun", todo |-> << >>]
Unread    == [text |-> 0, waiting |-> FALSE]

Goto(s, from, to) == step[s] = from /\ step' = [step EXCEPT ![s] = to]

Fault == faults > 0 /\ faults' = faults - 1

\* The upload has inserted the document and is about to queue its jobs.
Init ==
  /\ active = [s \in Services |-> "none"]
  /\ done = FALSE
  /\ failed = [s \in Services |-> 0]
  /\ defers = [s \in Services |-> 0]
  /\ status = "pending"
  /\ file \in [version : {1}, kind : FileKinds]
  /\ text = 0 /\ category = 0 /\ embedding = 0
  /\ step = [s \in Services |-> "idle"]
  /\ seen = [s \in Services |-> Unread]
  /\ owns = {}
  /\ \E c \in Clients :
       req = [d \in Clients |->
                IF d = c THEN [at |-> "insert", kind |-> "upload",
                               todo |-> DOCUMENT_SERVICES]
                         ELSE Idle]
  /\ booted = TRUE
  /\ healthy \in BOOLEAN
  /\ \E b \in Budgets : requests = b[1] /\ faults = b[2]
  /\ disturbed = FALSE

-----------------------------------------------------------------------------
(* document_scan_queue *)

\* Mutant: a job that is being processed no longer counts.
Queued(s) == active[s] = "pending"

\* hasUnfinishedJob
Outstanding(s) == active[s] # "none"

\* hasAnyJob
AnyTextJob ==
  active["text_extract"] # "none" \/ done \/ failed["text_extract"] > 0

\* UPSTREAM_SERVICE: what a claim waits for.
UpstreamReady(s) == s \in Readers => ~Outstanding("text_extract")

\* The LLM service goes down, which is bounded like a failure, or is back; what
\* isLlmServiceHealthy answers.
HealthChanges ==
  /\ healthy' = ~healthy
  /\ (healthy /\ Fault) \/ (~healthy /\ UNCHANGED faults)
  /\ UNCHANGED <<rows, doc, work, req, requests, disturbed>>

\* dequeueNextJob, behind the health check of processOne.  Only claims read the
\* answer, so one that is outdated by the claim is as if the change came after.
Claim(s) ==
  /\ s \in Readers => healthy
  /\ active[s] = "pending"
  /\ UpstreamReady(s)
  /\ Goto(s, "idle", IF s = "text_extract" THEN "start" ELSE "slot")
  /\ active' = [active EXCEPT ![s] = "processing"]
  /\ owns' = owns \cup {s}
  /\ UNCHANGED <<done, failed, defers, doc, seen, req, requests, faults,
                 disturbed, booted, healthy>>

\* The worker's row leaves the index; a row deleted meanwhile stays gone.
Settle(s) ==
  /\ active' = IF s \in owns THEN [active EXCEPT ![s] = "none"] ELSE active
  /\ defers' = IF s \in owns THEN [defers EXCEPT ![s] = 0] ELSE defers
  /\ owns' = owns \ {s}

\* markJobDone
Finish(s) ==
  /\ Goto(s, "finish", "idle")
  /\ Settle(s)
  /\ done' = (done \/ (s = "text_extract" /\ s \in owns))
  /\ seen' = [seen EXCEPT ![s] = Unread]
  /\ UNCHANGED <<failed, doc, req, requests, faults, disturbed,
                 booted, healthy>>

\* markJobFailed; a failing statement is swallowed and leaves the row as it is.
\* A missing embedding does not make the document fail.
Fail(s) ==
  /\ Goto(s, "fail", IF s = "embed" THEN "idle" ELSE "report")
  /\ \/ /\ Settle(s)
        /\ failed' = IF s \in owns THEN [failed EXCEPT ![s] = @ + 1] ELSE failed
        /\ UNCHANGED <<faults, disturbed>>
     \/ /\ Fault
        /\ owns' = owns \ {s}
        /\ disturbed' = TRUE
        /\ UNCHANGED <<active, failed, defers>>
  /\ seen' = [seen EXCEPT ![s] = Unread]
  /\ UNCHANGED <<done, doc, req, requests, booted, healthy>>

\* markDocumentFailed, whatever the status is by now; an error is swallowed.
Report(s) ==
  /\ Goto(s, "report", "idle")
  /\ \/ status' = "failed" /\ UNCHANGED <<faults, disturbed>>
     \/ Fault /\ disturbed' = TRUE /\ UNCHANGED status
  /\ UNCHANGED <<rows, file, text, category, embedding, seen, owns, req,
                 requests, booted, healthy>>

\* Mutant: a defer does not count.
Uncounted(s) == defers

Counted(s) == [defers EXCEPT ![s] = @ + 1]

Exhausted(s) == s \in owns /\ defers[s] + 1 >= MaxDefers

\* deferJob, then failing the job once its budget is used up.
Defer(s) ==
  /\ step[s] = "defer"
  /\ \/ /\ step' = [step EXCEPT ![s] = IF Exhausted(s) THEN "fail" ELSE "idle"]
        /\ active' = IF s \in owns THEN [active EXCEPT ![s] = "pending"] ELSE active
        /\ defers' = IF s \in owns THEN Counted(s) ELSE defers
        /\ owns' = IF Exhausted(s) THEN owns ELSE owns \ {s}
        /\ UNCHANGED <<faults, disturbed>>
     \/ /\ Fault
        /\ step' = [step EXCEPT ![s] = "idle"]
        /\ owns' = owns \ {s}
        /\ disturbed' = TRUE
        /\ UNCHANGED <<active, defers>>
  /\ seen' = [seen EXCEPT ![s] = Unread]
  /\ UNCHANGED <<done, failed, doc, req, requests, booted, healthy>>

\* A job throws: the model or the OCR fails, or a statement of the job does.
JobFails(s) ==
  /\ Fault
  /\ step[s] \in {"slot", "start", "extract", "store", "park", "drop", "check",
                  "any", "ask", "insert", "finish"}
  /\ step' = [step EXCEPT ![s] = "fail"]
  /\ UNCHANGED <<rows, doc, seen, owns, req, requests, disturbed,
                 booted, healthy>>

-----------------------------------------------------------------------------
(* runTextExtract *)

StartExtract ==
  /\ Goto("text_extract", "start", "extract")
  /\ status' = "extracting"
  /\ UNCHANGED <<rows, file, text, category, embedding, seen, owns, req,
                 requests, faults, disturbed, booted, healthy>>

\* The file is read under its current path, whatever version is there.
ReadFile ==
  /\ Goto("text_extract", "extract", IF file.kind = "locked" THEN "park" ELSE "store")
  /\ seen' = [seen EXCEPT !["text_extract"].text =
                IF file.kind = "text" THEN file.version ELSE 0]
  /\ UNCHANGED <<rows, doc, owns, req, requests, faults, disturbed,
                 booted, healthy>>

\* CASE WHEN status IN ('pending', 'extracting') THEN 'classifying' ELSE status.
NextStatus == IF status \in Waiting THEN "classifying" ELSE status

StoreText ==
  /\ Goto("text_extract", "store", "finish")
  /\ text' = seen["text_extract"].text
  /\ status' = NextStatus
  /\ UNCHANGED <<rows, file, category, embedding, seen, owns, req, requests,
                 faults, disturbed, booted, healthy>>

\* The PDF wants a password: park the document ...
Park ==
  /\ Goto("text_extract", "park", "drop")
  /\ status' = "encrypted"
  /\ UNCHANGED <<rows, file, text, category, embedding, seen, owns, req,
                 requests, faults, disturbed, booted, healthy>>

\* ... and drop all its jobs, this one included (deleteJobsForDocument).
DropJobs ==
  /\ Goto("text_extract", "drop", "finish")
  /\ active' = [s \in Services |-> "none"]
  /\ done' = FALSE
  /\ failed' = [s \in Services |-> 0]
  /\ defers' = [s \in Services |-> 0]
  /\ owns' = {}
  /\ disturbed' = (disturbed \/ status # "encrypted")
  /\ UNCHANGED <<doc, seen, req, requests, faults, booted, healthy>>

-----------------------------------------------------------------------------
(* runClassify and runEmbed *)

\* No slot of the model in time, or its service is not reachable.
Unavailable(s) ==
  /\ s \in Readers
  /\ step[s] \in {"slot", "ask"}
  /\ step' = [step EXCEPT ![s] = "defer"]
  /\ UNCHANGED <<rows, doc, seen, owns, req, requests, faults, disturbed,
                 booted, healthy>>

ReadDocument(s) ==
  /\ s \in Readers
  /\ Goto(s, "slot", "check")
  /\ seen' = [seen EXCEPT ![s] = [text |-> text,
                                      waiting |-> text = 0 /\ status \in Waiting]]
  /\ UNCHANGED <<rows, doc, owns, req, requests, faults, disturbed,
                 booted, healthy>>

\* Mutant: classify asks the model although there is nothing to read.
AskAnyway(s) == IF s = "classify" THEN "ask" ELSE "finish"

\* Nothing to read: classify throws, embed is done with no chunks.
NoText(s) == IF s = "classify" THEN "fail" ELSE "finish"

CheckUpstream(s) ==
  /\ s \in Readers
  /\ Goto(s, "check",
          CASE Outstanding("text_extract") -> "defer"
            [] ~Outstanding("text_extract") /\ seen[s].text # 0 -> "ask"
            [] ~Outstanding("text_extract") /\ seen[s].text = 0 ->
                 IF seen[s].waiting THEN "any" ELSE NoText(s))
  /\ UNCHANGED <<rows, doc, seen, owns, req, requests, faults, disturbed,
                 booted, healthy>>

\* Wait only while no text_extract row exists yet.
CheckAnyJob(s) ==
  /\ s \in Readers
  /\ Goto(s, "any", IF AnyTextJob THEN NoText(s) ELSE "defer")
  /\ UNCHANGED <<rows, doc, seen, owns, req, requests, faults, disturbed,
                 booted, healthy>>

StoreCategory ==
  /\ Goto("classify", "ask", "finish")
  /\ status' = "ready"
  /\ category' = seen["classify"].text
  /\ UNCHANGED <<rows, file, text, embedding, seen, owns, req, requests,
                 faults, disturbed, booted, healthy>>

DeleteEmbedding ==
  /\ Goto("embed", "ask", "insert")
  /\ embedding' = 0
  /\ UNCHANGED <<rows, status, file, text, category, seen, owns, req,
                 requests, faults, disturbed, booted, healthy>>

InsertEmbedding ==
  /\ Goto("embed", "insert", "finish")
  /\ embedding' = seen["embed"].text
  /\ UNCHANGED <<rows, status, file, text, category, seen, owns, req,
                 requests, faults, disturbed, booted, healthy>>

-----------------------------------------------------------------------------
(* Requests *)

\* No job is left or under way, and no request but those of C.
AtRestBut(C) ==
  /\ booted
  /\ \A s \in Services : active[s] = "none" /\ step[s] = "idle"
  /\ \A c \in Clients \ C : req[c].at = "idle"

AtRest == AtRestBut({})

ServicesOf(kind) ==
  CASE kind \in {"replace", "rerun"}        -> DOCUMENT_SERVICES
    [] kind \in {"classify_only", "resume"} -> <<"classify", "embed">>
    [] kind = "embed"                       -> <<"embed">>

\* What resume reads before it queues a document that is classifying, or one
\* that is ready without an embedding.
Applies(kind) ==
  /\ kind = "resume" => status = "classifying" /\ text # 0
  /\ kind = "embed" => status = "ready" /\ text # 0 /\ embedding = 0 /\ active["embed"] = "none"

FirstStatement(kind) ==
  CASE kind = "replace"                    -> "write"
    [] kind \in {"rerun", "classify_only"} -> "status"
    [] kind \in {"resume", "embed"}        -> "drop"

\* A full re-queue of a document at rest starts a new, undisturbed run.
Request(c, kind) ==
  /\ requests > 0
  /\ req[c].at = "idle"
  /\ kind \in Requests \ {"cancel", "retry"}
  /\ Applies(kind)
  /\ requests' = requests - 1
  /\ req' = [req EXCEPT ![c] = [at |-> FirstStatement(kind), kind |-> kind,
                                todo |-> ServicesOf(kind)]]
  /\ disturbed' = (disturbed /\ ~(kind \in {"replace", "rerun"} /\ AtRestBut({c})))
  /\ UNCHANGED <<rows, doc, work, healthy, faults>>

\* Under the document's lock: the new bytes land on disk.
WriteFile(c) ==
  /\ req[c].at = "write"
  /\ \E k \in FileKinds : file' = [version |-> file.version + 1, kind |-> k]
  /\ req' = [req EXCEPT ![c].at = "status"]
  /\ UNCHANGED <<rows, status, text, category, embedding, work, healthy,
                 requests, faults, disturbed>>

SetStatus(c) ==
  /\ req[c].at = "status"
  /\ status' = IF req[c].kind = "classify_only" THEN "classifying" ELSE "pending"
  /\ req' = [req EXCEPT ![c].at = "drop"]
  /\ UNCHANGED <<rows, file, text, category, embedding, work, healthy, requests,
                 faults, disturbed>>

InTodo(c, s) == \E i \in DOMAIN req[c].todo : req[c].todo[i] = s

\* requeueDocument: DELETE of the failed and done rows ...
DropSettled(c) ==
  /\ req[c].at = "drop"
  /\ done' = (done /\ ~InTodo(c, "text_extract"))
  /\ failed' = [s \in Services |-> IF InTodo(c, s) THEN 0 ELSE failed[s]]
  /\ req' = [req EXCEPT ![c].at = "refresh"]
  /\ UNCHANGED <<active, defers, doc, work, healthy, requests, faults, disturbed>>

\* ... a fresh defer budget for the rows still active ...
RefreshBudget(c) ==
  /\ req[c].at = "refresh"
  /\ defers' = [s \in Services |-> IF InTodo(c, s) THEN 0 ELSE defers[s]]
  /\ req' = [req EXCEPT ![c].at = "insert"]
  /\ UNCHANGED <<active, done, failed, doc, work, healthy, requests, faults, disturbed>>

\* ON CONFLICT DO NOTHING: an active row stands for the new one.
Inserted(s) == [active EXCEPT ![s] = IF @ = "none" THEN "pending" ELSE @]

\* ... and one INSERT per service.  The request is lost on a job that has
\* started and will be settled as if it had seen it.
InsertJob(c) ==
  /\ req[c].at = "insert"
  /\ LET s == Head(req[c].todo) IN
       /\ active' = Inserted(s)
       /\ disturbed' = (disturbed \/ (active[s] # "none" /\ step[s] # "idle"))
  /\ req' = [req EXCEPT ![c] = IF Len(req[c].todo) = 1 THEN Idle
                               ELSE [req[c] EXCEPT !.todo = Tail(req[c].todo)]]
  /\ UNCHANGED <<done, failed, defers, doc, work, healthy, requests, faults>>

\* A statement of a request fails: the caller gets an error, the rest is lost.
RequestFails(c) ==
  /\ Fault
  /\ req[c].at \in {"status", "drop", "refresh", "insert"}
  /\ req' = [req EXCEPT ![c] = Idle]
  /\ disturbed' = TRUE
  /\ UNCHANGED <<rows, doc, work, healthy, requests>>

\* cancelPendingJobs
CancelQueue ==
  /\ "cancel" \in Requests /\ requests > 0
  /\ \E s \in Services : active[s] = "pending"
  /\ requests' = requests - 1
  /\ active' = [s \in Services |-> IF active[s] = "pending" THEN "none" ELSE active[s]]
  /\ owns' = {s \in owns : active[s] # "pending"}
  /\ defers' = [s \in Services |-> IF active[s] = "pending" THEN 0 ELSE defers[s]]
  /\ disturbed' = TRUE
  /\ UNCHANGED <<done, failed, doc, step, seen, req, faults, booted, healthy>>

\* retryFailedJobs: one UPDATE over all failed rows, at any time; failures bound
\* how often there are any. It fails as a whole where
\* uq_active_document_scan would hold two rows of one service.
RetryFailed ==
  /\ "retry" \in Requests
  /\ LET F == {s \in Services : failed[s] > 0} IN
       /\ F # {}
       /\ \A s \in F : failed[s] = 1 /\ active[s] = "none"
       /\ active' = [s \in Services |-> IF s \in F THEN "pending" ELSE active[s]]
       /\ failed' = [s \in Services |-> 0]
       /\ disturbed' = (disturbed \/ "text_extract" \in F)
  /\ UNCHANGED <<done, defers, doc, work, healthy, req, requests, faults>>

-----------------------------------------------------------------------------
(* Restarts *)

\* The process dies and comes back; what it was about to write is lost.
Crash ==
  /\ Fault
  /\ step' = [s \in Services |-> "idle"]
  /\ owns' = {}
  /\ req' = [c \in Clients |-> Idle]
  /\ disturbed' = \/ disturbed
                  \/ \E s \in Services : step[s] = "report"
                  \/ \E c \in Clients : req[c].at # "idle"
  /\ booted' = FALSE
  /\ seen' = [s \in Services |-> Unread]
  /\ UNCHANGED <<rows, doc, requests, healthy>>

StuckReset ==
  [s \in Services |-> IF active[s] = "processing" THEN "pending" ELSE active[s]]

\* startWorkers: resetStuckJobs.  A row a woken worker has claimed meanwhile is
\* reset too; its worker goes on and settles it by id.
ResetStuckJobs ==
  /\ ~booted
  /\ booted' = TRUE
  /\ active' = StuckReset
  /\ UNCHANGED <<done, failed, defers, doc, step, seen, owns, req, requests,
                 faults, disturbed, healthy>>

-----------------------------------------------------------------------------
\* A row in processing that nobody works on any more.
Abandoned(s) == active[s] = "processing" /\ s \notin owns /\ booted

\* Nothing to do, or nothing that can be done before the next restart.
Quiet == (AtRest \/ \E s \in Services : Abandoned(s)) /\ UNCHANGED vars

Job(s) ==
  \/ Finish(s) \/ Fail(s) \/ Report(s) \/ Defer(s)
  \/ ReadDocument(s) \/ CheckUpstream(s) \/ CheckAnyJob(s)
  \/ s = "text_extract" /\ (StartExtract \/ ReadFile \/ StoreText \/ Park \/ DropJobs)
  \/ s = "classify" /\ StoreCategory
  \/ s = "embed" /\ (DeleteEmbedding \/ InsertEmbedding)

Serve(c) ==
  \/ WriteFile(c) \/ SetStatus(c) \/ DropSettled(c) \/ RefreshBudget(c)
  \/ InsertJob(c)

Next ==
  \/ \E s \in Services : Claim(s) \/ Job(s) \/ Unavailable(s) \/ JobFails(s)
  \/ \E c \in Clients, kind \in Requests : Request(c, kind)
  \/ \E c \in Clients : Serve(c) \/ RequestFails(c)
  \/ CancelQueue \/ RetryFailed
  \/ Crash \/ ResetStuckJobs
  \/ HealthChanges
  \/ Quiet

Spec == Init /\ [][Next]_vars

\* Workers poll, jobs and requests run to their end.  A claim that is fair is
\* one that stays enabled: nothing says that the LLM service recovers.
Fairness ==
  /\ \A s \in Services : WF_vars(Claim(s)) /\ WF_vars(Job(s))
  /\ \A c \in Clients : WF_vars(Serve(c))
  /\ WF_vars(ResetStuckJobs)

FairSpec == Spec /\ Fairness

-----------------------------------------------------------------------------
Steps == {"idle", "start", "slot", "extract", "store", "park", "drop", "check",
          "any", "ask", "insert", "finish", "defer", "fail", "report"}

TypeOK ==
  /\ active \in [Services -> {"none", "pending", "processing"}]
  /\ done \in BOOLEAN
  /\ failed \in [Services -> Nat]
  /\ defers \in [Services -> Nat]
  /\ status \in {"pending", "extracting", "classifying", "ready", "failed", "encrypted"}
  /\ file \in [version : Nat \ {0}, kind : FileKinds]
  /\ text \in Nat /\ category \in Nat /\ embedding \in Nat
  /\ step \in [Services -> Steps]
  /\ seen \in [Services -> [text : Nat, waiting : BOOLEAN]]
  /\ owns \subseteq Services
  /\ \A c \in Clients :
       /\ req[c].at \in {"idle", "write", "status", "drop", "refresh", "insert"}
       /\ req[c].kind \in Requests \cup {"upload", "rerun"}
       /\ req[c].todo \in Seq(Services)
  /\ booted \in BOOLEAN
  /\ healthy \in BOOLEAN
  /\ requests \in Nat
  /\ faults \in Nat
  /\ disturbed \in BOOLEAN

(* A document whose jobs are all over is settled: it shows ready, failed or
   encrypted and never waits for a job that does not exist.  Exempt is only a
   run that lost a job: a re-queue met a job already under way or had its new
   jobs dropped, the queue was cancelled, a failed text_extract was retried, or
   a statement was lost to an error or a restart (runTextExtract's forward-only
   status against runClassify, requeueDocument and deleteJobsForDocument). *)
Settled == AtRest /\ ~disturbed => status \in {"ready", "failed", "encrypted"}

(* A document that ends ready was classified from its current text, and that
   text was read from the current file, unless a job failed (the two guards
   that keep classify behind text_extract: UPSTREAM_SERVICE and
   hasUnfinishedJob). *)
ReadyIsCurrent ==
  AtRest /\ ~disturbed /\ status = "ready" /\ failed["text_extract"] = 0
    /\ file.kind # "locked" =>
    category = text /\ text = file.version

(* The embedding is that of the current text, unless a job failed: embed
   neither overtakes text_extract nor keeps the chunks of an older text. *)
EmbeddingIsCurrent ==
  AtRest /\ ~disturbed /\ status = "ready" /\ (\A s \in Services : failed[s] = 0) =>
    embedding = text

(* A job does not wait for ever: it ends, or a failed statement has left a row
   in processing that only a restart sets free (deferJob, MAX_JOB_DEFERS,
   resetStuckJobs).  For text_extract that is unconditional; for the two
   services that ask the model it takes a health check that succeeds from some
   time on, and nothing of the model behind it: slots that time out, calls that
   fail and a text that never comes use up the budget of defers.  While the
   check fails nothing is claimed and no defer is counted, and the jobs stay
   pending for as long as that lasts. *)
JobsEnd ==
  \A s \in Services :
    active[s] # "none" ~> \/ active[s] = "none"
                          \/ \E t \in Services : Abandoned(t)
                          \/ s \in Readers /\ ~healthy

(* "Pushing it back to classifying would strand it there, since no classify
   job is left to move it on": what the forward-only status of runTextExtract
   and the guard of runClassify are there to prevent. *)
NotLeftClassifying == AtRest => status # "classifying"
=============================================================================
