--------------------------- MODULE DocPipelineProofs ---------------------------
(* Theorems about DocPipeline, for any clients, requests and bounds.         *)
EXTENDS DocPipeline, TLAPS

(* What is left to be queued by a request is the end of DOCUMENT_SERVICES.  *)
Todos == {<< >>, <<"embed">>, <<"classify", "embed">>, DOCUMENT_SERVICES}

Ats == {"idle", "write", "status", "drop", "refresh", "insert"}

RowsTyped ==
  /\ active \in [Services -> {"none", "pending", "processing"}]
  /\ done \in BOOLEAN
  /\ failed \in [Services -> Nat] /\ defers \in [Services -> Nat]

DocTyped ==
  /\ status \in {"pending", "extracting", "classifying", "ready", "failed", "encrypted"}
  /\ file \in [version : Nat \ {0}, kind : FileKinds]
  /\ text \in Nat /\ category \in Nat /\ embedding \in Nat

WorkTyped ==
  /\ step \in [Services -> Steps]
  /\ seen \in [Services -> [text : Nat, waiting : BOOLEAN]]
  /\ owns \subseteq Services
  /\ booted \in BOOLEAN

RequestsTyped ==
  /\ req \in [Clients -> [at : Ats, kind : Requests \cup {"upload", "rerun"}, todo : Todos]]
  /\ \A c \in Clients : req[c].at # "idle" => req[c].todo # << >>

CountsTyped ==
  /\ requests \in Nat /\ faults \in Nat
  /\ disturbed \in BOOLEAN /\ healthy \in BOOLEAN

Typed == RowsTyped /\ DocTyped /\ WorkTyped /\ RequestsTyped /\ CountsTyped

LEMMA ServiceNames ==
  /\ Services = {"text_extract", "classify", "embed"}
  /\ Readers = {"classify", "embed"} /\ Readers \subseteq Services
  BY DEF Services, Readers

LEMMA TodoTail ==
  ASSUME NEW w \in Todos, w # << >>
  PROVE  /\ Head(w) \in Services
         /\ Len(w) = 1 <=> w = <<"embed">>
         /\ Len(w) # 1 => Tail(w) \in Todos \ {<< >>}
         /\ Head(w) = "text_extract" <=> w = DOCUMENT_SERVICES
         /\ Head(w) = "classify" <=> w = <<"classify", "embed">>
         /\ w = DOCUMENT_SERVICES => Tail(w) = <<"classify", "embed">>
         /\ w = <<"classify", "embed">> => Tail(w) = <<"embed">>
<1>1. CASE w = <<"embed">>
  BY <1>1 DEF Services, DOCUMENT_SERVICES
<1>2. CASE w = <<"classify", "embed">>
  BY <1>2 DEF Todos, Services, DOCUMENT_SERVICES
<1>3. CASE w = <<"text_extract", "classify", "embed">>
  BY <1>3 DEF Todos, Services, DOCUMENT_SERVICES
<1> QED
  BY <1>1, <1>2, <1>3 DEF Todos, DOCUMENT_SERVICES

LEMMA RowsTypedStep == Typed /\ [Next]_vars => RowsTyped'
<1> SUFFICES ASSUME Typed, [Next]_vars PROVE RowsTyped'
  OBVIOUS
<1> USE ServiceNames DEF Typed, RowsTyped
<1>1. CASE UNCHANGED rows
  BY <1>1 DEF rows
<1>2. ASSUME NEW s \in Services, Claim(s) \/ Finish(s) \/ Fail(s) \/ Defer(s) PROVE RowsTyped'
  <2>1. CASE Claim(s)
    BY <2>1 DEF Claim
  <2>2. CASE Finish(s)
    <3>1. done' \in BOOLEAN
      BY <2>2, Zenon DEF Finish
    <3>2. UNCHANGED failed /\ Settle(s)
      BY <2>2 DEF Finish
    <3> QED
      BY <3>1, <3>2 DEF Settle
  <2>3. CASE Fail(s)
    BY <2>3 DEF Fail, Settle
  <2>4. CASE Defer(s)
    BY <2>4 DEF Defer, Counted
  <2> QED
    BY <1>2, <2>1, <2>2, <2>3, <2>4
<1>3. CASE DropJobs
  BY <1>3 DEF DropJobs
<1>4. ASSUME NEW c \in Clients, DropSettled(c) \/ RefreshBudget(c) PROVE RowsTyped'
  <2>1. done' \in BOOLEAN
    BY <1>4, Zenon DEF DropSettled, RefreshBudget
  <2>2. \A s \in Services : /\ (IF InTodo(c, s) THEN 0 ELSE failed[s]) \in Nat
                            /\ (IF InTodo(c, s) THEN 0 ELSE defers[s]) \in Nat
    OBVIOUS
  <2>3. failed' \in [Services -> Nat] /\ defers' \in [Services -> Nat] /\ active' = active
    BY <1>4, <2>2 DEF DropSettled, RefreshBudget
  <2> QED
    BY <2>1, <2>3
<1>5. ASSUME NEW c \in Clients, InsertJob(c) PROVE RowsTyped'
  BY <1>5 DEF InsertJob, Inserted
<1>6. CASE CancelQueue
  BY <1>6 DEF CancelQueue
<1>7. CASE RetryFailed
  BY <1>7 DEF RetryFailed
<1>8. CASE ResetStuckJobs
  BY <1>8 DEF ResetStuckJobs, StuckReset
<1>9. ASSUME NEW s \in Services, Job(s) PROVE RowsTyped'
  BY <1>1, <1>2, <1>3, <1>9 DEF Job, Report, ReadDocument, CheckUpstream, CheckAnyJob,
       StartExtract, ReadFile, StoreText, Park, StoreCategory, DeleteEmbedding, InsertEmbedding
<1>10. ASSUME NEW s \in Services, Unavailable(s) \/ JobFails(s) PROVE RowsTyped'
  BY <1>1, <1>10 DEF Unavailable, JobFails
<1>11. ASSUME NEW c \in Clients, Serve(c) \/ RequestFails(c) PROVE RowsTyped'
  BY <1>1, <1>4, <1>5, <1>11 DEF Serve, RequestFails, WriteFile, SetStatus, rows
<1>12. ASSUME NEW c \in Clients, NEW kind \in Requests, Request(c, kind) PROVE RowsTyped'
  BY <1>1, <1>12 DEF Request
<1>13. CASE Crash \/ HealthChanges \/ Quiet \/ UNCHANGED vars
  BY <1>1, <1>13 DEF Crash, HealthChanges, Quiet, vars, rows
<1> QED
  BY <1>2, <1>6, <1>7, <1>8, <1>9, <1>10, <1>11, <1>12, <1>13 DEF Next

LEMMA DocTypedStep == Typed /\ [Next]_vars => DocTyped'
<1> SUFFICES ASSUME Typed, [Next]_vars PROVE DocTyped'
  OBVIOUS
<1> USE ServiceNames DEF Typed, DocTyped
<1>1. CASE UNCHANGED doc
  BY <1>1 DEF doc
<1>2. ASSUME NEW s \in Services, Job(s) PROVE DocTyped'
  <2>1. CASE Finish(s) \/ Fail(s) \/ Defer(s) \/ ReadDocument(s) \/ CheckUpstream(s) \/ CheckAnyJob(s)
    BY <1>1, <2>1 DEF Finish, Fail, Defer, ReadDocument, CheckUpstream, CheckAnyJob
  <2>2. CASE Report(s)
    BY <2>2 DEF Report
  <2>3. CASE StartExtract \/ ReadFile \/ StoreText \/ Park \/ DropJobs
    BY <2>3 DEF StartExtract, ReadFile, StoreText, NextStatus, Park, DropJobs, doc, WorkTyped
  <2>4. CASE StoreCategory \/ DeleteEmbedding \/ InsertEmbedding
    BY <2>4 DEF StoreCategory, DeleteEmbedding, InsertEmbedding, WorkTyped
  <2> QED
    BY <1>2, <2>1, <2>2, <2>3, <2>4 DEF Job
<1>3. ASSUME NEW s \in Services, Claim(s) \/ Unavailable(s) \/ JobFails(s) PROVE DocTyped'
  BY <1>1, <1>3 DEF Claim, Unavailable, JobFails
<1>4. ASSUME NEW c \in Clients, Serve(c) \/ RequestFails(c) PROVE DocTyped'
  <2>1. CASE WriteFile(c)
    BY <2>1 DEF WriteFile
  <2>2. CASE SetStatus(c)
    BY <2>2 DEF SetStatus
  <2> QED
    BY <1>1, <1>4, <2>1, <2>2 DEF Serve, RequestFails, DropSettled, RefreshBudget, InsertJob
<1>5. ASSUME NEW c \in Clients, NEW kind \in Requests, Request(c, kind) PROVE DocTyped'
  BY <1>1, <1>5 DEF Request
<1>6. CASE CancelQueue \/ RetryFailed \/ Crash \/ ResetStuckJobs \/ HealthChanges \/ Quiet \/ UNCHANGED vars
  BY <1>1, <1>6 DEF CancelQueue, RetryFailed, Crash, ResetStuckJobs, HealthChanges, Quiet, vars, doc
<1> QED
  BY <1>2, <1>3, <1>4, <1>5, <1>6 DEF Next

LEMMA WorkTypedStep == Typed /\ [Next]_vars => WorkTyped'
<1> SUFFICES ASSUME Typed, [Next]_vars PROVE WorkTyped'
  OBVIOUS
<1> USE ServiceNames DEF Typed, WorkTyped
<1>1. CASE UNCHANGED work
  BY <1>1 DEF work
<1>2. ASSUME NEW s \in Services, Claim(s) PROVE WorkTyped'
  BY <1>2 DEF Claim, Goto, Steps
<1>u. Unread \in [text : Nat, waiting : BOOLEAN]
  BY DEF Unread
<1>3. ASSUME NEW s \in Services, Finish(s) \/ Fail(s) PROVE WorkTyped'
  <2>1. step' \in [Services -> Steps]
    BY <1>3 DEF Finish, Fail, Goto, Steps
  <2>2. seen' = [seen EXCEPT ![s] = Unread] /\ owns' \subseteq Services /\ booted' = booted
    BY <1>3 DEF Finish, Fail, Settle
  <2> QED
    BY <1>u, <2>1, <2>2
<1>4. ASSUME NEW s \in Services, Report(s) PROVE WorkTyped'
  BY <1>4 DEF Report, Goto, Steps
<1>5. ASSUME NEW s \in Services, Defer(s) PROVE WorkTyped'
  BY <1>5 DEF Defer, Steps, Unread
<1>6. ASSUME NEW s \in Services, ReadDocument(s) PROVE WorkTyped'
  <2>1. [text |-> text, waiting |-> text = 0 /\ status \in Waiting] \in [text : Nat, waiting : BOOLEAN]
    BY DEF DocTyped
  <2>2. seen' \in [Services -> [text : Nat, waiting : BOOLEAN]]
    BY <1>6, <2>1 DEF ReadDocument
  <2>3. step' \in [Services -> Steps] /\ UNCHANGED <<owns, booted>>
    BY <1>6 DEF ReadDocument, Goto, Steps
  <2> QED
    BY <2>2, <2>3
<1>7. ASSUME NEW s \in Services, CheckUpstream(s) \/ CheckAnyJob(s) PROVE WorkTyped'
  <2>1. UNCHANGED <<seen, owns, booted>>
    BY <1>7 DEF CheckUpstream, CheckAnyJob
  <2>2. CASE CheckUpstream(s)
    BY <2>1, <2>2 DEF CheckUpstream, NoText, Goto, Steps
  <2>3. CASE CheckAnyJob(s)
    BY <2>1, <2>3 DEF CheckAnyJob, NoText, Goto, Steps
  <2> QED
    BY <1>7, <2>2, <2>3
<1>8. CASE StartExtract \/ StoreText \/ Park \/ DropJobs
  <2>1. UNCHANGED <<seen, booted>>
    BY <1>8 DEF StartExtract, StoreText, Park, DropJobs
  <2>2. CASE StartExtract
    BY <2>1, <2>2 DEF StartExtract, Goto, Steps
  <2>3. CASE StoreText
    BY <2>1, <2>3 DEF StoreText, Goto, Steps
  <2>4. CASE Park
    BY <2>1, <2>4 DEF Park, Goto, Steps
  <2>5. CASE DropJobs
    BY <2>1, <2>5 DEF DropJobs, Goto, Steps
  <2> QED
    BY <1>8, <2>2, <2>3, <2>4, <2>5
<1>9. CASE ReadFile
  BY <1>9 DEF ReadFile, Goto, Steps, DocTyped
<1>10. CASE StoreCategory \/ DeleteEmbedding \/ InsertEmbedding
  BY <1>10 DEF StoreCategory, DeleteEmbedding, InsertEmbedding, Goto, Steps
<1>11. ASSUME NEW s \in Services, Unavailable(s) \/ JobFails(s) PROVE WorkTyped'
  BY <1>11 DEF Unavailable, JobFails, Steps
<1>12. ASSUME NEW c \in Clients, Serve(c) \/ RequestFails(c) PROVE WorkTyped'
  BY <1>1, <1>12 DEF Serve, WriteFile, SetStatus, DropSettled, RefreshBudget, InsertJob, RequestFails
<1>13. ASSUME NEW c \in Clients, NEW kind \in Requests, Request(c, kind) PROVE WorkTyped'
  BY <1>1, <1>13 DEF Request
<1>14. CASE CancelQueue
  BY <1>14 DEF CancelQueue
<1>15. CASE Crash \/ ResetStuckJobs
  <2>1. CASE Crash
    BY <1>u, <2>1 DEF Crash, Steps
  <2>2. CASE ResetStuckJobs
    BY <2>2 DEF ResetStuckJobs
  <2> QED
    BY <1>15, <2>1, <2>2
<1>16. CASE RetryFailed \/ HealthChanges \/ Quiet \/ UNCHANGED vars
  BY <1>1, <1>16 DEF RetryFailed, HealthChanges, Quiet, vars, work
<1> QED
  BY <1>2, <1>3, <1>4, <1>5, <1>6, <1>7, <1>8, <1>9, <1>10, <1>11, <1>12, <1>13, <1>14, <1>15, <1>16
     DEF Next, Job

LEMMA RequestsTypedStep == Typed /\ [Next]_vars => RequestsTyped'
<1> SUFFICES ASSUME Typed, [Next]_vars PROVE RequestsTyped'
  OBVIOUS
<1> USE DEF Typed, RequestsTyped
<1>1. CASE UNCHANGED req
  BY <1>1
<1>2. ASSUME NEW s \in Services, Claim(s) \/ Job(s) \/ Unavailable(s) \/ JobFails(s)
      PROVE  RequestsTyped'
  BY <1>1, <1>2 DEF Claim, Job, Finish, Fail, Report, Defer, ReadDocument, CheckUpstream,
       CheckAnyJob, StartExtract, ReadFile, StoreText, Park, DropJobs, StoreCategory,
       DeleteEmbedding, InsertEmbedding, Unavailable, JobFails
<1>3. ASSUME NEW c \in Clients, WriteFile(c) \/ SetStatus(c) \/ DropSettled(c) \/ RefreshBudget(c)
      PROVE  RequestsTyped'
  BY <1>3 DEF WriteFile, SetStatus, DropSettled, RefreshBudget, Ats
<1>4. Idle \in [at : Ats, kind : Requests \cup {"upload", "rerun"}, todo : Todos]
  BY DEF Idle, Ats, Todos
<1>5. ASSUME NEW c \in Clients, InsertJob(c) PROVE RequestsTyped'
  <2> DEFINE r == req[c]
             next == IF Len(r.todo) = 1 THEN Idle ELSE [r EXCEPT !.todo = Tail(r.todo)]
  <2>0. r.at = "insert" /\ req' = [req EXCEPT ![c] = next]
    BY <1>5, Zenon DEF InsertJob
  <2>1. r.todo # << >> /\ r.todo \in Todos
    BY <2>0
  <2>2. Len(r.todo) # 1 => Tail(r.todo) \in Todos \ {<< >>}
    BY <2>1, TodoTail
  <2>3. /\ next \in [at : Ats, kind : Requests \cup {"upload", "rerun"}, todo : Todos]
        /\ next.at # "idle" => next.todo # << >>
    BY <1>4, <2>2 DEF Idle
  <2> HIDE DEF next
  <2> QED
    BY <2>0, <2>3
<1>6. ASSUME NEW c \in Clients, RequestFails(c) PROVE RequestsTyped'
  BY <1>4, <1>6 DEF RequestFails, Idle
<1>7. ASSUME NEW c \in Clients, NEW kind \in Requests, Request(c, kind) PROVE RequestsTyped'
  <2>1. kind \in AllRequests \ {"cancel", "retry"}
    BY <1>7, RequestsAssumption DEF Request
  <2>2. ServicesOf(kind) \in Todos \ {<< >>} /\ FirstStatement(kind) \in Ats
    BY <2>1 DEF ServicesOf, FirstStatement, Todos, Ats, AllRequests, DOCUMENT_SERVICES
  <2> QED
    BY <1>7, <2>2 DEF Request
<1>8. CASE Crash
  BY <1>4, <1>8 DEF Crash, Idle
<1>9. CASE CancelQueue \/ RetryFailed \/ ResetStuckJobs \/ HealthChanges \/ Quiet \/ UNCHANGED vars
  BY <1>1, <1>9 DEF CancelQueue, RetryFailed, ResetStuckJobs, HealthChanges, Quiet, vars
<1> QED
  BY <1>2, <1>3, <1>5, <1>6, <1>7, <1>8, <1>9 DEF Next, Serve

LEMMA CountsTypedStep == Typed /\ [Next]_vars => CountsTyped'
<1> SUFFICES ASSUME Typed, [Next]_vars PROVE CountsTyped'
  OBVIOUS
<1>1. requests' \in Nat
  <2>1. requests' = requests \/ (requests > 0 /\ requests' = requests - 1)
    BY Zenon DEF Next, Job, Serve, Claim, Finish, Fail, Report, Defer, ReadDocument, CheckUpstream,
       CheckAnyJob, StartExtract, ReadFile, StoreText, Park, DropJobs, StoreCategory,
       DeleteEmbedding, InsertEmbedding, Unavailable, JobFails, Request, WriteFile, SetStatus,
       DropSettled, RefreshBudget, InsertJob, RequestFails, CancelQueue, RetryFailed, Crash,
       ResetStuckJobs, HealthChanges, Quiet, vars
  <2> QED
    BY <2>1, BoundsAssumption DEF Typed, CountsTyped
<1>2. faults' \in Nat
  <2>1. faults' = faults \/ Fault
    BY Zenon DEF Next, Job, Serve, Claim, Finish, Fail, Report, Defer, ReadDocument, CheckUpstream,
       CheckAnyJob, StartExtract, ReadFile, StoreText, Park, DropJobs, StoreCategory,
       DeleteEmbedding, InsertEmbedding, Unavailable, JobFails, Request, WriteFile, SetStatus,
       DropSettled, RefreshBudget, InsertJob, RequestFails, CancelQueue, RetryFailed, Crash,
       ResetStuckJobs, HealthChanges, Quiet, vars
  <2> QED
    BY <2>1, BoundsAssumption DEF Typed, CountsTyped, Fault
<1>3. disturbed' \in BOOLEAN
  <2>1. disturbed \in BOOLEAN
    BY DEF Typed, CountsTyped
  <2> QED
    BY <2>1, Zenon DEF Next, Job, Serve, Claim, Finish, Fail, Report, Defer, ReadDocument, CheckUpstream,
       CheckAnyJob, StartExtract, ReadFile, StoreText, Park, DropJobs, StoreCategory,
       DeleteEmbedding, InsertEmbedding, Unavailable, JobFails, Request, WriteFile, SetStatus,
       DropSettled, RefreshBudget, InsertJob, RequestFails, CancelQueue, RetryFailed, Crash,
       ResetStuckJobs, HealthChanges, Quiet, vars
<1>4. healthy' \in BOOLEAN
  <2>1. healthy \in BOOLEAN
    BY DEF Typed, CountsTyped
  <2>2. healthy' = healthy \/ healthy' = ~healthy
    BY Zenon DEF Next, Job, Serve, Claim, Finish, Fail, Report, Defer, ReadDocument, CheckUpstream,
       CheckAnyJob, StartExtract, ReadFile, StoreText, Park, DropJobs, StoreCategory,
       DeleteEmbedding, InsertEmbedding, Unavailable, JobFails, Request, WriteFile, SetStatus,
       DropSettled, RefreshBudget, InsertJob, RequestFails, CancelQueue, RetryFailed, Crash,
       ResetStuckJobs, HealthChanges, Quiet, vars
  <2> QED
    BY <2>1, <2>2
<1> QED
  BY <1>1, <1>2, <1>3, <1>4 DEF CountsTyped

LEMMA TypedInit == Init => Typed
<1> SUFFICES ASSUME Init PROVE Typed
  OBVIOUS
<1> USE ServiceNames DEF Init
<1>1. RowsTyped /\ CountsTyped
  <2>1. done \in BOOLEAN /\ disturbed \in BOOLEAN /\ healthy \in BOOLEAN
    BY Zenon
  <2>2. requests \in Nat /\ faults \in Nat
    BY BoundsAssumption
  <2> QED
    BY <2>1, <2>2 DEF RowsTyped, CountsTyped
<1>2. DocTyped
  BY DEF DocTyped
<1>3. WorkTyped
  BY DEF WorkTyped, Steps, Unread
<1>4. RequestsTyped
  BY DEF RequestsTyped, Todos, Ats, Idle, DOCUMENT_SERVICES
<1> QED
  BY <1>1, <1>2, <1>3, <1>4 DEF Typed

LEMMA TypedStep == Typed /\ [Next]_vars => Typed'
  BY RowsTypedStep, DocTypedStep, WorkTypedStep, RequestsTypedStep, CountsTypedStep DEF Typed

LEMMA TypedHolds == Spec => []Typed
<1>1. Init => Typed
  BY TypedInit
<1>2. Typed /\ [Next]_vars => Typed'
  BY TypedStep
<1> QED
  BY <1>1, <1>2, PTL DEF Spec

(* Every row, status, step and request is one the code knows, and what a   *)
(* request has still to queue is always an end of DOCUMENT_SERVICES, so no  *)
(* document is queued for a service nobody serves.                          *)
THEOREM TypeCorrect == Spec => []TypeOK
<1>1. Typed => TypeOK
  <2>1. Todos \subseteq Seq(Services)
    BY DEF Todos, Services, DOCUMENT_SERVICES
  <2> QED
    BY <2>1 DEF Typed, TypeOK, RowsTyped, DocTyped, WorkTyped, RequestsTyped, CountsTyped, Ats
<1> QED
  BY <1>1, TypedHolds, PTL

-----------------------------------------------------------------------------
(* No document is left waiting for a job that will never come.              *)

Rest(r) ==
  /\ r.at = "idle" <=> r.todo = << >>
  /\ r.at \in {"write", "status"} => r.todo \in {<<"classify", "embed">>, DOCUMENT_SERVICES}
  /\ r.at = "write" => r.todo = DOCUMENT_SERVICES

RequestsOK == \A c \in Clients : Rest(req[c])

(* A row at work is in the table and has a worker; a worker that extracts   *)
(* still has its row, one that reports a failure no longer has.             *)
RowsOK ==
  /\ \A s \in owns : active[s] # "none" /\ step[s] # "idle"
  /\ ~disturbed /\ step["text_extract"] \in {"start", "extract", "store", "park", "drop"} =>
       "text_extract" \in owns
  /\ \A s \in Services : step[s] = "report" => s \notin owns

(* A job of s is still to be queued, or lies in the table for a worker.     *)
Promised(s)  == \E c \in Clients : InTodo(c, s)
Unclaimed(s) == active[s] # "none" /\ s \notin owns
Comes(s)     == Promised(s) \/ Unclaimed(s)

ReadersFollow ==
  ~disturbed /\ active["text_extract"] # "none" => \A s \in Readers : Comes(s)

(* Whoever will move the status on: a classify to come, the one at work, or *)
(* the worker that is about to write the failure.                           *)
Carried ==
  ~disturbed /\ status \notin {"ready", "failed", "encrypted"} =>
    \/ Comes("classify")
    \/ "classify" \in owns /\ step["classify"] # "finish"
    \/ step["text_extract"] = "report"
    \/ step["classify"] = "report"

Flow == RequestsOK /\ RowsOK /\ ReadersFollow /\ Carried

LEMMA InTodoMeans ==
  ASSUME Typed, NEW c \in Clients
  PROVE  /\ InTodo(c, "text_extract") <=> req[c].todo = DOCUMENT_SERVICES
         /\ InTodo(c, "classify") <=>
              req[c].todo \in {<<"classify", "embed">>, DOCUMENT_SERVICES}
         /\ InTodo(c, "embed") <=> req[c].todo # << >>
<1> DEFINE w == req[c].todo
<1>0. w \in Todos
  BY DEF Typed, RequestsTyped
<1>1. CASE w = << >>
  BY <1>1 DEF InTodo, DOCUMENT_SERVICES
<1>2. CASE w = <<"embed">>
  <2>1. w[1] = "embed" /\ DOMAIN w = 1 .. 1
    BY <1>2
  <2> QED
    BY <1>2, <2>1 DEF InTodo, DOCUMENT_SERVICES
<1>3. CASE w = <<"classify", "embed">>
  <2>1. w[1] = "classify" /\ w[2] = "embed" /\ DOMAIN w = 1 .. 2
    BY <1>3
  <2> QED
    BY <1>3, <2>1 DEF InTodo, DOCUMENT_SERVICES
<1>4. CASE w = DOCUMENT_SERVICES
  <2>1. w[1] = "text_extract" /\ w[2] = "classify" /\ w[3] = "embed" /\ DOMAIN w = 1 .. 3
    BY <1>4 DEF DOCUMENT_SERVICES
  <2> QED
    BY <1>4, <2>1 DEF InTodo, DOCUMENT_SERVICES
<1> QED
  BY <1>0, <1>1, <1>2, <1>3, <1>4 DEF Todos

LEMMA RequestsOKStep == Typed /\ RequestsOK /\ [Next]_vars => RequestsOK'
<1> SUFFICES ASSUME Typed, RequestsOK, [Next]_vars PROVE RequestsOK'
  OBVIOUS
<1> USE DEF Typed, RequestsTyped, RequestsOK
<1>i. Rest(Idle)
  BY DEF Rest, Idle
<1>1. CASE UNCHANGED req
  BY <1>1
<1>2. ASSUME NEW s \in Services, Claim(s) \/ Job(s) \/ Unavailable(s) \/ JobFails(s)
      PROVE  RequestsOK'
  BY <1>1, <1>2 DEF Claim, Job, Finish, Fail, Report, Defer, ReadDocument, CheckUpstream,
       CheckAnyJob, StartExtract, ReadFile, StoreText, Park, DropJobs, StoreCategory,
       DeleteEmbedding, InsertEmbedding, Unavailable, JobFails
<1>3. ASSUME NEW c \in Clients, WriteFile(c) \/ SetStatus(c) \/ DropSettled(c) \/ RefreshBudget(c)
      PROVE  RequestsOK'
  <2>1. /\ req' = [req EXCEPT ![c] = req'[c]]
        /\ req'[c].todo = req[c].todo /\ req[c].at # "idle" /\ req'[c].at # "idle"
        /\ req'[c].at # "write"
        /\ req'[c].at = "status" => req[c].at = "write"
    BY <1>3 DEF WriteFile, SetStatus, DropSettled, RefreshBudget
  <2>2. Rest(req'[c])
    BY <2>1 DEF Rest
  <2> QED
    BY <2>1, <2>2
<1>5. ASSUME NEW c \in Clients, InsertJob(c) PROVE RequestsOK'
  <2> DEFINE r == req[c]
             next == IF Len(r.todo) = 1 THEN Idle ELSE [r EXCEPT !.todo = Tail(r.todo)]
  <2>0. r.at = "insert" /\ req' = [req EXCEPT ![c] = next]
    BY <1>5, Zenon DEF InsertJob
  <2>1. Len(r.todo) # 1 => Tail(r.todo) # << >>
    BY <2>0, TodoTail
  <2>2. Rest(next)
    BY <1>i, <2>0, <2>1 DEF Rest
  <2> HIDE DEF next
  <2> QED
    BY <2>0, <2>2
<1>6. ASSUME NEW c \in Clients, RequestFails(c) PROVE RequestsOK'
  BY <1>i, <1>6 DEF RequestFails
<1>7. ASSUME NEW c \in Clients, NEW kind \in Requests, Request(c, kind) PROVE RequestsOK'
  <2>1. kind \in AllRequests \ {"cancel", "retry"}
    BY <1>7, RequestsAssumption DEF Request
  <2>2. Rest([at |-> FirstStatement(kind), kind |-> kind, todo |-> ServicesOf(kind)])
    BY <2>1 DEF ServicesOf, FirstStatement, AllRequests, DOCUMENT_SERVICES, Rest
  <2> QED
    BY <1>7, <2>2 DEF Request
<1>8. CASE Crash
  BY <1>i, <1>8 DEF Crash
<1>9. CASE CancelQueue \/ RetryFailed \/ ResetStuckJobs \/ HealthChanges \/ Quiet \/ UNCHANGED vars
  BY <1>1, <1>9 DEF CancelQueue, RetryFailed, ResetStuckJobs, HealthChanges, Quiet, vars
<1> QED
  BY <1>2, <1>3, <1>5, <1>6, <1>7, <1>8, <1>9 DEF Next, Serve

LEMMA RowsOKStep == Typed /\ RequestsOK /\ RowsOK /\ [Next]_vars => RowsOK'
<1> SUFFICES ASSUME Typed, RequestsOK, RowsOK, [Next]_vars PROVE RowsOK'
  OBVIOUS
<1> USE ServiceNames DEF Typed, RowsTyped, WorkTyped, RowsOK
<1>1. CASE UNCHANGED <<active, step, owns>> /\ (~disturbed' => ~disturbed)
  BY <1>1
<1>2. ASSUME NEW s \in Services, Claim(s) PROVE RowsOK'
  BY <1>2 DEF Claim, Goto
<1>3. ASSUME NEW s \in Services, Finish(s) PROVE RowsOK'
  BY <1>3 DEF Finish, Goto, Settle
<1>4. ASSUME NEW s \in Services, Fail(s) PROVE RowsOK'
  <2>1. step[s] = "fail" /\ step' = [step EXCEPT ![s] = IF s = "embed" THEN "idle" ELSE "report"]
    BY <1>4 DEF Fail, Goto
  <2>2. owns' = owns \ {s}
    BY <1>4 DEF Fail, Settle
  <2>4. ~disturbed' => ~disturbed
    BY <1>4 DEF Fail
  <2>3. active' = active \/ active' = [active EXCEPT ![s] = "none"]
    BY <1>4, Zenon DEF Fail, Settle
  <2> QED
    BY <2>1, <2>2, <2>3, <2>4
<1>5. ASSUME NEW s \in Services, Report(s) PROVE RowsOK'
  <2>1. /\ step[s] = "report" /\ step' = [step EXCEPT ![s] = "idle"]
        /\ owns' = owns /\ active' = active
        /\ ~disturbed' => ~disturbed
    BY <1>5 DEF Report, Goto, rows
  <2> QED
    BY <2>1
<1>6. ASSUME NEW s \in Services, Defer(s) PROVE RowsOK'
  <2>1. step' = [step EXCEPT ![s] = "idle"] \/ step' = [step EXCEPT ![s] = "fail"]
    BY <1>6, Zenon DEF Defer
  <2>2. step[s] = "defer" /\ (~disturbed' => ~disturbed)
    BY <1>6 DEF Defer
  <2>3. active' = active \/ active' = [active EXCEPT ![s] = "pending"]
    BY <1>6, Zenon DEF Defer
  <2>4. /\ \A t \in owns' : t \in owns
        /\ \A t \in owns \ {s} : t \in owns'
        /\ s \in owns' => step'[s] = "fail"
    BY <1>6 DEF Defer
  <2>5. \A t \in Services \ {s} : step'[t] = step[t]
    BY <2>1
  <2>6. \A t \in owns' : active'[t] # "none"
    BY <2>3, <2>4
  <2>7. step'[s] \in {"idle", "fail"}
    BY <2>1
  <2>8. \A t \in owns' : step'[t] # "idle"
    BY <2>4, <2>5, <2>7
  <2>9. ~disturbed' /\ step'["text_extract"] \in {"start", "extract", "store", "park", "drop"} =>
          "text_extract" \in owns'
    BY <2>2, <2>4, <2>5, <2>7
  <2>10. \A t \in Services : step'[t] = "report" => t \notin owns'
    BY <2>4, <2>5, <2>7
  <2> QED
    BY <2>6, <2>8, <2>9, <2>10
<1>7. CASE DropJobs
  BY <1>7 DEF DropJobs, Goto
<1>8. ASSUME NEW s \in Services, NEW x \in Steps \ {"idle", "report"},
             x \in {"start", "extract", "store", "park", "drop"} =>
               s = "text_extract" /\ step[s] \in {"start", "extract", "store", "park", "drop"},
             step[s] # "idle", step[s] # "report",
             step' = [step EXCEPT ![s] = x], active' = active, owns' = owns,
             disturbed' = disturbed
      PROVE  RowsOK'
  BY <1>8
<1>9. ASSUME NEW s \in Services, ReadDocument(s) \/ CheckUpstream(s) \/ CheckAnyJob(s)
      PROVE  RowsOK'
  <2>1. /\ \E x \in {"check", "defer", "ask", "any", "fail", "finish"} : step' = [step EXCEPT ![s] = x]
        /\ step[s] \in {"slot", "check", "any"}
        /\ active' = active /\ owns' = owns /\ disturbed' = disturbed
    BY <1>9 DEF ReadDocument, CheckUpstream, CheckAnyJob, Goto, NoText, rows
  <2> QED
    BY <1>8, <2>1 DEF Steps
<1>10. CASE StartExtract \/ ReadFile \/ StoreText \/ Park
  <2>1. /\ \E x \in {"extract", "store", "park", "finish", "drop"} :
             step' = [step EXCEPT !["text_extract"] = x]
        /\ step["text_extract"] \in {"start", "extract", "store", "park"}
        /\ active' = active /\ owns' = owns /\ disturbed' = disturbed
    BY <1>10 DEF StartExtract, ReadFile, StoreText, Park, Goto, rows
  <2> QED
    BY <1>8, <2>1 DEF Steps
<1>11. CASE StoreCategory \/ DeleteEmbedding \/ InsertEmbedding
  <2>1. /\ \E s \in Services : /\ step[s] \in {"ask", "insert"}
                               /\ \E x \in {"finish", "insert"} : step' = [step EXCEPT ![s] = x]
        /\ active' = active /\ owns' = owns /\ disturbed' = disturbed
    BY <1>11 DEF StoreCategory, DeleteEmbedding, InsertEmbedding, Goto, rows
  <2> QED
    BY <1>8, <2>1 DEF Steps
<1>12. ASSUME NEW s \in Services, Unavailable(s) \/ JobFails(s) PROVE RowsOK'
  <2>1. /\ \E x \in {"defer", "fail"} : step' = [step EXCEPT ![s] = x]
        /\ step[s] \notin {"idle", "report"}
        /\ active' = active /\ owns' = owns /\ disturbed' = disturbed
    BY <1>12 DEF Unavailable, JobFails, rows
  <2> QED
    BY <1>8, <2>1 DEF Steps
<1>13. ASSUME NEW c \in Clients, InsertJob(c) PROVE RowsOK'
  <2>1. /\ \A s \in Services : active[s] # "none" => active'[s] # "none"
        /\ step' = step /\ owns' = owns
        /\ ~disturbed' => ~disturbed
    BY <1>13 DEF InsertJob, Inserted, work
  <2> QED
    BY <2>1
<1>14. ASSUME NEW c \in Clients,
              WriteFile(c) \/ SetStatus(c) \/ DropSettled(c) \/ RefreshBudget(c) \/ RequestFails(c)
       PROVE  RowsOK'
  BY <1>1, <1>14 DEF WriteFile, SetStatus, DropSettled, RefreshBudget, RequestFails, rows, work
<1>15. ASSUME NEW c \in Clients, NEW kind \in Requests, Request(c, kind) PROVE RowsOK'
  <2>1. UNCHANGED <<active, step, owns>>
    BY <1>15 DEF Request, rows, work
  <2>2. CASE ~disturbed' => ~disturbed
    BY <1>1, <2>1, <2>2
  <2>3. CASE ~(~disturbed' => ~disturbed)
    <3>1. AtRestBut({c})
      BY <1>15, <2>3, Zenon DEF Request
    <3>2. \A s \in Services : step[s] = "idle"
      BY <3>1 DEF AtRestBut
    <3> QED
      BY <2>1, <3>2
  <2> QED
    BY <2>2, <2>3
<1>16. CASE CancelQueue
  BY <1>16 DEF CancelQueue
<1>17. CASE RetryFailed
  <2>1. /\ \A s \in Services : active[s] # "none" => active'[s] # "none"
        /\ step' = step /\ owns' = owns
        /\ ~disturbed' => ~disturbed
    BY <1>17 DEF RetryFailed, work
  <2> QED
    BY <2>1
<1>18. CASE Crash
  BY <1>18 DEF Crash
<1>19. CASE ResetStuckJobs
  BY <1>19 DEF ResetStuckJobs, StuckReset
<1>20. CASE HealthChanges \/ Quiet \/ UNCHANGED vars
  BY <1>1, <1>20 DEF HealthChanges, Quiet, vars, rows, doc, work
<1> QED
  BY <1>2, <1>3, <1>4, <1>5, <1>6, <1>7, <1>9, <1>10, <1>11, <1>12, <1>13, <1>14, <1>15, <1>16,
     <1>17, <1>18, <1>19, <1>20 DEF Next, Job, Serve

(* What a request has promised to queue is still to come after any step:    *)
(* it is queued, and then nobody has the row, or the loss is recorded.      *)
LEMMA PromiseKept ==
  ASSUME Typed, RequestsOK, RowsOK, [Next]_vars, ~disturbed', NEW s \in Services, Promised(s)
  PROVE  Comes(s)'
<1> USE ServiceNames DEF Typed, RequestsTyped
<1>0. PICK c \in Clients : InTodo(c, s)
  BY DEF Promised
<1>n. req[c].todo \in Todos /\ req[c].todo # << >> /\ req[c].at # "idle"
  BY <1>0, InTodoMeans DEF RequestsOK, Rest, InTodo
<1>k. ASSUME req'[c].todo = req[c].todo PROVE Comes(s)'
  <2>1. InTodo(c, s)'
    BY <1>0, <1>k DEF InTodo
  <2> QED
    BY <2>1 DEF Comes, Promised
<1>1. CASE UNCHANGED req
  BY <1>k, <1>1
<1>2. ASSUME NEW t \in Services, Claim(t) \/ Job(t) \/ Unavailable(t) \/ JobFails(t)
      PROVE  Comes(s)'
  BY <1>1, <1>2 DEF Claim, Job, Finish, Fail, Report, Defer, ReadDocument, CheckUpstream,
       CheckAnyJob, StartExtract, ReadFile, StoreText, Park, DropJobs, StoreCategory,
       DeleteEmbedding, InsertEmbedding, Unavailable, JobFails
<1>3. ASSUME NEW d \in Clients, WriteFile(d) \/ SetStatus(d) \/ DropSettled(d) \/ RefreshBudget(d)
      PROVE  Comes(s)'
  <2>1. req'[c].todo = req[c].todo
    BY <1>3 DEF WriteFile, SetStatus, DropSettled, RefreshBudget
  <2> QED
    BY <1>k, <2>1
<1>4. ASSUME NEW d \in Clients, InsertJob(d), d # c PROVE Comes(s)'
  <2>1. req'[c] = req[c]
    BY <1>4 DEF InsertJob
  <2> QED
    BY <1>k, <2>1
<1>5. CASE InsertJob(c)
  <2> DEFINE w == req[c].todo
  <2>1. CASE s = Head(w)
    <3>1. active'[s] # "none" /\ owns' = owns
      BY <1>5, <2>1 DEF InsertJob, Inserted, RowsTyped, work
    <3>2. s \notin owns
      <4>1. ~(active[s] # "none" /\ step[s] # "idle")
        BY <1>5, <2>1, Zenon DEF InsertJob
      <4> QED
        BY <4>1 DEF RowsOK
    <3> QED
      BY <3>1, <3>2 DEF Comes, Unclaimed
  <2>2. CASE s # Head(w)
    <3>1. \/ w = DOCUMENT_SERVICES /\ s \in {"classify", "embed"}
          \/ w = <<"classify", "embed">> /\ s = "embed"
      <4>1. Head(<<"embed">>) = "embed"
        OBVIOUS
      <4>2. /\ Head(w) = "text_extract" <=> w = DOCUMENT_SERVICES
            /\ Head(w) = "classify" <=> w = <<"classify", "embed">>
        BY <1>n, TodoTail
      <4>3. /\ s = "text_extract" => w = DOCUMENT_SERVICES
            /\ s = "classify" => w \in {<<"classify", "embed">>, DOCUMENT_SERVICES}
        BY <1>0, InTodoMeans
      <4>4. w \in {<<"embed">>, <<"classify", "embed">>, DOCUMENT_SERVICES}
        BY <1>n DEF Todos
      <4>5. CASE w = DOCUMENT_SERVICES
        BY <2>2, <4>2, <4>5
      <4>6. CASE w = <<"classify", "embed">> /\ w # DOCUMENT_SERVICES
        BY <2>2, <4>2, <4>3, <4>6
      <4>7. CASE w = <<"embed">> /\ w # DOCUMENT_SERVICES
        <5>1. w # <<"classify", "embed">>
          BY <4>7
        <5>2. s = "embed"
          BY <4>3, <4>7, <5>1
        <5> QED
          BY <2>2, <4>1, <4>7, <5>2
      <4> QED
        BY <4>4, <4>5, <4>6, <4>7
    <3>2. Len(w) # 1
      <4>1. <<"embed">> # <<"classify", "embed">> /\ <<"embed">> # DOCUMENT_SERVICES
        BY DEF DOCUMENT_SERVICES
      <4>2. Len(w) = 1 <=> w = <<"embed">>
        BY <1>n, TodoTail
      <4> HIDE DEF w
      <4> QED
        BY <3>1, <4>1, <4>2
    <3>3. req'[c].todo = Tail(w)
      BY <1>5, <3>2 DEF InsertJob
    <3>4. w = DOCUMENT_SERVICES => Tail(w) = <<"classify", "embed">>
      BY <1>n, TodoTail
    <3>5. w = <<"classify", "embed">> => Tail(w) = <<"embed">>
      BY <1>n, TodoTail
    <3>6. ASSUME req'[c].todo = <<"embed">>, s = "embed" PROVE InTodo(c, s)'
      <4>1. 1 \in DOMAIN req'[c].todo /\ req'[c].todo[1] = s
        BY <3>6
      <4> QED
        BY <4>1, Zenon DEF InTodo
    <3>8. ASSUME req'[c].todo = <<"classify", "embed">>, s \in {"classify", "embed"} PROVE InTodo(c, s)'
      <4>1. \E i \in {1, 2} : i \in DOMAIN req'[c].todo /\ req'[c].todo[i] = s
        BY <3>8
      <4> QED
        BY <4>1, Zenon DEF InTodo
    <3>7. InTodo(c, s)'
      BY <3>1, <3>3, <3>4, <3>5, <3>6, <3>8
    <3> QED
      BY <3>7 DEF Comes, Promised
  <2> QED
    BY <2>1, <2>2
<1>6. ASSUME NEW d \in Clients, RequestFails(d) PROVE Comes(s)'
  BY <1>6 DEF RequestFails
<1>7. ASSUME NEW d \in Clients, NEW kind \in Requests, Request(d, kind) PROVE Comes(s)'
  <2>1. d # c
    BY <1>7, <1>n DEF Request
  <2>2. req'[c] = req[c]
    BY <1>7, <2>1 DEF Request
  <2> QED
    BY <1>k, <2>2
<1>8. CASE Crash
  BY <1>8, <1>n DEF Crash
<1>9. CASE CancelQueue \/ RetryFailed \/ ResetStuckJobs \/ HealthChanges \/ Quiet \/ UNCHANGED vars
  BY <1>1, <1>9 DEF CancelQueue, RetryFailed, ResetStuckJobs, HealthChanges, Quiet, vars
<1> QED
  BY <1>2, <1>3, <1>4, <1>5, <1>6, <1>7, <1>8, <1>9 DEF Next, Serve

(* A row nobody has at hand stays in the table until a worker claims it.    *)
LEMMA RowKept ==
  ASSUME Typed, RowsOK, [Next]_vars, ~disturbed', ~DropJobs,
         NEW s \in Services, ~Claim(s), Unclaimed(s)
  PROVE  Unclaimed(s)'
<1> USE ServiceNames DEF Typed, RowsTyped, WorkTyped, Unclaimed
<1>1. CASE UNCHANGED <<active, owns>>
  BY <1>1
<1>2. ASSUME NEW t \in Services, Claim(t) PROVE Unclaimed(s)'
  <2>1. t # s
    BY <1>2
  <2> QED
    BY <1>2, <2>1 DEF Claim
<1>3. ASSUME NEW t \in Services, Finish(t) \/ Fail(t) \/ Defer(t) PROVE Unclaimed(s)'
  <2>1. \A u \in owns' : u \in owns
    BY <1>3 DEF Finish, Fail, Defer, Settle
  <2>2. active'[s] # "none"
    <3>1. CASE Finish(t)
      BY <3>1 DEF Finish, Settle
    <3>2. CASE Fail(t)
      BY <3>2 DEF Fail, Settle
    <3>3. CASE Defer(t)
      BY <3>3 DEF Defer
    <3> QED
      BY <1>3, <3>1, <3>2, <3>3
  <2> QED
    BY <2>1, <2>2
<1>4. ASSUME NEW t \in Services, Job(t) \/ Unavailable(t) \/ JobFails(t) PROVE Unclaimed(s)'
  BY <1>1, <1>3, <1>4 DEF Job, Report, ReadDocument, CheckUpstream, CheckAnyJob, StartExtract,
       ReadFile, StoreText, Park, StoreCategory, DeleteEmbedding, InsertEmbedding, Unavailable,
       JobFails, rows
<1>5. ASSUME NEW c \in Clients, Serve(c) \/ RequestFails(c) PROVE Unclaimed(s)'
  <2>1. CASE InsertJob(c)
    BY <2>1 DEF InsertJob, Inserted, work
  <2> QED
    BY <1>1, <1>5, <2>1 DEF Serve, WriteFile, SetStatus, DropSettled, RefreshBudget, RequestFails,
         rows, work
<1>6. ASSUME NEW c \in Clients, NEW kind \in Requests, Request(c, kind) PROVE Unclaimed(s)'
  BY <1>1, <1>6 DEF Request, rows, work
<1>7. CASE CancelQueue
  BY <1>7 DEF CancelQueue
<1>8. CASE RetryFailed
  BY <1>8 DEF RetryFailed, work
<1>9. CASE Crash
  BY <1>9 DEF Crash, rows
<1>10. CASE ResetStuckJobs
  BY <1>10 DEF ResetStuckJobs, StuckReset
<1>11. CASE HealthChanges \/ Quiet \/ UNCHANGED vars
  BY <1>1, <1>11 DEF HealthChanges, Quiet, vars, rows, doc, work
<1> QED
  BY <1>2, <1>4, <1>5, <1>6, <1>7, <1>8, <1>9, <1>10, <1>11 DEF Next

LEMMA ComesStays ==
  ASSUME Typed, RequestsOK, RowsOK, [Next]_vars, ~disturbed', ~DropJobs,
         NEW s \in Services, ~Claim(s), Comes(s)
  PROVE  Comes(s)'
  BY PromiseKept, RowKept DEF Comes

(* The history is cleared only by a full re-queue of a document at rest.     *)
LEMMA ClearedAtRest ==
  ASSUME Typed, [Next]_vars, ~disturbed', disturbed
  PROVE  \E c \in Clients : /\ UNCHANGED <<rows, doc, work, faults>>
                            /\ req' = [req EXCEPT ![c] = req'[c]]
                            /\ AtRestBut({c})
                            /\ \A s \in Services : InTodo(c, s)'
<1>1. PICK c \in Clients, kind \in Requests : Request(c, kind)
  BY Zenon DEF Next, Job, Serve, Claim, Finish, Fail, Report, Defer, ReadDocument, CheckUpstream,
     CheckAnyJob, StartExtract, ReadFile, StoreText, Park, DropJobs, StoreCategory,
     DeleteEmbedding, InsertEmbedding, Unavailable, JobFails, WriteFile, SetStatus,
     DropSettled, RefreshBudget, InsertJob, RequestFails, CancelQueue, RetryFailed, Crash,
     ResetStuckJobs, HealthChanges, Quiet, vars
<1>2. kind \in {"replace", "rerun"} /\ AtRestBut({c})
  BY <1>1, Zenon DEF Request
<1>3. UNCHANGED <<rows, doc, work, faults>>
  BY <1>1 DEF Request
<1>4. req' = [req EXCEPT ![c] = [at |-> FirstStatement(kind), kind |-> kind,
                                 todo |-> ServicesOf(kind)]]
  BY <1>1 DEF Request
<1>5. req'[c].todo = DOCUMENT_SERVICES
  BY <1>2, <1>4 DEF ServicesOf, Typed, RequestsTyped
<1>6. \A s \in Services : \E i \in {1, 2, 3} : i \in DOMAIN req'[c].todo /\ req'[c].todo[i] = s
  BY <1>5 DEF Services, DOCUMENT_SERVICES
<1>7. \A s \in Services : InTodo(c, s)'
  BY <1>6, Zenon DEF InTodo
<1>8. req' = [req EXCEPT ![c] = req'[c]]
  BY <1>4 DEF Typed, RequestsTyped
<1> QED
  BY <1>2, <1>3, <1>7, <1>8

(* Whoever queues a text_extract queues its readers behind it.               *)
LEMMA ReadersFollowStep ==
  Typed /\ RequestsOK /\ RowsOK /\ ReadersFollow /\ [Next]_vars => ReadersFollow'
<1> SUFFICES ASSUME Typed, RequestsOK, RowsOK, ReadersFollow, [Next]_vars,
                    ~disturbed', active'["text_extract"] # "none", NEW r \in Readers
             PROVE  Comes(r)'
  BY DEF ReadersFollow
<1> USE ServiceNames DEF Typed, RowsTyped
<1>1. CASE disturbed
  BY <1>1, ClearedAtRest DEF rows, AtRestBut
<1>2. CASE ~disturbed /\ active["text_extract"] # "none"
  <2>1. ~DropJobs
    BY DEF DropJobs
  <2>2. ~Claim(r)
    BY <1>2 DEF Claim, UpstreamReady, Outstanding
  <2>3. Comes(r)
    BY <1>2 DEF ReadersFollow
  <2> QED
    BY <2>1, <2>2, <2>3, ComesStays
<1>3. CASE ~disturbed /\ active["text_extract"] = "none"
  <2>1. \E c \in Clients : InsertJob(c)
    <3>1. ASSUME NEW s \in Services, Claim(s) \/ Finish(s) \/ Fail(s) PROVE FALSE
      BY <1>3, <3>1 DEF Claim, Finish, Fail, Settle
    <3>2. ASSUME NEW s \in Services, Defer(s) PROVE FALSE
      BY <1>3, <3>2 DEF Defer, RowsOK
    <3>3. ASSUME NEW s \in Services, Job(s) \/ Unavailable(s) \/ JobFails(s) PROVE FALSE
      BY <1>3, <3>1, <3>2, <3>3 DEF Job, Report, ReadDocument, CheckUpstream, CheckAnyJob, StartExtract,
         ReadFile, StoreText, Park, DropJobs, StoreCategory, DeleteEmbedding, InsertEmbedding, Unavailable,
         JobFails, rows
    <3>4. ~RetryFailed
      BY <1>3 DEF RetryFailed
    <3>5. CASE CancelQueue \/ Crash \/ ResetStuckJobs \/ HealthChanges \/ Quiet \/ UNCHANGED vars
      BY <1>3, <3>5 DEF CancelQueue, Crash, ResetStuckJobs, StuckReset, HealthChanges, Quiet, vars, rows
    <3>6. ASSUME NEW c \in Clients, NEW kind \in Requests, Request(c, kind) PROVE FALSE
      BY <1>3, <3>6 DEF Request, rows
    <3>7. ASSUME NEW c \in Clients, Serve(c) \/ RequestFails(c), ~InsertJob(c) PROVE FALSE
      BY <1>3, <3>7 DEF Serve, WriteFile, SetStatus, DropSettled, RefreshBudget, RequestFails, rows
    <3> QED
      BY <3>1, <3>3, <3>4, <3>5, <3>6, <3>7 DEF Next
  <2>2. PICK c \in Clients : InsertJob(c)
    BY <2>1
  <2>3. Head(req[c].todo) = "text_extract"
    BY <1>3, <2>2 DEF InsertJob, Inserted
  <2>4. req[c].todo \in Todos /\ req[c].todo # << >>
    BY <2>2 DEF InsertJob, RequestsTyped
  <2>5. InTodo(c, r)
    BY <2>3, <2>4, TodoTail, InTodoMeans
  <2> QED
    BY <2>5, PromiseKept DEF Promised
<1> QED
  BY <1>1, <1>2, <1>3

Over == {"ready", "failed", "encrypted"}

(* A status that is over is left only by a request, or by a text_extract     *)
(* that starts.                                                              *)
LEMMA StatusReopened ==
  ASSUME Typed, [Next]_vars, status \in Over, status' \notin Over
  PROVE  StartExtract \/ \E c \in Clients : SetStatus(c)
<1> USE DEF Over
<1>1. ASSUME NEW s \in Services, Job(s) \/ Claim(s) \/ Unavailable(s) \/ JobFails(s), ~StartExtract
      PROVE FALSE
  BY <1>1 DEF Job, Claim, Finish, Fail, Report, Defer, ReadDocument, CheckUpstream, CheckAnyJob,
     ReadFile, StoreText, NextStatus, Waiting, Park, DropJobs, StoreCategory, DeleteEmbedding,
     InsertEmbedding, Unavailable, JobFails, doc
<1>2. ASSUME NEW c \in Clients, Serve(c) \/ RequestFails(c), ~SetStatus(c) PROVE FALSE
  BY <1>2 DEF Serve, WriteFile, DropSettled, RefreshBudget, InsertJob, RequestFails, doc
<1>3. ASSUME NEW c \in Clients, NEW kind \in Requests, Request(c, kind) PROVE FALSE
  BY <1>3 DEF Request, doc
<1>4. CASE CancelQueue \/ RetryFailed \/ Crash \/ ResetStuckJobs \/ HealthChanges \/ Quiet \/ UNCHANGED vars
  BY <1>4 DEF CancelQueue, RetryFailed, Crash, ResetStuckJobs, HealthChanges, Quiet, vars, doc
<1> QED
  BY <1>1, <1>2, <1>3, <1>4 DEF Next

(* A classify at work ends as a job to come, as a failure to be reported, or *)
(* by making the document ready.                                             *)
LEMMA ClassifyEnds ==
  ASSUME Typed, RowsOK, [Next]_vars, ~DropJobs, ~disturbed', ~disturbed,
         "classify" \in owns, step["classify"] # "finish", ~StoreCategory
  PROVE  \/ Unclaimed("classify")'
         \/ "classify" \in owns' /\ step'["classify"] # "finish"
         \/ step'["classify"] = "report"
<1> USE ServiceNames DEF Typed, RowsTyped, WorkTyped, Unclaimed
<1>0. active["classify"] # "none"
  BY DEF RowsOK
<1>1. CASE UNCHANGED <<owns, step>>
  BY <1>1
<1>2. ASSUME NEW s \in Services, s # "classify",
             Claim(s) \/ Job(s) \/ Unavailable(s) \/ JobFails(s)
      PROVE  step'["classify"] = step["classify"] /\ "classify" \in owns'
  BY <1>2 DEF Claim, Job, Finish, Fail, Settle, Report, Defer, ReadDocument, CheckUpstream, CheckAnyJob,
     StartExtract, ReadFile, StoreText, Park, StoreCategory, DeleteEmbedding, InsertEmbedding, Unavailable,
     JobFails, Goto
<1>3. CASE Claim("classify")
  BY <1>3 DEF Claim, Goto
<1>4. CASE Fail("classify")
  BY <1>4 DEF Fail, Goto
<1>5. CASE Defer("classify")
  BY <1>0, <1>5 DEF Defer
<1>6. CASE Finish("classify") \/ Report("classify")
  BY <1>6 DEF Finish, Report, Goto, RowsOK
<1>7. CASE ReadDocument("classify") \/ CheckUpstream("classify") \/ CheckAnyJob("classify")
  BY <1>7 DEF ReadDocument, CheckUpstream, CheckAnyJob, Goto, NoText
<1>8. CASE Unavailable("classify") \/ JobFails("classify")
  BY <1>8 DEF Unavailable, JobFails
<1>9. ASSUME NEW s \in Services, Claim(s) \/ Job(s) \/ Unavailable(s) \/ JobFails(s)
      PROVE  \/ Unclaimed("classify")'
             \/ "classify" \in owns' /\ step'["classify"] # "finish"
             \/ step'["classify"] = "report"
  <2>1. CASE s = "classify"
    BY <1>3, <1>4, <1>5, <1>6, <1>7, <1>8, <1>9, <2>1 DEF Job
  <2> QED
    BY <1>2, <1>9, <2>1
<1>10. ASSUME NEW c \in Clients, Serve(c) \/ RequestFails(c)
       PROVE UNCHANGED <<owns, step>>
  BY <1>10 DEF Serve, WriteFile, SetStatus, DropSettled, RefreshBudget, InsertJob, RequestFails, work
<1>11. ASSUME NEW c \in Clients, NEW kind \in Requests, Request(c, kind)
       PROVE  UNCHANGED <<owns, step>>
  BY <1>11 DEF Request, work
<1>12. CASE CancelQueue
  BY <1>12 DEF CancelQueue
<1>13. CASE Crash
  BY <1>0, <1>13 DEF Crash, rows
<1>14. CASE RetryFailed \/ ResetStuckJobs \/ HealthChanges \/ Quiet \/ UNCHANGED vars
  BY <1>1, <1>14 DEF RetryFailed, ResetStuckJobs, HealthChanges, Quiet, vars, work
<1> QED
  BY <1>1, <1>9, <1>10, <1>11, <1>12, <1>13, <1>14 DEF Next

(* A failure about to be reported is reported, or its loss is recorded.      *)
LEMMA ReportsEnd ==
  ASSUME Typed, [Next]_vars, ~disturbed', ~disturbed, NEW s \in Services, step[s] = "report"
  PROVE  step'[s] = "report" \/ status' = "failed"
<1> USE ServiceNames DEF Typed, WorkTyped
<1>1. ASSUME NEW t \in Services, Claim(t) \/ Job(t) \/ Unavailable(t) \/ JobFails(t)
      PROVE  step'[s] = "report" \/ status' = "failed"
  <2>1. CASE Report(s)
    BY <2>1 DEF Report
  <2>2. ~Report(s) => step'[s] = step[s]
    BY <1>1 DEF Claim, Job, Finish, Fail, Report, Defer, ReadDocument, CheckUpstream, CheckAnyJob,
       StartExtract, ReadFile, StoreText, Park, DropJobs, StoreCategory, DeleteEmbedding, InsertEmbedding,
       Unavailable, JobFails, Goto
  <2> QED
    BY <2>1, <2>2
<1>2. ASSUME NEW c \in Clients, Serve(c) \/ RequestFails(c) PROVE UNCHANGED step
  BY <1>2 DEF Serve, WriteFile, SetStatus, DropSettled, RefreshBudget, InsertJob, RequestFails, work
<1>3. ASSUME NEW c \in Clients, NEW kind \in Requests, Request(c, kind) PROVE UNCHANGED step
  BY <1>3 DEF Request, work
<1>4. ~Crash
  BY DEF Crash
<1>5. CASE CancelQueue \/ RetryFailed \/ ResetStuckJobs \/ HealthChanges \/ Quiet \/ UNCHANGED vars
  BY <1>5 DEF CancelQueue, RetryFailed, ResetStuckJobs, HealthChanges, Quiet, vars, work
<1> QED
  BY <1>1, <1>2, <1>3, <1>4, <1>5 DEF Next

LEMMA CarriedStep == Typed /\ Flow /\ [Next]_vars => Carried'
<1> SUFFICES ASSUME Typed, Flow, [Next]_vars, ~disturbed', status' \notin Over
             PROVE  \/ Comes("classify")'
                    \/ "classify" \in owns' /\ step'["classify"] # "finish"
                    \/ step'["text_extract"] = "report"
                    \/ step'["classify"] = "report"
  BY DEF Carried, Over
<1> USE ServiceNames DEF Flow
<1>1. CASE disturbed
  BY <1>1, ClearedAtRest DEF Comes, Promised
<1>2. CASE ~disturbed /\ DropJobs
  BY <1>2 DEF DropJobs, doc, Over
<1>3. CASE ~disturbed /\ ~DropJobs /\ Comes("classify")
  <2>1. CASE Claim("classify")
    BY <2>1 DEF Claim, Goto, Typed, WorkTyped
  <2>2. CASE ~Claim("classify")
    BY <1>3, <2>2, ComesStays
  <2> QED
    BY <2>1, <2>2
<1>4. CASE ~disturbed /\ ~DropJobs /\ ~Comes("classify")
  <2>1. status \notin Over
    <3>1. ~StartExtract
      <4>1. SUFFICES ASSUME StartExtract PROVE FALSE
        OBVIOUS
      <4>2. step["text_extract"] = "start"
        BY <4>1 DEF StartExtract, Goto
      <4>3. active["text_extract"] # "none"
        BY <1>4, <4>2 DEF RowsOK
      <4> QED
        BY <1>4, <4>3 DEF ReadersFollow
    <3>2. ASSUME NEW c \in Clients, SetStatus(c) PROVE FALSE
      <4>1. req[c].todo \in {<<"classify", "embed">>, DOCUMENT_SERVICES}
        BY <3>2 DEF SetStatus, RequestsOK, Rest
      <4> QED
        BY <1>4, <4>1, InTodoMeans DEF Comes, Promised
    <3> QED
      BY <3>1, <3>2, StatusReopened
  <2>2. ~StoreCategory /\ status' # "failed"
    BY DEF StoreCategory, Over
  <2>3. \/ "classify" \in owns /\ step["classify"] # "finish"
        \/ step["text_extract"] = "report"
        \/ step["classify"] = "report"
    BY <1>4, <2>1 DEF Carried, Over
  <2> QED
    BY <1>4, <2>2, <2>3, ClassifyEnds, ReportsEnd DEF Comes
<1> QED
  BY <1>1, <1>2, <1>3, <1>4

LEMMA FlowInit == Init => Flow
<1> SUFFICES ASSUME Init PROVE Flow
  OBVIOUS
<1>1. PICK c \in Clients : req = [d \in Clients |->
                IF d = c THEN [at |-> "insert", kind |-> "upload",
                               todo |-> DOCUMENT_SERVICES]
                         ELSE Idle]
  BY DEF Init
<1>2. RequestsOK
  BY <1>1 DEF RequestsOK, Rest, Idle, DOCUMENT_SERVICES
<1>3. RowsOK
  BY DEF Init, RowsOK, Services
<1>4. Promised("classify") /\ Promised("embed")
  BY <1>1, TypedInit, InTodoMeans DEF Promised, DOCUMENT_SERVICES
<1> QED
  BY <1>2, <1>3, <1>4, ServiceNames DEF Flow, ReadersFollow, Carried, Comes

LEMMA FlowHolds == Spec => [](Typed /\ Flow)
<1>1. Init => Typed /\ Flow
  BY TypedInit, FlowInit
<1>2. Typed /\ Flow /\ [Next]_vars => (Typed /\ Flow)'
  BY TypedStep, RequestsOKStep, RowsOKStep, ReadersFollowStep, CarriedStep DEF Flow
<1> QED
  BY <1>1, <1>2, PTL DEF Spec

(* A document whose jobs are all over shows ready, failed or encrypted, for  *)
(* any number of requests, failed jobs, failed statements and restarts,      *)
(* unless its run lost a job: neither the forward-only status of             *)
(* runTextExtract nor runClassify nor requeueDocument leaves it waiting.     *)
THEOREM SettledInTheEnd == Spec => []Settled
<1>1. Typed /\ Flow => Settled
  <2> SUFFICES ASSUME Typed, Flow, AtRest, ~disturbed PROVE status \in Over
    BY DEF Settled, Over
  <2>1. \A s \in Services : active[s] = "none" /\ step[s] = "idle"
    BY DEF AtRest, AtRestBut
  <2>2. ~Promised("classify")
    <3>1. \A c \in Clients : req[c].at = "idle"
      BY DEF AtRest, AtRestBut
    <3>2. \A c \in Clients : req[c].todo = << >>
      BY <3>1 DEF Flow, RequestsOK, Rest
    <3> QED
      BY <3>2, InTodoMeans DEF Promised, DOCUMENT_SERVICES
  <2>3. "classify" \notin owns
    BY <2>1, ServiceNames DEF Flow, RowsOK
  <2> QED
    BY <2>1, <2>2, <2>3, ServiceNames DEF Flow, Carried, Comes, Unclaimed, Over
<1> QED
  BY <1>1, FlowHolds, PTL

-----------------------------------------------------------------------------
(* A document that ends ready is classified from what its file says.         *)

Cur    == IF file.kind = "text" THEN file.version ELSE 0
Locked == file.kind = "locked"

(* The text is that of the file, or a text_extract is there to read it, or   *)
(* one has failed.                                                           *)
TextCurrent ==
  ~disturbed =>
    \/ text = Cur \/ Comes("text_extract") \/ failed["text_extract"] > 0 \/ Locked
    \/ /\ "text_extract" \in owns
       /\ \/ step["text_extract"] \in {"start", "extract", "fail"}
          \/ step["text_extract"] = "store" /\ seen["text_extract"].text = Cur

AtWork(s) == step[s] \in {"slot", "check", "any", "ask"}

(* The requests whose next row is that of classify.                          *)
Owed == {c \in Clients : req[c].todo = <<"classify", "embed">>}

(* Behind a classify at work, a text_extract queued meanwhile brings another *)
(* classify with it: while the row of the first stands the request has yet   *)
(* to queue its own, and where the row is gone there is a second to do so.   *)
Kept ==
  ~disturbed /\ AtWork("classify") =>
    /\ active["text_extract"] # "none" \/ active["classify"] = "none" => Owed # {}
    /\ active["text_extract"] # "none" /\ active["classify"] = "none" =>
         \E c, d \in Owed : c # d

(* What a job holds in its hands is what it would read now, or the job that  *)
(* makes good for it is still to come.                                       *)
ReadOK ==
  ~disturbed =>
    /\ step["text_extract"] = "store" =>
         seen["text_extract"].text = Cur \/ Promised("text_extract")
    /\ step["text_extract"] \in {"park", "drop"} => Locked \/ Promised("text_extract")
    /\ step["classify"] \in {"check", "any", "ask"} =>
         seen["classify"].text = text \/ Comes("classify")

AsksAboutText == step["classify"] = "ask" => seen["classify"].text # 0

ReadyHasCategory == status = "ready" => category # 0

CategoryCurrent ==
  ~disturbed /\ status = "ready" =>
    \/ category = text \/ Comes("classify")
    \/ "classify" \in owns /\ step["classify"] # "finish"
    \/ step["classify"] = "report"

Reading ==
  /\ TextCurrent /\ Kept /\ ReadOK
  /\ AsksAboutText /\ ReadyHasCategory /\ CategoryCurrent

(* Who writes the file, the text and the category of a document, and makes   *)
(* it ready.                                                                 *)
LEMMA WhoWrites ==
  ASSUME Typed, [Next]_vars
  PROVE  /\ file' # file => \E c \in Clients : WriteFile(c)
         /\ text' # text => StoreText
         /\ category' # category => StoreCategory
         /\ status' = "ready" /\ status # "ready" => StoreCategory
<1> DEFINE Same == UNCHANGED <<file, text, category>> /\ (status' = "ready" => status = "ready")
<1>1. ASSUME NEW s \in Services, Job(s) \/ Claim(s) \/ Unavailable(s) \/ JobFails(s),
             ~StoreText, ~StoreCategory
      PROVE  Same
  BY <1>1 DEF Job, Claim, Finish, Fail, Report, Defer, ReadDocument, CheckUpstream, CheckAnyJob,
     StartExtract, ReadFile, Park, DropJobs, DeleteEmbedding, InsertEmbedding, Unavailable, JobFails, doc
<1>2. StoreText => file' = file /\ category' = category /\ (status' = "ready" => status = "ready")
  BY DEF StoreText, NextStatus
<1>3. StoreCategory => file' = file /\ text' = text
  BY DEF StoreCategory
<1>4. ASSUME NEW c \in Clients, Serve(c) \/ RequestFails(c), ~WriteFile(c) PROVE Same
  BY <1>4 DEF Serve, SetStatus, DropSettled, RefreshBudget, InsertJob, RequestFails, doc
<1>5. ASSUME NEW c \in Clients, WriteFile(c)
      PROVE  text' = text /\ category' = category /\ status' = status
  BY <1>5 DEF WriteFile
<1>6. ASSUME NEW c \in Clients, NEW kind \in Requests, Request(c, kind) PROVE Same
  BY <1>6 DEF Request, doc
<1>7. CASE CancelQueue \/ RetryFailed \/ Crash \/ ResetStuckJobs \/ HealthChanges \/ Quiet \/ UNCHANGED vars
  BY <1>7 DEF CancelQueue, RetryFailed, Crash, ResetStuckJobs, HealthChanges, Quiet, vars, doc
<1> QED
  BY <1>1, <1>2, <1>3, <1>4, <1>5, <1>6, <1>7 DEF Next

(* The file changes only under a request that has yet to queue all services. *)
LEMMA FilePromises ==
  ASSUME Typed, Flow, [Next]_vars, file' # file
  PROVE  /\ Promised("text_extract") /\ Promised("classify")
         /\ Promised("text_extract")' /\ Promised("classify")'
<1>1. PICK c \in Clients : WriteFile(c)
  BY WhoWrites
<1>2. req[c].todo = DOCUMENT_SERVICES
  BY <1>1 DEF WriteFile, Flow, RequestsOK, Rest
<1>3. InTodo(c, "text_extract") /\ InTodo(c, "classify")
  BY <1>2, InTodoMeans
<1>4. req'[c].todo = req[c].todo
  BY <1>1 DEF WriteFile, Typed, RequestsTyped
<1>5. InTodo(c, "text_extract")' /\ InTodo(c, "classify")'
  BY <1>3, <1>4 DEF InTodo
<1> QED
  BY <1>3, <1>5 DEF Promised

(* A text_extract at work, undisturbed, has its readers to come behind it.   *)
LEMMA ExtractsBeforeReaders ==
  ASSUME Typed, Flow, ~disturbed,
         step["text_extract"] \in {"start", "extract", "store", "park", "drop"}
  PROVE  Comes("classify") /\ Comes("embed")
  BY ServiceNames DEF Flow, RowsOK, ReadersFollow

LEMMA TextCurrentStep == Typed /\ Flow /\ Reading /\ [Next]_vars => TextCurrent'
<1> SUFFICES ASSUME Typed, Flow, Reading, [Next]_vars, ~disturbed' PROVE TextCurrent'
  BY DEF TextCurrent
<1> USE ServiceNames DEF Typed, RowsTyped, WorkTyped
<1>1. CASE disturbed
  BY <1>1, ClearedAtRest DEF TextCurrent, Comes, Promised
<1>2. CASE ~disturbed /\ DropJobs
  <2>1. Locked \/ Promised("text_extract")
    BY <1>2 DEF Reading, ReadOK, DropJobs, Goto
  <2>2. Promised("text_extract") => Comes("text_extract")'
    BY PromiseKept DEF Flow
  <2>3. Locked => Locked'
    BY <1>2 DEF Locked, DropJobs, doc
  <2> QED
    BY <2>1, <2>2, <2>3 DEF TextCurrent
<1>3. CASE ~disturbed /\ Claim("text_extract")
  BY <1>3 DEF Claim, Goto, TextCurrent
<1>4. CASE ~disturbed /\ ~DropJobs /\ ~Claim("text_extract") /\ Comes("text_extract")
  BY <1>4, ComesStays DEF Flow, TextCurrent
<1>5. CASE ~disturbed /\ ~DropJobs /\ ~Comes("text_extract")
  <2>f. file' = file
    BY <1>5, FilePromises DEF Comes
  <2>1. CASE StoreText
    <3>1. seen["text_extract"].text = Cur
      BY <1>5, <2>1 DEF StoreText, Goto, Reading, ReadOK, Comes
    <3> QED
      BY <2>f, <2>1, <3>1 DEF StoreText, TextCurrent, Cur
  <2>2. CASE text = Cur /\ ~StoreText
    BY <2>f, <2>2, WhoWrites DEF TextCurrent, Cur
  <2>3. CASE Locked
    BY <2>f, <2>3 DEF TextCurrent, Locked
  <2>4. CASE failed["text_extract"] > 0
    <3>1. failed'["text_extract"] > 0
      <4>1. ASSUME NEW s \in Services, Job(s) \/ Claim(s) \/ Unavailable(s) \/ JobFails(s)
            PROVE  failed'["text_extract"] > 0
        BY <1>5, <2>4, <4>1 DEF Job, Claim, Finish, Fail, Report, Defer, ReadDocument, CheckUpstream, CheckAnyJob,
           StartExtract, ReadFile, StoreText, Park, StoreCategory, DeleteEmbedding,
           InsertEmbedding, Unavailable, JobFails, rows
      <4>2. ASSUME NEW c \in Clients, Serve(c) \/ RequestFails(c)
            PROVE  failed'["text_extract"] > 0
        <5>1. ~InTodo(c, "text_extract")
          BY <1>5 DEF Comes, Promised
        <5> QED
          BY <2>4, <4>2, <5>1 DEF Serve, WriteFile, SetStatus, DropSettled, RefreshBudget, InsertJob,
             RequestFails, rows
      <4>3. ASSUME NEW c \in Clients, NEW kind \in Requests, Request(c, kind)
            PROVE  failed'["text_extract"] > 0
        BY <2>4, <4>3 DEF Request, rows
      <4>4. ~RetryFailed
        BY <2>4 DEF RetryFailed
      <4>5. CASE CancelQueue \/ Crash \/ ResetStuckJobs \/ HealthChanges \/ Quiet \/ UNCHANGED vars
        BY <2>4, <4>5 DEF CancelQueue, Crash, ResetStuckJobs, HealthChanges, Quiet, vars, rows
      <4> QED
        BY <4>1, <4>2, <4>3, <4>4, <4>5 DEF Next
    <3> QED
      BY <3>1 DEF TextCurrent
  <2>5. CASE /\ ~StoreText /\ "text_extract" \in owns
             /\ \/ step["text_extract"] \in {"start", "extract", "fail"}
                \/ step["text_extract"] = "store" /\ seen["text_extract"].text = Cur
    <3> DEFINE Ends == \/ failed'["text_extract"] > 0
                       \/ Locked
                       \/ Unclaimed("text_extract")'
                       \/ /\ "text_extract" \in owns'
                          /\ \/ step'["text_extract"] \in {"start", "extract", "fail"}
                             \/ step'["text_extract"] = "store" /\ seen'["text_extract"].text = Cur
    <3> SUFFICES Ends
      BY <2>f DEF TextCurrent, Comes, Locked, Cur
    <3>0. active["text_extract"] # "none"
      BY <2>5 DEF Flow, RowsOK
    <3>u. CASE UNCHANGED <<step, owns, seen>>
      BY <2>5, <3>u
    <3>1. ASSUME NEW s \in Services, s # "text_extract",
                 Job(s) \/ Claim(s) \/ Unavailable(s) \/ JobFails(s)
          PROVE  Ends
      <4>1. /\ step'["text_extract"] = step["text_extract"]
            /\ seen'["text_extract"] = seen["text_extract"]
            /\ "text_extract" \in owns'
        BY <2>5, <3>1 DEF Job, Claim, Finish, Fail, Settle, Report, Defer, ReadDocument, CheckUpstream,
           CheckAnyJob, StoreCategory, DeleteEmbedding, InsertEmbedding, Unavailable, JobFails, Goto
      <4> QED
        BY <2>5, <4>1
    <3>2. CASE Fail("text_extract")
      BY <2>5, <3>2 DEF Fail
    <3>3. CASE StartExtract
      BY <2>5, <3>3 DEF StartExtract, Goto
    <3>4. CASE ReadFile
      <4>1. CASE file.kind = "locked"
        BY <4>1 DEF Locked
      <4>2. CASE file.kind # "locked"
        BY <2>5, <3>4, <4>2 DEF ReadFile, Goto, Cur
      <4> QED
        BY <4>1, <4>2
    <3>5. CASE JobFails("text_extract")
      BY <2>5, <3>5 DEF JobFails
    <3>6. ASSUME Job("text_extract") \/ Claim("text_extract") \/ Unavailable("text_extract"),
                 ~Fail("text_extract"), ~StartExtract, ~ReadFile
          PROVE  FALSE
      BY <1>5, <2>5, <3>6 DEF Job, Claim, Unavailable, Finish, Report, Defer, ReadDocument, CheckUpstream,
         CheckAnyJob, Park, Goto
    <3>7. CASE Crash
      BY <3>0, <3>7 DEF Crash, rows, Unclaimed
    <3>8. ASSUME NEW c \in Clients, Serve(c) \/ RequestFails(c) PROVE Ends
      BY <3>u, <3>8 DEF Serve, WriteFile, SetStatus, DropSettled, RefreshBudget, InsertJob, RequestFails, work
    <3>9. ASSUME NEW c \in Clients, NEW kind \in Requests, Request(c, kind) PROVE Ends
      BY <3>u, <3>9 DEF Request, work
    <3>10. CASE RetryFailed \/ ResetStuckJobs \/ HealthChanges \/ Quiet \/ UNCHANGED vars
      BY <3>u, <3>10 DEF RetryFailed, ResetStuckJobs, HealthChanges, Quiet, vars, work
    <3>11. ~CancelQueue
      BY DEF CancelQueue
    <3> QED
      BY <3>1, <3>2, <3>3, <3>4, <3>5, <3>6, <3>7, <3>8, <3>9, <3>10, <3>11 DEF Next
  <2> QED
    BY <1>5, <2>1, <2>2, <2>3, <2>4, <2>5 DEF Reading, TextCurrent
<1> QED
  BY <1>1, <1>2, <1>3, <1>4, <1>5

LEMMA KeptStep == Typed /\ Flow /\ Reading /\ [Next]_vars => Kept'
<1> SUFFICES ASSUME Typed, Flow, Kept, [Next]_vars, ~disturbed', AtWork("classify")'
             PROVE  /\ active'["text_extract"] # "none" \/ active'["classify"] = "none" => Owed' # {}
                    /\ active'["text_extract"] # "none" /\ active'["classify"] = "none" =>
                         \E c, d \in Owed' : c # d
  BY DEF Reading, Kept
<1> USE ServiceNames DEF Typed, RowsTyped, WorkTyped, RequestsTyped, AtWork
<1> DEFINE TX == "text_extract"
           CL == "classify"
<1>1. ~disturbed
  BY ClearedAtRest DEF AtRestBut, work
<1>k. ASSUME AtWork(CL), Owed \subseteq Owed',
             active'[TX] # "none" => active[TX] # "none",
             active'[CL] = "none" => active[CL] = "none"
      PROVE  /\ active'[TX] # "none" \/ active'[CL] = "none" => Owed' # {}
             /\ active'[TX] # "none" /\ active'[CL] = "none" => \E c, d \in Owed' : c # d
  BY <1>1, <1>k DEF Kept
<1>2. CASE Claim(CL)
  BY <1>2 DEF Claim, UpstreamReady, Outstanding
<1>3. CASE DropJobs
  <2>1. AtWork(CL) /\ active[TX] # "none"
    BY <1>1, <1>3 DEF DropJobs, Goto, Flow, RowsOK
  <2>2. Owed' = Owed /\ active'[TX] = "none"
    BY <1>3 DEF DropJobs, Owed
  <2> QED
    BY <1>1, <2>1, <2>2 DEF Kept
<1>4. ASSUME NEW c \in Clients, InsertJob(c)
      PROVE  /\ active'[TX] # "none" \/ active'[CL] = "none" => Owed' # {}
             /\ active'[TX] # "none" /\ active'[CL] = "none" => \E e, d \in Owed' : e # d
  <2> DEFINE w == req[c].todo
  <2>0. /\ AtWork(CL)
        /\ active' = [active EXCEPT ![Head(w)] = IF @ = "none" THEN "pending" ELSE @]
        /\ ~(active[Head(w)] # "none" /\ step[Head(w)] # "idle")
    BY <1>4 DEF InsertJob, Inserted, work
  <2>1. w \in Todos /\ w # << >>
    BY <1>4 DEF InsertJob
  <2>2. \A d \in Owed \ {c} : d \in Owed'
    BY <1>4 DEF InsertJob, Owed
  <2>3. CASE w = DOCUMENT_SERVICES
    <3>1. Head(w) = TX /\ Len(w) # 1 /\ Tail(w) = <<"classify", "embed">>
      BY <2>3 DEF DOCUMENT_SERVICES
    <3>2. c \in Owed'
      BY <1>4, <3>1 DEF InsertJob, Owed
    <3>3. c \notin Owed
      BY <2>3 DEF Owed, DOCUMENT_SERVICES
    <3>4. active'[CL] = active[CL]
      BY <2>0, <3>1
    <3> QED
      BY <1>1, <2>0, <2>2, <3>2, <3>3, <3>4 DEF Kept
  <2>4. CASE w = <<"classify", "embed">>
    <3>1. Head(w) = CL
      BY <2>4
    <3>2. active[CL] = "none" /\ active'[CL] # "none" /\ active'[TX] = active[TX]
      BY <2>0, <3>1
    <3> QED
      BY <1>1, <2>0, <2>2, <3>2 DEF Kept
  <2>5. CASE w = <<"embed">>
    <3>1. Head(w) = "embed" /\ c \notin Owed
      BY <2>5 DEF Owed
    <3>2. active'[TX] = active[TX] /\ active'[CL] = active[CL]
      BY <2>0, <3>1
    <3> QED
      BY <1>k, <2>0, <2>2, <3>1, <3>2
  <2> QED
    BY <2>1, <2>3, <2>4, <2>5 DEF Todos
<1>5. ASSUME UNCHANGED <<active, req, step>>
      PROVE  AtWork(CL) /\ Owed' = Owed /\ active' = active
  BY <1>5 DEF Owed
<1>6. ASSUME NEW s \in Services, Claim(s) \/ Job(s) \/ Unavailable(s) \/ JobFails(s),
             ~Claim(CL), ~DropJobs
      PROVE  /\ AtWork(CL) /\ Owed' = Owed
             /\ active'[TX] # "none" => active[TX] # "none"
             /\ active'[CL] = "none" => active[CL] = "none"
  <2>1. req' = req
    BY <1>6 DEF Claim, Job, Finish, Fail, Report, Defer, ReadDocument, CheckUpstream, CheckAnyJob,
       StartExtract, ReadFile, StoreText, Park, StoreCategory, DeleteEmbedding,
       InsertEmbedding, Unavailable, JobFails
  <2>2. AtWork(CL)
    BY <1>6 DEF Claim, Job, Finish, Fail, Report, Defer, ReadDocument, CheckUpstream, CheckAnyJob,
       NoText, StartExtract, ReadFile, StoreText, Park, StoreCategory, DeleteEmbedding,
       InsertEmbedding, Unavailable, JobFails, Goto
  <2>3. /\ active'[TX] # "none" => active[TX] # "none"
        /\ active'[CL] = "none" => active[CL] = "none"
    <3>1. CASE Claim(s)
      BY <1>6, <3>1 DEF Claim
    <3>2. CASE Finish(s) \/ Fail(s)
      <4>1. s # CL
        BY <2>2, <3>2 DEF Finish, Fail, Goto
      <4>2. active' = active \/ active' = [active EXCEPT ![s] = "none"]
        BY <3>2, Zenon DEF Finish, Fail, Settle
      <4> QED
        BY <4>1, <4>2
    <3>3. CASE Defer(s)
      <4>1. active' = active \/ (s \in owns /\ active' = [active EXCEPT ![s] = "pending"])
        BY <3>3, Zenon DEF Defer
      <4> QED
        BY <4>1 DEF Flow, RowsOK
    <3>4. CASE ~Claim(s) /\ ~Finish(s) /\ ~Fail(s) /\ ~Defer(s)
      BY <1>6, <3>4 DEF Job, Report, ReadDocument, CheckUpstream, CheckAnyJob, StartExtract, ReadFile,
         StoreText, Park, StoreCategory, DeleteEmbedding, InsertEmbedding, Unavailable, JobFails, rows
    <3> QED
      BY <3>1, <3>2, <3>3, <3>4
  <2> QED
    BY <2>1, <2>2, <2>3 DEF Owed
<1>7. ASSUME NEW c \in Clients, Serve(c), ~InsertJob(c)
      PROVE  AtWork(CL) /\ Owed' = Owed /\ active' = active
  <2>1. UNCHANGED <<active, step>>
    BY <1>7 DEF Serve, WriteFile, SetStatus, DropSettled, RefreshBudget, rows, work
  <2>2. \A d \in Clients : req'[d].todo = req[d].todo
    BY <1>7 DEF Serve, WriteFile, SetStatus, DropSettled, RefreshBudget
  <2> QED
    BY <2>1, <2>2 DEF Owed
<1>8. ASSUME NEW c \in Clients, NEW kind \in Requests, Request(c, kind)
      PROVE  AtWork(CL) /\ Owed \subseteq Owed' /\ active' = active
  <2>1. UNCHANGED <<active, step>> /\ \A d \in Clients \ {c} : req'[d] = req[d]
    BY <1>8 DEF Request, rows, work
  <2>2. c \notin Owed
    <3>1. req[c].todo = << >>
      BY <1>8 DEF Request, Flow, RequestsOK, Rest
    <3>2. << >> # <<"classify", "embed">>
      OBVIOUS
    <3> QED
      BY <3>1, <3>2 DEF Owed
  <2> QED
    BY <2>1, <2>2 DEF Owed
<1>9. CASE RetryFailed
  <2>1. UNCHANGED <<req, step>> /\ active'[TX] = active[TX]
    BY <1>9 DEF RetryFailed, work
  <2>2. active'[CL] = "none" => active[CL] = "none"
    BY <1>9 DEF RetryFailed
  <2> QED
    BY <1>k, <2>1, <2>2 DEF Owed
<1>10. CASE ResetStuckJobs
  <2>1. UNCHANGED <<req, step>> /\ \A s \in Services : active'[s] = "none" <=> active[s] = "none"
    BY <1>10 DEF ResetStuckJobs, StuckReset
  <2> QED
    BY <1>k, <2>1 DEF Owed
<1>11. ~CancelQueue /\ ~Crash /\ \A c \in Clients : ~RequestFails(c)
  BY DEF CancelQueue, Crash, RequestFails
<1>12. CASE HealthChanges \/ Quiet \/ UNCHANGED vars
  BY <1>k, <1>5, <1>12 DEF HealthChanges, Quiet, vars, rows, doc, work
<1> QED
  BY <1>k, <1>2, <1>3, <1>4, <1>6, <1>7, <1>8, <1>9, <1>10, <1>11, <1>12 DEF Next

(* A parked document drops its rows under a classify at work only with       *)
(* another classify promised.                                                *)
LEMMA DroppedIsOwed ==
  ASSUME Typed, Flow, Reading, DropJobs, ~disturbed, AtWork("classify")
  PROVE  Promised("classify") /\ Promised("embed")
<1>1. active["text_extract"] # "none"
  BY DEF DropJobs, Goto, Flow, RowsOK
<1>2. PICK c \in Clients : req[c].todo = <<"classify", "embed">>
  BY <1>1 DEF Reading, Kept, Owed
<1>3. req[c].todo # << >>
  BY <1>2
<1>4. InTodo(c, "classify") /\ InTodo(c, "embed")
  BY <1>2, <1>3, InTodoMeans
<1> QED
  BY <1>4 DEF Promised

(* A worker holds what it held before, or what it has just read.             *)
LEMMA WhatIsHeld ==
  ASSUME Typed, [Next]_vars
  PROVE  /\ step'["text_extract"] \in {"store", "park", "drop"} =>
              \/ ReadFile
              \/ /\ step["text_extract"] \in {"store", "park", "drop"}
                 /\ step'["text_extract"] = "store" => step["text_extract"] = "store"
                 /\ seen'["text_extract"] = seen["text_extract"]
         /\ step'["classify"] \in {"check", "any", "ask"} =>
              \/ ReadDocument("classify")
              \/ /\ step["classify"] \in {"check", "any", "ask"}
                 /\ seen'["classify"] = seen["classify"]
                 /\ step'["classify"] = "ask" => step["classify"] = "ask" \/ seen["classify"].text # 0
<1> DEFINE Held ==
         /\ step'["text_extract"] \in {"store", "park", "drop"} =>
              \/ ReadFile
              \/ /\ step["text_extract"] \in {"store", "park", "drop"}
                 /\ step'["text_extract"] = "store" => step["text_extract"] = "store"
                 /\ seen'["text_extract"] = seen["text_extract"]
         /\ step'["classify"] \in {"check", "any", "ask"} =>
              \/ ReadDocument("classify")
              \/ /\ step["classify"] \in {"check", "any", "ask"}
                 /\ seen'["classify"] = seen["classify"]
                 /\ step'["classify"] = "ask" => step["classify"] = "ask" \/ seen["classify"].text # 0
<1> SUFFICES Held
  OBVIOUS
<1> USE ServiceNames DEF Typed, WorkTyped
<1>1. ASSUME UNCHANGED <<step, seen>> PROVE Held
  BY <1>1
<1>2. ASSUME NEW s \in Services, Claim(s) \/ Finish(s) \/ Fail(s) \/ Report(s) \/ Defer(s)
                                 \/ Unavailable(s) \/ JobFails(s)
      PROVE  Held
  <2>1. /\ step'[s] \notin {"store", "park", "drop", "check", "any", "ask"}
        /\ \A t \in Services \ {s} : step'[t] = step[t] /\ seen'[t] = seen[t]
    BY <1>2 DEF Claim, Finish, Fail, Report, Defer, Unavailable, JobFails, Goto
  <2> QED
    BY <2>1
<1>3. ASSUME NEW s \in Services, ReadDocument(s) PROVE Held
  BY <1>3 DEF ReadDocument, Goto
<1>4. ASSUME NEW s \in Services, CheckUpstream(s) PROVE Held
  BY <1>4 DEF CheckUpstream, Goto, NoText
<1>5. ASSUME NEW s \in Services, CheckAnyJob(s) PROVE Held
  BY <1>5 DEF CheckAnyJob, Goto, NoText
<1>6. CASE ReadFile
  BY <1>6 DEF ReadFile, Goto
<1>7. CASE StartExtract \/ StoreText \/ Park \/ DropJobs
  BY <1>7 DEF StartExtract, StoreText, Park, DropJobs, Goto
<1>8. CASE StoreCategory \/ DeleteEmbedding \/ InsertEmbedding
  BY <1>8 DEF StoreCategory, DeleteEmbedding, InsertEmbedding, Goto
<1>9. ASSUME NEW c \in Clients, Serve(c) \/ RequestFails(c) PROVE Held
  BY <1>1, <1>9 DEF Serve, WriteFile, SetStatus, DropSettled, RefreshBudget, InsertJob, RequestFails, work
<1>10. ASSUME NEW c \in Clients, NEW kind \in Requests, Request(c, kind) PROVE Held
  BY <1>1, <1>10 DEF Request, work
<1>11. CASE Crash
  BY <1>11 DEF Crash
<1>12. CASE CancelQueue \/ RetryFailed \/ ResetStuckJobs \/ HealthChanges \/ Quiet \/ UNCHANGED vars
  BY <1>1, <1>12 DEF CancelQueue, RetryFailed, ResetStuckJobs, HealthChanges, Quiet, vars, work
<1> QED
  BY <1>2, <1>3, <1>4, <1>5, <1>6, <1>7, <1>8, <1>9, <1>10, <1>11, <1>12 DEF Next, Job

LEMMA ReadOKStep == Typed /\ Flow /\ Reading /\ [Next]_vars => ReadOK'
<1> SUFFICES ASSUME Typed, Flow, Reading, [Next]_vars, ~disturbed' PROVE ReadOK'
  BY DEF ReadOK
<1> USE ServiceNames DEF Typed, WorkTyped
<1>0. RowsOK'
  BY RowsOKStep DEF Flow
<1>1. CASE disturbed
  <2>1. \A s \in Services : step'[s] = "idle"
    BY <1>1, ClearedAtRest DEF AtRestBut, work
  <2> QED
    BY <2>1 DEF ReadOK
<1>2. CASE ~disturbed
  <2> DEFINE TX == "text_extract"
  <2>1. ASSUME step'[TX] = "store" PROVE (seen[TX].text = Cur \/ Promised(TX))'
    <3>1. CASE ReadFile
      BY <2>1, <3>1 DEF ReadFile, Goto, Cur, doc
    <3>2. CASE ~ReadFile /\ seen[TX].text = Cur
      <4>1. seen'[TX] = seen[TX]
        BY <2>1, <3>2, WhatIsHeld
      <4>2. file' # file => Promised(TX)'
        BY FilePromises
      <4> QED
        BY <3>2, <4>1, <4>2 DEF Cur
    <3>3. CASE ~ReadFile /\ Promised(TX)
      <4>1. Comes(TX)'
        BY <3>3, PromiseKept DEF Flow
      <4>2. TX \in owns'
        BY <1>0, <2>1 DEF RowsOK
      <4> QED
        BY <4>1, <4>2 DEF Comes, Unclaimed
    <3> QED
      BY <1>2, <2>1, <3>1, <3>2, <3>3, WhatIsHeld DEF Reading, ReadOK
  <2>2. ASSUME step'[TX] \in {"park", "drop"} PROVE (Locked \/ Promised(TX))'
    <3>1. CASE ReadFile
      BY <2>2, <3>1 DEF ReadFile, Goto, Locked, doc
    <3>2. CASE ~ReadFile /\ Locked
      <4>1. file' # file => Promised(TX)'
        BY FilePromises
      <4> QED
        BY <3>2, <4>1 DEF Locked
    <3>3. CASE ~ReadFile /\ Promised(TX)
      <4>1. Comes(TX)'
        BY <3>3, PromiseKept DEF Flow
      <4>2. TX \in owns'
        BY <1>0, <2>2 DEF RowsOK
      <4> QED
        BY <4>1, <4>2 DEF Comes, Unclaimed
    <3>4. step[TX] = "store" => ~(step'[TX] \in {"park", "drop"}) \/ ReadFile
      <4> SUFFICES ASSUME step[TX] = "store", ~ReadFile PROVE FALSE
        BY <2>2
      <4>1. ASSUME NEW s \in Services, Job(s) \/ Claim(s) \/ Unavailable(s) \/ JobFails(s) PROVE FALSE
        BY <2>2, <4>1 DEF Job, Claim, Finish, Fail, Report, Defer, ReadDocument, CheckUpstream, CheckAnyJob,
           NoText, StartExtract, StoreText, Park, DropJobs, StoreCategory, DeleteEmbedding,
           InsertEmbedding, Unavailable, JobFails, Goto
      <4>2. ASSUME NEW c \in Clients, Serve(c) \/ RequestFails(c) PROVE UNCHANGED step
        BY <4>2 DEF Serve, WriteFile, SetStatus, DropSettled, RefreshBudget, InsertJob, RequestFails, work
      <4>3. ASSUME NEW c \in Clients, NEW kind \in Requests, Request(c, kind) PROVE UNCHANGED step
        BY <4>3 DEF Request, work
      <4>4. ~Crash
        BY <2>2 DEF Crash
      <4>5. CASE CancelQueue \/ RetryFailed \/ ResetStuckJobs \/ HealthChanges \/ Quiet \/ UNCHANGED vars
        BY <2>2, <4>5 DEF CancelQueue, RetryFailed, ResetStuckJobs, HealthChanges, Quiet, vars, work
      <4> QED
        BY <2>2, <4>1, <4>2, <4>3, <4>4, <4>5 DEF Next
    <3> QED
      BY <1>2, <2>2, <3>1, <3>2, <3>3, <3>4, WhatIsHeld DEF Reading, ReadOK
  <2>3. ASSUME step'["classify"] \in {"check", "any", "ask"}
        PROVE  (seen["classify"].text = text \/ Comes("classify"))'
    <3>1. CASE ReadDocument("classify")
      BY <3>1 DEF ReadDocument, doc
    <3>2. CASE ~ReadDocument("classify")
      <4>0. seen'["classify"] = seen["classify"] /\ step["classify"] \in {"check", "any", "ask"}
        BY <2>3, <3>2, WhatIsHeld
      <4>1. ~Claim("classify")
        BY <4>0 DEF Claim, Goto
      <4>2. CASE DropJobs
        <5>1. AtWork("classify")
          BY <4>0 DEF AtWork
        <5>2. Promised("classify")
          BY <1>2, <4>2, <5>1, DroppedIsOwed
        <5> QED
          BY <5>2, PromiseKept DEF Flow
      <4>3. CASE ~DropJobs /\ Comes("classify")
        BY <4>1, <4>3, ComesStays DEF Flow
      <4>4. CASE ~DropJobs /\ ~Comes("classify")
        <5>1. ~StoreText
          BY <1>2, <4>4, ExtractsBeforeReaders DEF StoreText, Goto
        <5>2. text' = text /\ file' = file
          BY <4>4, <5>1, WhoWrites, FilePromises DEF Comes
        <5> QED
          BY <1>2, <4>0, <4>4, <5>2 DEF Reading, ReadOK
      <4> QED
        BY <4>2, <4>3, <4>4
    <3> QED
      BY <3>1, <3>2
  <2> QED
    BY <2>1, <2>2, <2>3 DEF ReadOK
<1> QED
  BY <1>1, <1>2

LEMMA CategoryStep ==
  Typed /\ Flow /\ Reading /\ [Next]_vars =>
    AsksAboutText' /\ ReadyHasCategory' /\ CategoryCurrent'
<1> SUFFICES ASSUME Typed, Flow, Reading, [Next]_vars
             PROVE  AsksAboutText' /\ ReadyHasCategory' /\ CategoryCurrent'
  OBVIOUS
<1>1. AsksAboutText'
  <2>1. ReadDocument("classify") => step'["classify"] # "ask"
    BY ServiceNames DEF ReadDocument, Goto, Typed, WorkTyped
  <2> QED
    BY <2>1, WhatIsHeld DEF Reading, AsksAboutText
<1>2. ReadyHasCategory'
  <2>1. StoreCategory => category' # 0
    BY DEF StoreCategory, Goto, Reading, AsksAboutText
  <2> QED
    BY <2>1, WhoWrites DEF Reading, ReadyHasCategory
<1>3. ASSUME ~disturbed', status' = "ready"
      PROVE  \/ (category = text \/ Comes("classify"))'
             \/ "classify" \in owns' /\ step'["classify"] # "finish"
             \/ step'["classify"] = "report"
  <2>1. CASE disturbed
    BY <1>3, <2>1, ClearedAtRest, ServiceNames DEF Comes, Promised
  <2>2. CASE ~disturbed /\ DropJobs
    BY <1>3, <2>2 DEF DropJobs, doc
  <2>3. CASE Claim("classify")
    BY <2>3, ServiceNames DEF Claim, Goto, Typed, WorkTyped
  <2>4. CASE ~disturbed /\ ~DropJobs /\ ~Claim("classify") /\ Comes("classify")
    BY <1>3, <2>4, ComesStays, ServiceNames DEF Flow
  <2>5. CASE ~disturbed /\ ~DropJobs /\ ~Comes("classify")
    <3>1. ~StoreText
      BY <2>5, ExtractsBeforeReaders DEF StoreText, Goto
    <3>2. text' = text /\ file' = file
      BY <2>5, <3>1, WhoWrites, FilePromises DEF Comes
    <3>3. CASE StoreCategory
      <4>1. seen["classify"].text = text
        BY <2>5, <3>3 DEF StoreCategory, Goto, Reading, ReadOK
      <4> QED
        BY <3>2, <3>3, <4>1 DEF StoreCategory
    <3>4. CASE ~StoreCategory
      <4>1. status = "ready" /\ category' = category
        BY <1>3, <3>4, WhoWrites
      <4>2. \/ category = text
            \/ "classify" \in owns /\ step["classify"] # "finish"
            \/ step["classify"] = "report"
        BY <2>5, <4>1 DEF Reading, CategoryCurrent
      <4>3. CASE category = text
        BY <3>2, <4>1, <4>3
      <4>4. CASE "classify" \in owns /\ step["classify"] # "finish"
        BY <1>3, <2>5, <3>4, <4>4, ClassifyEnds DEF Flow, Comes
      <4>5. CASE step["classify"] = "report"
        BY <1>3, <2>5, <4>5, ReportsEnd, ServiceNames
      <4> QED
        BY <4>2, <4>3, <4>4, <4>5
    <3> QED
      BY <3>3, <3>4
  <2> QED
    BY <2>1, <2>2, <2>3, <2>4, <2>5
<1> QED
  BY <1>1, <1>2, <1>3 DEF CategoryCurrent

LEMMA ReadingInit == Init => Reading
<1> SUFFICES ASSUME Init PROVE Reading
  OBVIOUS
<1>1. PICK c \in Clients : req = [d \in Clients |->
                IF d = c THEN [at |-> "insert", kind |-> "upload",
                               todo |-> DOCUMENT_SERVICES]
                         ELSE Idle]
  BY DEF Init
<1>2. Promised("text_extract")
  BY <1>1, TypedInit, InTodoMeans DEF Promised
<1>3. step["text_extract"] = "idle" /\ step["classify"] = "idle" /\ status = "pending"
  BY ServiceNames DEF Init
<1> QED
  BY <1>2, <1>3 DEF Reading, TextCurrent, Kept, AtWork, ReadOK, AsksAboutText, ReadyHasCategory, CategoryCurrent, Comes

LEMMA ReadingHolds == Spec => [](Typed /\ Flow /\ Reading)
<1>1. Init => Reading
  BY ReadingInit
<1>2. Typed /\ Flow /\ Reading /\ [Next]_vars => Reading'
  BY TextCurrentStep, KeptStep, ReadOKStep, CategoryStep DEF Reading
<1> QED
  BY <1>1, <1>2, FlowHolds, PTL DEF Spec

(* A document that ends ready was classified from its current text, and that *)
(* text was read from the current file, for any number of requests, failures *)
(* and restarts: a text_extract queued again, in whatever order its rows     *)
(* land, is never overtaken by a classify of the text it replaces.           *)
THEOREM ReadyMeansCurrent == Spec => []ReadyIsCurrent
<1>1. Typed /\ Flow /\ Reading => ReadyIsCurrent
  <2> SUFFICES ASSUME Typed, Flow, Reading, AtRest, ~disturbed, status = "ready",
                      failed["text_extract"] = 0, ~Locked
               PROVE  category = text /\ text = file.version
    BY DEF ReadyIsCurrent, Locked
  <2>1. \A s \in Services : active[s] = "none" /\ step[s] = "idle"
    BY DEF AtRest, AtRestBut
  <2>2. ~Promised("classify") /\ ~Promised("text_extract")
    <3>1. \A c \in Clients : req[c].at = "idle"
      BY DEF AtRest, AtRestBut
    <3>2. \A c \in Clients : req[c].todo = << >>
      BY <3>1 DEF Flow, RequestsOK, Rest
    <3>3. << >> # DOCUMENT_SERVICES /\ << >> # <<"classify", "embed">>
      BY DEF DOCUMENT_SERVICES
    <3> QED
      BY <3>2, <3>3, InTodoMeans DEF Promised
  <2>3. "classify" \notin owns /\ "text_extract" \notin owns
    BY <2>1, ServiceNames DEF Flow, RowsOK
  <2>4. ~Comes("classify") /\ ~Comes("text_extract")
    BY <2>1, <2>2, ServiceNames DEF Comes, Unclaimed
  <2>5. text = Cur
    BY <2>3, <2>4 DEF Reading, TextCurrent
  <2>6. category = text /\ category # 0
    BY <2>1, <2>3, <2>4, ServiceNames DEF Reading, CategoryCurrent, ReadyHasCategory
  <2> QED
    BY <2>5, <2>6 DEF Cur
<1> QED
  BY <1>1, ReadingHolds, PTL

-----------------------------------------------------------------------------
(* The embedding follows the text.                                           *)

(* The embed at work is going to store what documents.extracted_text holds,  *)
(* or to be queued again, or to fail.                                        *)
Fresh ==
  /\ "embed" \in owns
  /\ \/ step["embed"] \in {"slot", "defer", "fail"}
     \/ step["embed"] \in {"check", "ask", "insert"} /\ seen["embed"].text = text

(* Nothing is there that could make the document ready: it is parked behind  *)
(* its password, and the next request queues an embed with the rest.         *)
Parked ==
  /\ status # "ready" /\ active["classify"] = "none" /\ failed["classify"] = 0
  /\ ~Promised("classify") /\ ~AtWork("classify")

EmbedCurrent ==
  ~disturbed /\ text # 0 =>
    \/ Comes("embed") \/ Fresh \/ Parked \/ failed["embed"] > 0
    \/ embedding = text /\ ~AtWork("embed") /\ step["embed"] # "insert"

(* An embed that holds the current text at every step ends as a job to come, *)
(* as a failed one, or with the current text stored.                         *)
LEMMA FreshEnds ==
  ASSUME Typed, Flow, [Next]_vars, ~DropJobs, ~disturbed', text' = text, text # 0, Fresh
  PROVE  \/ Unclaimed("embed")' \/ Fresh' \/ failed'["embed"] > 0
         \/ embedding' = text' /\ step'["embed"] = "finish"
<1> USE ServiceNames DEF Typed, RowsTyped, WorkTyped, Fresh, Unclaimed
<1> DEFINE E == "embed"
           Ends == \/ Unclaimed(E)' \/ Fresh' \/ failed'[E] > 0
                   \/ embedding' = text' /\ step'[E] = "finish"
<1>0. active[E] # "none"
  BY DEF Flow, RowsOK
<1>u. CASE UNCHANGED <<owns, step, seen>>
  BY <1>u
<1>1. ASSUME NEW s \in Services, s # E, Claim(s) \/ Job(s) \/ Unavailable(s) \/ JobFails(s)
      PROVE  Ends
  <2>1. step'[E] = step[E] /\ seen'[E] = seen[E] /\ E \in owns'
    BY <1>1 DEF Claim, Job, Finish, Fail, Settle, Report, Defer, ReadDocument, CheckUpstream, CheckAnyJob,
       StartExtract, ReadFile, StoreText, Park, StoreCategory, Unavailable, JobFails, Goto
  <2> QED
    BY <2>1
<1>2. CASE ReadDocument(E)
  BY <1>2 DEF ReadDocument, Goto
<1>3. CASE CheckUpstream(E)
  <2>1. step[E] = "check" /\ seen[E].text = text
    BY <1>3 DEF CheckUpstream, Goto
  <2>2. step'[E] \in {"defer", "ask"}
    BY <1>3, <2>1 DEF CheckUpstream, Goto
  <2> QED
    BY <1>3, <2>1, <2>2 DEF CheckUpstream
<1>4. CASE DeleteEmbedding
  BY <1>4 DEF DeleteEmbedding, Goto
<1>5. CASE InsertEmbedding
  BY <1>5 DEF InsertEmbedding, Goto
<1>6. CASE Defer(E)
  BY <1>0, <1>6 DEF Defer
<1>7. CASE Fail(E)
  BY <1>7 DEF Fail
<1>8. CASE Unavailable(E) \/ JobFails(E)
  BY <1>8 DEF Unavailable, JobFails
<1>9. ~Claim(E) /\ ~Finish(E) /\ ~Report(E) /\ ~CheckAnyJob(E)
  BY DEF Claim, Finish, Report, CheckAnyJob, Goto
<1>10. ASSUME NEW s \in Services, Claim(s) \/ Job(s) \/ Unavailable(s) \/ JobFails(s)
       PROVE  Ends
  <2>1. CASE s = E
    BY <1>2, <1>3, <1>4, <1>5, <1>6, <1>7, <1>8, <1>9, <1>10, <2>1 DEF Job
  <2> QED
    BY <1>1, <1>10, <2>1
<1>11. ASSUME NEW c \in Clients, Serve(c) \/ RequestFails(c) PROVE Ends
  BY <1>u, <1>11 DEF Serve, WriteFile, SetStatus, DropSettled, RefreshBudget, InsertJob, RequestFails, work
<1>12. ASSUME NEW c \in Clients, NEW kind \in Requests, Request(c, kind) PROVE Ends
  BY <1>u, <1>12 DEF Request, work
<1>13. CASE Crash
  BY <1>0, <1>13 DEF Crash, rows
<1>14. CASE RetryFailed \/ ResetStuckJobs \/ HealthChanges \/ Quiet \/ UNCHANGED vars
  BY <1>u, <1>14 DEF RetryFailed, ResetStuckJobs, HealthChanges, Quiet, vars, work
<1>15. ~CancelQueue
  BY DEF CancelQueue
<1> QED
  BY <1>10, <1>11, <1>12, <1>13, <1>14, <1>15 DEF Next

(* A parked document is left only through a request, which promises an embed.*)
LEMMA ParkedStays ==
  ASSUME Typed, Flow, [Next]_vars, ~DropJobs, ~disturbed', Parked
  PROVE  Parked' \/ Promised("embed")'
<1> USE ServiceNames DEF Typed, RowsTyped, WorkTyped, RequestsTyped, Parked, AtWork
<1> DEFINE CL == "classify"
<1>0. CL \notin owns
  BY DEF Flow, RowsOK
<1>1. ASSUME NEW c \in Clients, NEW kind \in Requests, Request(c, kind)
      PROVE  Promised("embed")'
  <2>1. kind \in AllRequests \ {"cancel", "retry"}
    BY <1>1, RequestsAssumption DEF Request
  <2>2. ServicesOf(kind) # << >>
    BY <2>1 DEF ServicesOf, AllRequests, DOCUMENT_SERVICES
  <2>3. req'[c].todo # << >>
    BY <1>1, <2>2 DEF Request
  <2>4. InTodo(c, "embed")'
    <3>1. Typed'
      BY TypedStep
    <3>2. req'[c].todo \in Todos
      BY <3>1
    <3>3. \E i \in {1, 2, 3} : i \in DOMAIN req'[c].todo /\ req'[c].todo[i] = "embed"
      BY <2>3, <3>2 DEF Todos, DOCUMENT_SERVICES
    <3> QED
      BY <3>3, Zenon DEF InTodo
  <2> QED
    BY <2>4 DEF Promised
<1>2. ASSUME UNCHANGED <<status, active, failed, req, step>> PROVE Parked'
  BY <1>2 DEF Promised, InTodo
<1>3. ASSUME NEW s \in Services, Claim(s) \/ Job(s) \/ Unavailable(s) \/ JobFails(s)
      PROVE  Parked'
  <2>1. req' = req
    BY <1>3 DEF Claim, Job, Finish, Fail, Report, Defer, ReadDocument, CheckUpstream, CheckAnyJob,
       StartExtract, ReadFile, StoreText, Park, StoreCategory, DeleteEmbedding,
       InsertEmbedding, Unavailable, JobFails
  <2>2. step'[CL] \notin {"slot", "check", "any", "ask"}
    BY <1>3 DEF Claim, Job, Finish, Fail, Report, Defer, ReadDocument, CheckUpstream, CheckAnyJob,
       NoText, StartExtract, ReadFile, StoreText, Park, StoreCategory, DeleteEmbedding,
       InsertEmbedding, Unavailable, JobFails, Goto
  <2>3. status' # "ready"
    <3>1. ~StoreCategory
      BY DEF StoreCategory, Goto
    <3> QED
      BY <3>1, WhoWrites
  <2>4. active'[CL] = "none" /\ failed'[CL] = 0
    <3>1. CASE Claim(s)
      BY <3>1 DEF Claim
    <3>2. CASE Finish(s) \/ Fail(s)
      BY <1>0, <3>2 DEF Finish, Fail, Settle
    <3>3. CASE Defer(s)
      BY <1>0, <3>3 DEF Defer
    <3>4. CASE ~Claim(s) /\ ~Finish(s) /\ ~Fail(s) /\ ~Defer(s)
      BY <1>3, <3>4 DEF Job, Report, ReadDocument, CheckUpstream, CheckAnyJob, StartExtract, ReadFile,
         StoreText, Park, StoreCategory, DeleteEmbedding, InsertEmbedding, Unavailable, JobFails, rows
    <3> QED
      BY <3>1, <3>2, <3>3, <3>4
  <2> QED
    BY <2>1, <2>2, <2>3, <2>4 DEF Promised, InTodo
<1>4. ASSUME NEW c \in Clients, Serve(c)
      PROVE  Parked'
  <2>1. UNCHANGED step /\ status' # "ready"
    BY <1>4 DEF Serve, WriteFile, SetStatus, DropSettled, RefreshBudget, InsertJob, work, doc
  <2>2. failed'[CL] = 0
    BY <1>4 DEF Serve, WriteFile, SetStatus, DropSettled, RefreshBudget, InsertJob, rows
  <2>3. CASE ~InsertJob(c)
    <3>1. active' = active
      BY <1>4, <2>3 DEF Serve, WriteFile, SetStatus, DropSettled, RefreshBudget, rows
    <3>2. \A d \in Clients : req'[d].todo = req[d].todo
      BY <1>4, <2>3 DEF Serve, WriteFile, SetStatus, DropSettled, RefreshBudget
    <3> QED
      BY <2>1, <2>2, <3>1, <3>2 DEF Promised, InTodo
  <2>4. CASE InsertJob(c)
    <3> DEFINE w == req[c].todo
    <3>0. w # << >> /\ w \in Todos
      BY <2>4 DEF InsertJob
    <3>1. w = <<"embed">>
      <4>1. ~InTodo(c, CL)
        BY DEF Promised
      <4>2. w \notin {<<"classify", "embed">>, DOCUMENT_SERVICES}
        BY <4>1, InTodoMeans
      <4> QED
        BY <3>0, <4>2 DEF Todos
    <3>2. Head(w) = "embed" /\ Len(w) = 1
      BY <3>1
    <3>3. active'[CL] = active[CL]
      BY <2>4, <3>2 DEF InsertJob, Inserted
    <3>4. req' = [req EXCEPT ![c] = Idle]
      BY <2>4, <3>2 DEF InsertJob
    <3>5. \A d \in Clients : ~InTodo(d, CL)'
      <4>1. Idle.todo = << >> /\ DOMAIN << >> = {}
        BY DEF Idle
      <4>2. ~InTodo(c, CL)'
        BY <3>4, <4>1 DEF InTodo
      <4>3. \A d \in Clients \ {c} : req'[d] = req[d] /\ ~InTodo(d, CL)
        BY <3>4 DEF Promised
      <4> QED
        BY <4>2, <4>3 DEF InTodo
    <3> QED
      BY <2>1, <2>2, <3>3, <3>5 DEF Promised
  <2> QED
    BY <2>3, <2>4
<1>5. CASE RetryFailed
  <2>1. UNCHANGED <<status, req, step>> /\ active'[CL] = "none" /\ failed'[CL] = 0
    BY <1>5 DEF RetryFailed, doc, work
  <2> QED
    BY <2>1 DEF Promised, InTodo
<1>6. CASE ResetStuckJobs
  <2>1. UNCHANGED <<status, req, step, failed>> /\ active'[CL] = "none"
    BY <1>6 DEF ResetStuckJobs, StuckReset, doc
  <2> QED
    BY <2>1 DEF Promised, InTodo
<1>7. CASE Crash
  <2>1. UNCHANGED <<status, active, failed>> /\ step'[CL] = "idle"
    BY <1>7 DEF Crash, doc, rows
  <2>2. \A c \in Clients : req'[c].todo = << >> /\ DOMAIN << >> = {}
    BY <1>7 DEF Crash, Idle
  <2>3. ~Promised(CL)'
    BY <2>2 DEF Promised, InTodo
  <2> QED
    BY <2>1, <2>3
<1>8. ~CancelQueue /\ \A c \in Clients : ~RequestFails(c)
  BY DEF CancelQueue, RequestFails
<1>9. CASE HealthChanges \/ Quiet \/ UNCHANGED vars
  BY <1>2, <1>9 DEF HealthChanges, Quiet, vars, rows, doc, work
<1> QED
  BY <1>1, <1>3, <1>4, <1>5, <1>6, <1>7, <1>8, <1>9 DEF Next

(* A failed embed is forgotten only for one that is to come.                 *)
LEMMA FailedEmbedStays ==
  ASSUME Typed, Flow, [Next]_vars, ~DropJobs, ~Promised("embed"), failed["embed"] > 0
  PROVE  failed'["embed"] > 0 \/ Unclaimed("embed")'
<1> USE ServiceNames DEF Typed, RowsTyped
<1>1. ASSUME NEW s \in Services, Job(s) \/ Claim(s) \/ Unavailable(s) \/ JobFails(s)
      PROVE  failed'["embed"] > 0
  BY <1>1 DEF Job, Claim, Finish, Fail, Report, Defer, ReadDocument, CheckUpstream, CheckAnyJob,
     StartExtract, ReadFile, StoreText, Park, StoreCategory, DeleteEmbedding,
     InsertEmbedding, Unavailable, JobFails, rows
<1>2. ASSUME NEW c \in Clients, Serve(c) \/ RequestFails(c) PROVE failed'["embed"] > 0
  <2>1. ~InTodo(c, "embed")
    BY DEF Promised
  <2> QED
    BY <1>2, <2>1 DEF Serve, WriteFile, SetStatus, DropSettled, RefreshBudget, InsertJob, RequestFails, rows
<1>3. ASSUME NEW c \in Clients, NEW kind \in Requests, Request(c, kind)
      PROVE  failed'["embed"] > 0
  BY <1>3 DEF Request, rows
<1>4. CASE RetryFailed
  BY <1>4 DEF RetryFailed, Unclaimed, Flow, RowsOK, work
<1>5. CASE CancelQueue \/ Crash \/ ResetStuckJobs \/ HealthChanges \/ Quiet \/ UNCHANGED vars
  BY <1>5 DEF CancelQueue, Crash, ResetStuckJobs, HealthChanges, Quiet, vars, rows
<1> QED
  BY <1>1, <1>2, <1>3, <1>4, <1>5 DEF Next

(* Only an embed at work touches the chunks, and only a claim puts it there. *)
LEMMA ChunksStay ==
  ASSUME Typed, [Next]_vars, ~Claim("embed"), ~AtWork("embed"), step["embed"] # "insert"
  PROVE  embedding' = embedding /\ ~AtWork("embed")' /\ step'["embed"] # "insert"
<1> USE ServiceNames DEF Typed, WorkTyped, AtWork
<1>1. ASSUME NEW s \in Services, Job(s) \/ Claim(s) \/ Unavailable(s) \/ JobFails(s)
      PROVE  embedding' = embedding /\ ~AtWork("embed")' /\ step'["embed"] # "insert"
  BY <1>1 DEF Job, Claim, Finish, Fail, Report, Defer, ReadDocument, CheckUpstream, CheckAnyJob,
     NoText, StartExtract, ReadFile, StoreText, Park, DropJobs, StoreCategory, DeleteEmbedding,
     InsertEmbedding, Unavailable, JobFails, Goto, doc
<1>2. ASSUME NEW c \in Clients, Serve(c) \/ RequestFails(c) PROVE UNCHANGED <<embedding, step>>
  BY <1>2 DEF Serve, WriteFile, SetStatus, DropSettled, RefreshBudget, InsertJob, RequestFails, doc, work
<1>3. ASSUME NEW c \in Clients, NEW kind \in Requests, Request(c, kind) PROVE UNCHANGED <<embedding, step>>
  BY <1>3 DEF Request, doc, work
<1>4. Crash => embedding' = embedding /\ step'["embed"] = "idle"
  BY DEF Crash, doc
<1>5. CancelQueue \/ RetryFailed \/ ResetStuckJobs \/ HealthChanges \/ Quiet \/ UNCHANGED vars => UNCHANGED <<embedding, step>>
  BY DEF CancelQueue, RetryFailed, ResetStuckJobs, HealthChanges, Quiet, vars, doc, work
<1> QED
  BY <1>1, <1>2, <1>3, <1>4, <1>5 DEF Next

LEMMA EmbedCurrentStep ==
  Typed /\ Flow /\ Reading /\ EmbedCurrent /\ [Next]_vars => EmbedCurrent'
<1> SUFFICES ASSUME Typed, Flow, Reading, EmbedCurrent, [Next]_vars, ~disturbed', text' # 0
             PROVE  EmbedCurrent'
  BY DEF EmbedCurrent
<1> USE ServiceNames
<1>1. CASE disturbed
  BY <1>1, ClearedAtRest DEF EmbedCurrent, Comes, Promised
<1>2. CASE ~disturbed /\ DropJobs
  <2>1. CASE Promised("embed")
    BY <2>1, PromiseKept DEF Flow, EmbedCurrent
  <2>2. CASE ~Promised("embed")
    <3>1. ~AtWork("classify")
      BY <1>2, <2>2, DroppedIsOwed
    <3>2. \A c \in Clients : ~InTodo(c, "classify")
      <4>1. \A c \in Clients : req[c].todo = << >>
        BY <2>2, InTodoMeans DEF Promised
      <4>2. << >> # <<"classify", "embed">> /\ << >> # DOCUMENT_SERVICES
        BY DEF DOCUMENT_SERVICES
      <4> QED
        BY <4>1, <4>2, InTodoMeans
    <3>3. ~Promised("classify")'
      BY <1>2, <3>2 DEF DropJobs, Promised, InTodo
    <3>4. status' = "encrypted" /\ active'["classify"] = "none" /\ failed'["classify"] = 0
      BY <1>2 DEF DropJobs, doc
    <3>5. step'["classify"] = step["classify"]
      BY <1>2 DEF DropJobs, Goto, Typed, WorkTyped
    <3> QED
      BY <3>1, <3>3, <3>4, <3>5 DEF EmbedCurrent, Parked, AtWork
  <2> QED
    BY <2>1, <2>2
<1>3. CASE Claim("embed")
  BY <1>3 DEF Claim, Goto, Fresh, EmbedCurrent, Typed, WorkTyped
<1>4. CASE ~DropJobs /\ ~Claim("embed") /\ Comes("embed")
  BY <1>4, ComesStays DEF Flow, EmbedCurrent
<1>5. CASE ~disturbed /\ ~DropJobs /\ ~Claim("embed") /\ ~Comes("embed")
  <2>1. text' = text
    BY <1>5, WhoWrites, ExtractsBeforeReaders DEF StoreText, Goto
  <2>2. CASE Fresh
    <3>1. step'["embed"] = "finish" => ~AtWork("embed")' /\ step'["embed"] # "insert"
      BY DEF AtWork
    <3> QED
      BY <1>5, <2>1, <2>2, <3>1, FreshEnds DEF EmbedCurrent, Comes
  <2>3. CASE Parked
    BY <1>5, <2>3, ParkedStays DEF EmbedCurrent, Comes
  <2>4. CASE failed["embed"] > 0
    BY <1>5, <2>4, FailedEmbedStays DEF EmbedCurrent, Comes
  <2>5. CASE embedding = text /\ ~AtWork("embed") /\ step["embed"] # "insert"
    BY <1>5, <2>1, <2>5, ChunksStay DEF EmbedCurrent
  <2> QED
    BY <1>5, <2>1, <2>2, <2>3, <2>4, <2>5 DEF EmbedCurrent
<1> QED
  BY <1>1, <1>2, <1>3, <1>4, <1>5

(* The embedding of a document that ends ready with no failed job is that of *)
(* its current text, for any number of requests, failed statements and       *)
(* restarts: an embed that has read an older text is followed by another, a  *)
(* document parked for its password is embedded with whatever makes it       *)
(* ready, and no interleaving lets a late INSERT win over a new text.        *)
THEOREM EmbeddingMeansCurrent == Spec => []EmbeddingIsCurrent
<1>1. Typed /\ Flow /\ Reading /\ EmbedCurrent => EmbeddingIsCurrent
  <2> SUFFICES ASSUME Typed, Flow, Reading, EmbedCurrent, AtRest, ~disturbed, status = "ready",
                      \A s \in Services : failed[s] = 0
               PROVE  embedding = text
    BY DEF EmbeddingIsCurrent
  <2>1. \A s \in Services : active[s] = "none" /\ step[s] = "idle" /\ s \notin owns
    BY ServiceNames DEF AtRest, AtRestBut, Flow, RowsOK
  <2>2. ~Promised("classify") /\ ~Promised("embed")
    <3>1. \A c \in Clients : req[c].todo = << >>
      BY DEF AtRest, AtRestBut, Flow, RequestsOK, Rest
    <3>2. << >> # DOCUMENT_SERVICES /\ << >> # <<"classify", "embed">>
      BY DEF DOCUMENT_SERVICES
    <3> QED
      BY <3>1, <3>2, InTodoMeans DEF Promised
  <2>3. ~Comes("classify") /\ ~Comes("embed")
    BY <2>1, <2>2, ServiceNames DEF Comes, Unclaimed
  <2>4. text # 0
    BY <2>1, <2>3, ServiceNames DEF Reading, CategoryCurrent, ReadyHasCategory
  <2> QED
    BY <2>1, <2>3, <2>4, ServiceNames DEF EmbedCurrent, Fresh, Parked
<1>2. Init => EmbedCurrent
  BY DEF Init, EmbedCurrent
<1>3. Typed /\ Flow /\ Reading /\ EmbedCurrent /\ [Next]_vars => EmbedCurrent'
  BY EmbedCurrentStep
<1> QED
  BY <1>1, <1>2, <1>3, ReadingHolds, PTL DEF Spec
=============================================================================
