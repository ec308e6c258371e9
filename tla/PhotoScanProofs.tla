---------------------------- MODULE PhotoScanProofs ----------------------------
(* PhotoScan for any capacity and any scenarios: the database slots, the    *)
(* types, and that what a job finds reaches the jobs that follow it.        *)
EXTENDS PhotoScan, LineLemmas, FiniteSetTheorems, TLAPS

SlotTypes ==
  /\ step \in [AllServices -> Steps]
  /\ inUse \in Nat /\ waiters \in Seq(AllServices)
  /\ IsFiniteSet(Holders)

SlotInv == SlotTypes /\ SlotAccounting

-----------------------------------------------------------------------------
Working == Steps \ {"idle", "waiting"}

(* A step of a job that keeps its slot. *)
LEMMA StepKeepsSlot ==
  ASSUME SlotInv, NEW s \in AllServices, NEW to \in Working,
         step[s] \notin {"idle", "waiting"},
         step' = [step EXCEPT ![s] = to], UNCHANGED <<inUse, waiters>>
  PROVE  SlotInv'
<1>1. step' \in [AllServices -> Steps]
  BY DEF SlotInv, SlotTypes, Working
<1>2. Holders' = Holders
  BY DEF Holders, SlotInv, SlotTypes, Working
<1>3. \A r \in AllServices : step'[r] = "waiting" <=> step[r] = "waiting"
  BY DEF SlotInv, SlotTypes, Working
<1> QED
  BY <1>1, <1>2, <1>3 DEF SlotInv, SlotTypes, SlotAccounting

LEMMA SlotsUntouched ==
  SlotInv /\ UNCHANGED <<step, inUse, waiters>> => SlotInv'
  BY DEF SlotInv, SlotTypes, SlotAccounting, Holders

LEMMA SlotClaimed ==
  ASSUME SlotInv, NEW s \in AllServices, Claim(s)
  PROVE  SlotInv'
<1> USE CapacityAssumption DEF SlotInv
<1>1. step[s] = "idle" /\ inUse \in Nat /\ s \notin Holders
  BY DEF Claim, Goto, SlotTypes, Holders
<1>2. CASE inUse < Capacity
  <2>1. /\ waiters = << >> /\ waiters' = << >> /\ inUse' = inUse + 1
        /\ step' = [step EXCEPT ![s] = "start"]
    BY <1>1, <1>2 DEF Claim, Goto, SlotAccounting
  <2>2. Holders' = Holders \cup {s}
    BY <1>1, <2>1 DEF Holders, SlotTypes
  <2>3. IsFiniteSet(Holders') /\ Cardinality(Holders') = Cardinality(Holders) + 1
    BY <1>1, <2>2, FS_AddElement DEF SlotTypes
  <2>4. {r \in AllServices : step'[r] = "waiting"} = {r \in AllServices : step[r] = "waiting"}
    BY <1>1, <2>1 DEF SlotTypes
  <2>5. SlotTypes'
    BY <1>1, <2>1, <2>3 DEF SlotTypes, Steps
  <2>6. inUse' = Cardinality(Holders') /\ inUse' <= Capacity
    BY <1>1, <1>2, <2>1, <2>3 DEF SlotAccounting
  <2>7. ToSet(waiters') = {r \in AllServices : step'[r] = "waiting"} /\ IsInjective(waiters')
    BY <2>1, <2>4 DEF SlotAccounting
  <2> QED
    BY <2>1, <2>5, <2>6, <2>7 DEF SlotAccounting
<1>3. CASE ~(inUse < Capacity)
  <2>1. /\ inUse' = inUse /\ waiters' = Append(waiters, s)
        /\ step' = [step EXCEPT ![s] = "waiting"]
    BY <1>1, <1>3 DEF Claim, Goto
  <2>2. Holders' = Holders
    BY <1>1, <2>1 DEF Holders, SlotTypes
  <2>3. s \notin ToSet(waiters)
    BY <1>1 DEF SlotAccounting
  <2>4. /\ waiters' \in Seq(AllServices) /\ IsInjective(waiters')
        /\ ToSet(waiters') = ToSet(waiters) \cup {s}
    BY <2>1, <2>3, LineJoined DEF SlotTypes, SlotAccounting
  <2>5. {r \in AllServices : step'[r] = "waiting"} = {r \in AllServices : step[r] = "waiting"} \cup {s}
    BY <1>1, <2>1 DEF SlotTypes
  <2>6. SlotTypes'
    BY <2>1, <2>2, <2>4 DEF SlotTypes, Steps
  <2>7. inUse' = Capacity
    BY <1>1, <1>3, <2>1 DEF SlotAccounting
  <2> QED
    BY <2>1, <2>2, <2>4, <2>5, <2>6, <2>7 DEF SlotAccounting
<1> QED
  BY <1>2, <1>3

LEMMA SlotReleased ==
  ASSUME SlotInv, NEW s \in AllServices, NEW from \in Working, NEW to, Settle(s, from, to)
  PROVE  SlotInv'
<1> USE CapacityAssumption DEF SlotInv
<1>1. step[s] = from /\ inUse \in Nat /\ s \in Holders
  BY DEF Settle, SlotTypes, Holders, Working
<1>2. IsFiniteSet(Holders \ {s}) /\ Cardinality(Holders \ {s}) = Cardinality(Holders) - 1
  BY <1>1, FS_RemoveElement DEF SlotTypes
<1>3. CASE waiters = << >>
  <2>1. waiters' = << >> /\ inUse' = inUse - 1 /\ step' = [step EXCEPT ![s] = "idle"]
    BY <1>3 DEF Settle, Kept
  <2>2. Holders' = Holders \ {s}
    BY <1>1, <2>1 DEF Holders, SlotTypes
  <2>3. inUse' \in Nat
    BY <1>1, <1>2, <2>1, FS_CardinalityType DEF SlotAccounting
  <2>4. {r \in AllServices : step'[r] = "waiting"} = {r \in AllServices : step[r] = "waiting"}
    BY <1>1, <2>1 DEF SlotTypes, Working
  <2>5. SlotTypes'
    BY <1>2, <2>1, <2>2, <2>3 DEF SlotTypes, Steps
  <2>6. inUse' = Cardinality(Holders') /\ inUse' <= Capacity
    BY <1>1, <1>2, <2>1, <2>2 DEF SlotAccounting
  <2>7. ToSet(waiters') = {r \in AllServices : step'[r] = "waiting"} /\ IsInjective(waiters')
    BY <1>3, <2>1, <2>4 DEF SlotAccounting
  <2> QED
    BY <2>1, <2>5, <2>6, <2>7 DEF SlotAccounting
<1>4. CASE waiters # << >>
  <2> DEFINE h == Head(waiters)
  <2>1. /\ waiters' = Tail(waiters) /\ inUse' = inUse
        /\ step' = [step EXCEPT ![s] = "idle", ![h] = "start"]
    BY <1>4 DEF Settle, Kept
  <2>2. /\ h \in AllServices /\ h \in ToSet(waiters)
        /\ waiters' \in Seq(AllServices) /\ IsInjective(waiters')
        /\ ToSet(waiters') = ToSet(waiters) \ {h}
    BY <1>4, <2>1, LineLeft DEF SlotTypes, SlotAccounting
  <2>3. step[h] = "waiting" /\ h # s /\ h \notin Holders
    BY <1>1, <2>2 DEF SlotAccounting, Holders, Working
  <2>4. /\ step' \in [AllServices -> Steps] /\ step'[s] = "idle" /\ step'[h] = "start"
        /\ \A r \in AllServices \ {s, h} : step'[r] = step[r]
    BY <2>1, <2>2, <2>3 DEF SlotTypes, Steps
  <2>5. Holders' = (Holders \ {s}) \cup {h}
    BY <2>2, <2>3, <2>4 DEF Holders
  <2>6. h \notin Holders \ {s}
    BY <2>3
  <2>7. IsFiniteSet(Holders') /\ Cardinality(Holders') = Cardinality(Holders \ {s}) + 1
    BY <1>2, <2>5, <2>6, FS_AddElement
  <2>8. Cardinality(Holders') = Cardinality(Holders)
    BY <1>2, <2>7, FS_CardinalityType DEF SlotTypes
  <2>9. {r \in AllServices : step'[r] = "waiting"} = {r \in AllServices : step[r] = "waiting"} \ {h}
    BY <1>1, <2>2, <2>3, <2>4 DEF Working
  <2>10. SlotTypes'
    BY <2>1, <2>2, <2>4, <2>7 DEF SlotTypes
  <2>11. inUse' = Capacity
    BY <1>4, <2>1 DEF SlotAccounting
  <2> QED
    BY <2>1, <2>2, <2>8, <2>9, <2>10, <2>11 DEF SlotAccounting
<1> QED
  BY <1>3, <1>4

-----------------------------------------------------------------------------
LEMMA SlotStep == SlotInv /\ [Next]_vars => SlotInv'
<1> SUFFICES ASSUME SlotInv, [Next]_vars PROVE SlotInv'
  OBVIOUS
<1>1. ASSUME UNCHANGED <<step, inUse, waiters>> PROVE SlotInv'
  BY <1>1, SlotsUntouched
<1>2. ASSUME NEW s \in AllServices, Claim(s) PROVE SlotInv'
  BY <1>2, SlotClaimed
<1>3. ASSUME NEW s \in AllServices, Finish(s) \/ Fail(s) \/ Defer(s) PROVE SlotInv'
  <2>1. {"finish", "fail", "defer"} \subseteq Working
    BY DEF Working, Steps
  <2>2. \E from \in {"finish", "fail", "defer"} :
           Settle(s, from, "none") \/ Settle(s, from, "pending") \/ Settle(s, from, active[s])
    BY <1>3 DEF Finish, Fail, Defer, Swallowed
  <2> QED
    BY <2>1, <2>2, SlotReleased
<1>4. ASSUME NEW s \in AllServices, Unavailable(s) \/ JobFails(s) PROVE SlotInv'
  BY <1>4, StepKeepsSlot DEF Unavailable, JobFails, work, Working, Steps
<1>5. ASSUME NEW s \in AllServices, NEW from \in Working, NEW to \in Working,
             Goto(s, from, to), UNCHANGED <<inUse, waiters>>
      PROVE  SlotInv'
  BY <1>5, StepKeepsSlot DEF Goto, Working
<1>6. CASE Embed \/ CheckFaces \/ DropFaces \/ DetectFaces
  BY <1>5, <1>6 DEF Embed, CheckFaces, DropFaces, DetectFaces, AllServices, Working, Steps
<1>7. CASE CheckDetection \/ ReadFaces \/ AssignFaces
  BY <1>5, <1>7 DEF CheckDetection, ReadFaces, AssignFaces, AllServices, Working, Steps
<1>8. CASE ReadBoxes \/ StoreScore
  BY <1>5, <1>8 DEF ReadBoxes, StoreScore, AllServices, Working, Steps
<1>9. CASE NothingToMatch \/ ReadEmbedding \/ CheckEmbedding \/ DeleteMatches \/ InsertMatches
  BY <1>5, <1>9 DEF NothingToMatch, ReadEmbedding, CheckEmbedding, DeleteMatches,
     InsertMatches, AllServices, Working, Steps
<1>10. ASSUME NEW s \in AllServices, FollowUp(s) \/ FollowUpFails(s) PROVE SlotInv'
  BY <1>1, <1>10 DEF FollowUp, FollowUpFails, work
<1>11. CASE \E kind \in scenario.requests : Request(kind)
  BY <1>1, <1>11 DEF Request, work
<1>12. CASE Serve \/ RequestFails
  BY <1>1, <1>12 DEF Serve, RequestFails, FindMissing, DropSettled, ResetRows, InsertRow,
     RetryFailed, CancelPending, work
<1>13. CASE Crash
  <2>1. step' = [s \in AllServices |-> "idle"] /\ inUse' = 0 /\ waiters' = << >>
    BY <1>13 DEF Crash
  <2>2. Holders' = {}
    BY <2>1 DEF Holders
  <2>3. ToSet(<< >>) = {} /\ IsInjective(<< >>) /\ << >> \in Seq(AllServices)
    BY DEF ToSet, IsInjective
  <2> QED
    BY <2>1, <2>2, <2>3, FS_EmptySet, CapacityAssumption
       DEF SlotInv, SlotTypes, SlotAccounting, Steps
<1>14. CASE ResetStuckJobs \/ Quiet \/ UNCHANGED vars
  BY <1>1, <1>14 DEF ResetStuckJobs, Quiet, vars, work
<1> QED
  BY <1>2, <1>3, <1>4, <1>6, <1>7, <1>8, <1>9, <1>10, <1>11, <1>12, <1>13, <1>14 DEF Next, Job

LEMMA SlotInit == Init => SlotInv
<1> SUFFICES ASSUME Init PROVE SlotInv
  OBVIOUS
<1>1. step = [s \in AllServices |-> "idle"] /\ inUse = 0 /\ waiters = << >>
  BY DEF Init
<1>2. Holders = {}
  BY <1>1 DEF Holders
<1>3. ToSet(<< >>) = {} /\ IsInjective(<< >>) /\ << >> \in Seq(AllServices)
  BY DEF ToSet, IsInjective
<1> QED
  BY <1>1, <1>2, <1>3, FS_EmptySet, CapacityAssumption
     DEF SlotInv, SlotTypes, SlotAccounting, Steps

(* No database slot is lost or counted twice, whatever claims, failures,    *)
(* deferrals, cancellations and restarts come together.                     *)
THEOREM SlotsAddUp == FairSpec => []SlotAccounting
<1>1. SlotInv => SlotAccounting
  BY DEF SlotInv
<1> QED
  BY <1>1, SlotInit, SlotStep, PTL DEF FairSpec

(* The types, and what they rest on: which services may have rows, and what *)
(* a request asks for at each of its statements.                            *)

RowsTyped ==
  /\ active \in [AllServices -> {"none", "pending", "processing"}]
  /\ done \in [AllServices -> Nat] /\ failed \in [AllServices -> Nat]
  /\ \A s \in AllServices \ Queued : active[s] = "none" /\ failed[s] = 0
  /\ force \cup failedForce \subseteq AllServices
  /\ \A s \in force : active[s] # "none"
  /\ \A s \in failedForce : failed[s] > 0

WorkTyped ==
  /\ forced \in [AllServices -> BOOLEAN]
  /\ step \in [AllServices -> Steps]
  /\ seen \in [AllServices -> {"nothing", "current", "gone"}]
  /\ \A s \in AllServices \ Queued : step[s] = "idle"
  /\ owns \subseteq Queued
  /\ inUse \in Nat /\ waiters \in Seq(Queued)
  /\ followUps \subseteq Queued

ReqTyped ==
  /\ req \in [at : {"idle", "find", "drop", "reset", "insert", "retry", "cancel"},
              kind : AllRequests \cup {"upload"}, todo : Seq(AllServices)]
  /\ req.at = "idle" <=> req.todo = << >>
  /\ req.at = "idle" => req.kind = "upload"
  /\ req.kind = "upload" => req.at \in {"insert", "idle"}
  /\ req.kind = "force" => req.at \in {"drop", "reset", "insert"}
  /\ req.at = "reset" => req.kind = "force"
  /\ req.kind = "missing" => req.at \in {"find", "drop", "insert"}
  /\ req.kind \in {"region", "poi_empty"} =>
       req.at \in {"drop", "insert"} /\ req.todo = <<"poi_detection">>
  /\ req.kind \in {"retry", "cancel"} => req.at = req.kind
  /\ req.kind \notin {"retry", "cancel"} => req.todo \in Seq(enabled)

RestTyped ==
  /\ scenario \in Scenarios
  /\ {embedding, matched, faces, assigned, scored, booted, lost} \subseteq BOOLEAN
  /\ requests \in 0 .. scenario.maxRequests /\ faults \in 0 .. scenario.maxFaults

Typed == RowsTyped /\ WorkTyped /\ ReqTyped /\ RestTyped

LEMMA TypedIsTypeOK == Typed => TypeOK
<1> SUFFICES ASSUME Typed PROVE TypeOK
  OBVIOUS
<1>1. /\ req.at \in {"idle", "find", "drop", "reset", "insert", "retry", "cancel"}
      /\ req.todo \in Seq(AllServices)
  BY DEF Typed, ReqTyped
<1> QED
  BY <1>1 DEF Typed, RowsTyped, WorkTyped, RestTyped, TypeOK

-----------------------------------------------------------------------------
LEMMA ServiceNames ==
  {"embedding", "face_detection", "face_assignment", "poi_detection", "quality"} = AllServices
  BY DEF AllServices

(* A sequence that is not empty. *)
LEMMA HeadAndTail ==
  ASSUME NEW S, NEW w \in Seq(S), w # << >>
  PROVE  /\ Head(w) \in S /\ Tail(w) \in Seq(S)
         /\ Len(w) = 1 <=> Tail(w) = << >>
         /\ ToSet(w) = {Head(w)} \cup ToSet(Tail(w))
<1>1. /\ Len(w) \in Nat \ {0} /\ DOMAIN w = 1 .. Len(w)
      /\ Tail(w) \in Seq(S) /\ DOMAIN Tail(w) = 1 .. Len(w) - 1 /\ Len(Tail(w)) = Len(w) - 1
      /\ \A i \in 1 .. Len(w) - 1 : Tail(w)[i] = w[i + 1]
      /\ Head(w) = w[1] /\ w[1] \in S
  OBVIOUS
<1>2. Len(w) = 1 <=> Tail(w) = << >>
  BY <1>1
<1>3. ASSUME NEW x \in ToSet(w) PROVE x = Head(w) \/ x \in ToSet(Tail(w))
  <2>1. PICK i \in 1 .. Len(w) : x = w[i]
    BY <1>1, <1>3 DEF ToSet
  <2>2. CASE i # 1
    <3>1. i - 1 \in DOMAIN Tail(w) /\ Tail(w)[i - 1] = x
      BY <1>1, <2>1, <2>2
    <3> QED
      BY <3>1 DEF ToSet
  <2> QED
    BY <1>1, <2>1, <2>2
<1>4. ASSUME NEW x \in ToSet(Tail(w)) PROVE x \in ToSet(w)
  <2>1. PICK i \in 1 .. Len(w) - 1 : x = w[i + 1]
    BY <1>1, <1>4 DEF ToSet
  <2> QED
    BY <1>1, <2>1 DEF ToSet
<1>5. Head(w) \in ToSet(w)
  BY <1>1 DEF ToSet
<1> QED
  BY <1>1, <1>2, <1>3, <1>4, <1>5

(* What is enabled, and what may have rows. *)
LEMMA Switched ==
  ASSUME RestTyped
  PROVE  /\ enabled \subseteq AllServices /\ enabled \subseteq Queued /\ Queued \subseteq AllServices
         /\ EnabledServices \in Seq(enabled) /\ EnabledServices # << >>
         /\ "embedding" \in enabled
         /\ "face_detection" \in enabled <=> "face_assignment" \in enabled
         /\ "face_detection" \in Queued <=> "face_detection" \in enabled
         /\ "face_detection" \in enabled => "quality" \in Queued
         /\ \A s \in Queued : FollowUpsOf(s) \subseteq Queued
<1>1. /\ scenario.services \in Seq(AllServices) /\ "embedding" \in ToSet(scenario.services)
      /\ "face_detection" \in ToSet(scenario.services) <=>
           "face_assignment" \in ToSet(scenario.services)
  BY ScenariosAssumption DEF RestTyped
<1>2. enabled \subseteq AllServices
  BY <1>1 DEF enabled, EnabledServices, ToSet
<1>3. EnabledServices \in Seq(enabled)
  BY <1>1 DEF enabled, EnabledServices, ToSet
<1>4. EnabledServices # << >>
  BY <1>1 DEF EnabledServices, ToSet
<1>5. /\ "embedding" \in enabled
      /\ "face_detection" \in enabled <=> "face_assignment" \in enabled
  BY <1>1 DEF enabled, EnabledServices
<1>6. /\ enabled \subseteq Queued /\ Queued \subseteq AllServices
      /\ "face_detection" \in Queued <=> "face_detection" \in enabled
      /\ "face_detection" \in enabled => "quality" \in Queued
  BY <1>2, ServiceNames DEF Queued
<1>7. ASSUME NEW s \in Queued PROVE FollowUpsOf(s) \subseteq Queued
  BY <1>5, <1>6 DEF FollowUpsOf
<1> QED
  BY <1>2, <1>3, <1>4, <1>5, <1>6, <1>7

LEMMA SameServices ==
  scenario' = scenario => enabled' = enabled /\ Queued' = Queued /\ EnabledServices' = EnabledServices
  BY DEF Queued, enabled, EnabledServices

LEMMA ScenarioKept == [Next]_vars => scenario' = scenario
<1> SUFFICES ASSUME [Next]_vars PROVE scenario' = scenario
  OBVIOUS
<1>1. ASSUME NEW s \in AllServices, Claim(s) \/ Job(s) \/ Unavailable(s) \/ JobFails(s)
                                    \/ FollowUp(s) \/ FollowUpFails(s)
      PROVE  scenario' = scenario
  BY <1>1 DEF Claim, Job, Unavailable, JobFails, FollowUp, FollowUpFails, Finish, Fail,
     Defer, Embed, CheckFaces, DropFaces, DetectFaces, CheckDetection, ReadFaces,
     AssignFaces, ReadBoxes, StoreScore, NothingToMatch, ReadEmbedding, CheckEmbedding,
     DeleteMatches, InsertMatches
<1>2. CASE Serve \/ RequestFails \/ Crash \/ ResetStuckJobs \/ Quiet \/ UNCHANGED vars
  BY <1>2 DEF Serve, FindMissing, DropSettled, ResetRows, InsertRow, RetryFailed, CancelPending,
     RequestFails, Crash, ResetStuckJobs, Quiet, vars
<1>3. CASE \E kind \in scenario.requests : Request(kind)
  BY <1>3 DEF Request
<1> QED
  BY <1>1, <1>2, <1>3 DEF Next

-----------------------------------------------------------------------------
(* The rows *)

LEMMA RowsUntouched ==
  RowsTyped /\ scenario' = scenario /\ UNCHANGED rows => RowsTyped'
  BY SameServices DEF RowsTyped, rows

LEMMA SettledRow ==
  ASSUME Typed, NEW s \in AllServices, NEW from \in Working,
         NEW to \in {"none", "pending", active[s]}, Settle(s, from, to), scenario' = scenario
  PROVE  /\ active' \in [AllServices -> {"none", "pending", "processing"}]
         /\ \A r \in AllServices \ Queued' : active'[r] = "none"
         /\ force' \subseteq AllServices /\ \A r \in force' : active'[r] # "none"
<1> USE SameServices DEF Typed, RowsTyped
<1>1. s \in Queued
  BY DEF Settle, WorkTyped, Working
<1>2. active' = IF s \in owns THEN [active EXCEPT ![s] = to] ELSE active
  BY DEF Settle
<1>3. /\ active' \in [AllServices -> {"none", "pending", "processing"}]
      /\ \A r \in AllServices : r # s => active'[r] = active[r]
  BY <1>2
<1>4. force' \subseteq AllServices
  BY DEF Settle
<1>5. \A r \in force' : active'[r] # "none"
  BY <1>2, <1>3 DEF Settle
<1> QED
  BY <1>1, <1>3, <1>4, <1>5

LEMMA RowsStep == Typed /\ [Next]_vars => RowsTyped'
<1> SUFFICES ASSUME Typed, [Next]_vars PROVE RowsTyped'
  OBVIOUS
<1>0. scenario' = scenario /\ Queued' = Queued /\ enabled' = enabled
  BY ScenarioKept, SameServices
<1>u. ASSUME UNCHANGED rows PROVE RowsTyped'
  BY <1>0, <1>u, RowsUntouched DEF Typed
<1>r. RowsTyped /\ ReqTyped /\ Queued \subseteq AllServices /\ enabled \subseteq Queued
  BY Switched DEF Typed
<1>1. ASSUME NEW s \in AllServices, Claim(s) PROVE RowsTyped'
  BY <1>0, <1>1, <1>r DEF Claim, RowsTyped
<1>2. ASSUME NEW s \in AllServices, Finish(s) PROVE RowsTyped'
  <2>1. Settle(s, "finish", "none") /\ "finish" \in Working
    BY <1>2 DEF Finish, Working, Steps
  <2>2. /\ done' \in [AllServices -> Nat] /\ UNCHANGED <<failed, failedForce>>
    BY <1>2, <1>r DEF Finish, RowsTyped
  <2> QED
    BY <1>0, <1>r, <2>1, <2>2, SettledRow DEF RowsTyped
<1>3. ASSUME NEW s \in AllServices, Fail(s) \/ Defer(s) PROVE RowsTyped'
  <2>1. \E from \in {"fail", "defer"}, to \in {"none", "pending", active[s]} : Settle(s, from, to)
    BY <1>3 DEF Fail, Defer, Swallowed
  <2>2. {"fail", "defer"} \subseteq Working
    BY DEF Working, Steps
  <2>3. /\ active' \in [AllServices -> {"none", "pending", "processing"}]
        /\ \A r \in AllServices \ Queued' : active'[r] = "none"
        /\ force' \subseteq AllServices /\ \A r \in force' : active'[r] # "none"
    BY <1>0, <2>1, <2>2, SettledRow
  <2>4. done' = done
    BY <1>3 DEF Fail, Defer
  <2>5. CASE UNCHANGED <<failed, failedForce>>
    BY <1>0, <1>r, <2>3, <2>4, <2>5 DEF RowsTyped
  <2>6. CASE /\ failed' = IF s \in owns THEN [failed EXCEPT ![s] = @ + 1] ELSE failed
             /\ failedForce' = failedForce \cup ({s} \cap owns \cap force)
    <3>1. owns \subseteq Queued
      BY DEF Typed, WorkTyped
    <3>2. failed' \in [AllServices -> Nat]
      BY <1>r, <2>6 DEF RowsTyped
    <3>3. \A r \in AllServices \ Queued : failed'[r] = 0
      BY <1>r, <2>6, <3>1 DEF RowsTyped
    <3>4. failedForce' \subseteq AllServices /\ \A r \in failedForce' : failed'[r] > 0
      BY <1>r, <2>6 DEF RowsTyped
    <3> QED
      BY <1>0, <1>r, <2>3, <2>4, <3>2, <3>3, <3>4 DEF RowsTyped
  <2> QED
    BY <1>3, <2>5, <2>6 DEF Fail, Defer, Swallowed
<1>4. ASSUME NEW s \in AllServices, Unavailable(s) \/ JobFails(s) \/ FollowUpFails(s) PROVE RowsTyped'
  BY <1>4, <1>u DEF Unavailable, JobFails, FollowUpFails
<1>5. CASE \/ Embed \/ CheckFaces \/ DropFaces \/ DetectFaces \/ CheckDetection
           \/ ReadFaces \/ AssignFaces \/ ReadBoxes \/ StoreScore \/ NothingToMatch
           \/ ReadEmbedding \/ CheckEmbedding \/ DeleteMatches \/ InsertMatches
  BY <1>5, <1>u DEF Embed, CheckFaces, DropFaces, DetectFaces, CheckDetection, ReadFaces,
     AssignFaces, ReadBoxes, StoreScore, NothingToMatch, ReadEmbedding, CheckEmbedding,
     DeleteMatches, InsertMatches
<1>6. ASSUME NEW s \in Queued, NEW f \in BOOLEAN, Inserted(s, f),
             UNCHANGED <<done, failed, failedForce>>
      PROVE  RowsTyped'
  <2>1. active' \in [AllServices -> {"none", "pending", "processing"}]
    BY <1>6, <1>r DEF RowsTyped, Inserted
  <2>2. \A r \in AllServices : r # s => active'[r] = active[r]
    BY <1>6, <1>r DEF RowsTyped, Inserted
  <2>3. active'[s] # "none"
    BY <1>6, <1>r DEF RowsTyped, Inserted
  <2>4. force' \subseteq AllServices
    BY <1>6, <1>r DEF RowsTyped, Inserted
  <2>5. \A r \in force' : active'[r] # "none"
    BY <1>6, <1>r, <2>2, <2>3 DEF RowsTyped, Inserted
  <2> QED
    BY <1>0, <1>6, <1>r, <2>1, <2>2, <2>4, <2>5 DEF RowsTyped
<1>7. ASSUME NEW s \in AllServices, FollowUp(s) PROVE RowsTyped'
  <2>1. s \in Queued
    BY <1>7 DEF FollowUp, Typed, WorkTyped
  <2>2. UNCHANGED rows \/ (Inserted(s, FALSE) /\ UNCHANGED <<done, failed, failedForce>>)
    BY <1>7 DEF FollowUp, rows
  <2> QED
    BY <1>u, <1>6, <2>1, <2>2
<1>8. CASE \E kind \in scenario.requests : Request(kind)
  BY <1>8, <1>u DEF Request
<1>9. CASE FindMissing \/ RequestFails \/ Crash \/ Quiet \/ UNCHANGED vars
  BY <1>9, <1>u DEF FindMissing, RequestFails, Crash, Quiet, vars, rows
<1>c. ASSUME req.at \in {"drop", "reset", "insert"} PROVE Current \in enabled /\ Current \in Queued
  <2>1. req.todo \in Seq(enabled) /\ req.todo # << >>
    BY <1>c, <1>r DEF ReqTyped
  <2> QED
    BY <1>r, <2>1, HeadAndTail DEF Current
<1>10. CASE DropSettled
  <2>1. Current \in Queued
    BY <1>10, <1>c DEF DropSettled
  <2> QED
    BY <1>0, <1>10, <1>r, <2>1 DEF DropSettled, RowsTyped
<1>11. CASE ResetRows
  <2>1. Current \in Queued
    BY <1>11, <1>c DEF ResetRows
  <2>2. CASE RowsOf(Current) = 1
    <3>1. /\ active' = [active EXCEPT ![Current] = "pending"]
          /\ force' = force \cup {Current}
          /\ done' = [done EXCEPT ![Current] = 0]
          /\ failed' = [failed EXCEPT ![Current] = 0]
          /\ failedForce' = failedForce \ {Current}
      BY <1>11, <2>2 DEF ResetRows
    <3> QED
      BY <1>0, <1>r, <2>1, <3>1 DEF RowsTyped
  <2>3. CASE RowsOf(Current) # 1
    BY <1>11, <1>u, <2>3 DEF ResetRows
  <2> QED
    BY <2>2, <2>3
<1>12. CASE InsertRow
  <2>1. Current \in Queued /\ (req.kind = "force") \in BOOLEAN
    BY <1>12, <1>c DEF InsertRow
  <2>2. UNCHANGED rows \/ (Inserted(Current, req.kind = "force") /\ UNCHANGED <<done, failed, failedForce>>)
    BY <1>12 DEF InsertRow, rows
  <2> QED
    BY <1>u, <1>6, <2>1, <2>2
<1>13. CASE RetryFailed
  <2> DEFINE F == {s \in Half : failed[s] > 0}
  <2>1. Half \subseteq AllServices
    BY DEF Half, PerUser, Global, AllServices
  <2>2. CASE UNCHANGED <<active, force, failed, failedForce>>
    BY <1>13, <1>u, <2>2 DEF RetryFailed, rows
  <2>3. CASE /\ active' = [s \in AllServices |-> IF s \in F THEN "pending" ELSE active[s]]
             /\ failed' = [s \in AllServices |-> IF s \in F THEN 0 ELSE failed[s]]
             /\ force' = force \cup (failedForce \cap F)
             /\ failedForce' = failedForce \ F
    <3>1. F \subseteq Queued
      BY <1>r, <2>1 DEF RowsTyped
    <3>2. /\ active' \in [AllServices -> {"none", "pending", "processing"}]
          /\ failed' \in [AllServices -> Nat] /\ UNCHANGED done
      BY <1>13, <1>r, <2>3 DEF RetryFailed, RowsTyped
    <3>3. \A s \in AllServices \ Queued : active'[s] = "none" /\ failed'[s] = 0
      BY <1>r, <2>3, <3>1 DEF RowsTyped
    <3>4. force' \cup failedForce' \subseteq AllServices /\ \A r \in force' : active'[r] # "none"
      BY <1>r, <2>3 DEF RowsTyped
    <3>5. \A r \in failedForce' : failed'[r] > 0
      BY <1>r, <2>3 DEF RowsTyped
    <3> QED
      BY <1>0, <1>r, <3>2, <3>3, <3>4, <3>5 DEF RowsTyped
  <2> QED
    BY <1>13, <2>2, <2>3 DEF RetryFailed
<1>14. CASE CancelPending
  <2> DEFINE P == {s \in Half : active[s] = "pending"}
  <2>1. /\ active' = [s \in AllServices |-> IF s \in P THEN "none" ELSE active[s]]
        /\ force' = force \ P /\ UNCHANGED <<done, failed, failedForce>>
    BY <1>14 DEF CancelPending
  <2>2. active' \in [AllServices -> {"none", "pending", "processing"}]
    BY <1>r, <2>1 DEF RowsTyped
  <2>3. \A s \in AllServices \ Queued : active'[s] = "none"
    BY <1>r, <2>1 DEF RowsTyped
  <2>4. force' \subseteq AllServices /\ \A s \in force' : active'[s] # "none"
    BY <1>r, <2>1 DEF RowsTyped
  <2> QED
    BY <1>0, <1>r, <2>1, <2>2, <2>3, <2>4 DEF RowsTyped
<1>15. CASE ResetStuckJobs
  <2>1. /\ active' = [s \in AllServices |->
                        IF active[s] = "processing" THEN "pending" ELSE active[s]]
        /\ UNCHANGED <<force, done, failed, failedForce>>
    BY <1>15 DEF ResetStuckJobs
  <2>2. \A s \in AllServices : active'[s] = "none" <=> active[s] = "none"
    BY <1>r, <2>1 DEF RowsTyped
  <2>3. active' \in [AllServices -> {"none", "pending", "processing"}]
    BY <1>r, <2>1 DEF RowsTyped
  <2> QED
    BY <1>0, <1>r, <2>1, <2>2, <2>3 DEF RowsTyped
<1> QED
  BY <1>1, <1>2, <1>3, <1>4, <1>5, <1>7, <1>8, <1>9, <1>10, <1>11, <1>12, <1>13, <1>14, <1>15
     DEF Next, Job, Serve

-----------------------------------------------------------------------------
(* The workers *)

LEMMA WorkUntouched ==
  WorkTyped /\ scenario' = scenario /\ UNCHANGED <<work, followUps>> => WorkTyped'
  BY SameServices DEF WorkTyped, work

(* A step of the job of s. *)
LEMMA JobStepTyped ==
  ASSUME Typed, scenario' = scenario, NEW s \in AllServices, NEW to \in Steps,
         step[s] # "idle", step' = [step EXCEPT ![s] = to],
         seen' \in [AllServices -> {"nothing", "current", "gone"}],
         UNCHANGED <<forced, owns, inUse, waiters, followUps>>
  PROVE  WorkTyped'
<1>1. s \in Queued
  BY DEF Typed, WorkTyped
<1> QED
  BY <1>1, SameServices DEF Typed, WorkTyped

LEMMA SettledWork ==
  ASSUME Typed, SlotInv, scenario' = scenario, NEW s \in AllServices, NEW from \in Working,
         NEW to, Settle(s, from, to), followUps' \subseteq Queued
  PROVE  WorkTyped'
<1> USE SameServices DEF Typed
<1>1. /\ forced' \in [AllServices -> BOOLEAN] /\ owns' \subseteq Queued
      /\ seen' \in [AllServices -> {"nothing", "current", "gone"}]
  BY DEF WorkTyped, Settle
<1>2. s \in Queued
  BY DEF Settle, WorkTyped, Working
<1>3. inUse' \in Nat
  BY SlotReleased DEF SlotInv, SlotTypes
<1>4. CASE waiters = << >>
  <2>1. waiters' = << >> /\ step' = [step EXCEPT ![s] = "idle"]
    BY <1>4 DEF Settle
  <2> QED
    BY <1>1, <1>2, <1>3, <2>1 DEF WorkTyped, Steps
<1>5. CASE waiters # << >>
  <2>1. waiters' = Tail(waiters)
        /\ step' = [step EXCEPT ![s] = "idle", ![Head(waiters)] = "start"]
    BY <1>5 DEF Settle
  <2>2. Head(waiters) \in Queued /\ waiters' \in Seq(Queued)
    BY <1>5, <2>1, HeadAndTail DEF WorkTyped
  <2>3. step' \in [AllServices -> Steps]
    BY <2>1 DEF WorkTyped, Steps
  <2>4. \A r \in AllServices \ Queued : step'[r] = "idle"
    BY <1>2, <2>1, <2>2 DEF WorkTyped
  <2> QED
    BY <1>1, <1>3, <2>2, <2>3, <2>4 DEF WorkTyped
<1> QED
  BY <1>4, <1>5

LEMMA WorkStep == Typed /\ SlotInv /\ [Next]_vars => WorkTyped'
<1> SUFFICES ASSUME Typed, SlotInv, [Next]_vars PROVE WorkTyped'
  OBVIOUS
<1>0. scenario' = scenario /\ Queued' = Queued
  BY ScenarioKept, SameServices
<1>u. ASSUME UNCHANGED <<work, followUps>> PROVE WorkTyped'
  BY <1>0, <1>u, WorkUntouched DEF Typed
<1>w. WorkTyped /\ Queued \subseteq AllServices
  BY Switched DEF Typed
<1>1. ASSUME NEW s \in AllServices, Claim(s) PROVE WorkTyped'
  <2>1. s \in Queued
    BY <1>1 DEF Claim, Typed, RowsTyped
  <2>2. step' \in [AllServices -> Steps] /\ \A r \in AllServices : r # s => step'[r] = step[r]
    BY <1>1, <1>w DEF Claim, Goto, WorkTyped, Steps
  <2>3. forced' \in [AllServices -> BOOLEAN] /\ owns' \subseteq Queued
    BY <1>1, <1>w, <2>1 DEF Claim, WorkTyped
  <2>4. inUse' \in Nat /\ waiters' \in Seq(Queued)
    BY <1>1, <1>w, <2>1 DEF Claim, WorkTyped
  <2>5. UNCHANGED <<seen, followUps>>
    BY <1>1 DEF Claim
  <2> QED
    BY <1>0, <1>w, <2>1, <2>2, <2>3, <2>4, <2>5 DEF WorkTyped
<1>2. ASSUME NEW s \in AllServices, Finish(s) PROVE WorkTyped'
  <2>1. Settle(s, "finish", "none") /\ "finish" \in Working
    BY <1>2 DEF Finish, Working, Steps
  <2>2. s \in Queued
    BY <1>w, <2>1 DEF Settle, WorkTyped
  <2>3. followUps' \subseteq Queued
    BY <1>2, <1>w, <2>2, Switched DEF Finish, WorkTyped, Typed
  <2> QED
    BY <1>0, <2>1, <2>3, SettledWork
<1>3. ASSUME NEW s \in AllServices, Fail(s) \/ Defer(s) PROVE WorkTyped'
  <2>1. \E from \in {"fail", "defer"} :
           Settle(s, from, "none") \/ Settle(s, from, "pending") \/ Settle(s, from, active[s])
    BY <1>3 DEF Fail, Defer, Swallowed
  <2>2. {"fail", "defer"} \subseteq Working
    BY DEF Working, Steps
  <2>3. followUps' \subseteq Queued
    BY <1>3, <1>w DEF Fail, Defer, WorkTyped
  <2> QED
    BY <1>0, <2>1, <2>2, <2>3, SettledWork
<1>j. ASSUME NEW s \in AllServices, NEW to \in Steps, step[s] # "idle",
             step' = [step EXCEPT ![s] = to],
             seen' \in [AllServices -> {"nothing", "current", "gone"}],
             UNCHANGED <<forced, owns, inUse, waiters, followUps>>
      PROVE  WorkTyped'
  BY <1>0, <1>j, JobStepTyped
<1>4. ASSUME NEW s \in AllServices, Unavailable(s) \/ JobFails(s) PROVE WorkTyped'
  <2>1. /\ step[s] # "idle" /\ UNCHANGED <<forced, seen, owns, inUse, waiters, followUps>>
        /\ \E to \in {"defer", "fail"} : step' = [step EXCEPT ![s] = to]
    BY <1>4 DEF Unavailable, JobFails
  <2> QED
    BY <1>j, <1>w, <2>1 DEF Steps, WorkTyped
<1>g. ASSUME NEW s \in AllServices, NEW from \in Steps \ {"idle"}, NEW to \in Steps,
             Goto(s, from, to), seen' \in [AllServices -> {"nothing", "current", "gone"}],
             UNCHANGED <<forced, owns, inUse, waiters, followUps>>
      PROVE  WorkTyped'
  BY <1>g, <1>j DEF Goto
<1>s. /\ seen \in [AllServices -> {"nothing", "current", "gone"}]
      /\ FacesGone \in [AllServices -> {"nothing", "current", "gone"}]
      /\ \A s : Seeing(s) \in [AllServices -> {"nothing", "current", "gone"}]
  BY <1>w DEF WorkTyped, FacesGone, Seeing
<1>5. CASE Embed \/ CheckFaces \/ DropFaces \/ DetectFaces
  BY <1>5, <1>g, <1>s, ServiceNames DEF Embed, CheckFaces, DropFaces, DetectFaces, Steps
<1>6. CASE CheckDetection \/ ReadFaces \/ AssignFaces
  BY <1>6, <1>g, <1>s, ServiceNames DEF CheckDetection, ReadFaces, AssignFaces, Steps
<1>7. CASE ReadBoxes \/ StoreScore
  BY <1>7, <1>g, <1>s, ServiceNames DEF ReadBoxes, StoreScore, Steps
<1>8. CASE ReadEmbedding
  <2>1. seen' \in [AllServices -> {"nothing", "current", "gone"}]
    BY <1>8, <1>s DEF ReadEmbedding
  <2> QED
    BY <1>8, <1>g, <2>1, ServiceNames DEF ReadEmbedding, Steps
<1>9. CASE NothingToMatch \/ CheckEmbedding \/ DeleteMatches \/ InsertMatches
  BY <1>9, <1>g, <1>s, ServiceNames DEF NothingToMatch, CheckEmbedding, DeleteMatches, InsertMatches, Steps
<1>10. ASSUME NEW s \in AllServices, FollowUp(s) \/ FollowUpFails(s) PROVE WorkTyped'
  <2>1. UNCHANGED work /\ followUps' \subseteq followUps
    BY <1>10 DEF FollowUp, FollowUpFails
  <2> QED
    BY <1>0, <1>w, <2>1 DEF WorkTyped, work
<1>11. CASE \E kind \in scenario.requests : Request(kind)
  BY <1>11, <1>u DEF Request
<1>12. CASE FindMissing \/ DropSettled \/ ResetRows \/ InsertRow \/ RetryFailed
  BY <1>12, <1>u DEF FindMissing, DropSettled, ResetRows, InsertRow, RetryFailed
<1>13. CASE CancelPending
  <2>1. owns' \subseteq owns /\ UNCHANGED <<step, forced, seen, inUse, waiters, followUps>>
    BY <1>13 DEF CancelPending
  <2> QED
    BY <1>0, <1>w, <2>1 DEF WorkTyped
<1>14. CASE RequestFails \/ ResetStuckJobs \/ Quiet \/ UNCHANGED vars
  BY <1>14, <1>u DEF RequestFails, ResetStuckJobs, Quiet, vars, work
<1>15. CASE Crash
  BY <1>0, <1>15 DEF Crash, WorkTyped, Steps
<1> QED
  BY <1>1, <1>2, <1>3, <1>4, <1>5, <1>6, <1>7, <1>8, <1>9, <1>10, <1>11, <1>12, <1>13, <1>14, <1>15
     DEF Next, Job, Serve

-----------------------------------------------------------------------------
(* The request being served *)

(* On to the next service, or through. *)
LEMMA Onward ==
  ASSUME ReqTyped, scenario' = scenario, req.at # "idle", NextService
  PROVE  /\ ReqTyped'
         /\ \/ req' = Idle /\ Tail(req.todo) = << >>
            \/ req'.kind = req.kind /\ req'.todo = Tail(req.todo)
         /\ ToSet(req.todo) = {Current} \cup ToSet(Tail(req.todo))
<1> DEFINE T == Tail(req.todo)
<1>1. /\ req.todo \in Seq(AllServices) /\ req.todo # << >>
      /\ T \in Seq(AllServices)
      /\ Len(req.todo) = 1 <=> T = << >>
      /\ ToSet(req.todo) = {Current} \cup ToSet(T)
  BY HeadAndTail DEF ReqTyped, Current
<1>2. CASE Len(req.todo) = 1
  <2>1. req' = Idle
    BY <1>2 DEF NextService
  <2>2. ReqTyped'
    BY <2>1, SameServices DEF ReqTyped, Idle
  <2> QED
    BY <1>1, <1>2, <2>1, <2>2
<1>3. CASE Len(req.todo) # 1
  <2>1. req' = [at |-> IF req.kind = "upload" THEN "insert" ELSE FirstStatement(req.kind),
                kind |-> req.kind, todo |-> T]
    BY <1>3 DEF NextService
  <2>2. T # << >> /\ (req.todo \in Seq(enabled) => T \in Seq(enabled))
    BY <1>1, <1>3, HeadAndTail
  <2>3. req.kind \notin {"region", "poi_empty"}
    <3>1. Len(<<"poi_detection">>) = 1
      OBVIOUS
    <3>2. req.kind \in {"region", "poi_empty"} => req.todo = <<"poi_detection">>
      BY DEF ReqTyped
    <3> QED
      BY <1>3, <3>1, <3>2
  <2> HIDE DEF T
  <2>4. ReqTyped'
    <3>1. req.kind \in {"upload", "force", "missing", "retry", "cancel"}
      BY <2>3 DEF ReqTyped, AllRequests
    <3>2. /\ req'.kind = req.kind /\ req'.todo = T
          /\ req'.at = CASE req.kind = "upload" -> "insert" [] req.kind = "force" -> "drop"
                         [] req.kind = "missing" -> "find" [] req.kind = "retry" -> "retry"
                         [] req.kind = "cancel" -> "cancel"
      BY <2>1, <3>1 DEF FirstStatement
    <3>3. req' \in [at : {"idle", "find", "drop", "reset", "insert", "retry", "cancel"},
                    kind : AllRequests \cup {"upload"}, todo : Seq(AllServices)]
      BY <1>1, <2>1, <3>1 DEF FirstStatement, AllRequests
    <3>4. req.kind \notin {"retry", "cancel"} => T \in Seq(enabled)
      BY <2>2 DEF ReqTyped
    <3> QED
      BY <2>2, <3>1, <3>2, <3>3, <3>4, SameServices DEF ReqTyped
  <2> QED
    BY <1>1, <2>1, <2>4 DEF T
<1> QED
  BY <1>2, <1>3

LEMMA ReqStep == Typed /\ [Next]_vars => ReqTyped'
<1> SUFFICES ASSUME Typed, [Next]_vars PROVE ReqTyped'
  OBVIOUS
<1>0. scenario' = scenario /\ enabled' = enabled
  BY ScenarioKept, SameServices
<1>u. ASSUME req' = req PROVE ReqTyped'
  BY <1>0, <1>u DEF Typed, ReqTyped
<1>i. ASSUME req' = Idle PROVE ReqTyped'
  BY <1>0, <1>i DEF ReqTyped, Idle
<1>n. ASSUME req.at # "idle", NextService PROVE ReqTyped'
  BY <1>0, <1>n, Onward DEF Typed
<1>1. ASSUME NEW s \in AllServices, Claim(s) \/ Job(s) \/ Unavailable(s) \/ JobFails(s)
                                    \/ FollowUp(s) \/ FollowUpFails(s)
      PROVE  ReqTyped'
  <2>1. req' = req
    BY <1>1 DEF Claim, Job, Unavailable, JobFails, FollowUp, FollowUpFails, Finish, Fail,
       Defer, Embed, CheckFaces, DropFaces, DetectFaces, CheckDetection, ReadFaces,
       AssignFaces, ReadBoxes, StoreScore, NothingToMatch, ReadEmbedding, CheckEmbedding,
       DeleteMatches, InsertMatches
  <2> QED
    BY <1>u, <2>1
<1>2. ASSUME NEW kind \in scenario.requests, Request(kind) PROVE ReqTyped'
  <2>1. kind \in AllRequests /\ EnabledServices \in Seq(enabled) /\ EnabledServices # << >>
        /\ enabled \subseteq AllServices
    BY <1>2, ScenariosAssumption, Switched DEF Typed, RestTyped
  <2>2. /\ req' = [at |-> FirstStatement(kind), kind |-> kind, todo |-> ServicesOf(kind)]
        /\ kind \in {"region", "poi_empty"} => "poi_detection" \in enabled
    BY <1>2 DEF Request, Applies
  <2>3. EnabledServices \in Seq(AllServices)
    BY <1>2, ScenariosAssumption DEF Typed, RestTyped, EnabledServices
  <2>4. CASE kind \in {"force", "missing"}
    BY <1>0, <2>1, <2>2, <2>3, <2>4 DEF ReqTyped, FirstStatement, ServicesOf
  <2>5. CASE kind \in {"region", "poi_empty"}
    <3>1. /\ <<"poi_detection">> \in Seq(enabled) /\ <<"poi_detection">> \in Seq(AllServices)
          /\ <<"poi_detection">> # << >>
      BY <2>1, <2>2, <2>5, ServiceNames
    <3> QED
      BY <1>0, <2>1, <2>2, <2>5, <3>1 DEF ReqTyped, FirstStatement, ServicesOf
  <2>6. CASE kind \in {"retry", "cancel"}
    <3>1. <<"face_assignment", "embedding">> \in Seq(AllServices)
      BY ServiceNames
    <3> QED
      BY <1>0, <2>1, <2>2, <2>6, <3>1 DEF ReqTyped, FirstStatement, ServicesOf
  <2> QED
    BY <2>1, <2>4, <2>5, <2>6 DEF AllRequests
<1>3. CASE FindMissing
  <2>1. CASE req' = [req EXCEPT !.at = "drop"]
    BY <1>0, <1>3, <2>1 DEF FindMissing, Typed, ReqTyped, AllRequests
  <2>2. CASE NextService
    BY <1>3, <1>n, <2>2 DEF FindMissing
  <2> QED
    BY <1>3, <2>1, <2>2 DEF FindMissing
<1>4. CASE DropSettled
  BY <1>0, <1>4 DEF DropSettled, Typed, ReqTyped, AllRequests
<1>5. CASE ResetRows
  <2>1. CASE req' = [req EXCEPT !.at = "insert"]
    BY <1>0, <1>5, <2>1 DEF ResetRows, Typed, ReqTyped, AllRequests
  <2>2. CASE NextService
    BY <1>5, <1>n, <2>2 DEF ResetRows
  <2>3. RowsOf(Current) = 0 \/ RowsOf(Current) = 1 \/ RowsOf(Current) > 1
    <3>1. Current \in AllServices
      BY <1>5, HeadAndTail DEF ResetRows, Typed, ReqTyped, Current
    <3> QED
      BY <3>1 DEF Typed, RowsTyped, RowsOf
  <2> QED
    BY <1>5, <1>i, <2>1, <2>2, <2>3 DEF ResetRows
<1>6. CASE InsertRow \/ CancelPending
  BY <1>6, <1>n DEF InsertRow, CancelPending
<1>7. CASE RetryFailed
  BY <1>7, <1>n, <1>i DEF RetryFailed
<1>8. CASE RequestFails \/ Crash
  BY <1>8, <1>i DEF RequestFails, Crash
<1>9. CASE ResetStuckJobs \/ Quiet \/ UNCHANGED vars
  BY <1>9, <1>u DEF ResetStuckJobs, Quiet, vars
<1> QED
  BY <1>1, <1>2, <1>3, <1>4, <1>5, <1>6, <1>7, <1>8, <1>9 DEF Next, Serve

LEMMA RestStep == Typed /\ [Next]_vars => RestTyped'
<1> SUFFICES ASSUME Typed, [Next]_vars PROVE RestTyped'
  OBVIOUS
<1>0. scenario' = scenario /\ RestTyped /\ scenario.maxFaults \in Nat /\ scenario.maxRequests \in Nat
  BY ScenarioKept, ScenariosAssumption DEF Typed, RestTyped
<1>f. Fault => faults' \in 0 .. scenario.maxFaults
  BY <1>0 DEF Fault, RestTyped
<1>d. ASSUME UNCHANGED <<data, booted, lost, requests>>, Fault \/ faults' = faults PROVE RestTyped'
  BY <1>0, <1>d, <1>f DEF RestTyped, data
<1>1. ASSUME NEW s \in AllServices,
             Claim(s) \/ Finish(s) \/ Fail(s) \/ Defer(s) \/ Unavailable(s) \/ JobFails(s)
      PROVE  RestTyped'
  <2>1. UNCHANGED <<data, booted, lost, requests>>
    BY <1>1 DEF Claim, Finish, Fail, Defer, Unavailable, JobFails
  <2>2. Fault \/ faults' = faults
    BY <1>1 DEF Claim, Finish, Fail, Defer, Swallowed, Unavailable, JobFails
  <2> QED
    BY <1>d, <2>1, <2>2
<1>2. CASE CheckFaces \/ CheckDetection \/ ReadBoxes \/ CheckEmbedding
  BY <1>2, <1>d DEF CheckFaces, CheckDetection, ReadBoxes, CheckEmbedding
<1>3. CASE Embed \/ DropFaces \/ DeleteMatches \/ InsertMatches
  BY <1>0, <1>3 DEF Embed, DropFaces, DeleteMatches, InsertMatches, RestTyped
<1>4. CASE ReadFaces \/ AssignFaces \/ StoreScore
  BY <1>0, <1>4 DEF ReadFaces, AssignFaces, StoreScore, RestTyped
<1>5. CASE DetectFaces
  <2>1. /\ UNCHANGED <<embedding, matched, booted, requests>>
        /\ {faces', assigned', scored', lost'} \subseteq BOOLEAN
    BY <1>0, <1>5 DEF DetectFaces, RestTyped
  <2>2. Fault \/ faults' = faults
    BY <1>5 DEF DetectFaces
  <2> QED
    BY <1>0, <1>f, <2>1, <2>2 DEF RestTyped
<1>6. CASE ReadEmbedding
  <2>1. UNCHANGED <<data, booted, requests>> /\ lost' \in BOOLEAN
    BY <1>0, <1>6 DEF ReadEmbedding, RestTyped
  <2>2. Fault \/ faults' = faults
    BY <1>6 DEF ReadEmbedding
  <2> QED
    BY <1>0, <1>f, <2>1, <2>2 DEF RestTyped, data
<1>14. CASE NothingToMatch
  <2>1. UNCHANGED <<data, booted, requests>> /\ lost' \in BOOLEAN
    BY <1>0, <1>14 DEF NothingToMatch, RestTyped
  <2> QED
    BY <1>0, <1>14, <1>f, <2>1 DEF NothingToMatch, RestTyped, data
<1>7. ASSUME NEW s \in AllServices, FollowUp(s) \/ FollowUpFails(s) PROVE RestTyped'
  <2>1. UNCHANGED <<data, booted, requests>> /\ lost' \in BOOLEAN
    BY <1>0, <1>7 DEF FollowUp, FollowUpFails, RestTyped
  <2>2. Fault \/ faults' = faults
    BY <1>7 DEF FollowUp, FollowUpFails
  <2> QED
    BY <1>0, <1>f, <2>1, <2>2 DEF RestTyped, data
<1>8. ASSUME NEW kind \in scenario.requests, Request(kind) PROVE RestTyped'
  <2>1. UNCHANGED <<data, booted, faults>> /\ lost' \in BOOLEAN
    BY <1>0, <1>8 DEF Request, RestTyped
  <2>2. requests' \in 0 .. scenario.maxRequests
    BY <1>0, <1>8 DEF Request, RestTyped
  <2> QED
    BY <1>0, <2>1, <2>2 DEF RestTyped, data
<1>9. CASE FindMissing \/ DropSettled \/ InsertRow \/ RetryFailed
  BY <1>9, <1>d DEF FindMissing, DropSettled, InsertRow, RetryFailed
<1>10. CASE ResetRows \/ CancelPending
  <2>1. UNCHANGED <<data, booted, requests, faults>> /\ lost' \in BOOLEAN
    BY <1>0, <1>10 DEF ResetRows, CancelPending, RestTyped
  <2> QED
    BY <1>0, <2>1 DEF RestTyped, data
<1>11. CASE RequestFails \/ Crash
  <2>1. UNCHANGED <<data, requests>> /\ {lost', booted'} \subseteq BOOLEAN
    BY <1>0, <1>11 DEF RequestFails, Crash, RestTyped
  <2>2. faults' \in 0 .. scenario.maxFaults
    BY <1>11, <1>f DEF RequestFails, Crash
  <2> QED
    BY <1>0, <2>1, <2>2 DEF RestTyped, data
<1>12. CASE ResetStuckJobs
  BY <1>0, <1>12 DEF ResetStuckJobs, RestTyped, data
<1>13. CASE Quiet \/ UNCHANGED vars
  BY <1>13, <1>d DEF Quiet, vars, data
<1> QED
  BY <1>1, <1>2, <1>3, <1>4, <1>5, <1>6, <1>7, <1>8, <1>9, <1>10, <1>11, <1>12, <1>13, <1>14
     DEF Next, Job, Serve

LEMMA TypedInit == Init => Typed
<1> SUFFICES ASSUME Init PROVE Typed
  OBVIOUS
<1>1. RestTyped
  <2>1. scenario \in Scenarios /\ scenario.maxRequests \in Nat /\ scenario.maxFaults \in Nat
    BY ScenariosAssumption DEF Init
  <2>2. /\ embedding = FALSE /\ matched = FALSE /\ faces = FALSE /\ assigned = FALSE
        /\ scored = FALSE /\ booted = TRUE /\ lost = FALSE /\ requests = 0 /\ faults = 0
    BY DEF Init
  <2>3. {embedding, matched, faces, assigned, scored, booted, lost} \subseteq BOOLEAN
    BY <2>2
  <2> QED
    BY <2>1, <2>2, <2>3 DEF RestTyped
<1>2. /\ EnabledServices \in Seq(enabled) /\ EnabledServices # << >>
      /\ EnabledServices \in Seq(AllServices)
  BY <1>1, Switched, ScenariosAssumption DEF RestTyped, EnabledServices
<1>3. RowsTyped
  BY DEF Init, RowsTyped
<1>4. WorkTyped
  BY DEF Init, WorkTyped, Steps
<1>5. ReqTyped
  BY <1>2 DEF Init, ReqTyped
<1> QED
  BY <1>1, <1>3, <1>4, <1>5 DEF Typed

(* The rows, the workers, the request being served and what is known of the *)
(* photo have their types: jobs only of services that may have them, force  *)
(* flags only of rows that are there, whatever requests, failures and       *)
(* restarts come together.                                                  *)
THEOREM TypeCorrect == FairSpec => []TypeOK
<1>1. Typed /\ SlotInv /\ [Next]_vars => Typed'
  BY RowsStep, WorkStep, ReqStep, RestStep DEF Typed
<1> QED
  BY <1>1, TypedInit, SlotInit, SlotStep, TypedIsTypeOK, PTL DEF FairSpec

-----------------------------------------------------------------------------
(* Which worker still has its row.                                          *)

Owned ==
  /\ \A s \in owns : active[s] # "none" /\ step[s] # "idle"
  /\ ~lost => \A s \in AllServices : step[s] # "idle" => s \in owns

Inv == Typed /\ SlotInv

LEMMA OwnedKept ==
  ASSUME Typed, Owned, lost => lost', UNCHANGED owns,
         \A s \in AllServices : step[s] # "idle" <=> step'[s] # "idle",
         \A s \in AllServices : active[s] # "none" => active'[s] # "none"
  PROVE  Owned'
<1>1. owns \subseteq AllServices
  BY Switched DEF Typed, WorkTyped
<1> QED
  BY <1>1 DEF Owned

LEMMA OwnedSettled ==
  ASSUME Inv, Owned, NEW s \in AllServices, NEW from \in Working, NEW to, Settle(s, from, to),
         lost' = lost
  PROVE  Owned'
<1>1. step[s] = from /\ from \notin {"idle", "waiting"} /\ step \in [AllServices -> Steps]
  BY DEF Settle, Working, Inv, Typed, WorkTyped
<1>2. /\ owns' = owns \ {s} /\ owns \subseteq AllServices
      /\ \A r \in AllServices : r # s => active'[r] = active[r]
  BY Switched DEF Settle, Inv, Typed, WorkTyped, RowsTyped
<1>3. CASE waiters = << >>
  <2>1. step' = [step EXCEPT ![s] = "idle"]
    BY <1>3 DEF Settle
  <2> QED
    BY <1>1, <1>2, <2>1 DEF Owned
<1>4. CASE waiters # << >>
  <2>1. step' = [step EXCEPT ![s] = "idle", ![Head(waiters)] = "start"]
    BY <1>4 DEF Settle
  <2>2. Head(waiters) \in AllServices /\ step[Head(waiters)] = "waiting"
    BY <1>4, LineLeft DEF Inv, SlotInv, SlotTypes, SlotAccounting
  <2>3. /\ Head(waiters) # s /\ step'[s] = "idle"
        /\ \A r \in AllServices : r # s => (step'[r] # "idle" <=> step[r] # "idle")
    BY <1>1, <2>1, <2>2
  <2> QED
    BY <1>2, <2>3 DEF Owned
<1> QED
  BY <1>3, <1>4

LEMMA OwnedStep == Inv /\ Owned /\ [Next]_vars => Owned'
<1> SUFFICES ASSUME Inv, Owned, [Next]_vars PROVE Owned'
  OBVIOUS
<1>t. /\ Typed /\ RowsTyped /\ step \in [AllServices -> Steps] /\ owns \subseteq AllServices
  BY Switched DEF Inv, Typed, WorkTyped
<1>b. lost \in BOOLEAN /\ lost' \in BOOLEAN
  BY RestStep DEF Inv, Typed, RestTyped
<1>k. ASSUME lost => lost', UNCHANGED <<active, step, owns>> PROVE Owned'
  BY <1>k, <1>t, OwnedKept
<1>1. ASSUME NEW s \in AllServices, Claim(s) PROVE Owned'
  <2>1. /\ step[s] = "idle" /\ owns' = owns \cup {s} /\ lost' = lost
        /\ \E to \in {"start", "waiting"} : step' = [step EXCEPT ![s] = to]
        /\ active' = [active EXCEPT ![s] = "processing"]
    BY <1>1 DEF Claim, Goto
  <2>2. /\ active'[s] # "none" /\ step'[s] # "idle"
        /\ \A r \in AllServices : r # s => active'[r] = active[r] /\ step'[r] = step[r]
    BY <1>t, <2>1 DEF RowsTyped
  <2> QED
    BY <1>t, <2>1, <2>2 DEF Owned
<1>2. ASSUME NEW s \in AllServices, Finish(s) \/ Fail(s) \/ Defer(s) PROVE Owned'
  <2>1. \E from \in {"finish", "fail", "defer"} :
           Settle(s, from, "none") \/ Settle(s, from, "pending") \/ Settle(s, from, active[s])
    BY <1>2 DEF Finish, Fail, Defer, Swallowed
  <2>2. {"finish", "fail", "defer"} \subseteq Working
    BY DEF Working, Steps
  <2>3. lost' = lost
    BY <1>2 DEF Finish, Fail, Defer
  <2> QED
    BY <2>1, <2>2, <2>3, OwnedSettled
<1>j. ASSUME NEW s \in AllServices, NEW to \in Steps \ {"idle"}, step[s] # "idle",
             step' = [step EXCEPT ![s] = to], lost => lost', UNCHANGED <<active, owns>>
      PROVE  Owned'
  <2>1. \A r \in AllServices : step[r] # "idle" <=> step'[r] # "idle"
    BY <1>j, <1>t
  <2> QED
    BY <1>j, <1>t, <2>1, OwnedKept
<1>3. ASSUME NEW s \in AllServices, Unavailable(s) \/ JobFails(s) PROVE Owned'
  <2>1. /\ step[s] # "idle" /\ UNCHANGED <<active, owns, lost>>
        /\ \E to \in {"defer", "fail"} : step' = [step EXCEPT ![s] = to]
    BY <1>3 DEF Unavailable, JobFails, rows
  <2> QED
    BY <1>j, <2>1 DEF Steps
<1>g. ASSUME NEW s \in AllServices, NEW from \in Steps \ {"idle"}, NEW to \in Steps \ {"idle"},
             Goto(s, from, to), lost => lost', UNCHANGED <<active, owns>>
      PROVE  Owned'
  BY <1>g, <1>j DEF Goto
<1>4. CASE Embed \/ CheckFaces \/ DropFaces
  BY <1>4, <1>g, ServiceNames DEF Embed, CheckFaces, DropFaces, Steps, rows
<1>5. CASE DetectFaces
  BY <1>5, <1>g, ServiceNames DEF DetectFaces, Steps, rows
<1>6. CASE CheckDetection \/ ReadFaces \/ AssignFaces
  BY <1>6, <1>g, ServiceNames DEF CheckDetection, ReadFaces, AssignFaces, Steps, rows
<1>7. CASE ReadBoxes \/ StoreScore
  BY <1>7, <1>g, ServiceNames DEF ReadBoxes, StoreScore, Steps, rows
<1>8. CASE ReadEmbedding
  <2>1. (lost => lost') /\ UNCHANGED <<active, owns>>
    <3>1. UNCHANGED <<active, owns>>
      BY <1>8 DEF ReadEmbedding, rows
    <3>2. ASSUME lost PROVE lost'
      BY <1>8, <1>b, <3>2 DEF ReadEmbedding
    <3> QED
      BY <3>1, <3>2
  <2>2. \E to \in {"replace", "missing"} : Goto("poi_detection", "start", to)
    BY <1>8 DEF ReadEmbedding
  <2> QED
    BY <1>g, <2>1, <2>2, ServiceNames DEF Steps
<1>16. CASE NothingToMatch
  <2>1. (lost => lost') /\ UNCHANGED <<active, owns>> /\ Goto("poi_detection", "start", "finish")
    <3>1. UNCHANGED <<active, owns>> /\ Goto("poi_detection", "start", "finish")
      BY <1>16 DEF NothingToMatch, rows
    <3>2. ASSUME lost PROVE lost'
      BY <1>16, <1>b, <3>2 DEF NothingToMatch
    <3> QED
      BY <3>1, <3>2
  <2> QED
    BY <1>g, <2>1, ServiceNames DEF Steps
<1>9. CASE CheckEmbedding \/ DeleteMatches \/ InsertMatches
  BY <1>9, <1>g, ServiceNames DEF CheckEmbedding, DeleteMatches, InsertMatches, Steps, rows
<1>a. ASSUME UNCHANGED <<step, owns>>, lost => lost',
             \A s \in AllServices : active[s] # "none" => active'[s] # "none"
      PROVE  Owned'
  BY <1>a, <1>t, OwnedKept
<1>10. ASSUME NEW s \in AllServices, FollowUp(s) \/ FollowUpFails(s) PROVE Owned'
  <2>1. UNCHANGED <<step, owns>> /\ (lost => lost')
    BY <1>10 DEF FollowUp, FollowUpFails, work
  <2>2. \A r \in AllServices : active[r] # "none" => active'[r] # "none"
    BY <1>10, <1>t DEF FollowUp, FollowUpFails, Inserted, RowsTyped, rows
  <2> QED
    BY <1>a, <2>1, <2>2
<1>11. ASSUME NEW kind \in scenario.requests, Request(kind) PROVE Owned'
  <2>1. UNCHANGED <<active, step, owns>>
    BY <1>11 DEF Request, rows, work
  <2>2. CASE lost => lost'
    BY <1>k, <2>1, <2>2
  <2>3. CASE ~(lost => lost')
    <3>1. AtRest
      BY <1>11, <2>3 DEF Request
    <3> QED
      BY <1>t, <2>1, <3>1 DEF AtRest, Owned
  <2> QED
    BY <2>2, <2>3
<1>12. CASE FindMissing \/ DropSettled \/ RequestFails \/ Quiet \/ UNCHANGED vars
  BY <1>12, <1>k DEF FindMissing, DropSettled, RequestFails, Quiet, vars, rows, work
<1>13. CASE ResetRows \/ InsertRow \/ RetryFailed \/ ResetStuckJobs
  <2>1. UNCHANGED <<step, owns>> /\ (lost => lost')
    <3>1. UNCHANGED <<step, owns>>
      BY <1>13 DEF ResetRows, InsertRow, RetryFailed, ResetStuckJobs, work
    <3>2. lost' = lost \/ \E due \in BOOLEAN : lost' = (lost \/ due)
      BY <1>13 DEF ResetRows, InsertRow, RetryFailed, ResetStuckJobs
    <3>3. ASSUME lost, NEW due \in BOOLEAN, lost' = (lost \/ due) PROVE lost'
      BY <1>b, <3>3
    <3> QED
      BY <3>1, <3>2, <3>3
  <2>2. CASE ResetRows
    BY <1>a, <1>t, <2>1, <2>2 DEF ResetRows, RowsTyped, rows
  <2>3. CASE InsertRow
    BY <1>a, <1>t, <2>1, <2>3 DEF InsertRow, Inserted, RowsTyped
  <2>4. CASE RetryFailed
    BY <1>a, <1>t, <2>1, <2>4 DEF RetryFailed, RowsTyped
  <2>5. CASE ResetStuckJobs
    BY <1>a, <1>t, <2>1, <2>5 DEF ResetStuckJobs, RowsTyped
  <2> QED
    BY <1>13, <2>2, <2>3, <2>4, <2>5
<1>14. CASE CancelPending
  <2> DEFINE P == {s \in Half : active[s] = "pending"}
  <2>1. /\ active' = [s \in AllServices |-> IF s \in P THEN "none" ELSE active[s]]
        /\ owns' = owns \ P /\ step' = step /\ lost' = (lost \/ P # {})
    BY <1>14 DEF CancelPending
  <2>2. \A s \in owns' : s \in owns /\ active'[s] = active[s]
    BY <1>t, <2>1 DEF RowsTyped
  <2> HIDE DEF P
  <2>3. ~lost' => ~lost /\ owns' = owns
    BY <2>1
  <2> QED
    BY <2>1, <2>2, <2>3 DEF Owned
<1>15. CASE Crash
  BY <1>15 DEF Crash, Owned
<1> QED
  BY <1>1, <1>2, <1>3, <1>4, <1>5, <1>6, <1>7, <1>8, <1>9, <1>10, <1>11, <1>12, <1>13, <1>14, <1>15,
     <1>16 DEF Next, Job, Serve

-----------------------------------------------------------------------------
(* What the jobs that follow another job have read of its result.           *)

Consumers == {"poi_detection", "face_assignment", "quality"}

Result(c) ==
  CASE c = "poi_detection"   -> matched
    [] c = "face_assignment" -> assigned
    [] c = "quality"         -> scored

Early == {"idle", "waiting", "start"}

SeenInv ==
  /\ \A s \in AllServices : step[s] \in Early => seen[s] = "nothing"
  /\ step["poi_detection"] = "missing" => seen["poi_detection"] # "current"
  /\ faces => "face_detection" \in enabled
  /\ \A c \in Consumers :
       c \in enabled /\ step[c] = "finish" /\ seen[c] = "current" => Result(c)

LEMMA ConsumersAreServices == Consumers \subseteq AllServices
  BY DEF Consumers, AllServices

LEMMA ResultKept == UNCHANGED data => \A c : Result(c)' = Result(c)
  BY DEF data, Result

(* A step that leaves the results alone. *)
LEMMA SeenKept ==
  ASSUME SeenInv, scenario' = scenario, UNCHANGED data,
         \A s \in AllServices : step'[s] \in Early => seen'[s] = "nothing",
         \A c \in Consumers : step'[c] \in {"finish", "missing"} /\ seen'[c] = "current" =>
           \/ step[c] = step'[c] /\ seen[c] = "current"
           \/ step'[c] = "finish" /\ c \notin enabled
  PROVE  SeenInv'
<1>1. enabled' = enabled /\ faces' = faces /\ \A c \in Consumers : Result(c)' = Result(c)
  BY SameServices, ResultKept DEF data
<1>2. (step["poi_detection"] = "missing" => seen["poi_detection"] # "current")'
  BY DEF SeenInv, Consumers
<1>3. \A c \in Consumers :
        c \in enabled /\ step'[c] = "finish" /\ seen'[c] = "current" => Result(c)
  BY DEF SeenInv
<1> QED
  BY <1>1, <1>2, <1>3 DEF SeenInv

LEMMA SeenSettled ==
  ASSUME Inv, SeenInv, scenario' = scenario, UNCHANGED data,
         NEW s \in AllServices, NEW from \in Working, NEW to, Settle(s, from, to)
  PROVE  SeenInv'
<1>1. /\ step \in [AllServices -> Steps] /\ seen' = [seen EXCEPT ![s] = "nothing"]
      /\ seen \in [AllServices -> {"nothing", "current", "gone"}]
  BY DEF Settle, Inv, Typed, WorkTyped
<1>2. /\ step'[s] = "idle"
      /\ \A r \in AllServices :
           r # s => step'[r] = step[r] \/ (step'[r] = "start" /\ step[r] = "waiting")
  <2>1. CASE waiters = << >>
    BY <1>1, <2>1 DEF Settle
  <2>2. CASE waiters # << >>
    <3>1. step' = [step EXCEPT ![s] = "idle", ![Head(waiters)] = "start"]
      BY <2>2 DEF Settle
    <3>2. Head(waiters) \in AllServices /\ step[Head(waiters)] = "waiting"
      BY <2>2, LineLeft DEF Inv, SlotInv, SlotTypes, SlotAccounting
    <3>3. step[s] # "waiting"
      BY DEF Settle, Working
    <3> QED
      BY <1>1, <3>1, <3>2, <3>3
  <2> QED
    BY <2>1, <2>2
<1>3. \A r \in AllServices : step'[r] \in Early => seen'[r] = "nothing"
  BY <1>1, <1>2 DEF SeenInv, Early
<1>4. \A c \in Consumers : step'[c] \in {"finish", "missing"} /\ seen'[c] = "current" =>
        step[c] = step'[c] /\ seen[c] = "current"
  BY <1>1, <1>2, ConsumersAreServices
<1> QED
  BY <1>3, <1>4, SeenKept

LEMMA SeenStep == Inv /\ SeenInv /\ [Next]_vars => SeenInv'
<1> SUFFICES ASSUME Inv, SeenInv, [Next]_vars PROVE SeenInv'
  OBVIOUS
<1>0. scenario' = scenario /\ enabled' = enabled
  BY ScenarioKept, SameServices
<1>t. /\ Typed /\ step \in [AllServices -> Steps]
      /\ seen \in [AllServices -> {"nothing", "current", "gone"}]
      /\ \A s \in AllServices : step[s] \in Early => seen[s] = "nothing"
      /\ \A s \in AllServices : step[s] # "idle" => s \in Queued
  BY DEF Inv, Typed, WorkTyped, SeenInv
<1>k. ASSUME UNCHANGED <<step, seen>>, UNCHANGED data PROVE SeenInv'
  BY <1>0, <1>k, <1>t, SeenKept, ConsumersAreServices
<1>1. ASSUME NEW s \in AllServices, Claim(s) PROVE SeenInv'
  <2>1. /\ step[s] = "idle" /\ seen' = seen /\ UNCHANGED data
        /\ \E to \in {"start", "waiting"} : step' = [step EXCEPT ![s] = to]
    BY <1>1 DEF Claim, Goto
  <2>2. \A r \in AllServices : step'[r] \in Early => step[r] \in Early
    BY <1>t, <2>1 DEF Early
  <2>3. \A c \in Consumers : step'[c] \in {"finish", "missing"} => step'[c] = step[c]
    BY <1>t, <2>1, ConsumersAreServices
  <2> QED
    BY <1>0, <1>t, <2>1, <2>2, <2>3, SeenKept
<1>2. ASSUME NEW s \in AllServices, Finish(s) \/ Fail(s) \/ Defer(s) PROVE SeenInv'
  <2>1. \E from \in {"finish", "fail", "defer"} :
           Settle(s, from, "none") \/ Settle(s, from, "pending") \/ Settle(s, from, active[s])
    BY <1>2 DEF Finish, Fail, Defer, Swallowed
  <2>2. {"finish", "fail", "defer"} \subseteq Working
    BY DEF Working, Steps
  <2>3. UNCHANGED data
    BY <1>2 DEF Finish, Fail, Defer
  <2> QED
    BY <1>0, <2>1, <2>2, <2>3, SeenSettled
<1>j. ASSUME NEW s \in AllServices, NEW to \in Steps \ Early, UNCHANGED data, seen' = seen,
             step' = [step EXCEPT ![s] = to],
             to \in {"finish", "missing"} => seen[s] # "current"
      PROVE  SeenInv'
  <2>1. \A r \in AllServices : step'[r] \in Early => step[r] \in Early
    BY <1>j, <1>t
  <2>2. \A c \in Consumers : step'[c] \in {"finish", "missing"} /\ seen'[c] = "current" =>
          step'[c] = step[c]
    BY <1>j, <1>t, ConsumersAreServices
  <2> QED
    BY <1>0, <1>j, <1>t, <2>1, <2>2, SeenKept
<1>3. ASSUME NEW s \in AllServices, Unavailable(s) \/ JobFails(s) PROVE SeenInv'
  <2>1. /\ UNCHANGED data /\ seen' = seen
        /\ \E to \in {"defer", "fail"} : step' = [step EXCEPT ![s] = to]
    BY <1>3 DEF Unavailable, JobFails
  <2> QED
    BY <1>j, <2>1 DEF Steps, Early
<1>4. CASE CheckFaces
  <2>1. /\ step["face_detection"] = "start" /\ UNCHANGED data /\ seen' = seen
        /\ \E to \in {"finish", "detect"} : step' = [step EXCEPT !["face_detection"] = to]
    BY <1>4 DEF CheckFaces, Goto
  <2>2. seen["face_detection"] # "current"
    BY <1>t, <2>1, ServiceNames DEF Early
  <2> QED
    BY <1>j, <2>1, <2>2, ServiceNames DEF Steps, Early
<1>5. CASE CheckDetection
  <2>1. /\ UNCHANGED data /\ seen' = seen
        /\ \E to \in {"defer", "read"} : step' = [step EXCEPT !["face_assignment"] = to]
    BY <1>5 DEF CheckDetection, Goto
  <2> QED
    BY <1>j, <2>1, ServiceNames DEF Steps, Early
<1>6. CASE ReadBoxes
  <2>1. CASE "quality" \notin enabled
    <3>1. /\ step["quality"] = "start" /\ UNCHANGED data /\ seen' = seen
          /\ step' = [step EXCEPT !["quality"] = "finish"]
      BY <1>6, <2>1 DEF ReadBoxes, Goto
    <3>2. seen["quality"] # "current"
      BY <1>t, <3>1, ServiceNames DEF Early
    <3> QED
      BY <1>j, <3>1, <3>2, ServiceNames DEF Steps, Early
  <2>2. CASE "quality" \in enabled
    <3>1. /\ UNCHANGED data /\ seen' = Seeing("quality")
          /\ step' = [step EXCEPT !["quality"] = "score"]
      BY <1>6, <2>2 DEF ReadBoxes, Goto
    <3>2. \A r \in AllServices : r # "quality" => step'[r] = step[r] /\ seen'[r] = seen[r]
      BY <1>t, <3>1 DEF Seeing
    <3>3. step'["quality"] = "score"
      BY <1>t, <3>1, ServiceNames
    <3> QED
      BY <1>0, <1>t, <3>1, <3>2, <3>3, SeenKept, ConsumersAreServices DEF Early
  <2> QED
    BY <2>1, <2>2
<1>7. CASE ReadEmbedding
  <2>1. /\ step["poi_detection"] = "start" /\ UNCHANGED data
        /\ \/ /\ step' = [step EXCEPT !["poi_detection"] = "replace"]
              /\ seen' = [seen EXCEPT !["poi_detection"] = "current"]
           \/ /\ step' = [step EXCEPT !["poi_detection"] = "missing"]
              /\ seen' = [seen EXCEPT !["poi_detection"] = "nothing"] \/ seen' = seen
    BY <1>7 DEF ReadEmbedding, Goto
  <2>2. seen["poi_detection"] = "nothing"
    BY <1>t, <2>1, ServiceNames DEF Early
  <2>3. \A r \in AllServices : r # "poi_detection" => step'[r] = step[r] /\ seen'[r] = seen[r]
    BY <1>t, <2>1
  <2>4. \/ step'["poi_detection"] = "replace"
        \/ step'["poi_detection"] = "missing" /\ seen'["poi_detection"] = "nothing"
    BY <1>t, <2>1, <2>2, ServiceNames
  <2> QED
    BY <1>0, <1>t, <2>1, <2>3, <2>4, SeenKept, ConsumersAreServices DEF Early
<1>20. CASE NothingToMatch
  <2>1. /\ step["poi_detection"] = "start" /\ UNCHANGED data /\ seen' = seen
        /\ step' = [step EXCEPT !["poi_detection"] = "finish"]
    BY <1>20 DEF NothingToMatch, Goto
  <2>2. seen["poi_detection"] # "current"
    BY <1>t, <2>1, ServiceNames DEF Early
  <2> QED
    BY <1>j, <2>1, <2>2, ServiceNames DEF Steps, Early
<1>8. CASE CheckEmbedding
  <2>1. /\ step["poi_detection"] = "missing" /\ UNCHANGED data /\ seen' = seen
        /\ \E to \in {"finish", "defer"} : step' = [step EXCEPT !["poi_detection"] = to]
    BY <1>8 DEF CheckEmbedding, Goto
  <2>2. seen["poi_detection"] # "current"
    BY <2>1 DEF SeenInv
  <2> QED
    BY <1>j, <2>1, <2>2, ServiceNames DEF Steps, Early
\* The steps that change a result, or what a result is about.
<1>d. ASSUME NEW s \in AllServices, NEW to \in Steps \ Early, step' = [step EXCEPT ![s] = to],
             \A r \in AllServices : r # s => seen'[r] = seen[r] \/ seen[r] = "current",
             to # "missing", faces' => faces \/ "face_detection" \in enabled,
             \A c \in Consumers :
               c \in enabled /\ step'[c] = "finish" /\ seen'[c] = "current" => Result(c)'
      PROVE  SeenInv'
  <2>1. \A r \in AllServices : r # s => step'[r] = step[r]
    BY <1>d, <1>t
  <2>2. step'[s] = to
    BY <1>d, <1>t
  <2>3. \A r \in AllServices : step'[r] \in Early => seen'[r] = "nothing"
    <3> SUFFICES ASSUME NEW r \in AllServices, step'[r] \in Early PROVE seen'[r] = "nothing"
      OBVIOUS
    <3>1. r # s /\ seen[r] = "nothing"
      BY <1>d, <1>t, <2>1, <2>2
    <3> QED
      BY <1>d, <3>1
  <2>4. step'["poi_detection"] = "missing" => seen'["poi_detection"] # "current"
    <3>1. "poi_detection" # s => seen'["poi_detection"] = seen["poi_detection"] \/ seen["poi_detection"] = "current"
      BY <1>d, ServiceNames
    <3> QED
      BY <1>d, <2>1, <2>2, <3>1, ServiceNames DEF SeenInv
  <2> QED
    BY <1>0, <1>d, <2>3, <2>4 DEF SeenInv
<1>e. {"detect", "finish", "assign", "insert", "fail"} \subseteq (Steps \ Early) \ {"missing"}
  BY DEF Steps, Early
<1>9. CASE Embed
  <2>1. /\ seen' = seen /\ step' = [step EXCEPT !["embedding"] = "finish"]
        /\ UNCHANGED <<matched, faces, assigned, scored>>
    BY <1>9 DEF Embed, Goto
  <2>2. \A c \in Consumers : Result(c)' = Result(c) /\ step'[c] = step[c]
    BY <1>t, <2>1, ConsumersAreServices DEF Result, Consumers
  <2>3. \A c \in Consumers : c \in enabled /\ step'[c] = "finish" /\ seen'[c] = "current" => Result(c)'
    BY <2>1, <2>2 DEF SeenInv
  <2> QED
    BY <1>d, <1>e, <2>1, <2>3, ServiceNames
<1>f. \A s \in AllServices : FacesGone[s] = IF s # "poi_detection" /\ seen[s] = "current" THEN "gone" ELSE seen[s]
  BY DEF FacesGone
<1>10. CASE DropFaces \/ (DetectFaces /\ faces' = TRUE /\ seen' = FacesGone)
  <2>1. /\ seen' = FacesGone /\ matched' = matched
        /\ \E to \in {"detect", "finish"} : step' = [step EXCEPT !["face_detection"] = to]
        /\ step["face_detection"] # "idle"
    BY <1>10 DEF DropFaces, DetectFaces, Goto
  <2>2. "face_detection" \in enabled
    BY <1>t, <2>1, Switched, ServiceNames DEF Typed
  <2>3. ASSUME NEW c \in Consumers, c \in enabled, step'[c] = "finish", seen'[c] = "current"
        PROVE  Result(c)'
    <3>1. c = "poi_detection" /\ seen[c] = "current"
      BY <1>f, <2>1, <2>3, ConsumersAreServices
    <3>2. step[c] = "finish"
      BY <1>t, <2>1, <2>3, <3>1, ServiceNames
    <3> QED
      BY <2>1, <2>3, <3>1, <3>2 DEF SeenInv, Result
  <2> QED
    BY <1>d, <1>e, <1>f, <2>1, <2>2, <2>3, ServiceNames
<1>11. CASE DetectFaces /\ UNCHANGED <<faces, assigned, scored, seen>>
  <2>1. UNCHANGED data /\ seen' = seen /\ step' = [step EXCEPT !["face_detection"] = "finish"]
    BY <1>11 DEF DetectFaces, Goto, data
  <2>2. \A c \in Consumers : Result(c)' = Result(c) /\ step'[c] = step[c]
    BY <1>t, <2>1, ConsumersAreServices, ResultKept DEF Consumers
  <2>3. \A c \in Consumers : c \in enabled /\ step'[c] = "finish" /\ seen'[c] = "current" => Result(c)'
    BY <2>1, <2>2 DEF SeenInv
  <2> QED
    BY <1>d, <1>e, <2>1, <2>3, ServiceNames DEF data
<1>12. CASE ReadFaces
  <2>1. /\ seen' = Seeing("face_assignment") /\ UNCHANGED <<matched, faces, scored>>
        /\ step' = [step EXCEPT !["face_assignment"] = IF faces THEN "assign" ELSE "finish"]
    BY <1>12 DEF ReadFaces, Goto
  <2>2. \A r \in AllServices : r # "face_assignment" => seen'[r] = seen[r] /\ step'[r] = step[r]
    BY <1>t, <2>1 DEF Seeing
  <2>3. step'["face_assignment"] = "assign" \/ seen'["face_assignment"] = "nothing"
    BY <1>t, <2>1, ServiceNames DEF Seeing
  <2>4. \A c \in Consumers : c # "face_assignment" => Result(c)' = Result(c)
    BY <2>1 DEF Result, Consumers
  <2>5. \A c \in Consumers : c \in enabled /\ step'[c] = "finish" /\ seen'[c] = "current" => Result(c)'
    <3> SUFFICES ASSUME NEW c \in Consumers, c \in enabled, step'[c] = "finish", seen'[c] = "current"
                 PROVE  Result(c)'
      OBVIOUS
    <3>1. c # "face_assignment"
      BY <2>3
    <3>2. step[c] = "finish" /\ seen[c] = "current"
      BY <2>2, <3>1, ConsumersAreServices
    <3>3. Result(c)
      BY <3>2 DEF SeenInv
    <3> QED
      BY <2>4, <3>1, <3>3
  <2>6. PICK to \in {"assign", "finish"} : step' = [step EXCEPT !["face_assignment"] = to]
    BY <2>1
  <2>7. to \in Steps \ Early /\ to # "missing"
    BY <1>e, <2>6
  <2>8. faces' => faces
    BY <2>1
  <2> QED
    BY <1>d, <2>2, <2>5, <2>6, <2>7, <2>8, ServiceNames
<1>13. CASE AssignFaces
  <2>1. /\ seen' = seen /\ UNCHANGED <<matched, faces, scored>>
        /\ step' = [step EXCEPT !["face_assignment"] =
                      IF seen["face_assignment"] = "current" THEN "finish" ELSE "fail"]
        /\ seen["face_assignment"] = "current" => assigned'
    BY <1>13 DEF AssignFaces, Goto
  <2>2. \A r \in AllServices : r # "face_assignment" => step'[r] = step[r]
    BY <1>t, <2>1
  <2>3. \A c \in Consumers : c # "face_assignment" => Result(c)' = Result(c)
    BY <2>1 DEF Result, Consumers
  <2>4. seen["face_assignment"] = "current" => Result("face_assignment")'
    BY <2>1 DEF Result
  <2>5. \A c \in Consumers : c \in enabled /\ step'[c] = "finish" /\ seen'[c] = "current" => Result(c)'
    BY <2>1, <2>2, <2>3, <2>4, ConsumersAreServices DEF SeenInv
  <2>6. \E to \in {"fail", "finish"} : step' = [step EXCEPT !["face_assignment"] = to]
    BY <2>1
  <2> QED
    BY <1>d, <1>e, <2>1, <2>5, <2>6, ServiceNames
<1>14. CASE StoreScore
  <2>1. /\ seen' = seen /\ UNCHANGED <<matched, faces, assigned>>
        /\ step' = [step EXCEPT !["quality"] = "finish"]
        /\ seen["quality"] = "current" => scored'
    BY <1>14 DEF StoreScore, Goto
  <2>2. \A r \in AllServices : r # "quality" => step'[r] = step[r]
    BY <1>t, <2>1
  <2>3. \A c \in Consumers : c # "quality" => Result(c)' = Result(c)
    BY <2>1 DEF Result, Consumers
  <2>4. seen["quality"] = "current" => Result("quality")'
    BY <2>1 DEF Result
  <2>5. \A c \in Consumers : c \in enabled /\ step'[c] = "finish" /\ seen'[c] = "current" => Result(c)'
    BY <2>1, <2>2, <2>3, <2>4, ConsumersAreServices DEF SeenInv
  <2> QED
    BY <1>d, <1>e, <2>1, <2>5, ServiceNames
<1>15. CASE DeleteMatches \/ InsertMatches
  <2>1. /\ seen' = seen /\ UNCHANGED <<faces, assigned, scored>>
        /\ \/ step' = [step EXCEPT !["poi_detection"] = "insert"]
           \/ step' = [step EXCEPT !["poi_detection"] = "finish"] /\ matched' = TRUE
    BY <1>15 DEF DeleteMatches, InsertMatches, Goto
  <2>2. \A r \in AllServices : r # "poi_detection" => step'[r] = step[r]
    BY <1>t, <2>1
  <2>3. \A c \in Consumers : c # "poi_detection" => Result(c)' = Result(c)
    BY <2>1 DEF Result, Consumers
  <2>4. step'["poi_detection"] = "insert" \/ Result("poi_detection")'
    BY <1>t, <2>1, ServiceNames DEF Result
  <2>5. \A c \in Consumers : c \in enabled /\ step'[c] = "finish" /\ seen'[c] = "current" => Result(c)'
    BY <2>1, <2>2, <2>3, <2>4, ConsumersAreServices DEF SeenInv
  <2> QED
    BY <1>d, <1>e, <2>1, <2>5, ServiceNames
<1>16. ASSUME NEW s \in AllServices, FollowUp(s) \/ FollowUpFails(s) PROVE SeenInv'
  BY <1>16, <1>k DEF FollowUp, FollowUpFails, work
<1>17. CASE \E kind \in scenario.requests : Request(kind)
  BY <1>17, <1>k DEF Request, work
<1>18. CASE Serve \/ RequestFails \/ ResetStuckJobs \/ Quiet \/ UNCHANGED vars
  <2>1. UNCHANGED <<step, seen>> /\ UNCHANGED data
    BY <1>18 DEF Serve, FindMissing, DropSettled, ResetRows, InsertRow, RetryFailed, CancelPending,
       RequestFails, ResetStuckJobs, Quiet, vars, work, data
  <2> QED
    BY <1>k, <2>1
<1>19. CASE Crash
  <2>1. step' = [s \in AllServices |-> "idle"] /\ seen' = [s \in AllServices |-> "nothing"]
        /\ UNCHANGED data
    BY <1>19 DEF Crash
  <2> QED
    BY <1>0, <2>1, SeenKept, ConsumersAreServices
<1> QED
  BY <1>1, <1>2, <1>3, <1>4, <1>5, <1>6, <1>7, <1>8, <1>9, <1>10, <1>11, <1>12, <1>13, <1>14,
     <1>15, <1>16, <1>17, <1>18, <1>19, <1>20 DEF Next, Job, DetectFaces

-----------------------------------------------------------------------------
(* Jobs that are under way, or that the request being served still owes.    *)

Owes(s) ==
  \/ req.kind = "force" /\ s \in ToSet(req.todo)
  \/ /\ req.at = "insert" /\ Current = s
     /\ req.kind = "poi_empty" => done["embedding"] > 0

Comes(s) == active[s] # "none" \/ failed[s] > 0 \/ Owes(s)

LEMMA IdleOwesNothing ==
  ReqTyped /\ req.at = "idle" => \A s : ~Owes(s)
  BY DEF ReqTyped, Owes

(* A step of workers. *)
LEMMA ComesStays ==
  ASSUME Typed, NEW s \in AllServices, Comes(s), req' = req,
         active[s] # "none" => active'[s] # "none" \/ failed'[s] > 0,
         failed[s] > 0 => failed'[s] > 0,
         done["embedding"] > 0 => done'["embedding"] > 0
  PROVE  Comes(s)'
<1>1. Owes(s) => Owes(s)'
  BY DEF Owes, Current
<1> QED
  BY <1>1 DEF Comes

(* What a request does on its way keeps what it owes. *)
LEMMA ComesServed ==
  ASSUME Inv, scenario' = scenario, Serve, ~lost', ~lost, NEW s \in AllServices, Comes(s)
  PROVE  Comes(s)' \/ (s = "poi_detection" /\ matched /\ InsertRow)
<1>t. RowsTyped /\ ReqTyped
  BY DEF Inv, Typed
<1>c. ASSUME req.at # "idle" PROVE Current \in AllServices
  BY <1>c, <1>t, HeadAndTail DEF ReqTyped, Current
<1>n. ASSUME req.at # "idle", NextService
      PROVE  \/ req' = Idle
             \/ req'.kind = req.kind /\ req'.todo = Tail(req.todo)
  BY <1>n, <1>t, Onward
<1>o. ASSUME req.at # "idle", NextService, req.kind = "force", s \in ToSet(req.todo), s # Current
      PROVE  Owes(s)'
  <2>0. ToSet(<< >>) = {}
    BY DEF ToSet
  <2>1. s \in ToSet(Tail(req.todo))
    BY <1>o, <1>t, Onward
  <2>2. req'.kind = req.kind /\ req'.todo = Tail(req.todo)
    BY <1>o, <1>t, <2>0, <2>1, Onward
  <2> QED
    BY <1>o, <2>1, <2>2 DEF Owes
<1>1. CASE FindMissing
  <2>1. ~Owes(s) /\ UNCHANGED <<active, failed>>
    BY <1>1, <1>t DEF FindMissing, Owes, ReqTyped, rows
  <2> QED
    BY <2>1 DEF Comes
<1>2. CASE DropSettled
  <2>1. /\ req.at = "drop" /\ active' = active /\ Current \in AllServices
        /\ done' = [done EXCEPT ![Current] = IF Candidate THEN 0 ELSE @]
        /\ failed' = [failed EXCEPT ![Current] = IF Candidate THEN 0 ELSE @]
        /\ req' = [req EXCEPT !.at = IF req.kind = "force" THEN "reset" ELSE "insert"]
    BY <1>2, <1>c DEF DropSettled
  <2>2. /\ req'.kind = req.kind /\ req'.todo = req.todo /\ Current' = Current
        /\ req'.at = IF req.kind = "force" THEN "reset" ELSE "insert"
    BY <1>t, <2>1 DEF ReqTyped, Current
  <2>3. Owes(s) => Owes(s)'
    BY <2>1, <2>2 DEF Owes
  <2>4. CASE s = Current /\ Candidate
    <3>1. CASE req.kind = "force"
      <4>1. s \in ToSet(req.todo)
        BY <1>t, <2>1, <2>4, HeadAndTail DEF ReqTyped, Current
      <4> QED
        BY <2>2, <3>1, <4>1 DEF Owes, Comes
    <3>2. CASE req.kind # "force"
      <4>1. req.kind = "poi_empty" => Current = "poi_detection" /\ done["embedding"] > 0
        <5>1. Head(<<"poi_detection">>) = "poi_detection"
          OBVIOUS
        <5> QED
          BY <1>t, <2>4, <5>1 DEF ReqTyped, Candidate, Current
      <4>2. req.kind = "poi_empty" => done'["embedding"] > 0
        BY <1>t, <2>1, <4>1, ServiceNames DEF RowsTyped
      <4> QED
        BY <2>2, <2>4, <3>2, <4>2 DEF Owes, Comes
    <3> QED
      BY <3>1, <3>2
  <2>5. CASE ~(s = Current /\ Candidate)
    <3>1. failed'[s] = failed[s]
      BY <1>t, <2>1, <2>5 DEF RowsTyped
    <3> QED
      BY <2>1, <2>3, <3>1 DEF Comes
  <2> QED
    BY <2>4, <2>5
<1>3. CASE ResetRows
  <2>1. req.at = "reset" /\ req.kind = "force" /\ Current \in AllServices
    BY <1>3, <1>t, <1>c DEF ResetRows, ReqTyped
  <2>2. RowsOf(Current) \in Nat /\ ~(RowsOf(Current) > 1)
    <3>1. RowsOf(Current) \in Nat
      BY <1>t, <2>1 DEF RowsTyped, RowsOf
    <3>2. lost' = (lost \/ RowsOf(Current) > 1)
      BY <1>3 DEF ResetRows
    <3> QED
      BY <3>1, <3>2
  <2>3. CASE RowsOf(Current) = 1
    <3>1. /\ active' = [active EXCEPT ![Current] = "pending"]
          /\ failed' = [failed EXCEPT ![Current] = 0] /\ NextService
      BY <1>3, <2>3 DEF ResetRows
    <3>2. CASE s = Current
      BY <1>t, <3>1, <3>2 DEF RowsTyped, Comes
    <3>3. CASE s # Current
      <4>1. active'[s] = active[s] /\ failed'[s] = failed[s]
        BY <1>t, <3>1, <3>3 DEF RowsTyped
      <4>2. Owes(s) => Owes(s)'
        BY <1>o, <2>1, <3>1, <3>3 DEF Owes
      <4> QED
        BY <4>1, <4>2 DEF Comes
    <3> QED
      BY <3>2, <3>3
  <2>4. CASE RowsOf(Current) = 0
    <3>1. UNCHANGED rows /\ req' = [req EXCEPT !.at = "insert"]
      BY <1>3, <2>4 DEF ResetRows
    <3>2. Owes(s) => Owes(s)'
      BY <1>t, <2>1, <3>1 DEF Owes, ReqTyped
    <3> QED
      BY <3>1, <3>2 DEF Comes, rows
  <2> QED
    BY <2>2, <2>3, <2>4
<1>4. CASE InsertRow
  <2>1. /\ req.at = "insert" /\ NextService /\ UNCHANGED failed /\ Current \in AllServices
        /\ active[s] # "none" => active'[s] # "none"
    BY <1>4, <1>t, <1>c DEF InsertRow, Inserted, RowsTyped
  <2>2. CASE s = Current /\ Candidate
    <3>1. active'[s] # "none"
      BY <1>4, <1>t, <2>1, <2>2 DEF InsertRow, Inserted, RowsTyped
    <3> QED
      BY <3>1 DEF Comes
  <2>3. CASE s = Current /\ ~Candidate
    <3>1. req.kind = "poi_empty" /\ s = "poi_detection"
      <4>1. Head(<<"poi_detection">>) = "poi_detection"
        OBVIOUS
      <4> QED
        BY <1>t, <2>3, <4>1 DEF Candidate, ReqTyped, Current
    <3>2. done["embedding"] > 0 => active[s] # "none" \/ matched
      BY <2>3, <3>1 DEF Candidate
    <3>3. Owes(s) => done["embedding"] > 0
      BY <3>1 DEF Owes
    <3> QED
      BY <1>4, <2>1, <3>1, <3>2, <3>3 DEF Comes
  <2>4. CASE s # Current
    <3>1. Owes(s) => Owes(s)'
      BY <1>o, <2>1, <2>4 DEF Owes
    <3> QED
      BY <2>1, <3>1 DEF Comes
  <2> QED
    BY <2>2, <2>3, <2>4
<1>5. CASE RetryFailed
  <2>1. ~Owes(s)
    BY <1>5, <1>t DEF RetryFailed, Owes, ReqTyped
  <2>2. /\ active[s] # "none" => active'[s] # "none"
        /\ failed[s] > 0 => failed'[s] > 0 \/ active'[s] # "none"
    <3>1. CASE UNCHANGED <<active, failed>>
      BY <3>1
    <3>2. ASSUME NEW F, active' = [r \in AllServices |-> IF r \in F THEN "pending" ELSE active[r]],
                 failed' = [r \in AllServices |-> IF r \in F THEN 0 ELSE failed[r]]
          PROVE  /\ active[s] # "none" => active'[s] # "none"
                 /\ failed[s] > 0 => failed'[s] > 0 \/ active'[s] # "none"
      BY <3>2
    <3> QED
      BY <1>5, <3>1, <3>2 DEF RetryFailed
  <2> QED
    BY <2>1, <2>2 DEF Comes
<1>6. CASE CancelPending
  <2>1. ~Owes(s)
    BY <1>6, <1>t DEF CancelPending, Owes, ReqTyped
  <2> DEFINE P == {r \in Half : active[r] = "pending"}
  <2>2. /\ active' = [r \in AllServices |-> IF r \in P THEN "none" ELSE active[r]]
        /\ lost' = (lost \/ P # {}) /\ failed' = failed
    BY <1>6 DEF CancelPending
  <2> HIDE DEF P
  <2>3. P = {}
    BY <2>2
  <2> QED
    BY <2>1, <2>2, <2>3 DEF Comes
<1> QED
  BY <1>1, <1>2, <1>3, <1>4, <1>5, <1>6 DEF Serve

LEMMA ComesKept ==
  ASSUME Inv, [Next]_vars, ~lost', ~lost, NEW s \in AllServices, Comes(s)
  PROVE  Comes(s)' \/ Finish(s) \/ (s = "poi_detection" /\ matched /\ InsertRow)
<1>t. RowsTyped /\ ReqTyped /\ Typed /\ scenario' = scenario
  BY ScenarioKept DEF Inv, Typed
<1>u. ASSUME UNCHANGED <<active, failed, done, req>> PROVE Comes(s)'
  BY <1>t, <1>u, ComesStays
<1>1. ASSUME NEW r \in AllServices, Claim(r) PROVE Comes(s)'
  <2>1. UNCHANGED <<req, failed, done>> /\ (active[s] # "none" => active'[s] # "none")
    BY <1>1, <1>t DEF Claim, RowsTyped
  <2> QED
    BY <1>t, <2>1, ComesStays
<1>2. ASSUME NEW r \in AllServices, Finish(r), r # s PROVE Comes(s)'
  <2>1. /\ active'[s] = active[s] /\ UNCHANGED <<req, failed>>
        /\ done["embedding"] > 0 => done'["embedding"] > 0
    BY <1>2, <1>t, ServiceNames DEF Finish, Settle, RowsTyped
  <2> QED
    BY <1>t, <2>1, ComesStays
<1>3. ASSUME NEW r \in AllServices, Fail(r) \/ Defer(r) PROVE Comes(s)'
  <2>1. UNCHANGED <<req, done>>
    BY <1>3 DEF Fail, Defer
  <2>2. CASE /\ Settle(r, "fail", "none")
             /\ failed' = IF r \in owns THEN [failed EXCEPT ![r] = @ + 1] ELSE failed
    <3>1. /\ failed[s] > 0 => failed'[s] > 0
          /\ r = s /\ r \in owns => failed'[s] > 0
      BY <1>t, <2>2 DEF RowsTyped
    <3>2. (r = s /\ r \in owns) \/ active'[s] = active[s]
      BY <1>t, <2>2 DEF Settle, RowsTyped
    <3> QED
      BY <1>t, <2>1, <3>1, <3>2, ComesStays
  <2>3. ASSUME NEW from, NEW to \in {"pending", active[r]}, Settle(r, from, to), failed' = failed
        PROVE  Comes(s)'
    <3>1. active[s] # "none" => active'[s] # "none"
      BY <1>t, <2>3 DEF Settle, RowsTyped
    <3> QED
      BY <1>t, <2>1, <2>3, <3>1, ComesStays
  <2> QED
    BY <1>3, <2>2, <2>3 DEF Fail, Defer, Swallowed
<1>4. ASSUME NEW r \in AllServices, Unavailable(r) \/ JobFails(r) \/ FollowUpFails(r) PROVE Comes(s)'
  BY <1>4, <1>u DEF Unavailable, JobFails, FollowUpFails, rows
<1>5. CASE \/ Embed \/ CheckFaces \/ DropFaces \/ DetectFaces \/ CheckDetection
           \/ ReadFaces \/ AssignFaces \/ ReadBoxes \/ StoreScore \/ NothingToMatch
           \/ ReadEmbedding \/ CheckEmbedding \/ DeleteMatches \/ InsertMatches
  <2>1. UNCHANGED rows /\ req' = req
    BY <1>5 DEF Embed, CheckFaces, DropFaces, DetectFaces, CheckDetection, ReadFaces,
       AssignFaces, ReadBoxes, StoreScore, NothingToMatch, ReadEmbedding, CheckEmbedding,
       DeleteMatches, InsertMatches
  <2> QED
    BY <1>u, <2>1 DEF rows
<1>6. ASSUME NEW r \in AllServices, FollowUp(r) PROVE Comes(s)'
  <2>1. UNCHANGED <<req, failed, done>>
    BY <1>6 DEF FollowUp
  <2>2. active[s] # "none" => active'[s] # "none"
    BY <1>6, <1>t DEF FollowUp, Inserted, RowsTyped
  <2> QED
    BY <1>t, <2>1, <2>2, ComesStays
<1>7. ASSUME NEW kind \in scenario.requests, Request(kind) PROVE Comes(s)'
  <2>1. UNCHANGED <<active, failed>> /\ ~Owes(s)
    BY <1>7, <1>t, IdleOwesNothing DEF Request, rows
  <2> QED
    BY <2>1 DEF Comes
<1>8. CASE RequestFails
  BY <1>8 DEF RequestFails
<1>9. CASE Crash
  <2>1. req.at = "idle" /\ UNCHANGED <<active, failed>>
    BY <1>9 DEF Crash, rows
  <2> QED
    BY <1>t, <2>1, IdleOwesNothing DEF Comes
<1>10. CASE ResetStuckJobs
  <2>1. UNCHANGED <<req, failed, done>> /\ (active[s] # "none" => active'[s] # "none")
    BY <1>10, <1>t DEF ResetStuckJobs, RowsTyped
  <2> QED
    BY <1>t, <2>1, ComesStays
<1>11. CASE Quiet \/ UNCHANGED vars
  BY <1>11, <1>u DEF Quiet, vars
<1> QED
  BY <1>1, <1>2, <1>3, <1>4, <1>5, <1>6, <1>7, <1>8, <1>9, <1>10, <1>11, <1>t, ComesServed
     DEF Next, Job

-----------------------------------------------------------------------------
(* Why what a job works on reaches the job that follows it.                 *)

Source(c) == IF c = "poi_detection" THEN "embedding" ELSE "face_detection"
There(c) == IF c = "poi_detection" THEN embedding ELSE faces

\* A new run of c is on its way.
Renewed(c) == c \in followUps \/ Comes(Source(c))

\* The run under way has not read, or not written, what is there.
Blind(c) ==
  \/ step[c] = "finish" /\ ~Result(c)
  \/ step[c] \in {"missing", "score"} /\ seen[c] # "current"

Reaches(c) ==
  c \in enabled /\ There(c) =>
    /\ Result(c) \/ Comes(c) \/ Renewed(c)
    /\ Blind(c) => Renewed(c)

FollowInv == ~lost => \A c \in Consumers : Reaches(c)

LEMMA SourceIsService == \A c : Source(c) \in AllServices
  BY DEF Source, AllServices

(* A new run stays on its way until its follow-up is queued. *)
LEMMA RenewedKept ==
  ASSUME Inv, [Next]_vars, ~lost', ~lost, NEW c \in Consumers, c \in enabled, Renewed(c), ~FollowUp(c)
  PROVE  Renewed(c)'
<1>1. CASE Comes(Source(c))
  <2>1. Source(c) \in AllServices /\ Source(c) # "poi_detection" /\ Source(c)' = Source(c)
    BY SourceIsService DEF Source
  <2>2. Comes(Source(c))' \/ Finish(Source(c))
    BY <1>1, <2>1, ComesKept
  <2>3. CASE Finish(Source(c))
    <3>1. c \in FollowUpsOf(Source(c))
      BY DEF FollowUpsOf, Source, Consumers
    <3> QED
      BY <2>3, <3>1 DEF Finish, Renewed
  <2> QED
    BY <2>1, <2>2, <2>3 DEF Renewed
<1>2. CASE c \in followUps
  <2> SUFFICES c \in followUps'
    BY DEF Renewed
  <2>1. ASSUME NEW s \in AllServices, FollowUp(s) PROVE c \in followUps'
    BY <1>2, <2>1 DEF FollowUp
  <2>2. ASSUME NEW s \in AllServices, FollowUpFails(s) PROVE c \in followUps'
    BY <2>2 DEF FollowUpFails
  <2>3. ASSUME NEW s \in AllServices, Claim(s) \/ Job(s) \/ Unavailable(s) \/ JobFails(s)
        PROVE  c \in followUps'
    BY <1>2, <2>3 DEF Claim, Job, Unavailable, JobFails, Finish, Fail, Defer, Embed,
       CheckFaces, DropFaces, DetectFaces, CheckDetection, ReadFaces, AssignFaces,
       ReadBoxes, StoreScore, NothingToMatch, ReadEmbedding, CheckEmbedding, DeleteMatches,
       InsertMatches
  <2>4. CASE Serve \/ RequestFails \/ ResetStuckJobs \/ Quiet \/ UNCHANGED vars
    BY <1>2, <2>4 DEF Serve, FindMissing, DropSettled, ResetRows, InsertRow, RetryFailed,
       CancelPending, RequestFails, ResetStuckJobs, Quiet, vars
  <2>5. CASE \E kind \in scenario.requests : Request(kind)
    BY <1>2, <2>5 DEF Request
  <2>6. CASE Crash
    BY <1>2, <2>6 DEF Crash
  <2> QED
    BY <2>1, <2>2, <2>3, <2>4, <2>5, <2>6 DEF Next
<1> QED
  BY <1>1, <1>2 DEF Renewed

(* The worker of c, while it is at its job. *)
LEMMA AtWorkComes ==
  ASSUME Owned, ~lost, NEW s \in AllServices, step[s] # "idle"
  PROVE  active[s] # "none" /\ Comes(s)
  BY DEF Owned, Comes

(* A run that reads and writes what is there. *)
LEMMA ResultKeptOrComes ==
  ASSUME Inv, Owned, [Next]_vars, ~lost', ~lost, NEW c \in Consumers, Result(c), There(c)'
  PROVE  Result(c)' \/ Comes(c)' \/ Renewed(c)'
<1>t. /\ Typed /\ step \in [AllServices -> Steps] /\ Consumers \subseteq AllServices
  BY ConsumersAreServices DEF Inv, Typed, WorkTyped
<1>0. CASE UNCHANGED data
  BY <1>0, ResultKept
\* A job at work on c, or on its source, that leaves the rows alone.
<1>w. ASSUME NEW s \in {c, Source(c)}, step[s] # "idle", UNCHANGED <<rows, req>>
      PROVE  Comes(c)' \/ Renewed(c)'
  <2>1. active[s] # "none"
    BY <1>t, <1>w, AtWorkComes, SourceIsService
  <2>2. active'[s] # "none" /\ Source(c)' = Source(c)
    BY <1>w, <2>1 DEF rows, Source
  <2> QED
    BY <1>w, <2>2 DEF Comes, Renewed
<1>1. CASE Embed
  BY <1>1 DEF Embed, Result, Consumers
<1>2. CASE DropFaces \/ DetectFaces
  <2>1. /\ step["face_detection"] # "idle" /\ UNCHANGED <<rows, req>> /\ matched' = matched
    BY <1>2 DEF DropFaces, DetectFaces, Goto
  <2>2. CASE c = "poi_detection"
    BY <2>1, <2>2 DEF Result
  <2>3. CASE c # "poi_detection"
    BY <1>w, <2>1, <2>3 DEF Source
  <2> QED
    BY <2>2, <2>3
<1>3. CASE ReadFaces \/ AssignFaces
  <2>1. /\ step["face_assignment"] # "idle" /\ UNCHANGED <<rows, req>>
        /\ UNCHANGED <<matched, scored>>
    BY <1>3 DEF ReadFaces, AssignFaces, Goto
  <2>2. CASE c = "face_assignment"
    BY <1>w, <2>1, <2>2
  <2>3. CASE c # "face_assignment"
    BY <2>1, <2>3 DEF Result, Consumers
  <2> QED
    BY <2>2, <2>3
<1>4. CASE StoreScore
  <2>1. /\ step["quality"] # "idle" /\ UNCHANGED <<rows, req>>
        /\ UNCHANGED <<matched, assigned>>
    BY <1>4 DEF StoreScore, Goto
  <2>2. CASE c = "quality"
    BY <1>w, <2>1, <2>2
  <2>3. CASE c # "quality"
    BY <2>1, <2>3 DEF Result, Consumers
  <2> QED
    BY <2>2, <2>3
<1>5. CASE DeleteMatches \/ InsertMatches
  <2>1. /\ step["poi_detection"] # "idle" /\ UNCHANGED <<rows, req>>
        /\ UNCHANGED <<assigned, scored>>
    BY <1>5 DEF DeleteMatches, InsertMatches, Goto
  <2>2. CASE c = "poi_detection"
    BY <1>w, <2>1, <2>2
  <2>3. CASE c # "poi_detection"
    BY <2>1, <2>3 DEF Result, Consumers
  <2> QED
    BY <2>2, <2>3
<1>6. \/ UNCHANGED data \/ Embed \/ DropFaces \/ DetectFaces \/ ReadFaces \/ AssignFaces
      \/ StoreScore \/ DeleteMatches \/ InsertMatches
  <2>1. ASSUME NEW s \in AllServices, Claim(s) \/ Unavailable(s) \/ JobFails(s)
                                      \/ FollowUp(s) \/ FollowUpFails(s) \/ Finish(s) \/ Fail(s) \/ Defer(s)
        PROVE  UNCHANGED data
    BY <2>1 DEF Claim, Unavailable, JobFails, FollowUp, FollowUpFails, Finish, Fail, Defer
  <2>2. CASE \/ CheckFaces \/ CheckDetection \/ ReadBoxes \/ NothingToMatch
             \/ ReadEmbedding \/ CheckEmbedding
    BY <2>2 DEF CheckFaces, CheckDetection, ReadBoxes, NothingToMatch, ReadEmbedding,
       CheckEmbedding
  <2>3. CASE Serve \/ RequestFails \/ Crash \/ ResetStuckJobs \/ Quiet \/ UNCHANGED vars
    BY <2>3 DEF Serve, FindMissing, DropSettled, ResetRows, InsertRow, RetryFailed,
       CancelPending, RequestFails, Crash, ResetStuckJobs, Quiet, vars, data
  <2>4. CASE \E kind \in scenario.requests : Request(kind)
    BY <2>4 DEF Request
  <2> QED
    BY <2>1, <2>2, <2>3, <2>4 DEF Next, Job
<1> QED
  BY <1>0, <1>1, <1>2, <1>3, <1>4, <1>5, <1>6

(* What is new: its source is still at its job. *)
LEMMA NewIsRenewed ==
  ASSUME Inv, Owned, [Next]_vars, ~lost', ~lost, NEW c \in Consumers, There(c)', ~There(c)
  PROVE  Renewed(c)'
<1>1. \/ c = "poi_detection" /\ Embed
      \/ c # "poi_detection" /\ DetectFaces
  <2>0. ~UNCHANGED <<embedding, faces>>
    BY DEF There
  <2>1. ASSUME NEW s \in AllServices, Claim(s) \/ Unavailable(s) \/ JobFails(s)
                                      \/ FollowUp(s) \/ FollowUpFails(s) \/ Finish(s) \/ Fail(s) \/ Defer(s)
        PROVE  UNCHANGED <<embedding, faces>>
    BY <2>1 DEF Claim, Unavailable, JobFails, FollowUp, FollowUpFails, Finish, Fail, Defer, data
  <2>2. CASE \/ CheckFaces \/ CheckDetection \/ ReadBoxes \/ NothingToMatch
             \/ ReadEmbedding \/ CheckEmbedding \/ ReadFaces \/ AssignFaces \/ StoreScore
             \/ DeleteMatches \/ InsertMatches
    <3>1. UNCHANGED <<embedding, faces>>
      BY <2>2 DEF CheckFaces, CheckDetection, ReadBoxes, NothingToMatch, ReadEmbedding,
         CheckEmbedding, ReadFaces, AssignFaces, StoreScore, DeleteMatches, InsertMatches,
         data
    <3> QED
      BY <2>0, <3>1
  <2>3. CASE Serve \/ RequestFails \/ Crash \/ ResetStuckJobs \/ Quiet \/ UNCHANGED vars
    <3>1. UNCHANGED <<embedding, faces>>
      BY <2>3 DEF Serve, FindMissing, DropSettled, ResetRows, InsertRow, RetryFailed,
         CancelPending, RequestFails, Crash, ResetStuckJobs, Quiet, vars, data
    <3> QED
      BY <2>0, <3>1
  <2>4. ASSUME NEW kind \in scenario.requests, Request(kind) PROVE UNCHANGED <<embedding, faces>>
    BY <2>4 DEF Request, data
  <2>5. CASE Embed
    BY <2>5 DEF Embed, There
  <2>6. CASE DropFaces
    BY <2>6 DEF DropFaces, There
  <2>7. CASE DetectFaces
    BY <2>7 DEF DetectFaces, There
  <2> QED
    BY <2>0, <2>1, <2>2, <2>3, <2>4, <2>5, <2>6, <2>7 DEF Next, Job, vars
<1>2. step[Source(c)] # "idle" /\ UNCHANGED <<rows, req>>
  BY <1>1 DEF Embed, DetectFaces, Goto, Source
<1>3. active[Source(c)] # "none" /\ Source(c)' = Source(c)
  BY <1>2, AtWorkComes, SourceIsService DEF Source
<1> QED
  BY <1>2, <1>3 DEF Renewed, Comes, rows

(* Its follow-up becomes a row that nobody has read for. *)
LEMMA FollowedUp ==
  ASSUME Inv, Owned, SeenInv, ~lost', ~lost, NEW c \in Consumers, c \in enabled, There(c), FollowUp(c)
  PROVE  Comes(c)' /\ ~Blind(c)'
<1>t. /\ Typed /\ RowsTyped /\ c \in AllServices
  BY ConsumersAreServices DEF Inv, Typed
<1>1. Inserted(c, FALSE) /\ lost' = (lost \/ (active[c] # "none" /\ PastItsRead(c)))
  BY DEF FollowUp, There
<1>2. UNCHANGED <<step, seen>> /\ UNCHANGED data
  BY DEF FollowUp, work
<1>3. active'[c] # "none"
  BY <1>1, <1>t DEF Inserted, RowsTyped
<1>4. ~(active[c] # "none" /\ PastItsRead(c))
  BY <1>1
<1>5. ASSUME Blind(c) PROVE FALSE
  <2>1. step[c] \in {"finish", "missing", "score"} /\ (step[c] = "finish" => ~Result(c))
    BY <1>5 DEF Blind
  <2>2. seen[c] # "current"
    BY <1>5, <2>1 DEF Blind, SeenInv
  <2>3. active[c] # "none"
    BY <1>t, <2>1, AtWorkComes
  <2> QED
    BY <1>4, <2>1, <2>2, <2>3 DEF PastItsRead
<1>6. Blind(c)' <=> Blind(c)
  BY <1>2, ResultKept DEF Blind
<1> QED
  BY <1>3, <1>5, <1>6 DEF Comes

(* A run does not lose sight of what is there, but by a change of it. *)
LEMMA NotBlinded ==
  ASSUME Inv, Owned, SeenInv, [Next]_vars, ~lost', ~lost, NEW c \in Consumers, c \in enabled,
         There(c), There(c)', ~Blind(c), ~Renewed(c)'
  PROVE  ~Blind(c)'
<1>t. /\ Typed /\ step \in [AllServices -> Steps] /\ c \in AllServices
      /\ seen \in [AllServices -> {"nothing", "current", "gone"}]
  BY ConsumersAreServices DEF Inv, Typed, WorkTyped
<1>k. ASSUME UNCHANGED data,
             \/ step'[c] = step[c] /\ seen'[c] = seen[c]
             \/ step'[c] \notin {"finish", "missing", "score"}
      PROVE  ~Blind(c)'
  BY <1>k, ResultKept DEF Blind
<1>n. ASSUME step'[c] \notin {"finish", "missing", "score"} PROVE ~Blind(c)'
  BY <1>n DEF Blind
<1>1. ASSUME NEW s \in AllServices, Claim(s) \/ Unavailable(s) \/ JobFails(s) PROVE ~Blind(c)'
  <2>1. /\ UNCHANGED data /\ seen' = seen
        /\ \E to \in {"start", "waiting", "defer", "fail"} : step' = [step EXCEPT ![s] = to]
    BY <1>1 DEF Claim, Unavailable, JobFails, Goto
  <2> QED
    BY <1>k, <1>t, <2>1
<1>2. ASSUME NEW s \in AllServices, Finish(s) \/ Fail(s) \/ Defer(s) PROVE ~Blind(c)'
  <2>1. \E from \in {"finish", "fail", "defer"} :
           Settle(s, from, "none") \/ Settle(s, from, "pending") \/ Settle(s, from, active[s])
    BY <1>2 DEF Finish, Fail, Defer, Swallowed
  <2>2. UNCHANGED data
    BY <1>2 DEF Finish, Fail, Defer
  <2>3. /\ seen' = [seen EXCEPT ![s] = "nothing"]
        /\ step' = IF waiters = << >> THEN [step EXCEPT ![s] = "idle"]
                   ELSE [step EXCEPT ![s] = "idle", ![Head(waiters)] = "start"]
    BY <2>1 DEF Settle
  <2>4. step'[c] = step[c] \/ step'[c] \in {"idle", "start"}
    BY <1>t, <2>3
  <2>5. c = s => step'[c] \in {"idle", "start"}
    BY <1>t, <2>3
  <2> QED
    BY <1>k, <1>t, <2>2, <2>3, <2>4, <2>5
<1>3. CASE CheckFaces
  BY <1>3, <1>k, <1>t DEF CheckFaces, Goto, Consumers
<1>4. CASE CheckDetection
  BY <1>4, <1>k, <1>t DEF CheckDetection, Goto
<1>5. CASE Embed
  <2>1. /\ seen' = seen /\ step'[c] = step[c] /\ Result(c)' = Result(c)
    BY <1>5, <1>t DEF Embed, Goto, Consumers, Result
  <2> QED
    BY <2>1 DEF Blind
<1>6. CASE DropFaces
  <2>1. c = "poi_detection"
    BY <1>6 DEF DropFaces, There
  <2>2. step'[c] = step[c] /\ seen'[c] = seen[c] /\ Result(c)' = Result(c)
    BY <1>6, <1>t, <2>1 DEF DropFaces, Goto, FacesGone, Result
  <2> QED
    BY <2>2 DEF Blind
<1>7. CASE DetectFaces
  <2>1. c = "poi_detection"
    <3>1. step["face_detection"] # "idle" /\ UNCHANGED rows
      BY <1>7 DEF DetectFaces, Goto
    <3>2. active'["face_detection"] # "none"
      BY <3>1, AtWorkComes, ServiceNames DEF rows
    <3> QED
      BY <3>2 DEF Renewed, Comes, Source
  <2>2. step'[c] = step[c] /\ seen'[c] = seen[c] /\ Result(c)' = Result(c)
    BY <1>7, <1>t, <2>1 DEF DetectFaces, Goto, FacesGone, Result
  <2> QED
    BY <2>2 DEF Blind
<1>8. CASE ReadFaces
  <2>1. CASE c = "face_assignment"
    <3>1. step'[c] = "assign"
      BY <1>8, <1>t, <2>1 DEF ReadFaces, Goto, There
    <3> QED
      BY <1>n, <3>1
  <2>2. CASE c # "face_assignment"
    <3>1. step'[c] = step[c] /\ seen'[c] = seen[c] /\ Result(c)' = Result(c)
      BY <1>8, <1>t, <2>2 DEF ReadFaces, Goto, Seeing, Result, Consumers
    <3> QED
      BY <3>1 DEF Blind
  <2> QED
    BY <2>1, <2>2
<1>9. CASE AssignFaces
  <2>1. CASE c = "face_assignment"
    <3>1. step'[c] = "fail" \/ (step'[c] = "finish" /\ Result(c)')
      BY <1>9, <1>t, <2>1 DEF AssignFaces, Goto, Result
    <3> QED
      BY <3>1 DEF Blind
  <2>2. CASE c # "face_assignment"
    <3>1. step'[c] = step[c] /\ seen'[c] = seen[c] /\ Result(c)' = Result(c)
      BY <1>9, <1>t, <2>2 DEF AssignFaces, Goto, Result, Consumers
    <3> QED
      BY <3>1 DEF Blind
  <2> QED
    BY <2>1, <2>2
<1>10. CASE ReadBoxes
  <2>1. CASE c = "quality"
    <3>1. step'[c] = "score" /\ seen'[c] = "current"
      BY <1>10, <1>t, <2>1 DEF ReadBoxes, Goto, Seeing, There
    <3> QED
      BY <3>1 DEF Blind
  <2>2. CASE c # "quality"
    <3>1. UNCHANGED data /\ step'[c] = step[c] /\ seen'[c] = seen[c]
      BY <1>10, <1>t, <2>2 DEF ReadBoxes, Goto, Seeing
    <3> QED
      BY <1>k, <3>1
  <2> QED
    BY <2>1, <2>2
<1>11. CASE StoreScore
  <2>1. CASE c = "quality"
    <3>1. step[c] = "score" /\ step'[c] = "finish" /\ scored' = (seen[c] = "current")
      BY <1>11, <1>t, <2>1 DEF StoreScore, Goto
    <3>2. seen[c] = "current"
      BY <3>1 DEF Blind
    <3>3. Result(c)'
      BY <2>1, <3>1, <3>2 DEF Result
    <3> QED
      BY <3>1, <3>3 DEF Blind
  <2>2. CASE c # "quality"
    <3>1. step'[c] = step[c] /\ seen'[c] = seen[c] /\ Result(c)' = Result(c)
      BY <1>11, <1>t, <2>2 DEF StoreScore, Goto, Result, Consumers
    <3> QED
      BY <3>1 DEF Blind
  <2> QED
    BY <2>1, <2>2
<1>19. CASE NothingToMatch
  <2>1. CASE c = "poi_detection"
    <3>1. embedding /\ lost' # (lost \/ embedding)
      BY <2>1, RestStep DEF There, Inv, Typed, RestTyped
    <3> QED
      BY <1>19, <3>1 DEF NothingToMatch
  <2>2. CASE c # "poi_detection"
    <3>1. UNCHANGED data /\ step'[c] = step[c] /\ seen'[c] = seen[c]
      BY <1>19, <1>t, <2>2 DEF NothingToMatch, Goto
    <3> QED
      BY <1>k, <3>1
  <2> QED
    BY <2>1, <2>2
<1>12. CASE ReadEmbedding
  <2>1. CASE c = "poi_detection"
    <3>1. embedding /\ lost \in BOOLEAN /\ lost' \in BOOLEAN
      BY <2>1, RestStep DEF There, Inv, Typed, RestTyped
    <3>2. lost' # (lost \/ embedding)
      BY <3>1
    <3>3. step'[c] = "replace"
      BY <1>12, <1>t, <2>1, <3>1, <3>2 DEF ReadEmbedding, Goto
    <3> QED
      BY <1>n, <3>3
  <2>2. CASE c # "poi_detection"
    <3>1. UNCHANGED data /\ step'[c] = step[c] /\ seen'[c] = seen[c]
      BY <1>12, <1>t, <2>2 DEF ReadEmbedding, Goto
    <3> QED
      BY <1>k, <3>1
  <2> QED
    BY <2>1, <2>2
<1>13. CASE CheckEmbedding
  <2>1. CASE c = "poi_detection"
    <3>1. step[c] = "missing" /\ seen[c] # "current"
      BY <1>13, <2>1 DEF CheckEmbedding, Goto, SeenInv
    <3> QED
      BY <3>1 DEF Blind
  <2>2. CASE c # "poi_detection"
    <3>1. UNCHANGED data /\ step'[c] = step[c] /\ seen'[c] = seen[c]
      BY <1>13, <1>t, <2>2 DEF CheckEmbedding, Goto
    <3> QED
      BY <1>k, <3>1
  <2> QED
    BY <2>1, <2>2
<1>14. CASE DeleteMatches \/ InsertMatches
  <2>1. CASE c = "poi_detection"
    <3>1. step'[c] = "insert" \/ (step'[c] = "finish" /\ Result(c)')
      BY <1>14, <1>t, <2>1 DEF DeleteMatches, InsertMatches, Goto, Result
    <3> QED
      BY <3>1 DEF Blind
  <2>2. CASE c # "poi_detection"
    <3>1. step'[c] = step[c] /\ seen'[c] = seen[c] /\ Result(c)' = Result(c)
      BY <1>14, <1>t, <2>2 DEF DeleteMatches, InsertMatches, Goto, Result, Consumers
    <3> QED
      BY <3>1 DEF Blind
  <2> QED
    BY <2>1, <2>2
<1>u. ASSUME UNCHANGED <<step, seen>>, UNCHANGED data PROVE ~Blind(c)'
  BY <1>k, <1>u
<1>15. ASSUME NEW s \in AllServices, FollowUp(s) \/ FollowUpFails(s) PROVE ~Blind(c)'
  BY <1>15, <1>u DEF FollowUp, FollowUpFails, work
<1>16. CASE \E kind \in scenario.requests : Request(kind)
  BY <1>16, <1>u DEF Request, work
<1>17. CASE Serve \/ RequestFails \/ ResetStuckJobs \/ Quiet \/ UNCHANGED vars
  <2>1. UNCHANGED <<step, seen>> /\ UNCHANGED data
    BY <1>17 DEF Serve, FindMissing, DropSettled, ResetRows, InsertRow, RetryFailed, CancelPending,
       RequestFails, ResetStuckJobs, Quiet, vars, work, data
  <2> QED
    BY <1>u, <2>1
<1>18. CASE Crash
  <2>1. step'[c] = "idle"
    BY <1>18, <1>t DEF Crash
  <2> QED
    BY <1>n, <2>1
<1> QED
  BY <1>1, <1>2, <1>3, <1>4, <1>5, <1>6, <1>7, <1>8, <1>9, <1>10, <1>11, <1>12, <1>13, <1>14,
     <1>15, <1>16, <1>17, <1>18, <1>19 DEF Next, Job

LEMMA ReachesStep ==
  ASSUME Inv, Owned, SeenInv, [Next]_vars, ~lost', ~lost, NEW c \in Consumers, Reaches(c)
  PROVE  Reaches(c)'
<1>0. enabled' = enabled
  BY ScenarioKept, SameServices
<1> SUFFICES ASSUME c \in enabled, There(c)', ~Renewed(c)'
             PROVE  (Result(c)' \/ Comes(c)') /\ ~Blind(c)'
  BY <1>0 DEF Reaches
<1>1. There(c)
  BY NewIsRenewed
<1>2. CASE Renewed(c)
  BY <1>1, <1>2, RenewedKept, FollowedUp
<1>3. CASE ~Renewed(c)
  <2>1. ~Blind(c) /\ (Result(c) \/ Comes(c))
    BY <1>1, <1>3 DEF Reaches
  <2>2. ~Blind(c)'
    BY <1>1, <2>1, NotBlinded
  <2>3. CASE Result(c)
    BY <2>2, <2>3, ResultKeptOrComes
  <2>4. CASE Comes(c) /\ ~Result(c)
    <3>1. c \in AllServices
      BY ConsumersAreServices
    <3>2. ~Finish(c)
      BY <2>1, <2>4 DEF Finish, Settle, Blind
    <3>3. ~(c = "poi_detection" /\ matched)
      BY <2>4 DEF Result
    <3> QED
      BY <2>2, <2>4, <3>1, <3>2, <3>3, ComesKept
  <2> QED
    BY <2>1, <2>2, <2>3, <2>4
<1> QED
  BY <1>2, <1>3

LEMMA FollowStep == Inv /\ Owned /\ SeenInv /\ FollowInv /\ [Next]_vars => FollowInv'
<1> SUFFICES ASSUME Inv, Owned, SeenInv, FollowInv, [Next]_vars, ~lost', NEW c \in Consumers
             PROVE  Reaches(c)'
  BY DEF FollowInv
<1>1. CASE ~lost
  BY <1>1, ReachesStep DEF FollowInv
<1>2. CASE lost
  \* A forced rescan starts over.
  <2>1. PICK kind \in scenario.requests : Request(kind)
    <3>l. lost' \in BOOLEAN /\ lost \in BOOLEAN /\ lost
      BY <1>2, RestStep DEF Inv, Typed, RestTyped
    <3>1. ASSUME NEW s \in AllServices, Claim(s) \/ Job(s) \/ Unavailable(s) \/ JobFails(s)
                                        \/ FollowUp(s) \/ FollowUpFails(s)
          PROVE  lost'
      BY <1>2, <3>1 DEF Claim, Job, Unavailable, JobFails, FollowUp, FollowUpFails, Finish,
         Fail, Defer, Embed, CheckFaces, DropFaces, DetectFaces, CheckDetection, ReadFaces,
         AssignFaces, ReadBoxes, StoreScore, NothingToMatch, ReadEmbedding, CheckEmbedding,
         DeleteMatches, InsertMatches
    <3>2. CASE Serve \/ RequestFails \/ Crash \/ ResetStuckJobs \/ Quiet \/ UNCHANGED vars
      BY <1>2, <3>2 DEF Serve, FindMissing, DropSettled, ResetRows, InsertRow, RetryFailed,
         CancelPending, RequestFails, Crash, ResetStuckJobs, Quiet, vars
    <3> QED
      BY <3>1, <3>2 DEF Next
  <2>2. kind = "force" /\ AtRest
    BY <1>2, <2>1 DEF Request
  <2>3. /\ req'.kind = "force" /\ req'.todo = EnabledServices
        /\ step' = step /\ UNCHANGED data /\ scenario' = scenario
    BY <2>1, <2>2 DEF Request, ServicesOf, work
  <2>4. SeenInv /\ Typed
    BY DEF Inv
  <2>5. ASSUME c \in enabled, There(c) PROVE Source(c) \in enabled
    BY <2>4, <2>5, Switched DEF Source, There, SeenInv, Typed
  <2>6. c \in AllServices /\ step'[c] = "idle"
    BY <2>2, <2>3, ConsumersAreServices DEF AtRest
  <2>7. ASSUME c \in enabled, There(c) PROVE Renewed(c)'
    <3>1. Source(c)' = Source(c) /\ Source(c) \in ToSet(req'.todo)
      BY <2>3, <2>5, <2>7 DEF enabled, Source
    <3> QED
      BY <2>3, <3>1 DEF Renewed, Comes, Owes
  <2>8. enabled' = enabled /\ There(c)' = There(c)
    BY <2>3, SameServices DEF There, data
  <2> QED
    BY <2>6, <2>7, <2>8 DEF Reaches, Blind
<1> QED
  BY <1>1, <1>2

(* Once nothing is left to do, what has been found has been followed up:    *)
(* matched, assigned, scored. Not said of a photo with a failed job, nor of *)
(* one that lost a run: to an error, a restart or a cancellation, to a run  *)
(* past its read, or to a job that is done although its detection, or its   *)
(* read of the vector, the points of interest or their images, had failed.  *)
(* A result is missing only while the job it comes from, or the one before, *)
(* is queued, at work or owed by a request; where nothing is left, none is. *)
THEOREM FollowUpsArrive == FairSpec => []FollowUpArrives
<1>1. Init => Owned /\ SeenInv /\ FollowInv
  <2> SUFFICES ASSUME Init PROVE Owned /\ SeenInv /\ FollowInv
    OBVIOUS
  <2>1. Owned
    BY DEF Init, Owned
  <2>2. SeenInv
    BY ConsumersAreServices, ServiceNames DEF Init, SeenInv
  <2>3. FollowInv
    BY DEF Init, FollowInv, Reaches, There
  <2> QED
    BY <2>1, <2>2, <2>3
<1>2. Typed /\ SlotInv => Inv
  BY DEF Inv
<1>3. Typed /\ SlotInv /\ [Next]_vars => Typed'
  BY RowsStep, WorkStep, ReqStep, RestStep DEF Typed
<1>4. Inv /\ SeenInv /\ FollowInv => FollowUpArrives
  <2> SUFFICES ASSUME Inv, SeenInv, FollowInv, AtRest, ~lost, \A s \in AllServices : failed[s] = 0
               PROVE  /\ embedding /\ "poi_detection" \in enabled => matched
                      /\ faces => assigned /\ ("quality" \in enabled => scored)
    BY DEF FollowUpArrives
  <2>1. \A s \in AllServices : ~Comes(s)
    BY IdleOwesNothing DEF Comes, AtRest, Inv, Typed
  <2>2. ASSUME NEW c \in Consumers, c \in enabled, There(c) PROVE Result(c)
    <3>1. ~Comes(c) /\ ~Renewed(c)
      BY <2>1, ConsumersAreServices, SourceIsService DEF Renewed, AtRest
    <3> QED
      BY <2>2, <3>1 DEF FollowInv, Reaches
  <2>3. faces => "face_assignment" \in enabled
    BY Switched DEF SeenInv, Inv, Typed
  <2>4. embedding /\ "poi_detection" \in enabled => matched
    BY <2>2 DEF Consumers, There, Result
  <2>5. faces => assigned
    BY <2>2, <2>3 DEF Consumers, There, Result
  <2>6. faces /\ "quality" \in enabled => scored
    BY <2>2 DEF Consumers, There, Result
  <2> QED
    BY <2>4, <2>5, <2>6
<1> QED
  BY <1>1, <1>2, <1>3, <1>4, TypedInit, SlotInit, SlotStep, OwnedStep, SeenStep, FollowStep, PTL
     DEF FairSpec
=============================================================================
