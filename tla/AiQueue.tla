------------------------------- MODULE AiQueue -------------------------------
(***************************************************************************)
(* The ai-queue service: one line of callers per AI model, kept in the     *)
(* table ai_model_slot.  Every caller runs withAiSlot (slot-helper.ts):    *)
(* insert a row, activate it if nobody is active, else wait to be          *)
(* promoted, run, delete the row and promote the next one.  A cron sweeps  *)
(* active rows that are older than a time limit.                           *)
(*                                                                         *)
(* All statements of the code filter on one model, so the module describes *)
(* the rows of one model.  Each SQL statement runs on a pooled connection  *)
(* under READ COMMITTED and each await lets other handlers run, so one     *)
(* statement is one action.  The activating UPDATE takes two: its snapshot *)
(* is read (CheckFree) before its write is committed (Activate), and two   *)
(* such statements on different rows do not block one another.             *)
(***************************************************************************)
EXTENDS Integers, FiniteSets

CONSTANTS Callers,      \* async call chains that ask for the model
          Cron,         \* the ai-queue-stale-cleanup job
          Priorities,   \* AI_PRIORITY: lower goes first
          MaxSlots,     \* bound: rows ever inserted
          MaxFaults     \* bound: failed statements and process restarts

ASSUME CronAssumption == Cron \notin Callers
ASSUME PrioritiesAssumption == Priorities \subseteq Nat
ASSUME BoundsAssumption == MaxSlots \in Nat /\ MaxFaults \in Nat

Actors == Callers \cup {Cron}
Slots  == 1 .. MaxSlots
NoSlot == 0

VARIABLES
  status,      \* ai_model_slot: slot id -> "absent", "waiting" or "active"
  prio,        \* ai_model_slot.priority
  nextId,      \* the id sequence; ids are handed out in enqueued_at order
  stale,       \* slots activated longer ago than the TTL (activated_at)
  pc,          \* where each actor stands between two awaits
  mine,        \* slotId of the row the caller inserted
  promoted,    \* promotedId between the promoting UPDATE and wakeWaiter
  registered,  \* keys of the waiters map (waiters.ts)
  woken,       \* callers whose wakeup promise is resolved
  givingUp,    \* callers past their deadline or whose signal is aborted
  started,     \* startupCleanupPromise is fulfilled
  faults,      \* failed statements and restarts so far
  orphans,     \* history: rows whose caller is gone without deleting them
  stranded     \* history: a hand-over failed and nobody was activated since

table == <<status, prio, nextId, stale>>
waits == <<registered, woken>>
vars  == <<status, prio, nextId, stale, pc, mine, promoted, registered,
           woken, givingUp, started, faults, orphans, stranded>>

Waiting == {s \in Slots : status[s] = "waiting"}
Active  == {s \in Slots : status[s] = "active"}

\* ORDER BY priority ASC, enqueued_at ASC
Outranks(s, t) == \/ prio[s] < prio[t]
                  \/ prio[s] = prio[t] /\ s < t

Goto(a, from, to) == pc[a] = from /\ pc' = [pc EXCEPT ![a] = to]

Fault == faults < MaxFaults /\ faults' = faults + 1

Init ==
  /\ status = [s \in Slots |-> "absent"]
  /\ prio = [s \in Slots |-> 0]
  /\ nextId = 1
  /\ stale = {}
  /\ pc = [a \in Actors |-> "idle"]
  /\ mine = [c \in Callers |-> NoSlot]
  /\ promoted = [a \in Actors |-> NoSlot]
  /\ registered = {}
  /\ woken = {}
  /\ givingUp = {}
  /\ started = FALSE
  /\ faults = 0
  /\ orphans = {}
  /\ stranded = FALSE

-----------------------------------------------------------------------------
(* acquireSlot *)

\* INSERT ... 'waiting'.
Insert(c, p) ==
  /\ started
  /\ nextId <= MaxSlots
  /\ Goto(c, "idle", "check")
  /\ mine' = [mine EXCEPT ![c] = nextId]
  /\ status' = [status EXCEPT ![nextId] = "waiting"]
  /\ prio' = [prio EXCEPT ![nextId] = p]
  /\ nextId' = nextId + 1
  /\ UNCHANGED <<stale, promoted, waits, givingUp, started, faults, orphans,
                 stranded>>

\* The snapshot on which the activating UPDATE evaluates NOT EXISTS.
CheckFree(c) ==
  /\ \/ Active = {} /\ Goto(c, "check", "activate")
     \/ Active # {} /\ Goto(c, "check", "queued")
  /\ UNCHANGED <<table, mine, promoted, waits, givingUp, started, faults,
                 orphans, stranded>>

\* The same UPDATE writes its own row, which may be gone or active by now.
Activate(c) ==
  /\ pc[c] = "activate"
  /\ \/ /\ status[mine[c]] # "absent"
        /\ Goto(c, "activate", "running")
        /\ status' = [status EXCEPT ![mine[c]] = "active"]
        /\ stranded' = FALSE
     \/ /\ status[mine[c]] = "absent"
        /\ Goto(c, "activate", "queued")
        /\ UNCHANGED <<status, stranded>>
  /\ UNCHANGED <<prio, nextId, stale, mine, promoted, waits, givingUp,
                 started, faults, orphans>>

\* A statement after the INSERT throws: acquireSlot rejects before withAiSlot
\* enters its try, so nobody deletes the row.
AcquireFails(c) ==
  /\ Fault
  /\ pc[c] \in {"check", "activate", "queued"}
  /\ pc' = [pc EXCEPT ![c] = "idle"]
  /\ mine' = [mine EXCEPT ![c] = NoSlot]
  /\ orphans' = orphans \cup {mine[c]}
  /\ stranded' = TRUE
  /\ givingUp' = givingUp \ {c}
  /\ UNCHANGED <<table, promoted, waits, started>>

-----------------------------------------------------------------------------
(* waitForActiveSlot and the registry of waiters.ts *)

\* Mutant: the loop goes on without registering.
RegisterNobody(c) == UNCHANGED registered /\ woken' = woken \ {c}

RegisterWaiter(c) ==
  /\ registered' = registered \cup {mine[c]}
  /\ woken' = woken \ {c}

UnregisterWaiter(c) == registered' = registered \ {mine[c]} /\ UNCHANGED woken

\* Mutant: any row that is still there is taken for a grant.
GrantedIfPresent(c) == status[mine[c]] # "absent"

Granted(c) == status[mine[c]] = "active"

\* Mutant: nobody compares the deadline.
MayAlwaysWait(c) == TRUE

MayWait(c) == c \notin givingUp

\* The position query has answered; the loop starts with registerWaiter.
Register(c) ==
  /\ Goto(c, "queued", "polling")
  /\ RegisterWaiter(c)
  /\ UNCHANGED <<table, mine, promoted, givingUp, started, faults, orphans,
                 stranded>>

\* pollSlot decides: run, throw (row gone) or go on waiting.
Poll(c) ==
  /\ pc[c] = "polling"
  /\ \/ /\ Granted(c)
        /\ Goto(c, "polling", "running")
        /\ UnregisterWaiter(c)
     \/ /\ status[mine[c]] = "absent"
        /\ Goto(c, "polling", "release")
        /\ UnregisterWaiter(c)
     \/ /\ status[mine[c]] = "waiting"
        /\ Goto(c, "polling", "decide")
        /\ UNCHANGED waits
  /\ UNCHANGED <<table, mine, promoted, givingUp, started, faults,
                 orphans, stranded>>

PollFails(c) ==
  /\ Fault
  /\ Goto(c, "polling", "release")
  /\ UnregisterWaiter(c)
  /\ UNCHANGED <<table, mine, promoted, givingUp, started, orphans,
                 stranded>>

\* timeoutMs has passed, or the caller's signal is aborted.
Expire(c) ==
  /\ pc[c] \in {"queued", "polling", "decide", "sleeping"}
  /\ givingUp' = givingUp \cup {c}
  /\ c \notin givingUp
  /\ UNCHANGED <<table, pc, mine, promoted, waits, started, faults, orphans,
                 stranded>>

Sleep(c) ==
  /\ MayWait(c)
  /\ Goto(c, "decide", "sleeping")
  /\ UNCHANGED <<table, mine, promoted, waits, givingUp, started, faults,
                 orphans, stranded>>

\* The race ends (wakeup, timer or abort); unregister and register again.
Resume(c) ==
  /\ Goto(c, "sleeping", "polling")
  /\ RegisterWaiter(c)
  /\ UNCHANGED <<table, mine, promoted, givingUp, started, faults, orphans,
                 stranded>>

\* The table after DELETE ... WHERE id AND status = 'waiting' (cancelSlot).
\* It is also a mutant of releaseSlot's DELETE ... WHERE id (Removed).
RemovedIfWaiting(c) ==
  [status EXCEPT ![mine[c]] = IF @ = "waiting" THEN "absent" ELSE @]

Removed(c) == [status EXCEPT ![mine[c]] = "absent"]

\* cancelSlot deletes the row only while it waits; its error is swallowed.
Cancel(c) ==
  /\ c \in givingUp
  /\ Goto(c, "decide", "release")
  /\ \/ status' = RemovedIfWaiting(c) /\ UNCHANGED faults
     \/ Fault /\ UNCHANGED status
  /\ UnregisterWaiter(c)
  /\ UNCHANGED <<prio, nextId, stale, mine, promoted, givingUp, started,
                 orphans, stranded>>

-----------------------------------------------------------------------------
(* withAiSlot's fn and its finally: releaseSlot *)

\* fn returns or throws.
Finish(c) ==
  /\ Goto(c, "running", "release")
  /\ UNCHANGED <<table, mine, promoted, waits, givingUp, started, faults,
                 orphans, stranded>>

\* DELETE ... WHERE id, whatever the row's status; promote only if it was there.
Delete(c) ==
  /\ pc[c] = "release"
  /\ \/ /\ status[mine[c]] # "absent"
        /\ Goto(c, "release", "promote")
     \/ /\ status[mine[c]] = "absent"
        /\ Goto(c, "release", "idle")
  /\ status' = Removed(c)
  /\ mine' = [mine EXCEPT ![c] = NoSlot]
  /\ givingUp' = givingUp \ {c}
  /\ UNCHANGED <<prio, nextId, stale, promoted, waits, started, faults,
                 orphans, stranded>>

\* The DELETE throws; withAiSlot logs it and returns.
DeleteFails(c) ==
  /\ Fault
  /\ Goto(c, "release", "idle")
  /\ mine' = [mine EXCEPT ![c] = NoSlot]
  /\ orphans' = IF status[mine[c]] = "absent" THEN orphans
                                              ELSE orphans \cup {mine[c]}
  /\ givingUp' = givingUp \ {c}
  /\ UNCHANGED <<table, promoted, waits, started, stranded>>

\* Mutant: the position query locks its row as well.
LockedByReaders ==
  {mine[c] : c \in {d \in Callers : pc[d] \in {"activate", "queued"}}}

\* Rows whose activating UPDATE is under way may be locked: SKIP LOCKED.
MaybeLocked == {mine[c] : c \in {d \in Callers : pc[d] = "activate"}}

\* The promoting UPDATE of releaseSlot and of cleanupStaleSlots.
Promote(a) ==
  /\ \E skipped \in SUBSET (MaybeLocked \cap Waiting) :
       LET line == Waiting \ skipped IN
       \/ /\ line = {}
          /\ Goto(a, "promote", "idle")
          /\ UNCHANGED <<status, promoted, stranded>>
       \/ \E s \in line :
            /\ \A t \in line \ {s} : Outranks(s, t)
            /\ Goto(a, "promote", "wake")
            /\ status' = [status EXCEPT ![s] = "active"]
            /\ promoted' = [promoted EXCEPT ![a] = s]
            /\ stranded' = FALSE
  /\ UNCHANGED <<prio, nextId, stale, mine, waits, givingUp, started, faults,
                 orphans>>

PromoteFails(a) ==
  /\ Fault
  /\ Goto(a, "promote", "idle")
  /\ stranded' = TRUE
  /\ UNCHANGED <<table, mine, promoted, waits, givingUp, started, orphans>>

\* wakeWaiter: drop the registration, then resolve.
Wake(a) ==
  /\ Goto(a, "wake", "idle")
  /\ registered' = registered \ {promoted[a]}
  /\ woken' = woken \cup {c \in Callers : /\ mine[c] = promoted[a]
                                          /\ mine[c] \in registered}
  /\ promoted' = [promoted EXCEPT ![a] = NoSlot]
  /\ UNCHANGED <<table, mine, givingUp, started, faults, orphans, stranded>>

-----------------------------------------------------------------------------
(* cleanupStaleSlots, the passing of time, and restarts *)

\* An active row passes the TTL, be its caller gone or merely slow.
Age(s) ==
  /\ status[s] = "active" /\ s \notin stale
  /\ stale' = stale \cup {s}
  /\ UNCHANGED <<status, prio, nextId, pc, mine, promoted, waits, givingUp,
                 started, faults, orphans, stranded>>

\* Mutant: the sweep filters on the wrong status.
StaleWaiting == Waiting \cap stale

StaleRows == Active \cap stale

\* DELETE of the rows past the TTL; then one promotion for the model.
Sweep ==
  /\ StaleRows # {}
  /\ Goto(Cron, "idle", "promote")
  /\ status' = [s \in Slots |-> IF s \in StaleRows THEN "absent" ELSE status[s]]
  /\ UNCHANGED <<prio, nextId, stale, mine, promoted, waits, givingUp,
                 started, faults, orphans, stranded>>

\* The process dies: memory is lost, the table stays.
Crash ==
  /\ Fault
  /\ pc' = [a \in Actors |-> "idle"]
  /\ mine' = [c \in Callers |-> NoSlot]
  /\ promoted' = [a \in Actors |-> NoSlot]
  /\ registered' = {} /\ woken' = {} /\ givingUp' = {}
  /\ started' = FALSE
  /\ orphans' = orphans \cup Waiting \cup Active
  /\ UNCHANGED <<table, stranded>>

\* ensureStartupSlotsCleared: every row goes before the first INSERT.
ClearOnStartup ==
  /\ ~started
  /\ started' = TRUE
  /\ status' = [s \in Slots |-> "absent"]
  /\ UNCHANGED <<prio, nextId, stale, pc, mine, promoted, waits, givingUp,
                 faults, orphans, stranded>>

-----------------------------------------------------------------------------
CallerStep(c) ==
  \/ CheckFree(c) \/ Activate(c)
  \/ Register(c)  \/ Poll(c)     \/ Sleep(c) \/ Resume(c) \/ Cancel(c)
  \/ Finish(c)    \/ Delete(c)

HandOver(a) == Promote(a) \/ Wake(a)

Failure ==
  \/ \E c \in Callers : AcquireFails(c) \/ PollFails(c) \/ DeleteFails(c)
  \/ \E a \in Actors : PromoteFails(a)
  \/ Crash

\* No demand is left: the line may rest.
Quiet ==
  /\ nextId > MaxSlots /\ started /\ Active = {}
  /\ \A a \in Actors : pc[a] = "idle"
  /\ UNCHANGED vars

Next ==
  \/ \E c \in Callers, p \in Priorities : Insert(c, p)
  \/ \E c \in Callers : CallerStep(c) \/ Expire(c)
  \/ \E a \in Actors : HandOver(a)
  \/ \E s \in Slots : Age(s)
  \/ Sweep
  \/ ClearOnStartup
  \/ Failure
  \/ Quiet

Spec == Init /\ [][Next]_vars

\* Handlers run to their end, timers fire, model calls have a time limit of
\* their own and the cron keeps firing.
Fairness ==
  /\ \A c \in Callers : WF_vars(CallerStep(c)) /\ WF_vars(Expire(c))
  /\ \A a \in Actors : WF_vars(HandOver(a))
  /\ \A s \in Slots : WF_vars(Age(s))
  /\ WF_vars(Sweep)
  /\ WF_vars(ClearOnStartup)

FairSpec == Spec /\ Fairness

-----------------------------------------------------------------------------
TypeOK ==
  /\ status \in [Slots -> {"absent", "waiting", "active"}]
  /\ prio \in [Slots -> Nat]
  /\ nextId \in 1 .. (MaxSlots + 1)
  /\ stale \subseteq Slots
  /\ pc \in [Actors -> {"idle", "check", "activate", "queued", "polling",
                        "decide", "sleeping", "running", "release",
                        "promote", "wake"}]
  /\ mine \in [Callers -> Slots \cup {NoSlot}]
  /\ promoted \in [Actors -> Slots \cup {NoSlot}]
  /\ registered \subseteq Slots
  /\ woken \subseteq Callers
  /\ givingUp \subseteq Callers
  /\ started \in BOOLEAN
  /\ faults \in 0 .. MaxFaults
  /\ orphans \subseteq Slots
  /\ stranded \in BOOLEAN

Asleep(c)  == pc[c] \in {"decide", "sleeping"}
Holding(c) == pc[c] \notin {"idle", "promote", "wake"}

OwnRow ==
  \A c \in Callers : IF Holding(c) THEN mine[c] \in Slots /\ mine[c] < nextId
                                   ELSE mine[c] = NoSlot

OneOwner == \A c, d \in Callers : c # d /\ mine[c] # NoSlot => mine[c] # mine[d]

InRegistry ==
  \A c \in Callers :
    pc[c] = "polling" \/ Asleep(c) => mine[c] \in registered \/ c \in woken

(* A row belongs to one caller at most, from its INSERT to the end of that
   caller's withAiSlot; a caller between registerWaiter and unregisterWaiter is
   in the registry or already woken; nothing runs before the startup clearing
   (the module-level state of waiters.ts and api.ts against the rows). *)
Bookkeeping ==
  /\ OwnRow /\ OneOwner /\ InRegistry
  /\ ~started => \A c \in Callers : pc[c] = "idle"

(* The wakeup of a promoted caller is never lost: whoever has read "waiting"
   from pollSlot while its row is active by now has been woken, or the
   promoter is about to call wakeWaiter and still finds it registered
   (register before poll in waitForActiveSlot, wakeWaiter). *)
NoLostWakeup ==
  \A c \in Callers :
    Asleep(c) /\ status[mine[c]] = "active" =>
      \/ c \in woken
      \/ mine[c] \in registered /\ \E a \in Actors : pc[a] = "wake" /\ promoted[a] = mine[c]

(* While callers wait and nobody is active, somebody is on the way to
   activate one of them, unless a statement of a hand-over failed since the
   last activation (releaseSlot's DELETE and promotion against acquireSlot's
   INSERT and conditional UPDATE). *)
SomebodyOnTheWay ==
  \/ \E a \in Actors : pc[a] = "promote"
  \/ \E c \in Callers : pc[c] \in {"check", "activate"} /\ status[mine[c]] = "waiting"

NoStrandedLine ==
  started /\ Waiting # {} /\ Active = {} => stranded \/ SomebodyOnTheWay

(* No row outlives its caller unless a statement of that caller failed: a
   timeout, an abort or a promotion racing with them leaves no zombie row
   (cancelSlot while waiting, the finally's releaseSlot when already active). *)
NoZombieRow ==
  started =>
    \A s \in Slots : status[s] # "absent" =>
      \/ s \in orphans
      \/ \E c \in Callers : mine[c] = s /\ Holding(c)

(* A caller runs fn only with its own row active; only the TTL sweep may have
   taken the row from under it (a wakeup is advisory, pollSlot confirms). *)
RunnerIsActive ==
  \A c \in Callers :
    pc[c] = "running" =>
      status[mine[c]] = "active" \/ (status[mine[c]] = "absent" /\ mine[c] \in stale)

(* "Exactly one active slot per model", as the documentation says. *)
AtMostOneActive == Cardinality(Active) <= 1

(* A waiting caller gets its turn or gives up, even when hand-overs fail or
   wakeups are missed: the deadline ends every wait. *)
WaitEnds ==
  \A c \in Callers :
    pc[c] \in {"queued", "polling", "decide", "sleeping"}
      ~> pc[c] \in {"running", "idle"}

(* An active row whose caller is gone does not block the model for good: the
   sweep or the startup clearing removes it. *)
OrphanSwept ==
  \A s \in Slots : (s \in orphans /\ status[s] = "active") ~> status[s] = "absent"

(* Every step of the statements, wakeups and failures is a step of the plain
   line of ModelLine or leaves it as it is. *)
ViewOf(c) ==
  CASE pc[c] \in {"idle", "promote", "wake"} -> "out"
    [] pc[c] = "running"                     -> "running"
    [] pc[c] = "release"                     -> "leaving"
    [] OTHER                                 -> "queued"

Line == INSTANCE ModelLine
          WITH row <- status, view <- [c \in Callers |-> ViewOf(c)], ticket <- mine

ImplementsLine == Line!LineSpec
=============================================================================
