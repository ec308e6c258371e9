--------------------------- MODULE AiQueueProofs ---------------------------
(* Theorems about AiQueue, for any set of callers, priorities and bounds.  *)
EXTENDS AiQueue, TLAPS

LEMMA SlotsAreNumbers == Slots \subseteq Nat \ {0} /\ NoSlot \notin Slots
  BY BoundsAssumption DEF Slots, NoSlot

-----------------------------------------------------------------------------
(* Type correctness needs the bookkeeping: only a caller that owns a row can
   leave an orphan. *)
Typed == TypeOK /\ Bookkeeping

LEMMA TypedInit == Init => Typed
<1> SUFFICES ASSUME Init PROVE Typed
  OBVIOUS
<1>1. TypeOK
  <2>1. status \in [Slots -> {"absent", "waiting", "active"}] /\ prio \in [Slots -> Nat]
    BY DEF Init
  <2>2. nextId \in 1 .. (MaxSlots + 1) /\ faults \in 0 .. MaxFaults
    BY BoundsAssumption DEF Init
  <2> QED
    BY <2>1, <2>2 DEF Init, TypeOK
<1>2. Bookkeeping
  BY DEF Init, Bookkeeping, OwnRow, OneOwner, InRegistry, Holding, Asleep, Actors
<1> QED
  BY <1>1, <1>2 DEF Typed

LEMMA FaultCounted == TypeOK /\ Fault => faults' \in 0 .. MaxFaults
  BY BoundsAssumption DEF TypeOK, Fault

(* What the promoting UPDATE does, whichever rows it skipped. *)
LEMMA PromoteEffect ==
  ASSUME NEW a \in Actors, Promote(a)
  PROVE  /\ pc[a] = "promote"
         /\ \/ /\ Waiting \subseteq MaybeLocked
               /\ pc' = [pc EXCEPT ![a] = "idle"]
               /\ UNCHANGED <<status, promoted, stranded>>
            \/ \E s \in Waiting :
                 /\ pc' = [pc EXCEPT ![a] = "wake"]
                 /\ status' = [status EXCEPT ![s] = "active"]
                 /\ promoted' = [promoted EXCEPT ![a] = s]
                 /\ stranded' = FALSE
         /\ UNCHANGED <<prio, nextId, stale, mine, registered, woken, givingUp,
                        started, faults, orphans>>
<1>1. PICK skipped \in SUBSET (MaybeLocked \cap Waiting) :
        \/ /\ Waiting \ skipped = {}
           /\ Goto(a, "promote", "idle")
           /\ UNCHANGED <<status, promoted, stranded>>
        \/ \E s \in Waiting \ skipped :
             /\ Goto(a, "promote", "wake")
             /\ status' = [status EXCEPT ![s] = "active"]
             /\ promoted' = [promoted EXCEPT ![a] = s]
             /\ stranded' = FALSE
  BY DEF Promote
<1>2. UNCHANGED <<prio, nextId, stale, mine, registered, woken, givingUp,
                  started, faults, orphans>>
  BY DEF Promote, waits
<1>3. CASE Waiting \ skipped = {} /\ Goto(a, "promote", "idle") /\ UNCHANGED <<status, promoted, stranded>>
  BY <1>2, <1>3 DEF Goto
<1>4. CASE \E s \in Waiting \ skipped :
             /\ Goto(a, "promote", "wake")
             /\ status' = [status EXCEPT ![s] = "active"]
             /\ promoted' = [promoted EXCEPT ![a] = s]
             /\ stranded' = FALSE
  BY <1>2, <1>4 DEF Goto
<1> QED
  BY <1>1, <1>3, <1>4

LEMMA TypeStep == Typed /\ [Next]_vars => TypeOK'
<1> SUFFICES ASSUME TypeOK, Bookkeeping, [Next]_vars PROVE TypeOK'
  BY DEF Typed
<1> USE DEF TypeOK
<1>1. ASSUME NEW c \in Callers, NEW p \in Priorities, Insert(c, p) PROVE TypeOK'
  BY <1>1, BoundsAssumption, PrioritiesAssumption DEF Insert, Goto, waits, Actors, Slots
<1>2. ASSUME NEW c \in Callers, CheckFree(c) PROVE TypeOK'
  BY <1>2 DEF CheckFree, Goto, table, waits, Actors
<1>3. ASSUME NEW c \in Callers, Activate(c) PROVE TypeOK'
  BY <1>3 DEF Activate, Goto, waits, Actors
<1>4. ASSUME NEW c \in Callers, Register(c) \/ Resume(c) PROVE TypeOK'
  BY <1>4 DEF Register, Resume, RegisterWaiter, Goto, table, Actors, Bookkeeping, OwnRow, Holding
<1>5. ASSUME NEW c \in Callers, Poll(c) \/ PollFails(c) PROVE TypeOK'
  BY <1>5, FaultCounted DEF Poll, PollFails, UnregisterWaiter, Goto, table, waits, Actors
<1>6. ASSUME NEW c \in Callers, Sleep(c) \/ Finish(c) PROVE TypeOK'
  BY <1>6 DEF Sleep, Finish, Goto, table, waits, Actors
<1>7. ASSUME NEW c \in Callers, Cancel(c) PROVE TypeOK'
  BY <1>7, FaultCounted DEF Cancel, RemovedIfWaiting, UnregisterWaiter, Goto, Actors
<1>8. ASSUME NEW c \in Callers, Delete(c) PROVE TypeOK'
  BY <1>8 DEF Delete, Removed, Goto, waits, Actors
<1>9. ASSUME NEW c \in Callers, AcquireFails(c) \/ DeleteFails(c) PROVE TypeOK'
  <2>1. mine[c] \in Slots
    BY <1>9 DEF AcquireFails, DeleteFails, Goto, Bookkeeping, OwnRow, Holding
  <2>2. CASE AcquireFails(c)
    BY <2>1, <2>2, FaultCounted DEF AcquireFails, table, waits
  <2>3. CASE DeleteFails(c)
    <3>1. orphans' \subseteq Slots
      BY <2>1, <2>3 DEF DeleteFails
    <3> QED
      BY <3>1, <2>3, FaultCounted DEF DeleteFails, Goto, table, waits
  <2> QED
    BY <1>9, <2>2, <2>3
<1>10. ASSUME NEW c \in Callers, Expire(c) PROVE TypeOK'
  BY <1>10 DEF Expire, table, waits
<1>11. ASSUME NEW a \in Actors, Promote(a) PROVE TypeOK'
  <2>1. CASE status' = status /\ UNCHANGED <<promoted, stranded>>
    BY <1>11, <2>1, PromoteEffect
  <2>2. ASSUME NEW s \in Waiting, status' = [status EXCEPT ![s] = "active"],
               promoted' = [promoted EXCEPT ![a] = s], stranded' = FALSE
        PROVE  TypeOK'
    BY <1>11, <2>2, PromoteEffect DEF Waiting
  <2> QED
    BY <1>11, <2>1, <2>2, PromoteEffect
<1>12. ASSUME NEW a \in Actors, Wake(a) \/ PromoteFails(a) PROVE TypeOK'
  <2>1. CASE Wake(a)
    BY <2>1 DEF Wake, Goto, table
  <2>2. CASE PromoteFails(a)
    BY <2>2, FaultCounted DEF PromoteFails, Goto, table, waits
  <2> QED
    BY <1>12, <2>1, <2>2
<1>13. ASSUME NEW s \in Slots, Age(s) PROVE TypeOK'
  BY <1>13 DEF Age, waits
<1>14. CASE Sweep
  BY <1>14 DEF Sweep, Goto, waits, Actors
<1>15. CASE ClearOnStartup
  BY <1>15 DEF ClearOnStartup, waits
<1>16. CASE Crash
  <2>1. orphans' \subseteq Slots
    BY <1>16 DEF Crash, Waiting, Active
  <2> QED
    BY <1>16, <2>1, FaultCounted DEF Crash, table
<1>17. CASE UNCHANGED vars
  BY <1>17 DEF vars
<1> QED
  BY <1>1, <1>2, <1>3, <1>4, <1>5, <1>6, <1>7, <1>8, <1>9, <1>10, <1>11, <1>12,
     <1>13, <1>14, <1>15, <1>16, <1>17
     DEF Next, CallerStep, HandOver, Failure, Quiet
(* Dropping one's own registration drops nobody else's. *)
LEMMA UnregisterOwn ==
  ASSUME TypeOK, Bookkeeping, NEW c \in Callers,
         pc[c] \in {"polling", "decide"},
         pc' \in {[pc EXCEPT ![c] = "running"], [pc EXCEPT ![c] = "release"]},
         UnregisterWaiter(c), UNCHANGED <<nextId, mine, started>>
  PROVE  Bookkeeping'
<1> USE DEF TypeOK, Bookkeeping
<1>1. OwnRow'
  BY DEF OwnRow, Holding, Actors
<1>2. OneOwner'
  BY DEF OneOwner
<1>3. InRegistry'
  <2> SUFFICES ASSUME NEW d \in Callers, pc'[d] \in {"polling", "decide", "sleeping"}
               PROVE  mine[d] \in registered' \/ d \in woken'
    BY DEF InRegistry, Asleep
  <2>1. d # c /\ pc[d] \in {"polling", "decide", "sleeping"}
    BY DEF Actors
  <2>2. mine[d] \in registered \/ d \in woken
    BY <2>1 DEF InRegistry, Asleep
  <2>3. mine[d] # mine[c]
    BY <2>1, SlotsAreNumbers DEF OneOwner, OwnRow, Holding
  <2> QED
    BY <2>2, <2>3 DEF UnregisterWaiter
<1>4. ~started' => \A d \in Callers : pc'[d] = "idle"
  OBVIOUS
<1> QED
  BY <1>1, <1>2, <1>3, <1>4

LEMMA BookkeepingStep == Typed /\ [Next]_vars => Bookkeeping'
<1> SUFFICES ASSUME TypeOK, Bookkeeping, [Next]_vars PROVE Bookkeeping'
  BY DEF Typed
<1> USE DEF TypeOK, Bookkeeping, OwnRow, OneOwner, InRegistry, Holding, Asleep
<1>1. ASSUME NEW c \in Callers, NEW p \in Priorities, Insert(c, p) PROVE Bookkeeping'
  BY <1>1, BoundsAssumption, SlotsAreNumbers DEF Insert, Goto, waits, Slots, Actors
<1>2. ASSUME NEW c \in Callers, CheckFree(c) PROVE Bookkeeping'
  BY <1>2 DEF CheckFree, Goto, table, waits, Actors
<1>3. ASSUME NEW c \in Callers, Activate(c) PROVE Bookkeeping'
  BY <1>3 DEF Activate, Goto, waits, Actors
<1>4. ASSUME NEW c \in Callers, Register(c) \/ Resume(c) PROVE Bookkeeping'
  BY <1>4 DEF Register, Resume, RegisterWaiter, Goto, table, Actors
<1>5. ASSUME NEW c \in Callers, Poll(c) \/ PollFails(c) PROVE Bookkeeping'
  <2>1. CASE pc' = [pc EXCEPT ![c] = "decide"] /\ UNCHANGED waits
    BY <1>5, <2>1 DEF Poll, PollFails, Goto, table, waits, Actors
  <2>2. CASE pc' \in {[pc EXCEPT ![c] = "running"], [pc EXCEPT ![c] = "release"]} /\ UnregisterWaiter(c)
    BY <1>5, <2>2, UnregisterOwn DEF Poll, PollFails, Goto, table
  <2> QED
    BY <1>5, <2>1, <2>2 DEF Poll, PollFails, Goto
<1>6. ASSUME NEW c \in Callers, Sleep(c) \/ Finish(c) PROVE Bookkeeping'
  BY <1>6 DEF Sleep, Finish, Goto, table, waits, Actors
<1>7. ASSUME NEW c \in Callers, Cancel(c) PROVE Bookkeeping'
  BY <1>7, UnregisterOwn DEF Cancel, Goto
<1>8. ASSUME NEW c \in Callers, Delete(c) PROVE Bookkeeping'
  BY <1>8 DEF Delete, Goto, waits, Actors
<1>9. ASSUME NEW c \in Callers, AcquireFails(c) \/ DeleteFails(c) PROVE Bookkeeping'
  BY <1>9 DEF AcquireFails, DeleteFails, Goto, table, waits, Actors
<1>10. ASSUME NEW c \in Callers, Expire(c) PROVE Bookkeeping'
  BY <1>10 DEF Expire, table, waits
<1>11. ASSUME NEW a \in Actors, Promote(a) PROVE Bookkeeping'
  <2>1. /\ UNCHANGED <<nextId, mine, registered, woken, started>> /\ pc[a] = "promote"
        /\ pc' \in {[pc EXCEPT ![a] = "idle"], [pc EXCEPT ![a] = "wake"]}
    BY <1>11, PromoteEffect
  <2> QED
    BY <2>1 DEF Actors
<1>12. ASSUME NEW a \in Actors, Wake(a) PROVE Bookkeeping'
  BY <1>12 DEF Wake, Goto, table, Actors
<1>13. ASSUME NEW a \in Actors, PromoteFails(a) PROVE Bookkeeping'
  BY <1>13 DEF PromoteFails, Goto, table, waits, Actors
<1>14. ASSUME NEW s \in Slots, Age(s) PROVE Bookkeeping'
  BY <1>14 DEF Age, waits
<1>15. CASE Sweep
  BY <1>15, CronAssumption DEF Sweep, Goto, waits, Actors
<1>16. CASE ClearOnStartup
  BY <1>16 DEF ClearOnStartup, waits
<1>17. CASE Crash
  BY <1>17 DEF Crash, Actors
<1>18. CASE UNCHANGED vars
  BY <1>18 DEF vars
<1> QED
  BY <1>1, <1>2, <1>3, <1>4, <1>5, <1>6, <1>7, <1>8, <1>9, <1>10, <1>11, <1>12,
     <1>13, <1>14, <1>15, <1>16, <1>17, <1>18
     DEF Next, CallerStep, HandOver, Failure, Quiet

(* Every reachable state is well typed and no row has two callers. *)
THEOREM TypeCorrect == Spec => [](TypeOK /\ Bookkeeping)
<1>1. Typed /\ [Next]_vars => Typed'
  BY TypeStep, BookkeepingStep DEF Typed
<1> QED
  BY TypedInit, <1>1, PTL DEF Spec, Typed

(* The first half by itself: rows, callers, waiters and histories keep to   *)
(* their types through failures and restarts.                               *)
THEOREM WellTyped == Spec => []TypeOK
BY TypeCorrect, PTL

-----------------------------------------------------------------------------
LEMMA LineInit == Init => NoStrandedLine
  BY DEF Init, NoStrandedLine

LEMMA LineStep == Typed /\ NoStrandedLine /\ [Next]_vars => NoStrandedLine'
<1> SUFFICES ASSUME TypeOK, Bookkeeping, NoStrandedLine, [Next]_vars,
                    started', Waiting' # {}, Active' = {}, ~stranded'
             PROVE  SomebodyOnTheWay'
  BY DEF Typed, NoStrandedLine
<1> USE DEF TypeOK
\* The step of a caller that is not on the way and leaves the other rows alone.
<1>0. ASSUME NEW c \in Callers, pc[c] \notin {"check", "activate", "promote"},
             started, ~stranded, Active = {}, Waiting # {}, mine'[c] \in {mine[c], NoSlot},
             \A d \in Callers \ {c} : mine'[d] = mine[d] /\ status'[mine[d]] = status[mine[d]],
             \A a \in Actors \ {c} : pc'[a] = pc[a]
      PROVE  SomebodyOnTheWay'
  BY <1>0 DEF SomebodyOnTheWay, NoStrandedLine, Actors
<1>1. ASSUME NEW c \in Callers, NEW p \in Priorities, Insert(c, p) PROVE SomebodyOnTheWay'
  <2>1. pc'[c] = "check" /\ mine'[c] = nextId /\ status'[nextId] = "waiting"
    BY <1>1, BoundsAssumption DEF Insert, Goto, Actors, Slots
  <2> QED
    BY <2>1 DEF SomebodyOnTheWay
<1>2. ASSUME NEW c \in Callers, CheckFree(c) PROVE SomebodyOnTheWay'
  <2>1. UNCHANGED <<status, mine, started, stranded>> /\ Active = {} /\ Waiting # {}
    BY <1>2 DEF CheckFree, table, Active, Waiting
  <2>2. pc' = [pc EXCEPT ![c] = "activate"] /\ pc[c] = "check"
    BY <1>2, <2>1 DEF CheckFree, Goto
  <2> QED
    BY <2>1, <2>2 DEF SomebodyOnTheWay, NoStrandedLine, Actors
<1>3. ASSUME NEW c \in Callers, Activate(c) PROVE SomebodyOnTheWay'
  <2>1. mine[c] \in Slots /\ pc[c] = "activate"
    BY <1>3 DEF Activate, Bookkeeping, OwnRow, Holding
  <2>2. status[mine[c]] = "absent"
    BY <1>3, <2>1 DEF Activate, Active
  <2>3. UNCHANGED <<status, mine, started, stranded>> /\ pc' = [pc EXCEPT ![c] = "queued"]
    BY <1>3, <2>2 DEF Activate, Goto
  <2> QED
    BY <2>1, <2>2, <2>3 DEF SomebodyOnTheWay, NoStrandedLine, Actors, Active, Waiting
<1>4. ASSUME NEW c \in Callers,
             Register(c) \/ Resume(c) \/ Poll(c) \/ PollFails(c) \/ Sleep(c) \/ Finish(c) \/ DeleteFails(c)
      PROVE  SomebodyOnTheWay'
  <2>1. UNCHANGED <<status, started, stranded>> /\ \A d \in Callers \ {c} : mine'[d] = mine[d]
    BY <1>4 DEF Register, Resume, Poll, PollFails, Sleep, Finish, DeleteFails, table
  <2>2. \A a \in Actors \ {c} : pc'[a] = pc[a]
    BY <1>4 DEF Register, Resume, Poll, PollFails, Sleep, Finish, DeleteFails, Goto
  <2>3. pc[c] \notin {"check", "activate", "promote"}
    BY <1>4 DEF Register, Resume, Poll, PollFails, Sleep, Finish, DeleteFails, Goto
  <2>4. mine'[c] \in {mine[c], NoSlot}
    BY <1>4 DEF Register, Resume, Poll, PollFails, Sleep, Finish, DeleteFails
  <2> QED
    BY <1>0, <2>1, <2>2, <2>3, <2>4 DEF Active, Waiting
<1>5. ASSUME NEW c \in Callers, Cancel(c) PROVE SomebodyOnTheWay'
  <2>1. pc[c] = "decide" /\ mine[c] \in Slots
    BY <1>5 DEF Cancel, Goto, Bookkeeping, OwnRow, Holding
  <2>2. UNCHANGED <<mine, started, stranded>> /\ \A a \in Actors \ {c} : pc'[a] = pc[a]
    BY <1>5 DEF Cancel, Goto
  <2>3. /\ \A s \in Slots \ {mine[c]} : status'[s] = status[s]
        /\ status[mine[c]] = "active" => status'[mine[c]] = "active"
        /\ status[mine[c]] # "waiting" => status'[mine[c]] # "waiting"
    BY <1>5, <2>1 DEF Cancel, RemovedIfWaiting
  <2>4. Active = {} /\ Waiting # {}
    BY <2>1, <2>3 DEF Active, Waiting
  <2>5. SomebodyOnTheWay
    BY <2>2, <2>4 DEF NoStrandedLine
  <2>6. ASSUME NEW a \in Actors, pc[a] = "promote" PROVE SomebodyOnTheWay'
    BY <2>1, <2>2, <2>6 DEF SomebodyOnTheWay
  <2>7. ASSUME NEW d \in Callers, pc[d] \in {"check", "activate"}, status[mine[d]] = "waiting"
        PROVE  SomebodyOnTheWay'
    <3>1. d # c /\ mine[d] # mine[c] /\ mine[d] \in Slots
      BY <2>1, <2>7, SlotsAreNumbers DEF Bookkeeping, OneOwner, OwnRow, Holding
    <3>2. pc'[d] \in {"check", "activate"}
      BY <2>2, <2>7, <3>1 DEF Actors
    <3> QED
      BY <2>2, <2>3, <2>7, <3>1, <3>2 DEF SomebodyOnTheWay
  <2> QED
    BY <2>5, <2>6, <2>7 DEF SomebodyOnTheWay
<1>6. ASSUME NEW c \in Callers, Delete(c) PROVE SomebodyOnTheWay'
  <2>1. CASE status[mine[c]] # "absent"
    BY <1>6, <2>1 DEF Delete, Goto, SomebodyOnTheWay, Actors
  <2>2. CASE status[mine[c]] = "absent"
    <3>1. mine[c] \in Slots /\ pc[c] = "release"
      BY <1>6 DEF Delete, Goto, Bookkeeping, OwnRow, Holding
    <3>2. status' = status
      BY <1>6, <2>2, <3>1 DEF Delete, Removed
    <3> QED
      BY <1>0, <1>6, <3>1, <3>2 DEF Delete, Goto, Active, Waiting
  <2> QED
    BY <2>1, <2>2
<1>7. ASSUME NEW c \in Callers, AcquireFails(c) PROVE FALSE
  BY <1>7 DEF AcquireFails
<1>8. ASSUME NEW c \in Callers, Expire(c) PROVE SomebodyOnTheWay'
  BY <1>8 DEF Expire, table, SomebodyOnTheWay, NoStrandedLine, Active, Waiting
<1>9. ASSUME NEW a \in Actors, Promote(a) PROVE SomebodyOnTheWay'
  <2>1. ASSUME NEW s \in Waiting, status' = [status EXCEPT ![s] = "active"] PROVE FALSE
    BY <2>1 DEF Waiting, Active
  <2>2. /\ Waiting \subseteq MaybeLocked /\ UNCHANGED <<status, mine>>
        /\ pc[a] = "promote" /\ pc' = [pc EXCEPT ![a] = "idle"]
    BY <1>9, <2>1, PromoteEffect
  <2>3. PICK c \in Callers : pc[c] = "activate" /\ mine[c] \in Waiting
    BY <2>2 DEF MaybeLocked, Waiting
  <2> QED
    BY <2>2, <2>3 DEF SomebodyOnTheWay, Waiting, Actors
<1>10. ASSUME NEW a \in Actors, Wake(a) PROVE SomebodyOnTheWay'
  <2>1. /\ UNCHANGED <<status, mine, started, stranded>>
        /\ pc[a] = "wake" /\ pc' = [pc EXCEPT ![a] = "idle"]
    BY <1>10 DEF Wake, Goto, table
  <2> QED
    BY <2>1 DEF SomebodyOnTheWay, NoStrandedLine, Actors, Active, Waiting
<1>11. ASSUME NEW a \in Actors, PromoteFails(a) PROVE FALSE
  BY <1>11 DEF PromoteFails
<1>12. ASSUME NEW s \in Slots, Age(s) PROVE SomebodyOnTheWay'
  BY <1>12 DEF Age, SomebodyOnTheWay, NoStrandedLine, Active, Waiting
<1>13. CASE Sweep
  BY <1>13 DEF Sweep, Goto, SomebodyOnTheWay, Actors
<1>14. CASE ClearOnStartup
  BY <1>14 DEF ClearOnStartup, Waiting
<1>15. CASE Crash
  BY <1>15 DEF Crash
<1>16. CASE UNCHANGED vars
  BY <1>16 DEF vars, SomebodyOnTheWay, NoStrandedLine, Active, Waiting
<1> QED
  BY <1>1, <1>2, <1>3, <1>4, <1>5, <1>6, <1>7, <1>8, <1>9, <1>10, <1>11, <1>12,
     <1>13, <1>14, <1>15, <1>16
     DEF Next, CallerStep, HandOver, Failure, Quiet

(* While callers wait for a free model somebody is on the way to activate one
   of them, whatever statements interleave: the line only stands still after a
   statement of a hand-over failed. *)
THEOREM NobodyIsStranded == Spec => []NoStrandedLine
<1>1. Typed /\ NoStrandedLine /\ [Next]_vars => Typed' /\ NoStrandedLine'
  BY TypeStep, BookkeepingStep, LineStep DEF Typed
<1> QED
  BY TypedInit, LineInit, <1>1, PTL DEF Spec

-----------------------------------------------------------------------------
LEMMA ZombieInit == Init => NoZombieRow
  BY DEF Init, NoZombieRow

LEMMA ZombieStep == Typed /\ NoZombieRow /\ [Next]_vars => NoZombieRow'
<1> DEFINE Covered(s) == s \in orphans \/ \E c \in Callers : mine[c] = s /\ Holding(c)
<1> SUFFICES ASSUME TypeOK, Bookkeeping, NoZombieRow, [Next]_vars, started',
                    NEW s \in Slots, status'[s] # "absent"
             PROVE  Covered(s)'
  BY DEF Typed, NoZombieRow
<1> USE DEF TypeOK
<1>0. ASSUME started, status[s] # "absent", orphans \subseteq orphans',
             \A d \in Callers : Holding(d) => mine'[d] = mine[d] /\ Holding(d)'
      PROVE  Covered(s)'
  BY <1>0 DEF NoZombieRow
<1>1. ASSUME NEW c \in Callers, NEW p \in Priorities, Insert(c, p) PROVE Covered(s)'
  <2>1. /\ pc[c] = "idle" /\ pc' = [pc EXCEPT ![c] = "check"]
        /\ mine' = [mine EXCEPT ![c] = nextId] /\ started /\ orphans' = orphans
        /\ status' = [status EXCEPT ![nextId] = "waiting"]
    BY <1>1 DEF Insert, Goto
  <2>2. CASE s = nextId
    BY <2>1, <2>2 DEF Holding, Actors
  <2>3. CASE s # nextId
    BY <1>0, <2>1, <2>3 DEF Holding, Actors
  <2> QED
    BY <2>2, <2>3
<1>2. ASSUME NEW c \in Callers, CheckFree(c) \/ Sleep(c) \/ Finish(c) \/ Expire(c) PROVE Covered(s)'
  BY <1>0, <1>2 DEF CheckFree, Sleep, Finish, Expire, Goto, table, Holding, Actors
<1>3. ASSUME NEW c \in Callers, Activate(c) PROVE Covered(s)'
  BY <1>0, <1>3 DEF Activate, Goto, Holding, Actors
<1>4. ASSUME NEW c \in Callers, Register(c) \/ Resume(c) PROVE Covered(s)'
  BY <1>0, <1>4 DEF Register, Resume, Goto, table, Holding, Actors
<1>5. ASSUME NEW c \in Callers, Poll(c) \/ PollFails(c) PROVE Covered(s)'
  BY <1>0, <1>5 DEF Poll, PollFails, Goto, table, Holding, Actors
<1>6. ASSUME NEW c \in Callers, Cancel(c) PROVE Covered(s)'
  BY <1>0, <1>6 DEF Cancel, RemovedIfWaiting, Goto, Holding, Actors
<1>7. ASSUME NEW c \in Callers, Delete(c) PROVE Covered(s)'
  <2>1. /\ status' = [status EXCEPT ![mine[c]] = "absent"]
        /\ mine' = [mine EXCEPT ![c] = NoSlot]
        /\ \A a \in Actors \ {c} : pc'[a] = pc[a]
        /\ UNCHANGED <<started, orphans>>
    BY <1>7 DEF Delete, Removed, Goto
  <2>2. s # mine[c] /\ status[s] # "absent"
    BY <2>1
  <2>3. s \in orphans \/ \E d \in Callers : mine[d] = s /\ Holding(d)
    BY <2>1, <2>2 DEF NoZombieRow
  <2> QED
    BY <2>1, <2>2, <2>3 DEF Holding, Actors
<1>8. ASSUME NEW c \in Callers, AcquireFails(c) \/ DeleteFails(c) PROVE Covered(s)'
  <2>1. /\ mine' = [mine EXCEPT ![c] = NoSlot]
        /\ \A a \in Actors \ {c} : pc'[a] = pc[a]
        /\ UNCHANGED <<status, started>> /\ orphans \subseteq orphans'
        /\ status[s] # "absent" /\ s = mine[c] => s \in orphans'
    BY <1>8 DEF AcquireFails, DeleteFails, Goto, table
  <2>2. s \in orphans \/ \E d \in Callers : mine[d] = s /\ Holding(d)
    BY <2>1 DEF NoZombieRow
  <2>3. CASE status[s] = "absent" \/ s \in orphans \/ s = mine[c]
    BY <2>1, <2>3
  <2>4. ASSUME NEW d \in Callers, d # c, mine[d] = s, Holding(d) PROVE Covered(s)'
    BY <2>1, <2>4 DEF Holding, Actors
  <2> QED
    BY <2>2, <2>3, <2>4
<1>9. ASSUME NEW a \in Actors, Promote(a) PROVE Covered(s)'
  <2>1. status[s] # "absent" /\ UNCHANGED <<mine, orphans, started>>
    BY <1>9, PromoteEffect DEF Waiting
  <2>2. pc[a] = "promote" /\ \E to \in {"idle", "wake"} : pc' = [pc EXCEPT ![a] = to]
    BY <1>9, PromoteEffect
  <2>3. \A d \in Callers : Holding(d) => Holding(d)'
    BY <2>2 DEF Holding, Actors
  <2> QED
    BY <1>0, <2>1, <2>3
<1>10. ASSUME NEW a \in Actors, Wake(a) \/ PromoteFails(a) PROVE Covered(s)'
  BY <1>0, <1>10 DEF Wake, PromoteFails, Goto, table, Holding, Actors
<1>11. ASSUME NEW t \in Slots, Age(t) PROVE Covered(s)'
  BY <1>0, <1>11 DEF Age, Holding
<1>12. CASE Sweep
  BY <1>0, <1>12, CronAssumption DEF Sweep, Goto, Holding, Actors
<1>13. CASE ClearOnStartup
  BY <1>13 DEF ClearOnStartup
<1>14. CASE Crash
  BY <1>14 DEF Crash
<1>15. CASE UNCHANGED vars
  BY <1>0, <1>15 DEF vars, Holding
<1> QED
  BY <1>1, <1>2, <1>3, <1>4, <1>5, <1>6, <1>7, <1>8, <1>9, <1>10, <1>11, <1>12,
     <1>13, <1>14, <1>15
     DEF Next, CallerStep, HandOver, Failure, Quiet

(* No row outlives its caller unless one of that caller's statements failed or
   the process restarted. *)
THEOREM NoZombies == Spec => []NoZombieRow
<1>1. Typed /\ NoZombieRow /\ [Next]_vars => Typed' /\ NoZombieRow'
  BY TypeStep, BookkeepingStep, ZombieStep DEF Typed
<1> QED
  BY TypedInit, ZombieInit, <1>1, PTL DEF Spec

-----------------------------------------------------------------------------
LEMMA RunnerInit == Init => RunnerIsActive
  BY DEF Init, RunnerIsActive, Actors

LEMMA RunnerStep == Typed /\ RunnerIsActive /\ [Next]_vars => RunnerIsActive'
<1> DEFINE Backed(d) == \/ status[mine[d]] = "active"
                        \/ status[mine[d]] = "absent" /\ mine[d] \in stale
<1> SUFFICES ASSUME TypeOK, Bookkeeping, RunnerIsActive, [Next]_vars,
                    NEW d \in Callers, pc'[d] = "running"
             PROVE  Backed(d)'
  BY DEF Typed, RunnerIsActive
<1> USE DEF TypeOK
<1>0. ASSUME pc[d] = "running", mine'[d] = mine[d], status'[mine[d]] = status[mine[d]], stale' = stale
      PROVE  Backed(d)'
  BY <1>0 DEF RunnerIsActive
\* The row of a running caller is its own.
<1>a. ASSUME pc[d] = "running" PROVE mine[d] \in Slots /\ mine[d] < nextId
  BY <1>a DEF Bookkeeping, OwnRow, Holding
<1>b. ASSUME pc[d] = "running", NEW c \in Callers, c # d, Holding(c) PROVE mine[c] # mine[d]
  BY <1>b, SlotsAreNumbers DEF Bookkeeping, OneOwner, OwnRow, Holding
<1>1. ASSUME NEW c \in Callers, NEW p \in Priorities, Insert(c, p) PROVE Backed(d)'
  <2>1. d # c /\ pc[d] = "running" /\ mine'[d] = mine[d] /\ stale' = stale
    BY <1>1 DEF Insert, Goto, Actors
  <2> QED
    BY <1>0, <1>a, <1>1, <2>1 DEF Insert, Slots
<1>2. ASSUME NEW c \in Callers,
             CheckFree(c) \/ Register(c) \/ Resume(c) \/ Sleep(c) \/ Finish(c) \/ PollFails(c) \/ Expire(c)
      PROVE  Backed(d)'
  <2>1. UNCHANGED <<status, mine, stale>>
    BY <1>2 DEF CheckFree, Register, Resume, Sleep, Finish, PollFails, Expire, table
  <2>2. pc[d] = "running"
    BY <1>2 DEF CheckFree, Register, Resume, Sleep, Finish, PollFails, Expire, Goto, Actors
  <2> QED
    BY <1>0, <2>1, <2>2
<1>3. ASSUME NEW c \in Callers, Activate(c) PROVE Backed(d)'
  <2>1. UNCHANGED <<mine, stale>> /\ pc[c] = "activate"
    BY <1>3 DEF Activate, Goto
  <2>2. CASE d = c
    BY <1>3, <2>1, <2>2 DEF Activate, Goto, Actors, Bookkeeping, OwnRow, Holding
  <2>3. CASE d # c
    <3>1. pc[d] = "running"
      BY <1>3, <2>3 DEF Activate, Goto, Actors
    <3>2. mine[c] # mine[d] /\ mine[d] \in Slots
      BY <1>a, <1>b, <2>1, <2>3, <3>1 DEF Holding
    <3>3. status'[mine[d]] = status[mine[d]]
      BY <1>3, <3>2 DEF Activate
    <3> QED
      BY <1>0, <2>1, <3>1, <3>3
  <2> QED
    BY <2>2, <2>3
<1>4. ASSUME NEW c \in Callers, Poll(c) PROVE Backed(d)'
  <2>1. UNCHANGED <<status, mine, stale>> /\ pc[c] = "polling"
    BY <1>4 DEF Poll, table
  <2>2. CASE d = c
    BY <1>4, <2>1, <2>2 DEF Poll, Granted, Goto, Actors
  <2>3. CASE d # c
    BY <1>0, <1>4, <2>1, <2>3 DEF Poll, Goto, Actors
  <2> QED
    BY <2>2, <2>3
<1>5. ASSUME NEW c \in Callers, Cancel(c) PROVE Backed(d)'
  <2>1. UNCHANGED <<mine, stale>> /\ pc[c] = "decide" /\ d # c /\ pc[d] = "running"
    BY <1>5 DEF Cancel, Goto, Actors
  <2>2. mine[c] # mine[d] /\ mine[d] \in Slots
    BY <1>a, <1>b, <2>1 DEF Holding
  <2>3. status'[mine[d]] = status[mine[d]]
    BY <1>5, <2>2 DEF Cancel, RemovedIfWaiting
  <2> QED
    BY <1>0, <2>1, <2>3
<1>6. ASSUME NEW c \in Callers, Delete(c) PROVE Backed(d)'
  <2>1. /\ UNCHANGED stale /\ mine'[d] = mine[d] /\ pc[c] = "release"
        /\ d # c /\ pc[d] = "running"
    BY <1>6 DEF Delete, Goto, Actors
  <2> QED
    BY <1>0, <1>6, <1>b, <2>1 DEF Delete, Removed, Holding
<1>7. ASSUME NEW c \in Callers, AcquireFails(c) \/ DeleteFails(c) PROVE Backed(d)'
  <2>1. UNCHANGED <<status, stale>> /\ d # c /\ pc[d] = "running" /\ mine'[d] = mine[d]
    BY <1>7 DEF AcquireFails, DeleteFails, Goto, table, Actors
  <2> QED
    BY <1>0, <2>1
<1>8. ASSUME NEW a \in Actors, Promote(a) PROVE Backed(d)'
  <2>1. UNCHANGED <<mine, stale>> /\ pc[d] = "running"
    BY <1>8, PromoteEffect DEF Actors
  <2>2. status'[mine[d]] \in {status[mine[d]], "active"}
    BY <1>8, <1>a, <2>1, PromoteEffect DEF Waiting
  <2> QED
    BY <1>0, <2>1, <2>2
<1>9. ASSUME NEW a \in Actors, Wake(a) \/ PromoteFails(a) PROVE Backed(d)'
  BY <1>0, <1>9 DEF Wake, PromoteFails, Goto, table, Actors
<1>10. ASSUME NEW s \in Slots, Age(s) PROVE Backed(d)'
  BY <1>10 DEF Age, RunnerIsActive
<1>11. CASE Sweep
  <2>1. UNCHANGED <<mine, stale>> /\ pc[d] = "running"
    BY <1>11, CronAssumption DEF Sweep, Goto, Actors
  <2> QED
    BY <1>11, <1>a, <2>1 DEF Sweep, StaleRows, RunnerIsActive
<1>12. CASE ClearOnStartup
  BY <1>12 DEF ClearOnStartup, Bookkeeping
<1>13. CASE Crash
  BY <1>13 DEF Crash, Actors
<1>14. CASE UNCHANGED vars
  BY <1>0, <1>14 DEF vars
<1> QED
  BY <1>1, <1>2, <1>3, <1>4, <1>5, <1>6, <1>7, <1>8, <1>9, <1>10, <1>11, <1>12,
     <1>13, <1>14
     DEF Next, CallerStep, HandOver, Failure, Quiet

(* Whoever runs the model has its own row active, or the sweep took it. *)
THEOREM RunnersAreActive == Spec => []RunnerIsActive
<1>1. Typed /\ RunnerIsActive /\ [Next]_vars => Typed' /\ RunnerIsActive'
  BY TypeStep, BookkeepingStep, RunnerStep DEF Typed
<1> QED
  BY TypedInit, RunnerInit, <1>1, PTL DEF Spec

-----------------------------------------------------------------------------
LEMMA WakeupInit == Init => NoLostWakeup
  BY DEF Init, NoLostWakeup, Asleep, Actors

LEMMA WakeupStep == Typed /\ NoLostWakeup /\ [Next]_vars => NoLostWakeup'
<1> DEFINE Notified(d) ==
      \/ d \in woken
      \/ mine[d] \in registered /\ \E a \in Actors : pc[a] = "wake" /\ promoted[a] = mine[d]
<1> SUFFICES ASSUME TypeOK, Bookkeeping, NoLostWakeup, [Next]_vars,
                    NEW d \in Callers, Asleep(d)', status'[mine'[d]] = "active"
             PROVE  Notified(d)'
  BY DEF Typed, NoLostWakeup
<1> USE DEF TypeOK
\* Steps that leave d's row, its registration and all pending wakeups alone.
<1>0. ASSUME Asleep(d), mine'[d] = mine[d], status[mine[d]] = "active", woken \subseteq woken',
             mine[d] \in registered => mine[d] \in registered',
             \A a \in Actors : pc[a] = "wake" => pc'[a] = "wake" /\ promoted'[a] = promoted[a]
      PROVE  Notified(d)'
  BY <1>0 DEF NoLostWakeup
<1>a. ASSUME Asleep(d) PROVE mine[d] \in Slots /\ mine[d] < nextId
  BY <1>a DEF Bookkeeping, OwnRow, Holding, Asleep
<1>b. ASSUME Asleep(d), NEW c \in Callers, c # d, Holding(c) PROVE mine[c] # mine[d]
  BY <1>b, SlotsAreNumbers DEF Bookkeeping, OneOwner, OwnRow, Holding, Asleep
<1>1. ASSUME NEW c \in Callers, NEW p \in Priorities, Insert(c, p) PROVE Notified(d)'
  <2>1. Asleep(d) /\ mine'[d] = mine[d]
    BY <1>1 DEF Insert, Goto, Asleep, Actors
  <2>2. status[mine[d]] = "active"
    BY <1>1, <1>a, <2>1 DEF Insert
  <2> QED
    BY <1>0, <1>1, <2>1, <2>2 DEF Insert, Goto, waits, Actors
<1>2. ASSUME NEW c \in Callers, CheckFree(c) \/ Sleep(c) \/ Finish(c) \/ Expire(c) PROVE Notified(d)'
  <2>1. UNCHANGED <<status, mine, promoted, registered, woken>>
    BY <1>2 DEF CheckFree, Sleep, Finish, Expire, table, waits
  <2>2. Asleep(d) /\ \A a \in Actors : pc[a] = "wake" => pc'[a] = "wake"
    BY <1>2 DEF CheckFree, Sleep, Finish, Expire, Goto, Asleep, Actors
  <2> QED
    BY <1>0, <2>1, <2>2
<1>3. ASSUME NEW c \in Callers, Activate(c) PROVE Notified(d)'
  <2>1. /\ Asleep(d) /\ d # c /\ pc[c] = "activate"
        /\ UNCHANGED <<mine, promoted, registered, woken>>
        /\ \A a \in Actors : pc[a] = "wake" => pc'[a] = "wake"
    BY <1>3 DEF Activate, Goto, Asleep, Actors, waits
  <2>2. mine[c] # mine[d] /\ mine[d] \in Slots
    BY <1>a, <1>b, <2>1 DEF Holding
  <2>3. status'[mine[d]] = status[mine[d]]
    BY <1>3, <2>2 DEF Activate
  <2> QED
    BY <1>0, <2>1, <2>3
<1>4. ASSUME NEW c \in Callers, Register(c) \/ Resume(c) PROVE Notified(d)'
  <2>1. /\ Asleep(d) /\ d # c /\ UNCHANGED <<status, mine, promoted>>
        /\ \A a \in Actors : pc[a] = "wake" => pc'[a] = "wake"
    BY <1>4 DEF Register, Resume, Goto, table, Asleep, Actors
  <2>2. registered \subseteq registered' /\ woken' = woken \ {c}
    BY <1>4 DEF Register, Resume, RegisterWaiter
  <2> QED
    BY <2>1, <2>2 DEF NoLostWakeup
<1>5. ASSUME NEW c \in Callers, Poll(c) \/ PollFails(c) PROVE Notified(d)'
  <2>1. /\ UNCHANGED <<status, mine, promoted, woken>> /\ pc[c] = "polling"
        /\ \A a \in Actors : pc[a] = "wake" => pc'[a] = "wake"
    BY <1>5 DEF Poll, PollFails, UnregisterWaiter, Goto, table, waits, Actors
  <2>2. CASE d = c
    BY <1>5, <2>1, <2>2 DEF Poll, PollFails, Goto, Asleep, Actors
  <2>3. CASE d # c
    <3>1. Asleep(d)
      BY <1>5, <2>3 DEF Poll, PollFails, Goto, Asleep, Actors
    <3>2. mine[d] \in registered => mine[d] \in registered'
      BY <1>5, <1>b, <2>1, <2>3, <3>1 DEF Poll, PollFails, UnregisterWaiter, waits, Holding
    <3> QED
      BY <1>0, <2>1, <3>1, <3>2
  <2> QED
    BY <2>2, <2>3
<1>6. ASSUME NEW c \in Callers, Cancel(c) PROVE Notified(d)'
  <2>1. /\ Asleep(d) /\ d # c /\ pc[c] = "decide"
        /\ UNCHANGED <<mine, promoted, woken>> /\ registered' = registered \ {mine[c]}
        /\ \A a \in Actors : pc[a] = "wake" => pc'[a] = "wake"
    BY <1>6 DEF Cancel, UnregisterWaiter, Goto, Asleep, Actors
  <2>2. mine[c] # mine[d] /\ mine[d] \in Slots
    BY <1>a, <1>b, <2>1 DEF Holding
  <2>3. status'[mine[d]] = status[mine[d]]
    BY <1>6, <2>2 DEF Cancel, RemovedIfWaiting
  <2> QED
    BY <1>0, <2>1, <2>2, <2>3
<1>7. ASSUME NEW c \in Callers, Delete(c) PROVE Notified(d)'
  <2>1. /\ Asleep(d) /\ mine'[d] = mine[d]
        /\ UNCHANGED <<promoted, registered, woken>>
        /\ \A a \in Actors : pc[a] = "wake" => pc'[a] = "wake"
    BY <1>7 DEF Delete, Goto, waits, Asleep, Actors
  <2>2. status[mine[d]] = "active"
    BY <1>7, <2>1 DEF Delete, Removed
  <2> QED
    BY <1>0, <2>1, <2>2
<1>8. ASSUME NEW c \in Callers, AcquireFails(c) \/ DeleteFails(c) PROVE Notified(d)'
  <2>1. /\ Asleep(d) /\ mine'[d] = mine[d]
        /\ UNCHANGED <<status, promoted, registered, woken>>
        /\ \A a \in Actors : pc[a] = "wake" => pc'[a] = "wake"
    BY <1>8 DEF AcquireFails, DeleteFails, Goto, table, waits, Asleep, Actors
  <2> QED
    BY <1>0, <2>1
<1>9. ASSUME NEW a \in Actors, Promote(a) PROVE Notified(d)'
  <2>1. /\ Asleep(d) /\ pc[a] = "promote" /\ UNCHANGED <<mine, registered, woken>>
        /\ \A b \in Actors : pc[b] = "wake" => pc'[b] = "wake" /\ b # a
    <3>1. pc[a] = "promote" /\ UNCHANGED <<mine, registered, woken>>
      BY <1>9, PromoteEffect
    <3>2. pc' = [pc EXCEPT ![a] = "idle"] \/ pc' = [pc EXCEPT ![a] = "wake"]
      BY <1>9, PromoteEffect
    <3> QED
      BY <3>1, <3>2 DEF Asleep, Actors
  <2>2. CASE UNCHANGED <<status, promoted>>
    BY <1>0, <2>1, <2>2
  <2>3. ASSUME NEW s \in Waiting, pc' = [pc EXCEPT ![a] = "wake"],
               status' = [status EXCEPT ![s] = "active"], promoted' = [promoted EXCEPT ![a] = s]
        PROVE  Notified(d)'
    <3>1. CASE s = mine[d]
      <4>1. mine[d] \in registered \/ d \in woken
        BY <2>1 DEF Bookkeeping, InRegistry
      <4>2. pc'[a] = "wake" /\ promoted'[a] = mine'[d]
        BY <2>1, <2>3, <3>1
      <4> QED
        BY <2>1, <4>1, <4>2
    <3>2. CASE s # mine[d]
      BY <1>0, <2>1, <2>3, <3>2
    <3> QED
      BY <3>1, <3>2
  <2>4. \/ UNCHANGED <<status, promoted>>
        \/ \E s \in Waiting : /\ pc' = [pc EXCEPT ![a] = "wake"]
                              /\ status' = [status EXCEPT ![s] = "active"]
                              /\ promoted' = [promoted EXCEPT ![a] = s]
    BY <1>9, PromoteEffect
  <2> HIDE DEF Notified
  <2> QED
    BY ONLY <2>2, <2>3, <2>4
<1>10. ASSUME NEW a \in Actors, Wake(a) PROVE Notified(d)'
  <2>1. /\ Asleep(d) /\ UNCHANGED <<status, mine>> /\ pc[a] = "wake"
        /\ registered' = registered \ {promoted[a]}
        /\ woken \subseteq woken'
        /\ mine[d] = promoted[a] /\ mine[d] \in registered => d \in woken'
        /\ \A b \in Actors \ {a} : pc'[b] = pc[b] /\ promoted'[b] = promoted[b]
    BY <1>10 DEF Wake, Goto, table, Asleep, Actors
  <2>2. CASE d \in woken
    BY <2>1, <2>2
  <2>3. CASE d \notin woken
    <3>1. PICK b \in Actors : mine[d] \in registered /\ pc[b] = "wake" /\ promoted[b] = mine[d]
      BY <2>1, <2>3 DEF NoLostWakeup
    <3> QED
      BY <2>1, <3>1
  <2> QED
    BY <2>2, <2>3
<1>11. ASSUME NEW a \in Actors, PromoteFails(a) PROVE Notified(d)'
  BY <1>0, <1>11 DEF PromoteFails, Goto, table, waits, Asleep, Actors
<1>12. ASSUME NEW s \in Slots, Age(s) PROVE Notified(d)'
  BY <1>0, <1>12 DEF Age, waits, Asleep
<1>13. CASE Sweep
  <2>1. /\ Asleep(d) /\ UNCHANGED <<mine, promoted, registered, woken>>
        /\ \A a \in Actors : pc[a] = "wake" => pc'[a] = "wake"
    BY <1>13, CronAssumption DEF Sweep, Goto, waits, Asleep, Actors
  <2>2. status[mine[d]] = "active"
    BY <1>13, <1>a, <2>1 DEF Sweep
  <2> QED
    BY <1>0, <2>1, <2>2
<1>14. CASE ClearOnStartup
  BY <1>14 DEF ClearOnStartup, Bookkeeping, Asleep
<1>15. CASE Crash
  BY <1>15 DEF Crash, Asleep, Actors
<1>16. CASE UNCHANGED vars
  BY <1>0, <1>16 DEF vars, Asleep
<1> QED
  BY <1>1, <1>2, <1>3, <1>4, <1>5, <1>6, <1>7, <1>8, <1>9, <1>10, <1>11, <1>12,
     <1>13, <1>14, <1>15, <1>16
     DEF Next, CallerStep, HandOver, Failure, Quiet

(* A caller that goes to sleep after reading "waiting" is woken once its row is
   promoted: the fallback poll is never the only way to notice. *)
THEOREM WakeupsArrive == Spec => []NoLostWakeup
<1>1. Typed /\ NoLostWakeup /\ [Next]_vars => Typed' /\ NoLostWakeup'
  BY TypeStep, BookkeepingStep, WakeupStep DEF Typed
<1> QED
  BY TypedInit, WakeupInit, <1>1, PTL DEF Spec

-----------------------------------------------------------------------------
(* AiQueue implements ModelLine *)

(* Numbers that were not handed out yet are nobody's row. *)
NewRows == \A s \in Slots : s >= nextId => status[s] = "absent"

LEMMA NewRowsStep == Typed /\ NewRows /\ [Next]_vars => NewRows'
<1> SUFFICES ASSUME TypeOK, Bookkeeping, NewRows, [Next]_vars PROVE NewRows'
  BY DEF Typed
<1> USE DEF TypeOK, NewRows
<1>1. ASSUME NEW c \in Callers, NEW p \in Priorities, Insert(c, p) PROVE NewRows'
  <2>1. nextId' = nextId + 1 /\ status' = [status EXCEPT ![nextId] = "waiting"]
    BY <1>1 DEF Insert
  <2> QED
    BY <2>1, SlotsAreNumbers, BoundsAssumption
<1>2. ASSUME nextId' = nextId, \A s \in Slots : status'[s] \in {status[s], "absent"} PROVE NewRows'
  BY <1>2
<1>3. ASSUME nextId' = nextId, NEW s \in Slots, status[s] # "absent",
             status' = [status EXCEPT ![s] = "active"]
      PROVE  NewRows'
  BY <1>3
<1>4. ASSUME NEW c \in Callers, Activate(c) PROVE NewRows'
  <2>1. mine[c] \in Slots
    BY <1>4 DEF Activate, Bookkeeping, OwnRow, Holding
  <2> QED
    BY <1>2, <1>3, <1>4, <2>1 DEF Activate
<1>5. ASSUME NEW c \in Callers,
             CallerStep(c) \/ Expire(c) \/ AcquireFails(c) \/ PollFails(c) \/ DeleteFails(c)
      PROVE  NewRows'
  BY <1>2, <1>4, <1>5
     DEF CallerStep, CheckFree, Register, Poll, Sleep, Resume, Cancel, Finish, Delete,
         RemovedIfWaiting, Removed, Expire, AcquireFails, PollFails, DeleteFails, table
<1>6. ASSUME NEW a \in Actors, Promote(a) PROVE NewRows'
  <2>1. nextId' = nextId
    BY <1>6, PromoteEffect
  <2> QED
    BY <1>2, <1>3, <1>6, <2>1, PromoteEffect DEF Waiting
<1>7. ASSUME NEW a \in Actors, Wake(a) \/ PromoteFails(a) PROVE NewRows'
  BY <1>2, <1>7 DEF Wake, PromoteFails, table
<1>8. ASSUME NEW s \in Slots, Age(s) PROVE NewRows'
  BY <1>2, <1>8 DEF Age
<1>9. CASE Sweep \/ ClearOnStartup \/ Crash \/ UNCHANGED vars
  BY <1>2, <1>9 DEF Sweep, ClearOnStartup, Crash, vars, table
<1> QED
  BY <1>1, <1>5, <1>6, <1>7, <1>8, <1>9 DEF Next, HandOver, Failure, Quiet

View == [c \in Callers |-> ViewOf(c)]

(* What one actor's move shows of the callers. *)
LEMMA ViewMoves ==
  ASSUME TypeOK, NEW a \in Actors, NEW to, pc' = [pc EXCEPT ![a] = to]
  PROVE  /\ \A c \in Callers : c # a => View'[c] = View[c]
         /\ \A c \in Callers : View'[c] = ViewOf(c)' /\ View[c] = ViewOf(c)
         /\ a \in Callers => View' = [View EXCEPT ![a] = ViewOf(a)']
         /\ a \notin Callers => View' = View
<1>1. \A c \in Callers : c # a => pc'[c] = pc[c]
  BY DEF TypeOK, Actors
<1>2. \A c \in Callers : View'[c] = ViewOf(c)' /\ View[c] = ViewOf(c)
  BY DEF View
<1>3. \A c \in Callers : c # a => View'[c] = View[c]
  BY <1>1, <1>2 DEF ViewOf
<1>4. a \in Callers => View' = [View EXCEPT ![a] = ViewOf(a)']
  BY <1>2, <1>3 DEF View
<1>5. a \notin Callers => View' = View
  BY <1>3 DEF View
<1> QED
  BY <1>2, <1>3, <1>4, <1>5

(* A move that leaves everybody's place in the plain line. *)
LEMMA ViewStays ==
  ASSUME TypeOK, NEW a \in Actors, NEW to, pc' = [pc EXCEPT ![a] = to],
         \/ pc[a] \in {"idle", "promote", "wake"} /\ to \in {"idle", "promote", "wake"}
         \/ /\ pc[a] \in {"check", "activate", "queued", "polling", "decide", "sleeping"}
            /\ to \in {"check", "activate", "queued", "polling", "decide", "sleeping"}
  PROVE  View' = View
<1>1. CASE a \in Callers
  <2>1. ViewOf(a)' = ViewOf(a)
    BY DEF ViewOf, TypeOK
  <2> QED
    BY <1>1, <2>1, ViewMoves DEF View
<1>2. CASE a \notin Callers
  BY <1>2, ViewMoves
<1> QED
  BY <1>1, <1>2

LEMMA LineStepImplemented ==
  Typed /\ NewRows /\ [Next]_vars => [Line!LineNext]_(Line!lineVars)
<1> SUFFICES ASSUME TypeOK, Bookkeeping, NewRows, [Next]_vars
             PROVE  Line!LineNext \/ UNCHANGED <<status, View, mine>>
  BY DEF Typed, Line!lineVars, View
<1> USE DEF TypeOK
<1>1. ASSUME NEW c \in Callers, NEW p \in Priorities, Insert(c, p) PROVE Line!Enter(c)
  <2>1. /\ pc[c] = "idle" /\ pc' = [pc EXCEPT ![c] = "check"] /\ nextId \in Slots
        /\ mine' = [mine EXCEPT ![c] = nextId] /\ status' = [status EXCEPT ![nextId] = "waiting"]
    BY <1>1, BoundsAssumption DEF Insert, Goto, Slots
  <2>2. View[c] = "out" /\ View' = [View EXCEPT ![c] = "queued"]
    BY <2>1, ViewMoves DEF ViewOf, Actors
  <2>3. status[nextId] = "absent"
    BY <2>1, SlotsAreNumbers DEF NewRows
  <2> QED
    BY <2>1, <2>2, <2>3 DEF Line!Enter, View
<1>2. ASSUME NEW c \in Callers, CheckFree(c) \/ Register(c) \/ Sleep(c) \/ Resume(c)
      PROVE  UNCHANGED <<status, View, mine>>
  <2>1. UNCHANGED <<status, mine>>
    BY <1>2 DEF CheckFree, Register, Sleep, Resume, table
  <2>2. View' = View
    BY <1>2, ViewStays DEF CheckFree, Register, Sleep, Resume, Goto, Actors
  <2> QED
    BY <2>1, <2>2
<1>3. ASSUME NEW c \in Callers, Activate(c) PROVE Line!Start(c) \/ UNCHANGED <<status, View, mine>>
  <2>1. pc[c] = "activate" /\ UNCHANGED mine
    BY <1>3 DEF Activate
  <2>2. CASE status[mine[c]] # "absent"
    <3>1. pc' = [pc EXCEPT ![c] = "running"] /\ status' = [status EXCEPT ![mine[c]] = "active"]
      BY <1>3, <2>2 DEF Activate, Goto
    <3>2. View[c] = "queued" /\ View' = [View EXCEPT ![c] = "running"]
      BY <2>1, <3>1, ViewMoves DEF ViewOf, Actors
    <3> QED
      BY <2>1, <2>2, <3>1, <3>2 DEF Line!Start, View
  <2>3. CASE status[mine[c]] = "absent"
    <3>1. pc' = [pc EXCEPT ![c] = "queued"] /\ UNCHANGED status
      BY <1>3, <2>3 DEF Activate, Goto
    <3> QED
      BY <2>1, <3>1, ViewStays DEF Actors
  <2> QED
    BY <2>2, <2>3
\* Away from the model, the row gone or not.
<1>4. ASSUME NEW c \in Callers, UNCHANGED mine, pc' = [pc EXCEPT ![c] = "release"],
             pc[c] \in {"polling", "decide", "running"},
             \/ UNCHANGED status
             \/ /\ pc[c] = "decide" /\ status[mine[c]] = "waiting"
                /\ status' = [status EXCEPT ![mine[c]] = "absent"]
      PROVE  Line!Leave(c)
  <2>1. View[c] \in {"queued", "running"} /\ View' = [View EXCEPT ![c] = "leaving"]
    BY <1>4, ViewMoves DEF ViewOf, Actors
  <2>2. pc[c] = "decide" => View[c] = "queued"
    BY DEF View, ViewOf
  <2> QED
    BY <1>4, <2>1, <2>2 DEF Line!Leave, View
<1>5. ASSUME NEW c \in Callers, Poll(c) PROVE Line!LineNext \/ UNCHANGED <<status, View, mine>>
  <2>1. pc[c] = "polling" /\ UNCHANGED <<status, mine>>
    BY <1>5 DEF Poll, table
  <2>2. CASE Granted(c) /\ pc' = [pc EXCEPT ![c] = "running"]
    <3>1. View[c] = "queued" /\ View' = [View EXCEPT ![c] = "running"]
      BY <2>1, <2>2, ViewMoves DEF ViewOf, Actors
    <3>2. Line!Start(c)
      BY <2>1, <2>2, <3>1 DEF Line!Start, View, Granted
    <3> QED
      BY <3>2 DEF Line!LineNext
  <2>3. CASE pc' = [pc EXCEPT ![c] = "release"]
    BY <1>4, <2>1, <2>3 DEF Line!LineNext
  <2>4. CASE pc' = [pc EXCEPT ![c] = "decide"]
    BY <2>1, <2>4, ViewStays DEF Actors
  <2> QED
    BY <1>5, <2>2, <2>3, <2>4 DEF Poll, Goto
<1>6. ASSUME NEW c \in Callers, PollFails(c) \/ Finish(c) PROVE Line!Leave(c)
  BY <1>4, <1>6 DEF PollFails, Finish, Goto, table
<1>7. ASSUME NEW c \in Callers, Cancel(c) PROVE Line!Leave(c)
  <2>1. pc[c] = "decide" /\ pc' = [pc EXCEPT ![c] = "release"] /\ UNCHANGED mine /\ mine[c] \in Slots
    BY <1>7 DEF Cancel, Goto, Bookkeeping, OwnRow, Holding
  <2>2. status' = status \/ (status[mine[c]] = "waiting" /\ status' = [status EXCEPT ![mine[c]] = "absent"])
    BY <1>7, <2>1 DEF Cancel, RemovedIfWaiting
  <2> QED
    BY <1>4, <2>1, <2>2
<1>8. ASSUME NEW c \in Callers, Delete(c) \/ DeleteFails(c) \/ AcquireFails(c) PROVE Line!Out(c)
  <2>1. mine' = [mine EXCEPT ![c] = NoSlot]
    BY <1>8 DEF Delete, DeleteFails, AcquireFails
  <2>2. \/ status' = status
        \/ pc[c] = "release" /\ status' = [status EXCEPT ![mine[c]] = "absent"]
    BY <1>8 DEF Delete, Removed, DeleteFails, AcquireFails, table
  <2>3. /\ pc[c] \in {"check", "activate", "queued", "release"}
        /\ \E to \in {"promote", "idle"} : pc' = [pc EXCEPT ![c] = to]
    BY <1>8 DEF Delete, DeleteFails, AcquireFails, Goto
  <2>4. View[c] \in {"queued", "leaving"} /\ (pc[c] = "release" => View[c] = "leaving")
    BY <2>3 DEF View, ViewOf
  <2>5. View' = [View EXCEPT ![c] = "out"]
    BY <2>3, ViewMoves DEF ViewOf, Actors
  <2> QED
    BY <2>1, <2>2, <2>4, <2>5 DEF Line!Out, View
<1>9. ASSUME NEW c \in Callers, Expire(c) PROVE UNCHANGED <<status, View, mine>>
  BY <1>9 DEF Expire, table, View, ViewOf
<1>10. ASSUME NEW a \in Actors, Promote(a) PROVE Line!Grant \/ UNCHANGED <<status, View, mine>>
  <2>1. View' = View /\ mine' = mine
    BY <1>10, PromoteEffect, ViewStays
  <2> QED
    BY <1>10, <2>1, PromoteEffect DEF Line!Grant, View, Waiting
<1>11. ASSUME NEW a \in Actors, Wake(a) \/ PromoteFails(a) PROVE UNCHANGED <<status, View, mine>>
  BY <1>11, ViewStays DEF Wake, PromoteFails, Goto, table
<1>12. ASSUME NEW s \in Slots, Age(s) PROVE UNCHANGED <<status, View, mine>>
  BY <1>12 DEF Age, View, ViewOf
<1>13. CASE Sweep
  <2>1. View' = View
    BY <1>13, ViewMoves, CronAssumption DEF Sweep, Goto, Actors
  <2>2. StaleRows \in SUBSET {s \in Slots : status[s] = "active"}
    BY DEF StaleRows, Active
  <2> QED
    BY <1>13, <2>1, <2>2 DEF Sweep, Line!LineNext, Line!Evict, View
<1>14. CASE ClearOnStartup
  <2>1. \A c \in Callers : View[c] = "out"
    BY <1>14 DEF ClearOnStartup, Bookkeeping, View, ViewOf
  <2>2. View' = View
    BY <1>14 DEF ClearOnStartup, View, ViewOf
  <2> QED
    BY <1>14, <2>1, <2>2 DEF ClearOnStartup, Line!LineNext, Line!Wipe, View
<1>15. CASE Crash
  <2>1. View' = [c \in Callers |-> "out"]
    BY <1>15 DEF Crash, View, ViewOf, Actors
  <2> QED
    BY <1>15, <2>1 DEF Crash, table, Line!LineNext, Line!Restart, View
<1>16. CASE UNCHANGED vars
  BY <1>16 DEF vars, View, ViewOf
<1> QED
  BY <1>1, <1>2, <1>3, <1>5, <1>6, <1>7, <1>8, <1>9, <1>10, <1>11, <1>12, <1>13, <1>14,
     <1>15, <1>16
     DEF Next, CallerStep, HandOver, Failure, Quiet, Line!LineNext

(* Statement by statement, wakeup by wakeup and failure by failure, the queue
   does nothing the plain line does not allow. *)
THEOREM QueueImplementsLine == Spec => ImplementsLine
<1>1. Init => NewRows
  BY DEF Init, NewRows
<1>2. Init => Line!LineInit
  BY DEF Init, Line!LineInit, ViewOf, Actors
<1> QED
  BY <1>1, <1>2, TypeCorrect, NewRowsStep, LineStepImplemented, PTL
     DEF Spec, Typed, ImplementsLine, Line!LineSpec
=============================================================================
