------------------------------- MODULE LocalCron -------------------------------
(***************************************************************************)
(* One job of the in-process scheduler that stands in for Encore's         *)
(* CronJobs (lib/local-cron.ts) with its row of scheduled_job_state        *)
(* (lib/scheduled-jobs-hooks.ts): the timer's runs and runs by hand, which *)
(* may overlap, pause and resume, the saves of the whole row that each of  *)
(* them sends off, and restarts.                                           *)
(*                                                                         *)
(* What the job does is left to the module that extends this one: a run    *)
(* begins, and ends well or with an error.  The schedule is a fixed        *)
(* interval, so the job is never deactivated.                              *)
(***************************************************************************)
EXTENDS Integers, FiniteSets

CONSTANT Hands      \* runs started by hand (fireJobNow) that there may be at once

ASSUME HandsAssumption == "timer" \notin Hands /\ "admin" \notin Hands

Runs   == Hands \cup {"timer"}
Savers == Runs \cup {"admin"}

VARIABLES
  enabled,    \* entry.enabled
  status,     \* entry.status
  armed,      \* entry.timer is set and has not fired
  run,        \* a run is "idle", at its "job", or at its "save"
  saves,      \* the saves under way, each with the row it writes
  saved,      \* the job's row, [enabled, last_status]
  mixed,      \* history: the row may be another one's than memory (Save)
  blurred     \* history: a run was not alone since the status was set

cronVars == <<enabled, status, armed, run, saves, saved, mixed, blurred>>

CronInit ==
  /\ enabled = TRUE
  /\ status = "scheduled"
  /\ armed = TRUE
  /\ run = [r \in Runs |-> "idle"]
  /\ saves = {}
  /\ saved = [enabled |-> TRUE, last |-> "none"]
  /\ mixed = FALSE
  /\ blurred = FALSE

AtWork == {r \in Runs : run[r] = "job"}

\* Mutant: a timer shows every job as scheduled.
AlwaysScheduled(s) == "scheduled"

\* armNext leaves the last outcome and a pause on display.
ArmedStatus(s) == IF s \in {"ok", "error", "paused"} THEN s ELSE "scheduled"

\* The beginning of runEntry, the job being enabled.
Begin(r) ==
  /\ run[r] = "idle"
  /\ run' = [run EXCEPT ![r] = "job"]
  /\ status' = "running"
  /\ blurred' = (\E q \in Runs : run[q] # "idle")
  /\ UNCHANGED <<enabled, saves, saved, mixed>>

\* The timer fires: a paused job is skipped and the timer set again.
Fire ==
  /\ armed
  /\ \/ enabled /\ Begin("timer") /\ armed' = FALSE
     \/ /\ ~enabled
        /\ status' = ArmedStatus(status)
        /\ UNCHANGED <<enabled, armed, run, saves, saved, mixed, blurred>>

\* fireJobNow; the status is not looked at.
RunNow(h) == enabled /\ Begin(h) /\ UNCHANGED armed

\* persist's snapshot, of the status and the flag as they will be.
Row(e, s) == [enabled |-> e, last |-> IF s \in {"ok", "error"} THEN s ELSE "none"]

\* persist: the row is written whole.  With another save under way, either may
\* come last.
Save(w, row) ==
  /\ saves' = saves \cup {[by |-> w, row |-> row]}
  /\ mixed' = (saves # {})

\* The end of the job in runEntry.
End(r, outcome) ==
  /\ run[r] = "job"
  /\ run' = [run EXCEPT ![r] = "save"]
  /\ status' = outcome
  /\ Save(r, Row(enabled, outcome))
  /\ UNCHANGED <<enabled, armed, saved, blurred>>

\* Mutant: a run that ended with an error does not set the timer again.
RearmedIfOk(w) == armed \/ (w = "timer" /\ status # "error")

\* The finally of the timer's run sets it again, whatever came of the run.
Rearmed(w) == armed \/ w = "timer"

\* The save has come to its end, and with it its run.
Through(w) ==
  /\ run' = IF w \in Runs THEN [run EXCEPT ![w] = "idle"] ELSE run
  /\ armed' = Rearmed(w)
  /\ status' = IF w = "timer" THEN ArmedStatus(status) ELSE status
  /\ UNCHANGED <<enabled, blurred>>

Land(s) ==
  /\ s \in saves
  /\ saves' = saves \ {s}
  /\ saved' = s.row
  /\ Through(s.by)
  /\ UNCHANGED mixed

\* An error of the save is logged.
SaveFails(s) ==
  /\ s \in saves
  /\ saves' = saves \ {s}
  /\ mixed' = TRUE
  /\ Through(s.by)
  /\ UNCHANGED saved

\* The status of setJobEnabled.
Toggled(e) ==
  IF ~e THEN "paused" ELSE IF status = "paused" THEN "scheduled" ELSE status

\* Mutant: the row is taken before the flag is set.
RowBefore(e) == Row(enabled, status)

\* The row setJobEnabled saves.
ToggledRow(e) == Row(e, Toggled(e))

\* setJobEnabled
SetEnabled(e) ==
  /\ enabled # e
  /\ \A s \in saves : s.by # "admin" \/ s.row # ToggledRow(e)
  /\ enabled' = e
  /\ status' = Toggled(e)
  /\ Save("admin", ToggledRow(e))
  /\ blurred' = (AtWork # {})
  /\ UNCHANGED <<armed, run, saved>>

\* The process restarts and loses what it had under way.  A job registered
\* before the first startLocalCron takes over its row (hydrateFromHooks); one
\* registered later does not, nor one whose row could not be read.
CronRestart ==
  /\ \E hydrated \in BOOLEAN :
       /\ enabled' = (hydrated => saved.enabled)
       /\ status' = CASE hydrated /\ ~saved.enabled -> "paused"
                      [] hydrated /\ saved.enabled /\ saved.last # "none" -> saved.last
                      [] OTHER -> "scheduled"
       /\ mixed' = (~hydrated /\ ~saved.enabled)
  /\ armed' = TRUE
  /\ run' = [r \in Runs |-> "idle"]
  /\ saves' = {}
  /\ blurred' = FALSE
  /\ UNCHANGED saved

CronStep ==
  \/ Fire
  \/ \E h \in Hands : RunNow(h)
  \/ \E r \in Runs, outcome \in {"ok", "error"} : End(r, outcome)
  \/ \E s \in saves : Land(s) \/ SaveFails(s)
  \/ \E e \in BOOLEAN : SetEnabled(e)
  \/ CronRestart

CronSpec == CronInit /\ [][CronStep]_cronVars

-----------------------------------------------------------------------------
Statuses == {"scheduled", "running", "ok", "error", "paused"}

SavedRows == [enabled : BOOLEAN, last : {"none", "ok", "error"}]

CronTypeOK ==
  /\ enabled \in BOOLEAN /\ status \in Statuses /\ armed \in BOOLEAN
  /\ run \in [Runs -> {"idle", "job", "save"}]
  /\ saves \subseteq [by : Savers, row : SavedRows]
  /\ saved \in SavedRows
  /\ mixed \in BOOLEAN /\ blurred \in BOOLEAN

(* Once no save is under way, a restart would find the job paused exactly if it
   is: whatever runs ended while it was paused and resumed, the last save wrote
   the flag as it is (persist, setJobEnabled).  Exempt is a row whose last save
   failed or was sent off while another was under way, which may reach the table
   in either order, and a job that started without its row although paused
   there (schedule after startLocalCron). *)
SavedAgrees == saves = {} /\ ~mixed => saved.enabled = enabled

(* Nobody is shown a run that is over, and the status on display is true of a
   job whose runs do not overlap and that was not paused or resumed during a
   run: running while it is at work, paused when it is and nothing runs, whatever
   the timer, which sets the status as well, does in between (runEntry, armNext,
   setJobEnabled). *)
StatusTells ==
  /\ status = "running" => AtWork # {}
  /\ ~blurred =>
       /\ AtWork # {} => status = "running"
       /\ AtWork = {} => (status = "paused" <=> ~enabled)
=============================================================================
