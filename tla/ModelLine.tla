------------------------------ MODULE ModelLine ------------------------------
(***************************************************************************)
(* What the ai-queue promises about one model, without statements, waiters *)
(* or timers: a caller enters the line with a row of its own, runs only    *)
(* once that row is granted, and takes its row away when it leaves.  A row *)
(* is taken from somebody else only by evicting an active row, or when     *)
(* everybody is out after a restart.  The promise does not include that    *)
(* one row at most is granted: see AtMostOneActive in AiQueue.             *)
(***************************************************************************)
EXTENDS Naturals

CONSTANTS Callers, Slots, NoSlot

VARIABLES row,     \* slot -> "absent", "waiting" or "active"
          view,    \* caller -> "out", "queued", "running" or "leaving"
          ticket   \* caller -> its slot

lineVars == <<row, view, ticket>>

LineInit ==
  /\ row = [s \in Slots |-> "absent"]
  /\ view = [c \in Callers |-> "out"]
  /\ ticket = [c \in Callers |-> NoSlot]

Enter(c) ==
  /\ view[c] = "out"
  /\ \E s \in Slots :
       /\ row[s] = "absent"
       /\ row' = [row EXCEPT ![s] = "waiting"]
       /\ ticket' = [ticket EXCEPT ![c] = s]
  /\ view' = [view EXCEPT ![c] = "queued"]

Grant ==
  /\ \E s \in Slots : row[s] = "waiting" /\ row' = [row EXCEPT ![s] = "active"]
  /\ UNCHANGED <<view, ticket>>

\* Run on a row granted before, or grant it oneself in the same step.
Start(c) ==
  /\ view[c] = "queued"
  /\ row[ticket[c]] # "absent"
  /\ \/ row[ticket[c]] = "active" /\ UNCHANGED row
     \/ row' = [row EXCEPT ![ticket[c]] = "active"]
  /\ view' = [view EXCEPT ![c] = "running"]
  /\ UNCHANGED ticket

\* Done running, or given up: a row that still waits may go at once.
Leave(c) ==
  /\ view[c] \in {"queued", "running"}
  /\ \/ UNCHANGED row
     \/ /\ view[c] = "queued" /\ row[ticket[c]] = "waiting"
        /\ row' = [row EXCEPT ![ticket[c]] = "absent"]
  /\ view' = [view EXCEPT ![c] = "leaving"]
  /\ UNCHANGED ticket

\* The row goes with its caller; it is left behind only when that fails.
Out(c) ==
  /\ \/ view[c] = "leaving" /\ row' = [row EXCEPT ![ticket[c]] = "absent"]
     \/ view[c] \in {"queued", "leaving"} /\ UNCHANGED row
  /\ view' = [view EXCEPT ![c] = "out"]
  /\ ticket' = [ticket EXCEPT ![c] = NoSlot]

Evict ==
  /\ \E S \in SUBSET {s \in Slots : row[s] = "active"} :
       row' = [s \in Slots |-> IF s \in S THEN "absent" ELSE row[s]]
  /\ UNCHANGED <<view, ticket>>

Restart ==
  /\ view' = [c \in Callers |-> "out"]
  /\ ticket' = [c \in Callers |-> NoSlot]
  /\ UNCHANGED row

Wipe ==
  /\ \A c \in Callers : view[c] = "out"
  /\ row' = [s \in Slots |-> "absent"]
  /\ UNCHANGED <<view, ticket>>

LineNext ==
  \/ \E c \in Callers : Enter(c) \/ Start(c) \/ Leave(c) \/ Out(c)
  \/ Grant \/ Evict \/ Restart \/ Wipe

LineSpec == LineInit /\ [][LineNext]_lineVars
=============================================================================
