----------------------------- MODULE MCOsmRegion -----------------------------
(* Finite instances of OsmRegion for TLC. *)
EXTENDS OsmRegion

Scenario(m, n) ==
  [from |-> {"none", "ready_running", "failed"},
   requests |-> RegionRequests \cup CronRequests,
   maxRequests |-> m, maxFaults |-> n]

\* From wherever a region stands, three requests of any kind and one failure, or
\* two requests and two failures.
FewEvents == {Scenario(3, 1), Scenario(2, 2)}
=============================================================================
