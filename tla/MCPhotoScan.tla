----------------------------- MODULE MCPhotoScan -----------------------------
(* Finite instances of PhotoScan for TLC. *)
EXTENDS PhotoScan

Scenario(services, kinds, m, n) ==
  [services |-> services, requests |-> kinds, maxRequests |-> m, maxFaults |-> n]

PoiServices  == <<"embedding", "poi_detection">>
FaceServices == <<"embedding", "face_detection", "face_assignment", "quality">>
Unscored     == <<"embedding", "face_detection", "face_assignment">>

\* Every request and two failures where an embedding is followed by a match;
\* where faces are followed by two jobs, a forced rescan at any moment, and a
\* retry at any moment after a failure; and quality switched off.
FewEvents == {Scenario(PoiServices, AllRequests, 1, 2),
              Scenario(FaceServices, {"force"}, 1, 0),
              Scenario(FaceServices, {"retry"}, 1, 1),
              Scenario(Unscored, {"cancel"}, 1, 0)}
=============================================================================
