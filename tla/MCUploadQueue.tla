---------------------------- MODULE MCUploadQueue ----------------------------
(* Finite instances of UploadQueue for TLC. *)
EXTENDS UploadQueue

\* One session of the extension, beside a request of the user or a kill of the
\* app. What it finds from earlier may as well be what the app enqueued.
FewEvents == {<<1, 0, 1>>, <<0, 1, 1>>}
=============================================================================
