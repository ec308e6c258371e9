---------------------------- MODULE MCDocPipeline ----------------------------
(* Finite instances of DocPipeline for TLC. *)
EXTENDS DocPipeline

OneRequest == {<<1, 0>>}

\* One request besides the upload and its retry, or one failure or restart.
OneEvent == {<<1, 0>>, <<0, 1>>}
=============================================================================
