------------------------------ MODULE MCBackup ------------------------------
(* Two requests of each kind and the two sessions the pool allows.         *)
EXTENDS Backup

=============================================================================
