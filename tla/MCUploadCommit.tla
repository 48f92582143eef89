--------------------------- MODULE MCUploadCommit ---------------------------
(* Two replicas of one run (the Job's first pod and its retry, or a pod    *)
(* and its replacement), two attempts each, one coordinator restart.       *)
EXTENDS UploadCommit

=============================================================================
