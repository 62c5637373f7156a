--------------------------- MODULE MCRetryWorker ---------------------------
(* Model values for model-checking RetryWorker.                            *)
EXTENDS RetryWorker

=============================================================================
