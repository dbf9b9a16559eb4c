--------------------------- MODULE MCWindowsWorker ---------------------------
(* The instance of WindowsWorker for TLC. *)
EXTENDS WindowsWorker
MCNotes == (1..NumJobs) \X {"run.finished", "run.failed"}
==============================================================================
