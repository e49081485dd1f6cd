--------------------------- MODULE MC_ImageChecker ---------------------------
(* Instance of ImageChecker for TLC: all jobs and registries there are. *)
EXTENDS ImageChecker

AllJobs == Jobs
=============================================================================
