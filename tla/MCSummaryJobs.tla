---------------------------- MODULE MCSummaryJobs ----------------------------
(* SummaryJobs on small instances; the bounds are in the .cfg files.       *)
EXTENDS SummaryJobs, TLC
=============================================================================
