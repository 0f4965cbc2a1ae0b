--------------------------- MODULE MCDocumentJobs ---------------------------
(* DocumentJobs on small instances; the bounds are in the .cfg files.      *)
EXTENDS DocumentJobs, TLC
=============================================================================
