----------------------------- MODULE MCImportJobs -----------------------------
(* Small instances of ImportJobs for TLC; the configurations give the bounds.  *)
EXTENDS ImportJobs
=============================================================================
