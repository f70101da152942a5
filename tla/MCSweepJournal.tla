--------------------------- MODULE MCSweepJournal ---------------------------
(* Two threads and four probes, so that two are left to a worker that      *)
(* joins a line: one probe that kills, one that hangs, two that are        *)
(* measured; and one kill from outside.                                    *)
EXTENDS SweepJournal
=============================================================================
