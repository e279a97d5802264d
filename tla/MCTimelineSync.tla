--------------------------- MODULE MCTimelineSync ---------------------------
(* Small instances of TimelineSync.                                        *)
EXTENDS TimelineSync
=============================================================================
