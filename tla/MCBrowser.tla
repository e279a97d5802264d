----------------------------- MODULE MCBrowser -----------------------------
(* Small instances of two parts of a browser page that are checked apart:  *)
(* its timeline and its outbox.  A behavior runs one of them; the other    *)
(* keeps its initial state.                                                *)
EXTENDS MCTimelineSync, MCMessageOutbox

VARIABLE part
browserVars == <<part, vars, outboxVars>>

BrowserInit == part \in {"timeline", "outbox"} /\ Init /\ OutboxInit

TimelineStep == part = "timeline" /\ Next /\ UNCHANGED <<part, outboxVars>>
OutboxStep == part = "outbox" /\ OutboxNext /\ UNCHANGED <<part, vars>>

BrowserNext == TimelineStep \/ OutboxStep

BrowserSpec == BrowserInit /\ [][BrowserNext]_browserVars
=============================================================================
