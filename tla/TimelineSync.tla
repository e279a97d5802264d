---------------------------- MODULE TimelineSync ----------------------------
(***************************************************************************)
(* One Relay, one session wire and one browser: the timeline grows and is  *)
(* replaced while the client connects, subscribes, catches up, reads       *)
(* earlier history and checks for message echoes.  agent-manager.ts,       *)
(* session-wire.ts and remote-session-client.ts around the two pure parts, *)
(* Timeline (Relay) and Replica (browser).                                 *)
(*                                                                         *)
(* With Recovery = "websocket" a catch-up page travels on the session wire *)
(* behind the rows sent before it, but is computed before it is queued     *)
(* there; with "http", and for the other two reads always, request and     *)
(* response are unordered with the wire.  A response whose request was     *)
(* aborted is ignored by the client: here it disappears with the request.  *)
(***************************************************************************)
EXTENDS Replica

CONSTANTS
    Items,      \* the item kinds the provider produces
    Recovery,   \* timelineRecovery: "websocket" or "http"
    Reads,      \* the other reads in use: "older" (loadOlder), "scan" (watchMessageEchoes)
    PageSize,   \* historyPageSize
    MaxRows,    \* bounds the rows of an epoch in the model
    MaxEpochs,  \* bounds the epochs in the model
    MaxDrops,   \* bounds the lost connections in the model
    None        \* no request, no page

ASSUME SyncAssumption ==
    /\ Items \subseteq ItemKinds
    /\ Recovery \in {"websocket", "http"}
    /\ Reads \subseteq {"older", "scan"}
    /\ {PageSize, MaxRows, MaxEpochs} \subseteq Nat \ {0}
    /\ MaxDrops \in Nat

VARIABLES
    epoch, rows,   \* the TimelineStore
    subscribed,    \* timelineSubscribed of the session wire
    down,          \* messages on their way to the client
    status,        \* RemoteSessionStatus
    recovery,      \* the recovery controller: its outstanding catch-up request
    older, scan,   \* the outstanding request of loadOlder and of the echo scan
    replica,
    drops          \* connections lost so far

server == <<epoch, rows>>
wire == <<subscribed, down>>
reads == <<older, scan>>
vars == <<server, wire, status, recovery, reads, replica, drops>>

Ask(direction, e, seq) ==
    [direction |-> direction, epoch |-> e, seq |-> seq, page |-> None, sent |-> FALSE]

\* catchUpAfterSubscription
CatchUp(r) ==
    IF r.initialized THEN Ask("after", r.epoch, r.next - 1) ELSE Ask("tail", 0, 0)

Delivered == [type |-> "page"]
WithoutPage(messages) == Only(messages, ToSet(messages) \ {Delivered})

Init ==
    /\ epoch = 1 /\ rows = <<>>
    /\ subscribed = FALSE /\ down = <<>>
    /\ status = "disconnected"
    /\ recovery = None /\ older = None /\ scan = None
    /\ replica = EmptyReplica(0, {})
    /\ drops = 0

-----------------------------------------------------------------------------
(* The Relay.                                                              *)

Emit(message) == down' = IF subscribed THEN Append(down, message) ELSE down

\* A provider observation becomes a row and is emitted.
AppendRow ==
    /\ Len(rows) < MaxRows
    /\ \E item \in Items :
          /\ rows' = Append(rows, item)
          /\ Emit([type |-> "stream", epoch |-> epoch, seq |-> Len(rows) + 1, item |-> item])
    /\ UNCHANGED <<epoch, subscribed, status, recovery, reads, replica, drops>>

\* resetTimeline: the rows of the new epoch follow as AppendRow steps.
ReplaceTimeline ==
    /\ epoch < MaxEpochs
    /\ epoch' = epoch + 1
    /\ rows' = <<>>
    /\ Emit([type |-> "replacement", epoch |-> epoch + 1])
    /\ UNCHANGED <<subscribed, status, recovery, reads, replica, drops>>

\* timeline_subscription: the acknowledgement precedes every row.
Subscribe ==
    /\ status # "disconnected"
    /\ ~subscribed
    /\ subscribed' = TRUE
    /\ down' = Append(down, [type |-> "subscribed"])
    /\ UNCHANGED <<server, status, recovery, reads, replica, drops>>

Answered(request) ==
    [request EXCEPT !.page = Page(epoch, rows, request.direction,
                                  [epoch |-> request.epoch, seq |-> request.seq], PageSize)]

\* timeline_request, or its HTTP form; on the wire it follows the subscription.
ComputeCatchUp ==
    /\ recovery # None
    /\ recovery.page = None
    /\ subscribed
    /\ recovery' = Answered(recovery)
    /\ UNCHANGED <<server, wire, status, reads, replica, drops>>

\* The awaited page is queued on the wire behind what was emitted meanwhile.
SendCatchUp ==
    /\ Recovery = "websocket"
    /\ recovery # None
    /\ recovery.page # None /\ ~recovery.sent
    /\ recovery' = [recovery EXCEPT !.sent = TRUE]
    /\ down' = Append(down, Delivered)
    /\ UNCHANGED <<server, subscribed, status, reads, replica, drops>>

ComputeOlder ==
    /\ older # None /\ older.page = None
    /\ older' = Answered(older)
    /\ UNCHANGED <<server, wire, status, recovery, scan, replica, drops>>

ComputeScan ==
    /\ scan # None /\ scan.page = None
    /\ scan' = Answered(scan)
    /\ UNCHANGED <<server, wire, status, recovery, older, replica, drops>>

-----------------------------------------------------------------------------
(* The session client.                                                     *)

\* connect to the snapshot: subscription and, on the wire, catch-up are sent.
Connect ==
    /\ status = "disconnected"
    /\ status' = "catching_up"
    /\ recovery' = IF Recovery = "websocket" THEN CatchUp(replica) ELSE None
    /\ older' = None
    /\ UNCHANGED <<server, wire, scan, replica, drops>>

\* The connection is lost or synchronization times out; restartDisconnected
\* retires every request of the connection.
Disconnect ==
    /\ status # "disconnected"
    /\ drops < MaxDrops
    /\ drops' = drops + 1
    /\ status' = "disconnected"
    /\ subscribed' = FALSE
    /\ down' = <<>>
    /\ recovery' = None /\ older' = None /\ scan' = None
    /\ UNCHANGED <<server, replica>>

\* fetchTimeline(request): one recovery at a time; the client is no longer
\* ready, which stops the echo scan.
Fetch(request, rest) ==
    /\ recovery' = request
    /\ status' = "catching_up"
    /\ scan' = None
    /\ down' = rest

\* Mutant: a gap starts no recovery.
FollowGapless(reduction, rest) ==
    /\ replica' = reduction.replica
    /\ IF reduction.status \in {"epoch_changed", "reset_required"}
       THEN Fetch(Ask("tail", 0, 0), WithoutPage(rest))
       ELSE /\ down' = rest
            /\ UNCHANGED <<recovery, status, scan>>

\* handleTimelineReduction, with the messages that remain.
Follow(reduction, rest) ==
    /\ replica' = reduction.replica
    /\ IF reduction.status = "gap" /\ recovery = None
       THEN Fetch(Ask("after", reduction.replica.epoch, reduction.replica.next - 1), rest)
       ELSE IF reduction.status \in {"epoch_changed", "reset_required"}
       THEN Fetch(Ask("tail", 0, 0), WithoutPage(rest))
       ELSE /\ down' = rest
            /\ UNCHANGED <<recovery, status, scan>>

ReceiveStream ==
    /\ down # <<>> /\ Head(down).type = "stream"
    /\ LET m == Head(down)
       IN  Follow(ReduceLive(replica, [epoch |-> m.epoch, seq |-> m.seq, item |-> m.item]), Tail(down))
    /\ UNCHANGED <<server, subscribed, older, drops>>

\* Mutant: leaves the catch-up of the replaced epoch running.
ReceiveReplacementKeepsRecovery ==
    /\ down # <<>> /\ Head(down).type = "replacement"
    /\ replica' = Replaced(replica, Head(down).epoch)
    /\ IF recovery = None THEN Fetch(Ask("tail", 0, 0), Tail(down))
       ELSE /\ down' = Tail(down)
            /\ UNCHANGED <<recovery, status, scan>>
    /\ UNCHANGED <<server, subscribed, older, drops>>

ReceiveReplacement ==
    /\ down # <<>> /\ Head(down).type = "replacement"
    /\ replica' = Replaced(replica, Head(down).epoch)
    /\ Fetch(Ask("tail", 0, 0), WithoutPage(Tail(down)))
    /\ UNCHANGED <<server, subscribed, older, drops>>

\* timeline_subscribed starts the catch-up that is not on the wire.
ReceiveSubscribed ==
    /\ down # <<>> /\ Head(down).type = "subscribed"
    /\ IF Recovery = "http" /\ recovery = None
       THEN Fetch(CatchUp(replica), Tail(down))
       ELSE /\ down' = Tail(down)
            /\ UNCHANGED <<recovery, status, scan>>
    /\ UNCHANGED <<server, subscribed, replica, older, drops>>

\* The loop of fetchTimeline: continue after the page while newer history
\* remains, become ready after the last one, follow any other reduction.
ApplyCatchUp(rest) ==
    LET page == recovery.page
        reduction == ApplyPage(replica, page, FALSE)
    IN  IF reduction.status = "applied"
        THEN /\ replica' = reduction.replica
             /\ down' = rest
             /\ IF recovery.direction = "after" /\ page.hasNewer
                THEN recovery' = Ask("after", page.epoch, page.end) /\ UNCHANGED <<status, scan>>
                ELSE recovery' = None /\ status' = "ready" /\ UNCHANGED scan
        ELSE /\ replica' = reduction.replica
             /\ IF reduction.status = "gap"
                THEN Fetch(Ask("after", reduction.replica.epoch, reduction.replica.next - 1), rest)
                ELSE IF reduction.status = "stale_epoch"
                THEN down' = rest /\ recovery' = None /\ UNCHANGED <<status, scan>>
                ELSE Fetch(Ask("tail", 0, 0), rest)

ReceiveCatchUp ==
    /\ recovery # None /\ recovery.page # None
    /\ \/ /\ Recovery = "websocket"
          /\ down # <<>> /\ Head(down) = Delivered
          /\ ApplyCatchUp(Tail(down))
       \/ /\ Recovery = "http"
          /\ ApplyCatchUp(down)
    /\ UNCHANGED <<server, subscribed, older, drops>>

-----------------------------------------------------------------------------
(* Reads beside the catch-up.                                              *)

FirstStart(r) == IF r.entries = <<>> THEN 1 ELSE r.entries[1].start

\* loadOlder, from the first entry on display.
AskOlder ==
    /\ "older" \in Reads
    /\ older = None
    /\ replica.initialized /\ replica.hasOlder
    /\ older' = Ask("before", replica.epoch, FirstStart(replica))
    /\ UNCHANGED <<server, wire, status, recovery, scan, replica, drops>>

\* A page of another epoch leaves the replica alone.
ReceiveOlder ==
    /\ older # None /\ older.page # None
    /\ older' = None
    /\ replica' = IF older.page.epoch # replica.epoch \/ older.page.reset THEN replica
                  ELSE ApplyPage(replica, older.page, FALSE).replica
    /\ UNCHANGED <<server, wire, status, recovery, scan, drops>>

\* watchMessageEchoes scans while ready, from the cursor at which a message was
\* sent: a row on display, as messages are sent from a synchronized display.
AskScan ==
    /\ "scan" \in Reads
    /\ status = "ready"
    /\ scan = None
    /\ \E seq \in FirstStart(replica) - 1..replica.next - 1 :
          scan' = Ask("after", replica.epoch, seq)
    /\ UNCHANGED <<server, wire, status, recovery, older, replica, drops>>

\* Mutant: applies the scan as an ordinary catch-up page.
ReceiveScanPlainly ==
    /\ scan # None /\ scan.page # None
    /\ scan' = None
    /\ replica' = IF scan.page.reset \/ scan.page.gap THEN replica
                  ELSE ApplyPage(replica, scan.page, FALSE).replica
    /\ UNCHANGED <<server, wire, status, recovery, older, drops>>

ReceiveScan ==
    /\ scan # None /\ scan.page # None
    /\ IF replica.epoch # scan.epoch \/ scan.page.reset \/ scan.page.gap
       THEN scan' = None /\ UNCHANGED replica
       ELSE /\ replica' = ApplyPage(replica, scan.page, TRUE).replica
            /\ scan' \in {None} \cup   \* the echo arrived, or the read ends here
                  (IF scan.page.hasNewer THEN {Ask("after", scan.epoch, scan.page.end)} ELSE {})
    /\ UNCHANGED <<server, wire, status, recovery, older, drops>>

-----------------------------------------------------------------------------
Relay == AppendRow \/ ReplaceTimeline \/ Subscribe \/ ComputeCatchUp \/ SendCatchUp
            \/ ComputeOlder \/ ComputeScan
Receive == ReceiveSubscribed \/ ReceiveStream \/ ReceiveReplacement \/ ReceiveCatchUp
Client == Connect \/ Disconnect \/ Receive \/ AskOlder \/ ReceiveOlder \/ AskScan \/ ReceiveScan
Next == Relay \/ Client

Spec == Init /\ [][Next]_vars

\* The client reconnects on a timer, and both ends process what they are sent.
\* Rows, replacements, lost connections and the user's reads need not come.
FairSpec ==
    /\ Spec
    /\ WF_vars(Connect) /\ WF_vars(Subscribe)
    /\ WF_vars(ComputeCatchUp) /\ WF_vars(SendCatchUp) /\ WF_vars(Receive)

-----------------------------------------------------------------------------
(* Properties.                                                             *)

EntryType ==
    [item : ItemKinds, start : 1..MaxRows, end : 1..MaxRows, rows : SUBSET (1..MaxRows),
     shown : Seq((1..MaxEpochs) \X (1..MaxRows))]
PageType ==
    [direction : {"tail", "after", "before"}, epoch : 1..MaxEpochs, reset : BOOLEAN,
     gap : BOOLEAN, entries : Seq(EntryType), next : 1..MaxRows + 1, end : 0..MaxRows,
     hasOlder : BOOLEAN, hasNewer : BOOLEAN]
Request ==
    [direction : {"tail", "after", "before"}, epoch : 0..MaxEpochs, seq : 0..MaxRows,
     sent : BOOLEAN, page : {None} \cup PageType]
ReplicaType ==
    [epoch : 0..MaxEpochs, initialized : BOOLEAN, entries : Seq(EntryType),
     next : 1..MaxRows + 1, hasOlder : BOOLEAN,
     pending : SUBSET [epoch : 1..MaxEpochs, seq : 1..MaxRows, item : Items],
     retired : SUBSET (1..MaxEpochs)]

ASSUME NoneAssumption == None \notin PageType /\ None \notin Request

\* Every variable has its type.
TypeOK ==
    /\ epoch \in 1..MaxEpochs /\ rows \in Seq(Items) /\ Len(rows) <= MaxRows
    /\ subscribed \in BOOLEAN
    /\ \A i \in DOMAIN down : down[i].type \in {"stream", "replacement", "subscribed", "page"}
    /\ status \in {"disconnected", "catching_up", "ready"}
    /\ {recovery, older, scan} \subseteq {None} \cup Request
    /\ replica \in ReplicaType
    /\ drops \in 0..MaxDrops

Held(r) == UNION {r.entries[i].rows : i \in DOMAIN r.entries}
Shown(r) == UNION {ToSet(r.entries[i].shown) : i \in DOMAIN r.entries}

\* A retired epoch never comes back: what the replica shows and buffers is of
\* its current epoch, whichever responses of an older one are still to come
\* (applyTimelineReplacement, reducer.ts:174).
OneEpoch ==
    /\ replica.epoch \notin replica.retired
    /\ \A row \in Shown(replica) : row[1] = replica.epoch
    /\ \A m \in replica.pending : m.epoch = replica.epoch

\* No row is on display twice and text is displayed in order, although live
\* rows, catch-up pages, earlier pages and echo scans all deliver it.
ShownOnce ==
    \A i \in DOMAIN replica.entries :
        LET e == replica.entries[i]
        IN  /\ \A j \in DOMAIN replica.entries \ {i} : ~Overlap(e, replica.entries[j])
            /\ \A j, k \in DOMAIN e.shown : j < k => e.shown[j][2] < e.shown[k][2]

\* What is on display is a display: typed, and of every row once.
DisplayInv == TypeOK /\ ShownOnce

Starts(list) == {list[i].start : i \in DOMAIN list}

\* The cursor skips nothing: every entry of the Relay's projection that starts at
\* a row the cursor moves over is on display afterwards, and stays there; what
\* lies before the first page is left out.  So the next gap or reconnection asks
\* for all that is missing (nextSequenceForPage, reducer.ts:570).
CursorSkipsNothing ==
    [][replica'.initialized /\ replica'.epoch = epoch =>
          LET same == replica.initialized /\ replica.epoch = replica'.epoch
              passed == (IF same THEN replica.next ELSE FirstStart(replica'))..replica'.next - 1
              due == passed \cup (IF same THEN Starts(replica.entries) ELSE {})
          IN  due \cap Starts(Projection(epoch, rows)) \subseteq Starts(replica'.entries)]_vars

\* "loadSearchMatch() to load contiguous history" (session-search.md:21): between
\* the first entry on display and the cursor none is missing, so that loading
\* what comes before the first one leaves no hole (loadOlder).
HistoryContiguous ==
    replica.initialized /\ replica.epoch = epoch =>
        (FirstStart(replica)..replica.next - 1) \cap Starts(Projection(epoch, rows))
            \subseteq Starts(replica.entries)

\* Entry e is on display afterwards with all its rows, at its latest or later.
KeptAfter(e) == \E j \in DOMAIN replica'.entries :
    e.rows \subseteq replica'.entries[j].rows /\ e.end <= replica'.entries[j].end

Preserved == \A i \in DOMAIN replica.entries : KeptAfter(replica.entries[i])

\* "Reads preserve newer live projections and never regress the live cursor"
\* (web.md:97): an echo scan takes nothing from the display.
ScanPreserves == [][ReceiveScan => replica'.next >= replica.next /\ Preserved]_vars

\* "Preserves existing entries when ... loading earlier history"
\* (reducer.test.ts:462): an earlier page takes no row from the display,
\* whatever arrived live since it was computed.
OlderPreserves == [][ReceiveOlder => Preserved]_vars

\* The part of it that the code keeps (mergeAuthoritative, reducer.ts:475):
\* entries that only grow by adjoining rows lose nothing to an earlier page,
\* whatever arrived, was scanned or caught up since that page was computed.
OlderPreservesAdjoining ==
    [][ReceiveOlder => \A i \in DOMAIN replica.entries :
          replica.entries[i].item # "tool" => KeptAfter(replica.entries[i])]_vars

\* The client is ready and nothing is on its way to it.
Settled == status = "ready" /\ subscribed /\ down = <<>> /\ older = None /\ scan = None

\* A settled client displays what the Relay's own projection displays, from the
\* first entry it loaded: "live-before-fetch and history-before-live orders
\* converge" (web.md:67).
Converged ==
    Settled =>
        /\ replica.epoch = epoch
        /\ LET list == Projection(epoch, rows)
           IN  replica.entries = Only(list, {e \in ToSet(list) :
                   replica.entries # <<>> /\ e.start >= replica.entries[1].start})
        /\ replica.entries = <<>> => rows = <<>>

\* The client becomes ready and stays so once the connection holds and the
\* timeline rests (fetchTimeline, remote-session-client.ts:781).
BecomesReady == <>[](status = "ready")
=============================================================================
