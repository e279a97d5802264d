------------------------- MODULE TimelineSyncProofs -------------------------
(***************************************************************************)
(* Proofs about one Relay, one wire and one browser, for any items, page   *)
(* sizes and bounds: types, epochs, and what the replica displays of the   *)
(* rows of its epoch.  All but the types need replacements in order with   *)
(* the rows (Ordered); what is displayed also needs items other than       *)
(* compactions (PlainKinds), and convergence items that stand alone.       *)
(***************************************************************************)
EXTENDS TimelineProofs

-----------------------------------------------------------------------------
(* Types of the state.                                                     *)

LEMMA TypeInit == Init => TypeInv
<1>. SUFFICES ASSUME Init PROVE TypeInv
  OBVIOUS
<1>1. EmptyReplica(0, {}) \in ReplicaType
  BY EmptyType, Constants
<1>2. epoch \in 1..MaxEpochs /\ rows \in Seq(Items) /\ Len(rows) <= MaxRows /\ down \in Seq(Message) /\ drops \in 0..MaxDrops
  BY Constants, SyncAssumption DEF Init, SyncAssumption
<1>3. \A i \in DOMAIN down : down[i].type \in {"stream", "replacement", "subscribed", "page"}
  BY DEF Init
<1>. QED
  BY <1>1, <1>2, <1>3 DEF Init, TypeInv, TypeOK

LEMMA EmitType ==
    ASSUME TypeInv, NEW message \in Message, Emit(message)
    PROVE  down' \in Seq(Message)
BY DEF Emit, TypeInv

LEMMA TypeStep == TypeInv /\ [Next]_vars => TypeInv'
<1>. SUFFICES ASSUME TypeInv, [Next]_vars PROVE TypeInv'
  OBVIOUS
<1>0. /\ epoch \in 1..MaxEpochs /\ rows \in Seq(Items) /\ Len(rows) <= MaxRows /\ down \in Seq(Message)
      /\ replica \in ReplicaType /\ {recovery, older, scan} \subseteq {None} \cup Request
      /\ MaxRows \in Nat /\ MaxEpochs \in Nat
  BY Constants DEF TypeInv, TypeOK
<1>. USE DEF server, wire, reads
<1>. DEFINE Typed == /\ epoch' \in 1..MaxEpochs /\ rows' \in Seq(Items) /\ Len(rows') <= MaxRows
                     /\ subscribed' \in BOOLEAN /\ down' \in Seq(Message)
                     /\ status' \in {"disconnected", "catching_up", "ready"}
                     /\ {recovery', older', scan'} \subseteq {None} \cup Request
                     /\ replica' \in ReplicaType
                     /\ drops' \in 0..MaxDrops
<1>a. ASSUME Typed PROVE TypeInv'
  <2>1. \A i \in DOMAIN down' : down'[i].type \in {"stream", "replacement", "subscribed", "page"}
    <3>1. \A i \in DOMAIN down' : down'[i] \in Message
      BY <1>a
    <3>. QED
      BY <3>1 DEF Message
  <2>. QED
    BY <1>a, <2>1 DEF TypeInv, TypeOK
<1>1. CASE AppendRow
  <2>1. PICK item \in Items :
          /\ rows' = Append(rows, item)
          /\ Emit([type |-> "stream", epoch |-> epoch, seq |-> Len(rows) + 1, item |-> item])
    BY <1>1 DEF AppendRow
  <2>2. Len(rows) < MaxRows /\ Len(rows) + 1 \in 1..MaxRows
    BY <1>0, <1>1 DEF AppendRow
  <2>3. rows' \in Seq(Items) /\ Len(rows') <= MaxRows
    BY <1>0, <2>1, <2>2
  <2>4. [type |-> "stream", epoch |-> epoch, seq |-> Len(rows) + 1, item |-> item] \in Message
    BY <1>0, <2>2 DEF Message
  <2>5. down' \in Seq(Message)
    BY <2>1, <2>4, EmitType
  <2>. QED
    BY <1>a, <1>1, <2>3, <2>5 DEF AppendRow, TypeInv, TypeOK
<1>2. CASE ReplaceTimeline
  <2>1. epoch + 1 \in 1..MaxEpochs
    BY <1>0, <1>2 DEF ReplaceTimeline
  <2>2. [type |-> "replacement", epoch |-> epoch + 1] \in Message
    BY <2>1 DEF Message
  <2>3. down' \in Seq(Message)
    BY <1>2, <2>2, EmitType DEF ReplaceTimeline
  <2>4. rows' \in Seq(Items) /\ Len(rows') <= MaxRows
    BY <1>0, <1>2 DEF ReplaceTimeline
  <2>. QED
    BY <1>a, <1>2, <2>1, <2>3, <2>4 DEF ReplaceTimeline, TypeInv, TypeOK
<1>3. CASE Subscribe
  <2>1. [type |-> "subscribed"] \in Message
    BY DEF Message
  <2>2. down' \in Seq(Message)
    BY <1>0, <1>3, <2>1 DEF Subscribe
  <2>. QED
    BY <1>a, <1>3, <2>2 DEF Subscribe, TypeInv, TypeOK
<1>4. CASE ComputeCatchUp
  <2>1. recovery' \in Request
    BY <1>0, <1>4, AnsweredType DEF ComputeCatchUp, TypeInv
  <2>. QED
    BY <1>a, <1>4, <2>1 DEF ComputeCatchUp, TypeInv, TypeOK
<1>5. CASE SendCatchUp
  <2>1. recovery' \in Request
    BY <1>0, <1>5 DEF SendCatchUp, Request
  <2>2. Delivered \in Message
    BY DEF Delivered, Message
  <2>3. down' \in Seq(Message)
    BY <1>0, <1>5, <2>2 DEF SendCatchUp
  <2>. QED
    BY <1>a, <1>5, <2>1, <2>3 DEF SendCatchUp, TypeInv, TypeOK
<1>6. CASE ComputeOlder
  <2>1. older' \in Request
    BY <1>0, <1>6, AnsweredType DEF ComputeOlder, TypeInv
  <2>. QED
    BY <1>a, <1>6, <2>1 DEF ComputeOlder, TypeInv, TypeOK
<1>7. CASE ComputeScan
  <2>1. scan' \in Request
    BY <1>0, <1>7, AnsweredType DEF ComputeScan, TypeInv
  <2>. QED
    BY <1>a, <1>7, <2>1 DEF ComputeScan, TypeInv, TypeOK
<1>8. CASE Connect
  <2>1. recovery' \in {None} \cup Request
    BY <1>0, <1>8, CatchUpType DEF Connect
  <2>. QED
    BY <1>a, <1>8, <2>1 DEF Connect, TypeInv, TypeOK
<1>9. CASE Disconnect
  <2>1. drops' \in 0..MaxDrops /\ <<>> \in Seq(Message)
    BY <1>9, SyncAssumption DEF Disconnect, TypeInv, TypeOK, SyncAssumption
  <2>. QED
    BY <1>a, <1>9, <2>1 DEF Disconnect, TypeInv, TypeOK
<1>10. CASE ReceiveSubscribed
  <2>1. Tail(down) \in Seq(Message)
    BY <1>10, HeadType DEF ReceiveSubscribed
  <2>2. CatchUp(replica) \in Request
    BY <1>0, CatchUpType
  <2>3. down' \in Seq(Message) /\ recovery' \in {None} \cup Request /\ scan' \in {None} \cup Request
        /\ status' \in {"disconnected", "catching_up", "ready"}
    BY <1>10, <2>1, <2>2 DEF ReceiveSubscribed, Fetch, TypeInv, TypeOK
  <2>. QED
    BY <1>a, <1>10, <2>3 DEF ReceiveSubscribed, TypeInv, TypeOK
<1>11. CASE ReceiveStream
  <2>. DEFINE m == [epoch |-> Head(down).epoch, seq |-> Head(down).seq, item |-> Head(down).item]
  <2>1. m \in Row /\ Tail(down) \in Seq(Message)
    BY <1>11, HeadType DEF ReceiveStream
  <2>2. Follow(ReduceLive(replica, m), Tail(down)) /\ UNCHANGED <<server, subscribed, older, drops>>
    BY <1>11 DEF ReceiveStream
  <2>. HIDE DEF m
  <2>3. ReduceLive(replica, m).replica \in ReplicaType
    BY <1>0, <2>1, LiveType
  <2>4. /\ replica' \in ReplicaType /\ down' \in Seq(Message) /\ status' \in {"disconnected", "catching_up", "ready"}
        /\ recovery' \in {None} \cup Request /\ scan' \in {None} \cup Request
    BY <2>1, <2>2, <2>3, FollowType
  <2>. QED
    BY <1>a, <2>2, <2>4 DEF TypeInv, TypeOK
<1>12. CASE ReceiveReplacement
  <2>1. Head(down).epoch \in 1..MaxEpochs /\ WithoutPage(Tail(down)) \in Seq(Message)
    BY <1>12, HeadType DEF ReceiveReplacement
  <2>2. replica' \in ReplicaType
    BY <1>0, <1>12, <2>1, ReplacedType DEF ReceiveReplacement
  <2>3. Ask("tail", 0, 0) \in Request
    BY <1>0, CatchUpType
  <2>. QED
    BY <1>a, <1>12, <2>1, <2>2, <2>3 DEF ReceiveReplacement, Fetch, TypeInv, TypeOK
<1>13. CASE ReceiveCatchUp
  <2>1. PICK rest \in Seq(Message) : ApplyCatchUp(rest)
    BY <1>0, <1>13, HeadType DEF ReceiveCatchUp
  <2>2. /\ replica' \in ReplicaType /\ down' \in Seq(Message) /\ status' \in {"disconnected", "catching_up", "ready"}
        /\ recovery' \in {None} \cup Request /\ scan' \in {None} \cup Request
    BY <1>13, <2>1, ApplyCatchUpType DEF ReceiveCatchUp
  <2>. QED
    BY <1>a, <1>13, <2>2 DEF ReceiveCatchUp, TypeInv, TypeOK
<1>14. CASE AskOlder
  <2>1. FirstStart(replica) \in 0..MaxRows /\ replica.epoch \in 0..MaxEpochs
    <3>1. replica.entries \in Seq(EntryType) /\ replica.epoch \in 0..MaxEpochs
      BY <1>0, ReplicaFields
    <3>2. replica.entries # <<>> => replica.entries[1] \in EntryType
      BY <3>1
    <3>. QED
      BY <3>1, <3>2, EntryFields, Constants DEF FirstStart
  <2>2. older' \in Request
    BY <1>14, <2>1, AskType DEF AskOlder
  <2>. QED
    BY <1>a, <1>14, <2>2 DEF AskOlder, TypeInv, TypeOK
<1>15. CASE ReceiveOlder
  <2>1. older \in Request /\ older.page \in PageType
    BY <1>0, <1>15, RequestFields DEF ReceiveOlder
  <2>2. replica' \in ReplicaType
    BY <1>0, <1>15, <2>1, ApplyType DEF ReceiveOlder
  <2>. QED
    BY <1>a, <1>15, <2>2 DEF ReceiveOlder, TypeInv, TypeOK
<1>16. CASE AskScan
  <2>1. PICK seq \in FirstStart(replica) - 1..replica.next - 1 : scan' = Ask("after", replica.epoch, seq)
    BY <1>16 DEF AskScan
  <2>2. seq \in 0..MaxRows /\ replica.epoch \in 0..MaxEpochs
    <3>1. replica.entries \in Seq(EntryType) /\ replica.epoch \in 0..MaxEpochs /\ replica.next \in 1..MaxRows + 1
      BY <1>0, ReplicaFields
    <3>2. replica.entries # <<>> => replica.entries[1] \in EntryType
      BY <3>1
    <3>3. FirstStart(replica) \in 1..MaxRows + 1
      BY <3>1, <3>2, EntryFields, Constants DEF FirstStart
    <3>. QED
      BY <3>1, <3>3, <1>0
  <2>3. scan' \in Request
    BY <2>1, <2>2, AskType
  <2>. QED
    BY <1>a, <1>16, <2>3 DEF AskScan, TypeInv, TypeOK
<1>17. CASE ReceiveScan
  <2>1. scan \in Request /\ scan.page \in PageType
    BY <1>0, <1>17, RequestFields DEF ReceiveScan
  <2>2. replica' \in ReplicaType
    BY <1>0, <1>17, <2>1, ApplyType DEF ReceiveScan
  <2>3. Ask("after", scan.epoch, scan.page.end) \in Request
    BY <2>1, RequestFields, PageFields, AskType
  <2>4. scan' \in {None} \cup Request
    BY <1>17, <2>3 DEF ReceiveScan
  <2>. QED
    BY <1>a, <1>17, <2>2, <2>4 DEF ReceiveScan, TypeInv, TypeOK
<1>18. CASE UNCHANGED vars
  BY <1>18 DEF TypeInv, TypeOK, vars
<1>. QED
  BY <1>1, <1>2, <1>3, <1>4, <1>5, <1>6, <1>7, <1>8, <1>9, <1>10, <1>11, <1>12, <1>13, <1>14, <1>15, <1>16,
     <1>17, <1>18 DEF Next, Relay, Client, Receive

-----------------------------------------------------------------------------
(* Epochs: what the replica shows and buffers is of its current epoch, and *)
(* nothing of an older one is still on its way to it.                      *)

\* A replica never runs ahead of the Relay; what it has retired lies behind it.
ReplicaEpochs(r, top) ==
    /\ r.epoch <= top
    /\ \A e \in r.retired : e < r.epoch
    /\ \A m \in r.pending : m.epoch = r.epoch
    /\ ShowsOnly(r.epoch, r.entries)
    /\ ~r.initialized => r.entries = <<>>
    /\ r.initialized => r.epoch # 0

\* A page is of the epoch it says, which is the one asked for unless it is a reset.
PageEpochs(rq, top) ==
    rq.page # None =>
        /\ rq.page.epoch <= top
        /\ rq.page.direction = rq.direction
        /\ ShowsOnly(rq.page.epoch, rq.page.entries)
        /\ rq.direction # "tail" /\ ~rq.page.reset => rq.page.epoch = rq.epoch
RequestEpochs(rq, top) == rq # None => rq.epoch <= top /\ PageEpochs(rq, top)

Carries(m) == m.type \in {"stream", "replacement"}

\* The wire carries epochs in their order, none older than the replica's.
WireEpochs(list, low, top) ==
    /\ \A i \in DOMAIN list : Carries(list[i]) =>
          /\ low <= list[i].epoch /\ list[i].epoch <= top
          /\ list[i].type = "replacement" => low < list[i].epoch /\ 1 < list[i].epoch
    /\ \A i, j \in DOMAIN list : i < j /\ Carries(list[i]) /\ Carries(list[j]) =>
          /\ list[i].epoch <= list[j].epoch
          /\ list[j].type = "replacement" => list[i].epoch < list[j].epoch

\* The place of a catch-up page of epoch e among them.
NoPage(list) == \A i \in DOMAIN list : list[i].type # "page"
PageOrder(list, e) ==
    \A i, j \in DOMAIN list : i < j /\ list[i].type = "page" =>
        /\ list[j].type # "page"
        /\ Carries(list[j]) => e <= list[j].epoch
        /\ list[j].type = "replacement" => e < list[j].epoch
Announced(list, e, top) ==
    /\ e < top => \E j \in DOMAIN list : list[j].type = "replacement"
    /\ \A i \in DOMAIN list : Carries(list[i]) /\ e < list[i].epoch =>
          \E j \in 1..i : list[j].type = "replacement"
PagePlaced ==
    /\ recovery # None /\ recovery.page # None =>
          /\ subscribed
          /\ replica.epoch <= recovery.page.epoch
          /\ PageOrder(down, recovery.page.epoch)
          /\ Announced(down, recovery.page.epoch, epoch)
    /\ NoPage(down) \/ (Recovery = "websocket" /\ recovery # None /\ recovery.page # None /\ recovery.sent)

Kinds ==
    /\ recovery # None => recovery.direction \in {"tail", "after"}
    /\ older # None => older.direction = "before"
    /\ scan # None => scan.direction = "after"
    /\ status = "disconnected" => ~subscribed /\ down = <<>> /\ recovery = None

EpochInv ==
    /\ ReplicaEpochs(replica, epoch)
    /\ \A rq \in {recovery, older, scan} : RequestEpochs(rq, epoch)
    /\ WireEpochs(down, replica.epoch, epoch)
    /\ PagePlaced
    /\ Kinds

\* The reductions keep to the epoch.
LEMMA EmptyEpochs ==
    ASSUME NEW e \in 1..MaxEpochs, NEW retired, NEW top \in Int, e <= top, \A x \in retired : x < e
    PROVE  ReplicaEpochs(EmptyReplica(e, retired), top)
BY DEF EmptyReplica, ReplicaEpochs, ShowsOnly, ToSet

LEMMA ReplacedEpochs ==
    ASSUME NEW r \in ReplicaType, NEW e \in 1..MaxEpochs, NEW top \in Int,
           ReplicaEpochs(r, top), r.epoch <= e, e <= top
    PROVE  /\ ReplicaEpochs(Replaced(r, e), top)
           /\ Replaced(r, e).epoch = e /\ ~Replaced(r, e).initialized
<1>0. r.epoch \in 0..MaxEpochs /\ r.retired \in SUBSET (1..MaxEpochs) /\ MaxEpochs \in Nat /\ r.initialized \in BOOLEAN
  BY ReplicaFields, Constants
<1>1. \A x \in r.retired \cup ({r.epoch} \ {0, e}) : x < e
  BY <1>0 DEF ReplicaEpochs
<1>2. ReplicaEpochs(EmptyReplica(e, r.retired \cup ({r.epoch} \ {0, e})), top)
  BY <1>1, EmptyEpochs
<1>3. /\ EmptyReplica(e, r.retired \cup ({r.epoch} \ {0, e})).epoch = e
      /\ ~EmptyReplica(e, r.retired \cup ({r.epoch} \ {0, e})).initialized
  BY DEF EmptyReplica
<1>4. CASE r.epoch = e /\ ~r.initialized
  BY <1>4 DEF Replaced
<1>5. CASE ~(r.epoch = e /\ ~r.initialized)
  BY <1>2, <1>3, <1>5 DEF Replaced
<1>. QED
  BY <1>4, <1>5

LEMMA BufferedEpochs ==
    ASSUME NEW r \in ReplicaType, NEW m \in Row, NEW top \in Int, ReplicaEpochs(r, top), m.epoch = r.epoch
    PROVE  ReplicaEpochs(Buffered(r, m), top) /\ Buffered(r, m).epoch = r.epoch
<1>1. /\ Buffered(r, m).epoch = r.epoch /\ Buffered(r, m).retired = r.retired
      /\ Buffered(r, m).entries = r.entries /\ Buffered(r, m).initialized = r.initialized
      /\ Buffered(r, m).pending = r.pending \cup {m}
  BY DEF Buffered, ReplicaType
<1>. HIDE DEF Buffered
<1>. QED
  BY <1>1 DEF ReplicaEpochs

LEMMA AppendedIs ==
    ASSUME NEW r \in ReplicaType, NEW m \in Row
    PROVE  /\ Appended(r, m) \in ReplicaType
           /\ Appended(r, m).epoch = r.epoch /\ Appended(r, m).retired = r.retired
           /\ Appended(r, m).initialized = r.initialized /\ Appended(r, m).hasOlder = r.hasOlder
           /\ Appended(r, m).entries = Coalesced(r.entries, m)
           /\ Appended(r, m).next = m.seq + 1
           /\ Appended(r, m).pending = {p \in r.pending : p.seq # m.seq}
<1>1. Appended(r, m) \in ReplicaType
  BY AppendedType
<1>. DEFINE entries == Coalesced(r.entries, m)
            pending == {p \in r.pending : p.seq # m.seq}
<1>2. Appended(r, m) = [r EXCEPT !.entries = entries, !.next = m.seq + 1, !.pending = pending]
  BY DEF Appended
<1>. HIDE DEF entries, pending
<1>3. /\ Appended(r, m).epoch = r.epoch /\ Appended(r, m).retired = r.retired
      /\ Appended(r, m).initialized = r.initialized /\ Appended(r, m).hasOlder = r.hasOlder
      /\ Appended(r, m).entries = entries
      /\ Appended(r, m).next = m.seq + 1
      /\ Appended(r, m).pending = pending
  BY <1>2 DEF ReplicaType
<1>. QED
  BY <1>1, <1>3 DEF entries, pending

LEMMA AppendedEpochs ==
    ASSUME NEW r \in ReplicaType, NEW m \in Row, NEW top \in Int,
           ReplicaEpochs(r, top), m.epoch = r.epoch, r.initialized
    PROVE  ReplicaEpochs(Appended(r, m), top)
<1>1. r.entries \in Seq(EntryType) /\ m.epoch \in 1..MaxEpochs
  BY ReplicaFields DEF Row
<1>2. ShowsOnly(r.epoch, Coalesced(r.entries, m))
  BY <1>1, CoalescedShows DEF ReplicaEpochs
<1>3. \A p \in Appended(r, m).pending : p \in r.pending
  BY AppendedIs
<1>. QED
  BY <1>2, <1>3, AppendedIs DEF ReplicaEpochs

LEMMA LiveEpochs ==
    ASSUME NEW r \in ReplicaType, NEW m \in Row, NEW top \in Int,
           ReplicaEpochs(r, top), r.epoch <= m.epoch, m.epoch <= top
    PROVE  /\ ReplicaEpochs(ReduceLive(r, m).replica, top)
           /\ ReduceLive(r, m).replica.epoch = m.epoch
           /\ ReduceLive(r, m).status \in {"applied", "buffered", "duplicate", "gap", "epoch_changed"}
           /\ ReduceLive(r, m).status # "epoch_changed" => r.epoch \in {0, m.epoch}
           /\ ReduceLive(r, m).status \notin {"epoch_changed", "buffered"} => r.epoch = m.epoch
<1>0. r.epoch \in 0..MaxEpochs /\ m.epoch \in 1..MaxEpochs /\ r.retired \in SUBSET (1..MaxEpochs) /\ r.initialized \in BOOLEAN
  BY ReplicaFields DEF Row
<1>1. m.epoch \notin r.retired
  BY <1>0 DEF ReplicaEpochs
<1>2. CASE r.epoch \notin {0, m.epoch}
  <2>1. ReduceLive(r, m) = Reduced("epoch_changed", Buffered(Replaced(r, m.epoch), m))
    BY <1>1, <1>2 DEF ReduceLive
  <2>2. ReplicaEpochs(Replaced(r, m.epoch), top) /\ Replaced(r, m.epoch).epoch = m.epoch /\ Replaced(r, m.epoch) \in ReplicaType
    BY <1>0, ReplacedEpochs, ReplacedType
  <2>3. ReplicaEpochs(Buffered(Replaced(r, m.epoch), m), top) /\ Buffered(Replaced(r, m.epoch), m).epoch = m.epoch
    BY <2>2, BufferedEpochs
  <2>. QED
    BY <1>2, <2>1, <2>3 DEF Reduced
<1>3. CASE r.epoch \in {0, m.epoch} /\ ~r.initialized
  <2>. DEFINE s == [r EXCEPT !.epoch = m.epoch]
  <2>1. ReduceLive(r, m) = Reduced("buffered", Buffered(s, m))
    BY <1>1, <1>3 DEF ReduceLive
  <2>2. /\ s \in ReplicaType /\ s.epoch = m.epoch /\ s.retired = r.retired
        /\ s.entries = r.entries /\ s.initialized = r.initialized /\ s.pending = r.pending
    BY <1>0 DEF ReplicaType
  <2>. HIDE DEF s
  <2>3. r.epoch = 0 => r.pending = {}
    <3>1. \A p \in r.pending : p.epoch \in 1..MaxEpochs
      BY ReplicaFields DEF Row
    <3>. QED
      BY <3>1 DEF ReplicaEpochs
  <2>4. ShowsOnly(s.epoch, s.entries)
    BY <1>3, <2>2 DEF ReplicaEpochs, ShowsOnly, ToSet
  <2>5. ReplicaEpochs(s, top)
    BY <1>0, <1>3, <2>2, <2>3, <2>4 DEF ReplicaEpochs
  <2>6. ReplicaEpochs(Buffered(s, m), top) /\ Buffered(s, m).epoch = m.epoch
    BY <2>2, <2>5, BufferedEpochs
  <2>. QED
    BY <1>3, <2>1, <2>6 DEF Reduced
<1>4. CASE r.epoch \in {0, m.epoch} /\ r.initialized
  <2>1. r.epoch = m.epoch
    BY <1>0, <1>4 DEF ReplicaEpochs
  <2>2. /\ ReplicaEpochs(Buffered(r, m), top) /\ Buffered(r, m).epoch = m.epoch
        /\ ReplicaEpochs(Appended(r, m), top) /\ Appended(r, m).epoch = m.epoch
    BY <1>4, <2>1, BufferedEpochs, AppendedEpochs, AppendedIs
  <2>3. \/ ReduceLive(r, m) = Reduced("duplicate", r)
        \/ ReduceLive(r, m) = Reduced("gap", Buffered(r, m))
        \/ ReduceLive(r, m) = Reduced("applied", Appended(r, m))
    BY <1>1, <1>4, <2>1 DEF ReduceLive
  <2>. QED
    BY <2>1, <2>2, <2>3 DEF Reduced
<1>. QED
  BY <1>2, <1>3, <1>4

LEMMA DrainedEpochs ==
    ASSUME NEW r \in ReplicaType, NEW top \in Int, ReplicaEpochs(r, top), r.initialized
    PROVE  ReplicaEpochs(Drained(r).replica, top) /\ Drained(r).replica.epoch = r.epoch
<1>1. PICK reach, applied : DrainedBy(r, reach, applied, Drained(r))
  BY DrainedSteps
<1>. DEFINE a == r.next - 1
            P == {s \in a..reach : /\ ReplicaEpochs(applied[s], top) /\ applied[s].epoch = r.epoch
                                   /\ applied[s].initialized}
<1>2. a \in Int /\ reach \in Int /\ a + 1 = r.next /\ a \in a..reach /\ reach \in a..reach
  BY <1>1, ReplicaFields, Constants DEF DrainedBy
<1>3. a \in P
  BY <1>1, <1>2 DEF DrainedBy
<1>4. ASSUME NEW s \in a..reach - 1, s \in P PROVE s + 1 \in P
  <2>1. s \in a..reach /\ s + 1 \in r.next..reach /\ (s + 1) - 1 = s /\ s + 1 \in a..reach
    BY <1>2
  <2>2. applied[s] \in ReplicaType /\ ReplicaEpochs(applied[s], top) /\ applied[s].epoch = r.epoch /\ applied[s].initialized
    BY <1>1, <1>4, <2>1 DEF DrainedBy
  <2>3. PICK m \in r.pending : m.seq = s + 1 /\ applied[s + 1] = Appended(applied[s], m)
    BY <1>1, <2>1 DEF DrainedBy
  <2>4. m \in Row /\ m.epoch = r.epoch
    BY ReplicaFields DEF ReplicaEpochs
  <2>5. ReplicaEpochs(applied[s + 1], top) /\ applied[s + 1].epoch = r.epoch /\ applied[s + 1].initialized
    BY <2>2, <2>3, <2>4, AppendedEpochs, AppendedIs
  <2>. QED
    BY <2>1, <2>5
<1>5. a..reach \subseteq P
  <2>. HIDE DEF P, a
  <2>. QED
    BY <1>2, <1>3, <1>4, IntervalInduction
<1>6. applied[reach] \in ReplicaType /\ ReplicaEpochs(applied[reach], top) /\ applied[reach].epoch = r.epoch /\ applied[reach].initialized
  BY <1>1, <1>2, <1>5 DEF DrainedBy
<1>. DEFINE left == {m \in r.pending : m.seq > reach}
            d == [applied[reach] EXCEPT !.pending = left]
<1>7. Drained(r).replica = d
  BY <1>1 DEF DrainedBy
<1>8. /\ d.epoch = applied[reach].epoch /\ d.retired = applied[reach].retired
      /\ d.entries = applied[reach].entries /\ d.initialized = applied[reach].initialized /\ d.pending = left
  BY <1>6 DEF ReplicaType
<1>9. \A m \in left : m.epoch = r.epoch
  BY DEF ReplicaEpochs
<1>. HIDE DEF d, left
<1>10. ReplicaEpochs(d, top)
  BY <1>6, <1>8, <1>9 DEF ReplicaEpochs
<1>. QED
  BY <1>6, <1>7, <1>8, <1>10

LEMMA WithPageEpochs ==
    ASSUME NEW r \in ReplicaType, NEW page \in PageType, NEW preserveLive \in BOOLEAN, NEW top \in Int,
           ReplicaEpochs(r, top), ShowsOnly(page.epoch, page.entries), page.epoch <= top,
           r.epoch \in {0, page.epoch}
    PROVE  ReplicaEpochs(WithPage(r, page, preserveLive), top)
<1>. DEFINE w == WithPage(r, page, preserveLive)
            e == page.epoch
<1>0. e \in 1..MaxEpochs /\ r.epoch \in 0..MaxEpochs /\ page.entries \in Seq(EntryType) /\ r.initialized \in BOOLEAN
  BY PageFields, ReplicaFields
<1>1. ShowsOnly(e, Base(r, page))
  BY DEF Base, ShowsOnly, ToSet, ReplicaEpochs
<1>2. ShowsOnly(e, Incoming(r, page, preserveLive))
  <2>1. ToSet(Incoming(r, page, preserveLive)) \subseteq ToSet(page.entries)
    BY <1>0, OnlySet DEF Incoming
  <2>. QED
    BY <2>1, PartShows
<1>3. ShowsOnly(e, Merged(Base(r, page), Incoming(r, page, preserveLive)))
  <2>1. Base(r, page) \in Seq(EntryType) /\ Incoming(r, page, preserveLive) \in Seq(EntryType)
    BY PartsType
  <2>2. ToSet(Merged(Base(r, page), Incoming(r, page, preserveLive)))
            \subseteq ToSet(Base(r, page)) \cup ToSet(Incoming(r, page, preserveLive))
    BY <2>1, MergedSet
  <2>. QED
    BY <1>1, <1>2, <2>2 DEF ShowsOnly
<1>4. /\ w.epoch = e /\ w.initialized = TRUE /\ w.retired = r.retired
      /\ w.entries = Merged(Base(r, page), Incoming(r, page, preserveLive))
      /\ w.pending = Pertinent(r, page)
  <2>1. r \in ReplicaType /\ page \in PageType /\ preserveLive \in BOOLEAN
    OBVIOUS
  <2>. QED
    BY ONLY <2>1, WithPageIs
<1>5. \A x \in r.retired : x < e
  <2>1. \A x \in r.retired : x \in 1..MaxEpochs
    BY ReplicaFields
  <2>. QED
    BY <1>0, <2>1 DEF ReplicaEpochs
<1>. HIDE DEF w
<1>6. ReplicaEpochs(w, top)
  BY <1>0, <1>3, <1>4, <1>5 DEF ReplicaEpochs, Pertinent
<1>. QED
  BY <1>6 DEF w

\* What an applied page leaves.
LEMMA ApplyEpochs ==
    ASSUME NEW r \in ReplicaType, NEW page \in PageType, NEW preserveLive \in BOOLEAN, NEW top \in Int,
           ReplicaEpochs(r, top), ShowsOnly(page.epoch, page.entries), page.epoch <= top,
           r.epoch <= page.epoch
    PROVE  /\ ReplicaEpochs(ApplyPage(r, page, preserveLive).replica, top)
           /\ ApplyPage(r, page, preserveLive).replica.epoch = page.epoch
<1>. DEFINE changed == r.epoch \notin {0, page.epoch}
            base == IF changed THEN Replaced(r, page.epoch) ELSE r
<1>0. page.epoch \in 1..MaxEpochs /\ r.epoch \in 0..MaxEpochs /\ r.retired \in SUBSET (1..MaxEpochs)
  BY PageFields, ReplicaFields
<1>1. page.epoch \notin r.retired
  BY <1>0 DEF ReplicaEpochs
<1>2. /\ ReplicaEpochs(Replaced(r, page.epoch), top) /\ Replaced(r, page.epoch).epoch = page.epoch
      /\ Replaced(r, page.epoch) \in ReplicaType
  BY <1>0, ReplacedEpochs, ReplacedType
<1>3. base \in ReplicaType /\ ReplicaEpochs(base, top) /\ base.epoch \in {0, page.epoch}
  BY <1>2
<1>. HIDE DEF base
<1>4. ReplicaEpochs(WithPage(base, page, preserveLive), top)
  BY <1>3, WithPageEpochs
<1>. DEFINE w == WithPage(base, page, preserveLive)
<1>5. w \in ReplicaType /\ w.epoch = page.epoch /\ w.initialized
  <2>0. base \in ReplicaType
    BY <1>3
  <2>1. w \in ReplicaType
    BY <2>0, WithPageIs
  <2>2. w.epoch = page.epoch
    BY <2>0, WithPageIs
  <2>3. w.initialized = TRUE
    BY <2>0, WithPageIs
  <2>. HIDE DEF w
  <2>. QED
    BY <2>1, <2>2, <2>3
<1>6. /\ ReplicaEpochs(Drained(WithPage(base, page, preserveLive)).replica, top)
      /\ Drained(WithPage(base, page, preserveLive)).replica.epoch = page.epoch
  BY <1>4, <1>5, DrainedEpochs
<1>7. ApplyPage(r, page, preserveLive) =
        IF page.reset \/ page.gap THEN Reduced("reset_required", Replaced(r, page.epoch))
        ELSE IF changed /\ page.epoch \in r.retired THEN Reduced("stale_epoch", r)
        ELSE IF changed /\ page.direction # "tail" THEN Reduced("epoch_changed", Replaced(r, page.epoch))
        ELSE Drained(WithPage(base, page, preserveLive))
  BY DEF ApplyPage, base
<1>. QED
  BY <1>1, <1>2, <1>6, <1>7 DEF Reduced

\* The wire, when a message is taken from it, put on it or removed.
LEMMA MessageFields ==
    ASSUME NEW m \in Message
    PROVE  /\ m.type \in {"stream", "replacement", "subscribed", "page"}
           /\ Carries(m) => m.epoch \in 1..MaxEpochs
           /\ m.type = "stream" => m.seq \in 1..MaxRows /\ m.item \in Items
           /\ m.type = "page" => m = Delivered
<1>1. m.type = "page" => m = Delivered
  <2>. SUFFICES ASSUME m.type = "page" PROVE m = Delivered
    OBVIOUS
  <2>1. m \in [type : {"subscribed", "page"}]
    BY DEF Message
  <2>. QED
    BY <2>1 DEF Delivered
<1>. QED
  BY <1>1 DEF Message, Carries

LEMMA TailIs ==
    ASSUME NEW D, NEW list \in Seq(D), list # <<>>
    PROVE  /\ Tail(list) \in Seq(D) /\ Len(Tail(list)) = Len(list) - 1 /\ Len(list) \in Nat \ {0}
           /\ DOMAIN list = 1..Len(list) /\ DOMAIN Tail(list) = 1..Len(list) - 1
           /\ \A i \in 1..Len(list) - 1 : Tail(list)[i] = list[i + 1]
           /\ Head(list) = list[1]
OBVIOUS

LEMMA AppendIs ==
    ASSUME NEW D, NEW list \in Seq(D), NEW m \in D
    PROVE  /\ Append(list, m) \in Seq(D) /\ Len(list) \in Nat
           /\ DOMAIN list = 1..Len(list) /\ DOMAIN Append(list, m) = 1..Len(list) + 1
           /\ \A i \in 1..Len(list) : Append(list, m)[i] = list[i]
           /\ Append(list, m)[Len(list) + 1] = m
OBVIOUS

LEMMA WireTail ==
    ASSUME NEW list \in Seq(Message), list # <<>>, NEW low \in Int, NEW top \in Int, WireEpochs(list, low, top)
    PROVE  /\ WireEpochs(Tail(list), low, top)
           /\ Carries(Head(list)) => WireEpochs(Tail(list), Head(list).epoch, top)
<1>. DEFINE n == Len(list)
            rest == Tail(list)
<1>1. /\ rest \in Seq(Message) /\ n \in Nat \ {0} /\ DOMAIN list = 1..n /\ DOMAIN rest = 1..n - 1
      /\ \A i \in 1..n - 1 : rest[i] = list[i + 1]
      /\ Head(list) = list[1]
  BY TailIs
<1>2. \A i \in 1..n - 1 : i + 1 \in 1..n /\ 1 \in 1..n /\ 1 < i + 1
  BY <1>1
<1>. HIDE DEF rest, n
<1>3. \A i \in 1..n - 1, j \in 1..n - 1 : i < j => i + 1 < j + 1
  BY <1>1
<1>4. WireEpochs(rest, low, top)
  <2>1. ASSUME NEW i \in 1..n - 1, Carries(rest[i])
        PROVE  /\ low <= rest[i].epoch /\ rest[i].epoch <= top
               /\ rest[i].type = "replacement" => low < rest[i].epoch /\ 1 < rest[i].epoch
    <3>1. i + 1 \in DOMAIN list /\ Carries(list[i + 1]) /\ rest[i] = list[i + 1]
      BY <1>1, <1>2, <2>1
    <3>. QED
      BY <3>1 DEF WireEpochs
  <2>2. ASSUME NEW i \in 1..n - 1, NEW j \in 1..n - 1, i < j, Carries(rest[i]), Carries(rest[j])
        PROVE  /\ rest[i].epoch <= rest[j].epoch
               /\ rest[j].type = "replacement" => rest[i].epoch < rest[j].epoch
    <3>1. /\ i + 1 \in DOMAIN list /\ Carries(list[i + 1]) /\ rest[i] = list[i + 1]
          /\ j + 1 \in DOMAIN list /\ Carries(list[j + 1]) /\ rest[j] = list[j + 1]
          /\ i + 1 < j + 1
      BY <1>1, <1>2, <1>3, <2>2
    <3>. QED
      BY <3>1 DEF WireEpochs
  <2>. QED
    BY <1>1, <2>1, <2>2 DEF WireEpochs
<1>5. ASSUME Carries(list[1]) PROVE WireEpochs(rest, list[1].epoch, top)
  <2>1. \A i \in 1..n - 1 : Carries(rest[i]) =>
            /\ list[1].epoch <= rest[i].epoch
            /\ rest[i].type = "replacement" => list[1].epoch < rest[i].epoch
    BY <1>1, <1>2, <1>5 DEF WireEpochs
  <2>. QED
    BY <1>1, <1>4, <2>1 DEF WireEpochs
<1>. QED
  BY <1>1, <1>4, <1>5 DEF rest

LEMMA WireOnly ==
    ASSUME NEW list \in Seq(Message), NEW low, NEW top, WireEpochs(list, low, top)
    PROVE  /\ WireEpochs(WithoutPage(list), low, top)
           /\ NoPage(WithoutPage(list))
<1>. DEFINE rest == WithoutPage(list)
            S == ToSet(list) \ {Delivered}
<1>1. PICK h :
                 /\ \A i \in 1..Len(Only(list, S)) : h[i] \in 1..Len(list) /\ Only(list, S)[i] = list[h[i]] /\ list[h[i]] \in S
                 /\ \A i, j \in 1..Len(Only(list, S)) : i < j => h[i] < h[j]
  BY OnlyIs
<1>2. rest = Only(list, S) /\ rest \in Seq(Message)
  BY WithoutPageType DEF WithoutPage
<1>. HIDE DEF rest, S
<1>3. DOMAIN rest = 1..Len(rest) /\ DOMAIN list = 1..Len(list)
  BY <1>2
<1>4. /\ \A i \in DOMAIN rest : h[i] \in DOMAIN list /\ rest[i] = list[h[i]]
      /\ \A i, j \in DOMAIN rest : i < j => h[i] < h[j]
  BY <1>1, <1>2, <1>3
<1>5. WireEpochs(rest, low, top)
  BY <1>4 DEF WireEpochs
<1>6. ASSUME NEW i \in DOMAIN rest PROVE rest[i].type # "page"
  <2>0. rest[i] \in S
    BY <1>1, <1>2, <1>3, <1>6
  <2>1. rest[i] \in Message /\ rest[i] # Delivered
    BY <1>2, <1>3, <1>6, <2>0 DEF S
  <2>. QED
    BY <2>1, MessageFields
<1>. QED
  BY <1>5, <1>6 DEF NoPage, rest

LEMMA WireAppend ==
    ASSUME NEW list \in Seq(Message), NEW low \in Int, NEW top \in Int, WireEpochs(list, low, top),
           NEW m \in Message, NEW next \in Int, top <= next,
           Carries(m) => /\ low <= m.epoch /\ top <= m.epoch /\ m.epoch <= next
                         /\ m.type = "replacement" => low < m.epoch /\ 1 < m.epoch /\ top < m.epoch
    PROVE  WireEpochs(Append(list, m), low, next)
<1>. DEFINE n == Len(list)
            new == Append(list, m)
<1>1. /\ n \in Nat /\ DOMAIN list = 1..n /\ DOMAIN new = 1..n + 1
      /\ \A i \in 1..n : new[i] = list[i]
      /\ new[n + 1] = m
  BY AppendIs
<1>2. \A i \in 1..n : list[i] \in Message
  OBVIOUS
<1>. HIDE DEF new, n
<1>3. \A i \in 1..n : Carries(list[i]) =>
          list[i].epoch \in Int /\ list[i].epoch <= top /\ low <= list[i].epoch /\
          (list[i].type = "replacement" => low < list[i].epoch /\ 1 < list[i].epoch)
  BY <1>1, <1>2, MessageFields DEF WireEpochs
<1>4. Carries(m) => m.epoch \in Int
  BY MessageFields
<1>5. ASSUME NEW i \in 1..n + 1, Carries(new[i])
      PROVE  /\ low <= new[i].epoch /\ new[i].epoch <= next
             /\ new[i].type = "replacement" => low < new[i].epoch /\ 1 < new[i].epoch
  <2>1. CASE i = n + 1
    BY <1>1, <1>5, <2>1
  <2>2. CASE i \in 1..n
    BY <1>1, <1>3, <1>5, <2>2
  <2>. QED
    BY <1>1, <2>1, <2>2
<1>6. ASSUME NEW i \in 1..n + 1, NEW j \in 1..n + 1, i < j, Carries(new[i]), Carries(new[j])
      PROVE  /\ new[i].epoch <= new[j].epoch
             /\ new[j].type = "replacement" => new[i].epoch < new[j].epoch
  <2>0. i \in 1..n
    BY <1>1, <1>6
  <2>1. CASE j = n + 1
    BY <1>1, <1>3, <1>4, <1>6, <2>0, <2>1
  <2>2. CASE j \in 1..n
    BY <1>1, <1>6, <2>0, <2>2 DEF WireEpochs
  <2>. QED
    BY <1>1, <2>1, <2>2
<1>. QED
  BY <1>1, <1>5, <1>6 DEF WireEpochs, new

LEMMA PageTail ==
    ASSUME NEW list \in Seq(Message), list # <<>>, NEW e \in Int, NEW low \in Int, NEW top \in Int
    PROVE  /\ NoPage(list) => NoPage(Tail(list))
           /\ PageOrder(list, e) => PageOrder(Tail(list), e)
           /\ PageOrder(list, e) /\ Head(list).type = "page" => NoPage(Tail(list))
           /\ PageOrder(list, e) /\ Head(list).type = "page" /\ WireEpochs(list, low, top) => WireEpochs(Tail(list), e, top)
           /\ Announced(list, e, top) /\ Head(list).type # "replacement" => Announced(Tail(list), e, top)
<1>. DEFINE n == Len(list)
            rest == Tail(list)
<1>1. /\ rest \in Seq(Message) /\ n \in Nat \ {0} /\ DOMAIN list = 1..n /\ DOMAIN rest = 1..n - 1
      /\ \A i \in 1..n - 1 : rest[i] = list[i + 1]
      /\ Head(list) = list[1]
  BY TailIs
<1>. HIDE DEF rest, n
<1>2. \A i \in 1..n - 1 : i + 1 \in 1..n /\ 1 \in 1..n /\ 1 < i + 1
  BY <1>1
<1>3. \A i \in 1..n - 1, j \in 1..n - 1 : i < j => i + 1 < j + 1
  BY <1>1
<1>4. NoPage(list) => NoPage(rest)
  BY <1>1, <1>2 DEF NoPage
<1>5. ASSUME PageOrder(list, e) PROVE PageOrder(rest, e)
  <2>1. ASSUME NEW i \in 1..n - 1, NEW j \in 1..n - 1, i < j, rest[i].type = "page"
        PROVE  /\ rest[j].type # "page"
               /\ Carries(rest[j]) => e <= rest[j].epoch
               /\ rest[j].type = "replacement" => e < rest[j].epoch
    <3>1. /\ i + 1 \in DOMAIN list /\ rest[i] = list[i + 1]
          /\ j + 1 \in DOMAIN list /\ rest[j] = list[j + 1]
          /\ i + 1 < j + 1
      BY <1>1, <1>2, <1>3, <2>1
    <3>. QED
      BY <1>5, <2>1, <3>1 DEF PageOrder
  <2>. QED
    BY <1>1, <2>1 DEF PageOrder
<1>6. PageOrder(list, e) /\ Head(list).type = "page" => NoPage(rest)
  BY <1>1, <1>2 DEF PageOrder, NoPage
<1>7. ASSUME PageOrder(list, e), Head(list).type = "page", WireEpochs(list, low, top) PROVE WireEpochs(rest, e, top)
  <2>1. WireEpochs(rest, low, top)
    BY <1>7, WireTail DEF rest
  <2>2. \A i \in 1..n - 1 : /\ Carries(rest[i]) => e <= rest[i].epoch
                            /\ rest[i].type = "replacement" => e < rest[i].epoch
    BY <1>1, <1>2, <1>7 DEF PageOrder
  <2>3. ASSUME NEW i \in DOMAIN rest, Carries(rest[i])
        PROVE  /\ e <= rest[i].epoch /\ rest[i].epoch <= top
               /\ rest[i].type = "replacement" => e < rest[i].epoch /\ 1 < rest[i].epoch
    <3>1. rest[i].epoch <= top /\ (rest[i].type = "replacement" => 1 < rest[i].epoch)
      BY <2>1, <2>3 DEF WireEpochs
    <3>2. i \in 1..n - 1
      BY <1>1
    <3>3. e <= rest[i].epoch /\ (rest[i].type = "replacement" => e < rest[i].epoch)
      BY <2>2, <2>3, <3>2
    <3>. QED
      BY <3>1, <3>3
  <2>4. \A i, j \in DOMAIN rest : i < j /\ Carries(rest[i]) /\ Carries(rest[j]) =>
            /\ rest[i].epoch <= rest[j].epoch
            /\ rest[j].type = "replacement" => rest[i].epoch < rest[j].epoch
    BY <2>1 DEF WireEpochs
  <2>. QED
    BY Zenon, <2>3, <2>4 DEF WireEpochs
<1>8. ASSUME Announced(list, e, top), Head(list).type # "replacement" PROVE Announced(rest, e, top)
  <2>0. \A j \in 1..n : list[j].type = "replacement" => j - 1 \in 1..n - 1 /\ rest[j - 1].type = "replacement"
    <3>. TAKE j \in 1..n
    <3>. HAVE list[j].type = "replacement"
    <3>1. j # 1
      BY <1>1, <1>8
    <3>2. j - 1 \in 1..n - 1 /\ (j - 1) + 1 = j
      BY <1>1, <3>1
    <3>. QED
      BY <1>1, <3>2
  <2>1. e < top => \E j \in DOMAIN rest : rest[j].type = "replacement"
    BY <1>1, <1>8, <2>0 DEF Announced
  <2>2. ASSUME NEW i \in DOMAIN rest, Carries(rest[i]), e < rest[i].epoch
        PROVE  \E j \in 1..i : rest[j].type = "replacement"
    <3>1. i \in 1..n - 1 /\ i + 1 \in 1..n /\ rest[i] = list[i + 1]
      BY <1>1, <1>2, <2>2
    <3>2. PICK j \in 1..i + 1 : list[j].type = "replacement"
      BY <1>1, <1>8, <2>2, <3>1 DEF Announced
    <3>3. j \in 1..n
      BY <1>1, <3>1
    <3>4. j - 1 \in 1..n - 1 /\ rest[j - 1].type = "replacement"
      BY <2>0, <3>2, <3>3
    <3>5. j - 1 \in 1..i
      BY <3>1, <3>4
    <3>. QED
      BY <3>4, <3>5
  <2>. QED
    BY <2>1, <2>2 DEF Announced
<1>. QED
  BY <1>4, <1>5, <1>6, <1>7, <1>8 DEF rest

LEMMA PageAppend ==
    ASSUME NEW list \in Seq(Message), NEW m \in Message, NEW e \in Int, NEW top \in Int, NEW next \in Int
    PROVE  /\ NoPage(list) /\ m.type # "page" => NoPage(Append(list, m))
           /\ NoPage(list) => PageOrder(Append(list, m), e)
           /\ PageOrder(list, e) /\ m.type # "page" /\ (Carries(m) => e <= m.epoch)
                 /\ (m.type = "replacement" => e < m.epoch) => PageOrder(Append(list, m), e)
           /\ Announced(list, e, top) /\ (~Carries(m) \/ m.epoch = top) => Announced(Append(list, m), e, top)
           /\ Announced(list, e, top) /\ m.type = "replacement" => Announced(Append(list, m), e, next)
<1>. DEFINE n == Len(list)
            new == Append(list, m)
<1>1. /\ n \in Nat /\ DOMAIN list = 1..n /\ DOMAIN new = 1..n + 1
      /\ \A i \in 1..n : new[i] = list[i]
      /\ new[n + 1] = m
  BY AppendIs
<1>. HIDE DEF new, n
<1>2. \A i \in 1..n + 1 : i = n + 1 \/ i \in 1..n
  BY <1>1
<1>3. \A i, j \in 1..n + 1 : i < j => i \in 1..n
  BY <1>1
<1>4. NoPage(list) /\ m.type # "page" => NoPage(new)
  BY <1>1, <1>2 DEF NoPage
<1>5. NoPage(list) => PageOrder(new, e)
  BY <1>1, <1>3 DEF NoPage, PageOrder
<1>6. PageOrder(list, e) /\ m.type # "page" /\ (Carries(m) => e <= m.epoch)
                 /\ (m.type = "replacement" => e < m.epoch) => PageOrder(new, e)
  BY <1>1, <1>2, <1>3 DEF PageOrder
<1>7. ASSUME Announced(list, e, top), NEW i \in DOMAIN list, Carries(list[i]), e < list[i].epoch
      PROVE  \E j \in 1..i : new[j].type = "replacement"
  <2>1. PICK j \in 1..i : list[j].type = "replacement"
    BY <1>7 DEF Announced
  <2>2. j \in 1..n
    BY <1>1, <1>7
  <2>. QED
    BY <1>1, <2>1, <2>2
<1>8. \A j \in 1..n : j \in 1..n + 1
  BY <1>1
<1>9. ASSUME Announced(list, e, top), ~Carries(m) \/ m.epoch = top PROVE Announced(new, e, top)
  <2>1. e < top => \E j \in DOMAIN new : new[j].type = "replacement"
    BY <1>1, <1>8, <1>9 DEF Announced
  <2>2. ASSUME NEW i \in DOMAIN new, Carries(new[i]), e < new[i].epoch
        PROVE  \E j \in 1..i : new[j].type = "replacement"
    <3>1. CASE i \in 1..n
      <4>1. i \in DOMAIN list /\ Carries(list[i]) /\ e < list[i].epoch
        BY <1>1, <2>2, <3>1
      <4>. QED
        BY <4>1, <1>7, <1>9
    <3>2. CASE i = n + 1
      <4>1. e < top
        BY <1>1, <1>9, <2>2, <3>2
      <4>2. PICK j \in DOMAIN list : list[j].type = "replacement"
        BY <1>9, <4>1 DEF Announced
      <4>3. j \in 1..i /\ new[j] = list[j]
        BY <1>1, <1>8, <3>2, <4>2
      <4>. QED
        BY <4>2, <4>3
    <3>. QED
      BY <1>1, <1>2, <2>2, <3>1, <3>2
  <2>. QED
    BY <2>1, <2>2 DEF Announced
<1>10. ASSUME Announced(list, e, top), m.type = "replacement" PROVE Announced(new, e, next)
  <2>1. \E j \in DOMAIN new : new[j].type = "replacement"
    <3>1. n + 1 \in DOMAIN new
      BY <1>1
    <3>. QED
      BY <1>1, <1>10, <3>1
  <2>2. ASSUME NEW i \in DOMAIN new, Carries(new[i]), e < new[i].epoch
        PROVE  \E j \in 1..i : new[j].type = "replacement"
    <3>1. CASE i \in 1..n
      <4>1. i \in DOMAIN list /\ Carries(list[i]) /\ e < list[i].epoch
        BY <1>1, <2>2, <3>1
      <4>. QED
        BY <4>1, <1>7, <1>10
    <3>2. CASE i = n + 1
      <4>1. i \in 1..i
        BY <1>1, <3>2
      <4>. QED
        BY <1>1, <1>10, <3>2, <4>1
    <3>. QED
      BY <1>1, <1>2, <2>2, <3>1, <3>2
  <2>. QED
    BY <2>1, <2>2 DEF Announced
<1>. QED
  BY <1>4, <1>5, <1>6, <1>9, <1>10 DEF new


LEMMA NoPageTail ==
    ASSUME NEW list \in Seq(Message), list # <<>>, NoPage(list)
    PROVE  NoPage(Tail(list))
<1>1. \A i \in DOMAIN Tail(list) : i + 1 \in DOMAIN list /\ Tail(list)[i] = list[i + 1]
  BY TailIs
<1>. QED
  BY <1>1 DEF NoPage

LEMMA NoPageAppend ==
    ASSUME NEW list \in Seq(Message), NEW m \in Message, NoPage(list), m.type # "page"
    PROVE  NoPage(Append(list, m))
<1>1. \A i \in DOMAIN Append(list, m) : Append(list, m)[i] = m \/ (i \in DOMAIN list /\ Append(list, m)[i] = list[i])
  BY AppendIs
<1>. QED
  BY <1>1 DEF NoPage

\* What a request may be after it is made and answered.
LEMMA AskEpochs ==
    ASSUME NEW direction, NEW e, NEW seq, NEW top, e <= top
    PROVE  RequestEpochs(Ask(direction, e, seq), top) /\ Ask(direction, e, seq).page = None
           /\ Ask(direction, e, seq).direction = direction
BY DEF Ask, RequestEpochs, PageEpochs

LEMMA CatchUpEpochs ==
    ASSUME NEW r, NEW top \in Nat, r.epoch <= top
    PROVE  RequestEpochs(CatchUp(r), top) /\ CatchUp(r).page = None /\ CatchUp(r).direction \in {"tail", "after"}
BY AskEpochs DEF CatchUp

LEMMA AnsweredEpochs ==
    ASSUME TypeInv, NEW request \in Request, request.page = None, RequestEpochs(request, epoch)
    PROVE  /\ RequestEpochs(Answered(request), epoch)
           /\ Answered(request) # None
           /\ Answered(request).page.epoch = epoch
           /\ Answered(request).direction = request.direction
<1>. DEFINE cursor == [epoch |-> request.epoch, seq |-> request.seq]
            page == Page(epoch, rows, request.direction, cursor, PageSize)
<1>1. /\ epoch \in 1..MaxEpochs /\ rows \in Seq(ItemKinds) /\ Len(rows) <= MaxRows
      /\ request.direction \in {"tail", "after", "before"} /\ request.seq \in 0..MaxRows
      /\ request.epoch \in 0..MaxEpochs
      /\ Answered(request) \in Request
  BY Constants, RequestFields, AnsweredType DEF TypeInv, TypeOK
<1>2. /\ Answered(request).page = page /\ Answered(request).direction = request.direction
      /\ Answered(request).epoch = request.epoch
  BY DEF Answered, Request
<1>3. cursor.seq \in 0..MaxRows /\ cursor.epoch = request.epoch
  BY <1>1
<1>. HIDE DEF cursor
<1>4. /\ page.epoch = epoch /\ page.direction = request.direction /\ ShowsOnly(epoch, page.entries)
      /\ ~page.reset => request.direction = "tail" \/ cursor.epoch = epoch
  BY <1>1, <1>3, PageShows
<1>5. Answered(request) # None
  BY <1>1, NoneAssumption DEF NoneAssumption
<1>. HIDE DEF page
<1>6. epoch <= epoch /\ request.epoch <= epoch
  <2>1. request # None
    BY NoneAssumption DEF NoneAssumption
  <2>. QED
    BY <1>1, <2>1, Constants DEF RequestEpochs
<1>. QED
  BY <1>2, <1>3, <1>4, <1>5, <1>6 DEF RequestEpochs, PageEpochs

LEMMA RaisedTop ==
    ASSUME NEW top \in Nat, NEW next \in Nat, top <= next
    PROVE  /\ \A r \in ReplicaType : ReplicaEpochs(r, top) => ReplicaEpochs(r, next)
           /\ \A rq \in {None} \cup Request : RequestEpochs(rq, top) => RequestEpochs(rq, next)
           /\ \A list \in Seq(Message), low \in Nat : WireEpochs(list, low, top) => WireEpochs(list, low, next)
<1>1. ASSUME NEW r \in ReplicaType, ReplicaEpochs(r, top) PROVE ReplicaEpochs(r, next)
  <2>1. r.epoch \in Nat
    BY ReplicaFields, Constants
  <2>2. r.epoch <= next
    BY <1>1, <2>1 DEF ReplicaEpochs
  <2>. QED
    BY <1>1, <2>2 DEF ReplicaEpochs
<1>2. ASSUME NEW rq \in {None} \cup Request, RequestEpochs(rq, top) PROVE RequestEpochs(rq, next)
  <2>1. CASE rq = None
    BY <2>1 DEF RequestEpochs
  <2>2. CASE rq # None
    <3>1. rq \in Request /\ rq.epoch \in Nat
      BY <2>2, RequestFields, Constants
    <3>2. rq.epoch <= next
      BY <1>2, <2>2, <3>1 DEF RequestEpochs
    <3>3. ASSUME rq.page # None PROVE rq.page.epoch <= next
      <4>1. rq.page.epoch \in Nat
        BY <3>1, <3>3, RequestFields, PageFields, Constants
      <4>. QED
        BY <1>2, <2>2, <3>3, <4>1 DEF RequestEpochs, PageEpochs
    <3>. QED
      BY <1>2, <2>2, <3>2, <3>3 DEF RequestEpochs, PageEpochs
  <2>. QED
    BY <2>1, <2>2
<1>3. ASSUME NEW list \in Seq(Message), NEW low \in Nat, WireEpochs(list, low, top) PROVE WireEpochs(list, low, next)
  <2>1. \A i \in DOMAIN list : Carries(list[i]) => list[i].epoch \in Nat
    BY MessageFields, Constants
  <2>2. \A i \in DOMAIN list : Carries(list[i]) => list[i].epoch <= next
    BY <1>3, <2>1 DEF WireEpochs
  <2>. QED
    BY <1>3, <2>2 DEF WireEpochs
<1>. QED
  BY <1>1, <1>2, <1>3

LEMMA EpochInit == Init => EpochInv
<1>. SUFFICES ASSUME Init PROVE EpochInv
  OBVIOUS
<1>1. ReplicaEpochs(replica, epoch)
  BY DEF Init, EmptyReplica, ReplicaEpochs, ShowsOnly, ToSet
<1>2. RequestEpochs(recovery, epoch) /\ RequestEpochs(older, epoch) /\ RequestEpochs(scan, epoch)
  BY DEF Init, RequestEpochs
<1>3. WireEpochs(down, replica.epoch, epoch) /\ NoPage(down)
  BY DEF Init, WireEpochs, NoPage
<1>4. Kinds
  BY DEF Init, Kinds
<1>. QED
  BY <1>1, <1>2, <1>3, <1>4 DEF EpochInv, PagePlaced, Init

\* Replacements stay behind the reads of the epoch before them: on the session
\* wire by their order, or because there are none.
Ordered == Recovery = "websocket" \/ MaxEpochs = 1

LEMMA EpochFacts ==
    ASSUME TypeInv, EpochInv
    PROVE  /\ epoch \in 1..MaxEpochs /\ epoch \in Nat /\ epoch + 1 \in Nat /\ replica.epoch \in Nat
           /\ replica \in ReplicaType /\ down \in Seq(Message) /\ rows \in Seq(Items) /\ Len(rows) \in Nat
           /\ recovery \in {None} \cup Request /\ older \in {None} \cup Request /\ scan \in {None} \cup Request
           /\ ReplicaEpochs(replica, epoch) /\ replica.epoch <= epoch
           /\ RequestEpochs(recovery, epoch) /\ RequestEpochs(older, epoch) /\ RequestEpochs(scan, epoch)
           /\ WireEpochs(down, replica.epoch, epoch)
           /\ PagePlaced /\ Kinds
<1>1. replica \in ReplicaType /\ replica.epoch \in 0..MaxEpochs /\ epoch \in 1..MaxEpochs
  BY ReplicaFields DEF TypeInv, TypeOK
<1>2. MaxEpochs \in Nat
  BY Constants
<1>3. epoch \in Nat /\ epoch + 1 \in Nat /\ replica.epoch \in Nat
  BY <1>1, <1>2
<1>4. replica.epoch <= epoch
  BY DEF EpochInv, ReplicaEpochs
<1>. QED
  BY <1>1, <1>3, <1>4 DEF EpochInv, TypeInv, TypeOK

\* The page of a catch-up lies ahead of the replica; without one the wire has none.
LEMMA PlacedFacts ==
    ASSUME TypeInv, EpochInv
    PROVE  /\ recovery = None \/ recovery.page = None => NoPage(down)
           /\ recovery # None /\ recovery.page # None =>
                 /\ recovery.page \in PageType /\ recovery.page.epoch \in Nat
                 /\ recovery.page.epoch <= epoch /\ replica.epoch <= recovery.page.epoch
                 /\ ShowsOnly(recovery.page.epoch, recovery.page.entries)
                 /\ subscribed
                 /\ PageOrder(down, recovery.page.epoch)
                 /\ Announced(down, recovery.page.epoch, epoch)
           /\ ~(Recovery = "websocket" /\ recovery # None /\ recovery.page # None /\ recovery.sent) => NoPage(down)
<1>1. ASSUME recovery # None, recovery.page # None
      PROVE  /\ recovery.page \in PageType /\ recovery.page.epoch \in Nat
             /\ recovery.page.epoch <= epoch
             /\ ShowsOnly(recovery.page.epoch, recovery.page.entries)
  <2>1. recovery \in Request
    BY <1>1, EpochFacts
  <2>2. recovery.page \in PageType
    BY <1>1, <2>1, RequestFields
  <2>. QED
    BY <1>1, <2>2, EpochFacts, PageFields, Constants DEF RequestEpochs, PageEpochs
<1>. QED
  BY <1>1, EpochFacts DEF PagePlaced

\* What handleTimelineReduction leaves behind, given what it is handed.
LEMMA FollowEpochs ==
    ASSUME TypeInv, EpochInv, NEW reduction, NEW rest \in Seq(Message),
           reduction.replica.epoch <= epoch,
           WireEpochs(rest, reduction.replica.epoch, epoch),
           recovery = None \/ recovery.page = None => NoPage(rest),
           NoPage(down) => NoPage(rest),
           recovery # None /\ recovery.page # None =>
               /\ reduction.replica.epoch <= recovery.page.epoch
               /\ PageOrder(rest, recovery.page.epoch)
               /\ Announced(rest, recovery.page.epoch, epoch),
           status # "disconnected",
           UNCHANGED <<epoch, subscribed>>,
           Follow(reduction, rest)
    PROVE  /\ RequestEpochs(recovery', epoch) /\ RequestEpochs(scan', epoch)
           /\ WireEpochs(down', reduction.replica.epoch, epoch)
           /\ PagePlaced'
           /\ replica' = reduction.replica
           /\ recovery' # None => recovery'.direction \in {"tail", "after"}
           /\ scan' # None => scan'.direction = "after"
           /\ status' # "disconnected"
<1>. DEFINE after == Ask("after", reduction.replica.epoch, reduction.replica.next - 1)
            tail == Ask("tail", 0, 0)
<1>1. /\ RequestEpochs(after, epoch) /\ after.page = None /\ after.direction = "after"
      /\ RequestEpochs(tail, epoch) /\ tail.page = None /\ tail.direction = "tail"
  <2>1. reduction.replica.epoch <= epoch /\ 0 <= epoch
    BY EpochFacts
  <2>2. RequestEpochs(after, epoch) /\ after.page = None /\ after.direction = "after"
    BY <2>1, AskEpochs
  <2>3. RequestEpochs(tail, epoch) /\ tail.page = None /\ tail.direction = "tail"
    BY <2>1, AskEpochs
  <2>. QED
    BY <2>2, <2>3
<1>2. RequestEpochs(None, epoch)
  BY DEF RequestEpochs
<1>. HIDE DEF after, tail
<1>3. epoch \in Int /\ reduction.replica.epoch = replica'.epoch /\ replica' = reduction.replica
  BY EpochFacts DEF Follow
<1>4. WireEpochs(WithoutPage(rest), reduction.replica.epoch, epoch) /\ NoPage(WithoutPage(rest))
  BY WireOnly
<1>5. CASE reduction.status = "gap" /\ recovery = None
  <2>1. recovery' = after /\ scan' = None /\ down' = rest /\ status' = "catching_up"
    BY <1>5 DEF Follow, Fetch, after
  <2>. QED
    BY <1>1, <1>2, <1>3, <1>5, <2>1 DEF PagePlaced
<1>6. CASE ~(reduction.status = "gap" /\ recovery = None) /\ reduction.status \in {"epoch_changed", "reset_required"}
  <2>1. recovery' = tail /\ scan' = None /\ down' = WithoutPage(rest) /\ status' = "catching_up"
    BY <1>6 DEF Follow, Fetch, tail
  <2>. QED
    BY <1>1, <1>2, <1>3, <1>4, <2>1 DEF PagePlaced
<1>7. CASE ~(reduction.status = "gap" /\ recovery = None) /\ reduction.status \notin {"epoch_changed", "reset_required"}
  <2>1. recovery' = recovery /\ scan' = scan /\ down' = rest /\ status' = status
    BY <1>7 DEF Follow
  <2>2. PagePlaced'
    BY <1>3, <2>1, EpochFacts DEF PagePlaced
  <2>. QED
    BY <1>3, <2>1, <2>2, EpochFacts DEF Kinds
<1>. QED
  BY <1>5, <1>6, <1>7

LEMMA EpochStep ==
    ASSUME Ordered
    PROVE  TypeInv /\ EpochInv /\ [Next]_vars => EpochInv'
<1>. SUFFICES ASSUME TypeInv, EpochInv, [Next]_vars PROVE EpochInv'
  OBVIOUS
<1>0. /\ epoch \in 1..MaxEpochs /\ epoch \in Nat /\ epoch + 1 \in Nat /\ replica.epoch \in Nat
      /\ replica \in ReplicaType /\ down \in Seq(Message) /\ rows \in Seq(Items) /\ Len(rows) \in Nat
      /\ recovery \in {None} \cup Request /\ older \in {None} \cup Request /\ scan \in {None} \cup Request
      /\ ReplicaEpochs(replica, epoch) /\ replica.epoch <= epoch
      /\ RequestEpochs(recovery, epoch) /\ RequestEpochs(older, epoch) /\ RequestEpochs(scan, epoch)
      /\ WireEpochs(down, replica.epoch, epoch)
      /\ PagePlaced /\ Kinds
  BY EpochFacts
<1>p. /\ recovery = None \/ recovery.page = None => NoPage(down)
      /\ recovery # None /\ recovery.page # None =>
            /\ recovery.page \in PageType /\ recovery.page.epoch \in Nat
            /\ recovery.page.epoch <= epoch /\ replica.epoch <= recovery.page.epoch
            /\ ShowsOnly(recovery.page.epoch, recovery.page.entries)
            /\ subscribed
            /\ PageOrder(down, recovery.page.epoch)
            /\ Announced(down, recovery.page.epoch, epoch)
      /\ ~(Recovery = "websocket" /\ recovery # None /\ recovery.page # None /\ recovery.sent) => NoPage(down)
  BY PlacedFacts
<1>i. epoch \in Int /\ FALSE \in BOOLEAN /\ TRUE \in BOOLEAN
  BY <1>0
<1>n. RequestEpochs(None, epoch)
  BY DEF RequestEpochs
<1>. USE DEF server, wire, reads
<1>a. ASSUME ReplicaEpochs(replica', epoch'),
             RequestEpochs(recovery', epoch'), RequestEpochs(older', epoch'), RequestEpochs(scan', epoch'),
             WireEpochs(down', replica'.epoch, epoch'), PagePlaced', Kinds'
      PROVE  EpochInv'
  BY <1>a DEF EpochInv
<1>1. CASE AppendRow
  <2>1. PICK item \in Items :
          Emit([type |-> "stream", epoch |-> epoch, seq |-> Len(rows) + 1, item |-> item])
    BY <1>1 DEF AppendRow
  <2>. DEFINE m == [type |-> "stream", epoch |-> epoch, seq |-> Len(rows) + 1, item |-> item]
  <2>2. m \in Message
    BY <1>0, <1>1, Constants DEF Message, AppendRow
  <2>3. m.type = "stream" /\ m.epoch = epoch /\ (down' = IF subscribed THEN Append(down, m) ELSE down)
        /\ UNCHANGED <<epoch, subscribed, status, recovery, older, scan, replica>>
    BY <1>1, <2>1 DEF AppendRow, Emit
  <2>. HIDE DEF m
  <2>4. WireEpochs(down', replica.epoch, epoch)
    <3>1. WireEpochs(Append(down, m), replica.epoch, epoch)
      BY <1>0, <2>2, <2>3, WireAppend
    <3>. QED
      BY <1>0, <2>3, <3>1
  <2>5. NoPage(down) => NoPage(down')
    BY <1>0, <2>2, <2>3, NoPageAppend
  <2>6. ASSUME recovery # None, recovery.page # None
        PROVE  PageOrder(down', recovery.page.epoch) /\ Announced(down', recovery.page.epoch, epoch)
    <3>. DEFINE e == recovery.page.epoch
    <3>1. e \in Int /\ e <= epoch /\ PageOrder(down, e) /\ Announced(down, e, epoch) /\ epoch \in Int
      BY <1>0, <1>p, <2>6
    <3>. HIDE DEF e
    <3>2. PageOrder(Append(down, m), e) /\ Announced(Append(down, m), e, epoch)
      BY <1>0, <2>2, <2>3, <3>1, PageAppend
    <3>. QED
      BY <2>3, <3>1, <3>2 DEF e
  <2>7. PagePlaced'
    BY <1>0, <2>3, <2>5, <2>6 DEF PagePlaced
  <2>8. Kinds'
    BY <1>0, <2>3 DEF Kinds
  <2>. QED
    BY <1>0, <1>a, <2>3, <2>4, <2>7, <2>8
<1>2. CASE ReplaceTimeline
  <2>. DEFINE m == [type |-> "replacement", epoch |-> epoch + 1]
              next == epoch + 1
  <2>1. m \in Message /\ m.type = "replacement" /\ m.epoch = next /\ Carries(m)
    BY <1>0, <1>2, Constants DEF Message, ReplaceTimeline, Carries
  <2>2. /\ down' = IF subscribed THEN Append(down, m) ELSE down
        /\ UNCHANGED <<subscribed, status, recovery, older, scan, replica>>
        /\ epoch' = next
    BY <1>2 DEF ReplaceTimeline, Emit
  <2>3. next \in Nat /\ epoch <= next /\ epoch < next /\ replica.epoch < next /\ 1 < next
    BY <1>0
  <2>. HIDE DEF m, next
  <2>4. /\ ReplicaEpochs(replica, next)
        /\ RequestEpochs(recovery, next) /\ RequestEpochs(older, next) /\ RequestEpochs(scan, next)
        /\ WireEpochs(down, replica.epoch, next)
    BY <1>0, <2>3, RaisedTop
  <2>5. WireEpochs(Append(down, m), replica.epoch, next)
    <3>1. /\ replica.epoch <= m.epoch /\ epoch <= m.epoch /\ m.epoch <= next
          /\ replica.epoch < m.epoch /\ 1 < m.epoch /\ epoch < m.epoch
      BY <1>0, <2>1, <2>3
    <3>. QED
      BY <1>0, <2>1, <2>3, <3>1, WireAppend
  <2>6. NoPage(down) => NoPage(down')
    BY <1>0, <2>1, <2>2, NoPageAppend
  <2>7. ASSUME recovery # None, recovery.page # None
        PROVE  PageOrder(down', recovery.page.epoch) /\ Announced(down', recovery.page.epoch, next)
    <3>. DEFINE e == recovery.page.epoch
    <3>1. e \in Int /\ e <= epoch /\ PageOrder(down, e) /\ Announced(down, e, epoch) /\ epoch \in Int /\ subscribed
      BY <1>0, <1>p, <2>7
    <3>. HIDE DEF e
    <3>2. e <= m.epoch /\ e < m.epoch /\ next \in Int
      BY <1>0, <2>1, <2>3, <3>1
    <3>3. PageOrder(Append(down, m), e) /\ Announced(Append(down, m), e, next)
      BY <1>0, <2>1, <3>1, <3>2, PageAppend
    <3>. QED
      BY <2>2, <3>1, <3>3 DEF e
  <2>8. PagePlaced'
    BY <1>0, <2>2, <2>6, <2>7 DEF PagePlaced
  <2>9. Kinds'
    <3>1. status = "disconnected" => down' = <<>>
      BY <1>0, <2>2 DEF Kinds
    <3>. QED
      BY <1>0, <2>2, <3>1 DEF Kinds
  <2>. QED
    BY <1>0, <1>a, <2>2, <2>4, <2>5, <2>8, <2>9
<1>3. CASE Subscribe
  <2>. DEFINE m == [type |-> "subscribed"]
  <2>1. m \in Message /\ m.type = "subscribed" /\ ~Carries(m)
    BY DEF Message, Carries
  <2>2. /\ down' = Append(down, m) /\ ~subscribed /\ status # "disconnected"
        /\ UNCHANGED <<epoch, status, recovery, older, scan, replica>>
    BY <1>3 DEF Subscribe
  <2>. HIDE DEF m
  <2>3. WireEpochs(down', replica.epoch, epoch)
    BY <1>0, <2>1, <2>2, WireAppend
  <2>4. recovery = None \/ recovery.page = None
    BY <1>p, <2>2
  <2>5. NoPage(down')
    BY <1>0, <1>p, <2>1, <2>2, <2>4, NoPageAppend
  <2>6. PagePlaced'
    BY <2>2, <2>4, <2>5 DEF PagePlaced
  <2>7. Kinds'
    BY <1>0, <2>2 DEF Kinds
  <2>. QED
    BY <1>0, <1>a, <2>2, <2>3, <2>6, <2>7
<1>4. CASE ComputeCatchUp
  <2>1. /\ recovery \in Request /\ recovery # None /\ recovery.page = None /\ subscribed /\ recovery' = Answered(recovery)
        /\ UNCHANGED <<epoch, subscribed, down, status, older, scan, replica>>
    BY <1>0, <1>4 DEF ComputeCatchUp
  <2>2. /\ RequestEpochs(recovery', epoch) /\ recovery' # None
        /\ recovery'.page.epoch = epoch /\ recovery'.direction = recovery.direction
    BY <1>0, <2>1, AnsweredEpochs
  <2>3. NoPage(down)
    BY <1>p, <2>1
  <2>4. PageOrder(down, epoch)
    BY <2>3 DEF PageOrder, NoPage
  <2>5. Announced(down, epoch, epoch)
    <3>1. \A i \in DOMAIN down : Carries(down[i]) => down[i].epoch <= epoch /\ down[i].epoch \in Int
      BY <1>0, MessageFields DEF WireEpochs
    <3>. QED
      BY <1>0, <3>1 DEF Announced
  <2>6. PagePlaced'
    BY <1>0, <2>1, <2>2, <2>3, <2>4, <2>5 DEF PagePlaced
  <2>7. Kinds'
    BY <1>0, <2>1, <2>2 DEF Kinds
  <2>. QED
    BY <1>0, <1>a, <2>1, <2>2, <2>6, <2>7
<1>5. CASE SendCatchUp
  <2>1. /\ Recovery = "websocket" /\ recovery \in Request /\ recovery # None /\ recovery.page # None /\ ~recovery.sent
        /\ recovery' = [recovery EXCEPT !.sent = TRUE] /\ down' = Append(down, Delivered)
        /\ UNCHANGED <<epoch, subscribed, status, older, scan, replica>>
    BY <1>0, <1>5 DEF SendCatchUp
  <2>2. /\ recovery' \in Request /\ recovery'.page = recovery.page /\ recovery'.direction = recovery.direction
        /\ recovery'.epoch = recovery.epoch /\ recovery'.sent
    BY <2>1 DEF Request
  <2>3. recovery' # None
    BY <2>2, NoneAssumption DEF NoneAssumption
  <2>4. Delivered \in Message /\ ~Carries(Delivered)
    BY DEF Delivered, Message, Carries
  <2>5. WireEpochs(down', replica.epoch, epoch)
    BY <1>0, <2>1, <2>4, WireAppend
  <2>6. NoPage(down)
    BY <1>p, <2>1
  <2>7. PageOrder(down', recovery.page.epoch) /\ Announced(down', recovery.page.epoch, epoch)
    <3>. DEFINE e == recovery.page.epoch
    <3>1. e \in Int /\ Announced(down, e, epoch) /\ epoch \in Int
      BY <1>0, <1>p, <2>1
    <3>. HIDE DEF e
    <3>2. PageOrder(Append(down, Delivered), e) /\ Announced(Append(down, Delivered), e, epoch)
      BY <1>0, <2>4, <2>6, <3>1, PageAppend
    <3>. QED
      BY <2>1, <3>2 DEF e
  <2>8. RequestEpochs(recovery', epoch)
    BY <1>0, <2>1, <2>2 DEF RequestEpochs, PageEpochs
  <2>9. PagePlaced'
    BY <1>0, <1>p, <2>1, <2>2, <2>3, <2>7 DEF PagePlaced
  <2>10. Kinds'
    BY <1>0, <2>1, <2>2 DEF Kinds
  <2>. QED
    BY <1>0, <1>a, <2>1, <2>5, <2>8, <2>9, <2>10
<1>6. CASE ComputeOlder
  <2>1. /\ older \in Request /\ older # None /\ older.page = None /\ older' = Answered(older)
        /\ UNCHANGED <<epoch, subscribed, down, status, recovery, scan, replica>>
    BY <1>0, <1>6 DEF ComputeOlder
  <2>2. RequestEpochs(older', epoch) /\ older' # None /\ older'.direction = older.direction
    BY <1>0, <2>1, AnsweredEpochs
  <2>3. PagePlaced' /\ Kinds'
    BY <1>0, <2>1, <2>2 DEF PagePlaced, Kinds
  <2>. QED
    BY <1>0, <1>a, <2>1, <2>2, <2>3
<1>7. CASE ComputeScan
  <2>1. /\ scan \in Request /\ scan # None /\ scan.page = None /\ scan' = Answered(scan)
        /\ UNCHANGED <<epoch, subscribed, down, status, recovery, older, replica>>
    BY <1>0, <1>7 DEF ComputeScan
  <2>2. RequestEpochs(scan', epoch) /\ scan' # None /\ scan'.direction = scan.direction
    BY <1>0, <2>1, AnsweredEpochs
  <2>3. PagePlaced' /\ Kinds'
    BY <1>0, <2>1, <2>2 DEF PagePlaced, Kinds
  <2>. QED
    BY <1>0, <1>a, <2>1, <2>2, <2>3
<1>8. CASE Connect
  <2>1. /\ status = "disconnected" /\ status' = "catching_up" /\ older' = None
        /\ recovery' = IF Recovery = "websocket" THEN CatchUp(replica) ELSE None
        /\ UNCHANGED <<epoch, subscribed, down, scan, replica>>
    BY <1>8 DEF Connect
  <2>2. RequestEpochs(CatchUp(replica), epoch) /\ CatchUp(replica).page = None /\ CatchUp(replica).direction \in {"tail", "after"}
    BY <1>0, CatchUpEpochs
  <2>3. NoPage(down)
    BY <1>0, <2>1 DEF Kinds, NoPage
  <2>4. PagePlaced' /\ Kinds'
    BY <1>0, <2>1, <2>2, <2>3 DEF PagePlaced, Kinds
  <2>. QED
    BY <1>0, <1>a, <1>n, <2>1, <2>2, <2>4
<1>9. CASE Disconnect
  <2>1. /\ recovery' = None /\ older' = None /\ scan' = None /\ down' = <<>> /\ ~subscribed'
        /\ UNCHANGED <<epoch, replica>>
    BY <1>9 DEF Disconnect
  <2>2. WireEpochs(down', replica.epoch, epoch) /\ NoPage(down')
    BY <2>1 DEF WireEpochs, NoPage
  <2>3. PagePlaced' /\ Kinds'
    BY <2>1, <2>2 DEF PagePlaced, Kinds
  <2>. QED
    BY <1>0, <1>a, <1>n, <2>1, <2>2, <2>3
<1>10. CASE ReceiveSubscribed
  <2>1. /\ down # <<>> /\ Head(down).type = "subscribed"
        /\ UNCHANGED <<epoch, subscribed, replica, older>>
        /\ down' = Tail(down)
        /\ \/ recovery = None /\ recovery' = CatchUp(replica) /\ status' = "catching_up" /\ scan' = None
           \/ UNCHANGED <<recovery, status, scan>>
    BY <1>10 DEF ReceiveSubscribed, Fetch
  <2>2. WireEpochs(down', replica.epoch, epoch) /\ (NoPage(down) => NoPage(down'))
    BY <1>0, <2>1, WireTail, NoPageTail
  <2>3. ASSUME recovery # None, recovery.page # None
        PROVE  PageOrder(down', recovery.page.epoch) /\ Announced(down', recovery.page.epoch, epoch)
    <3>. DEFINE e == recovery.page.epoch
    <3>1. e \in Int /\ PageOrder(down, e) /\ Announced(down, e, epoch) /\ epoch \in Int
      BY <1>0, <1>p, <2>3
    <3>. HIDE DEF e
    <3>2. PageOrder(Tail(down), e) /\ Announced(Tail(down), e, epoch)
      BY <1>0, <2>1, <3>1, PageTail
    <3>. QED
      BY <2>1, <3>2 DEF e
  <2>4. status # "disconnected"
    BY <1>0, <2>1 DEF Kinds
  <2>5. CASE recovery = None /\ recovery' = CatchUp(replica) /\ status' = "catching_up" /\ scan' = None
    <3>1. RequestEpochs(recovery', epoch) /\ recovery'.page = None /\ recovery'.direction \in {"tail", "after"}
      BY <1>0, <2>5, CatchUpEpochs
    <3>2. PagePlaced' /\ Kinds'
      BY <1>0, <1>p, <2>1, <2>2, <2>5, <3>1 DEF PagePlaced, Kinds
    <3>. QED
      BY <1>0, <1>a, <1>n, <2>1, <2>2, <2>5, <3>1, <3>2
  <2>6. CASE UNCHANGED <<recovery, status, scan>>
    <3>1. PagePlaced'
      BY <1>0, <2>1, <2>2, <2>3, <2>6 DEF PagePlaced
    <3>2. Kinds'
      BY <1>0, <2>1, <2>4, <2>6 DEF Kinds
    <3>. QED
      BY <1>0, <1>a, <2>1, <2>2, <2>6, <3>1, <3>2
  <2>. QED
    BY <2>1, <2>5, <2>6
<1>11. CASE ReceiveStream
  <2>. DEFINE m == [epoch |-> Head(down).epoch, seq |-> Head(down).seq, item |-> Head(down).item]
              reduction == ReduceLive(replica, m)
              rest == Tail(down)
  <2>1. /\ down # <<>> /\ Head(down).type = "stream"
        /\ Follow(reduction, rest)
        /\ UNCHANGED <<epoch, subscribed, older>>
    BY <1>11 DEF ReceiveStream
  <2>2. m \in Row /\ rest \in Seq(Message) /\ Head(down) \in Message /\ Carries(Head(down)) /\ Head(down).epoch = m.epoch
    BY <2>1, HeadType DEF Carries
  <2>3. Head(down) = down[1] /\ 1 \in DOMAIN down
    BY <1>0, <2>1, TailIs
  <2>4. m.epoch \in Nat /\ replica.epoch <= m.epoch /\ m.epoch <= epoch
    BY <1>0, <2>2, <2>3, Constants DEF WireEpochs, Row
  <2>. HIDE DEF m
  <2>5. /\ ReplicaEpochs(reduction.replica, epoch) /\ reduction.replica.epoch = m.epoch
    BY <1>0, <2>2, <2>4, LiveEpochs
  <2>. HIDE DEF reduction
  <2>6. WireEpochs(rest, m.epoch, epoch)
    BY <1>0, <2>1, <2>2, WireTail
  <2>7. NoPage(down) => NoPage(rest)
    BY <1>0, <2>1, NoPageTail
  <2>8. ASSUME recovery # None, recovery.page # None
        PROVE  /\ m.epoch <= recovery.page.epoch
               /\ PageOrder(rest, recovery.page.epoch) /\ Announced(rest, recovery.page.epoch, epoch)
    <3>. DEFINE e == recovery.page.epoch
    <3>1. e \in Nat /\ e \in Int /\ PageOrder(down, e) /\ Announced(down, e, epoch) /\ epoch \in Int
      BY <1>0, <1>p, <2>8
    <3>. HIDE DEF e
    <3>2. PageOrder(Tail(down), e) /\ Announced(Tail(down), e, epoch)
      BY <1>0, <2>1, <3>1, PageTail
    <3>3. ASSUME e < m.epoch PROVE FALSE
      <4>1. PICK j \in 1..1 : down[j].type = "replacement"
        BY <2>2, <2>3, <3>1, <3>3 DEF Announced
      <4>. QED
        BY <2>1, <2>3, <4>1
    <3>4. m.epoch <= e
      BY <2>4, <3>1, <3>3
    <3>. QED
      BY <2>1, <3>2, <3>4 DEF e
  <2>9. status # "disconnected"
    BY <1>0, <2>1 DEF Kinds
  <2>. HIDE DEF rest
  <2>10. /\ RequestEpochs(recovery', epoch) /\ RequestEpochs(scan', epoch)
         /\ WireEpochs(down', m.epoch, epoch)
         /\ PagePlaced'
         /\ replica' = reduction.replica
         /\ recovery' # None => recovery'.direction \in {"tail", "after"}
         /\ scan' # None => scan'.direction = "after"
         /\ status' # "disconnected"
    BY <1>p, <2>1, <2>2, <2>4, <2>5, <2>6, <2>7, <2>8, <2>9, FollowEpochs
  <2>11. Kinds'
    BY <1>0, <2>1, <2>10 DEF Kinds
  <2>. QED
    BY <1>0, <1>a, <2>1, <2>5, <2>10, <2>11
<1>12. CASE ReceiveReplacement
  <2>. DEFINE e == Head(down).epoch
              rest == Tail(down)
  <2>1. /\ down # <<>> /\ Head(down).type = "replacement"
        /\ replica' = Replaced(replica, e)
        /\ recovery' = Ask("tail", 0, 0) /\ status' = "catching_up" /\ scan' = None /\ down' = WithoutPage(rest)
        /\ UNCHANGED <<epoch, subscribed, older>>
    BY <1>12 DEF ReceiveReplacement, Fetch
  <2>2. rest \in Seq(Message) /\ Head(down) \in Message /\ Carries(Head(down)) /\ e \in 1..MaxEpochs
    BY <2>1, HeadType DEF Carries
  <2>3. Head(down) = down[1] /\ 1 \in DOMAIN down
    BY <1>0, <2>1, TailIs
  <2>4. e \in Nat /\ e \in Int /\ epoch \in Int /\ replica.epoch <= e /\ e <= epoch
    BY <1>0, <2>2, <2>3, Constants DEF WireEpochs
  <2>5. WireEpochs(rest, e, epoch)
    BY <1>0, <2>1, <2>2, WireTail
  <2>. HIDE DEF e, rest
  <2>6. ReplicaEpochs(replica', epoch) /\ replica'.epoch = e
    BY <1>0, <2>1, <2>2, <2>4, ReplacedEpochs
  <2>7. WireEpochs(down', e, epoch) /\ NoPage(down')
    BY <2>1, <2>2, <2>4, <2>5, WireOnly
  <2>8. RequestEpochs(recovery', epoch) /\ recovery'.page = None /\ recovery'.direction = "tail"
    BY <1>0, <2>1, AskEpochs
  <2>9. PagePlaced' /\ Kinds'
    BY <1>0, <2>1, <2>7, <2>8 DEF PagePlaced, Kinds
  <2>. QED
    BY <1>0, <1>a, <1>n, <2>1, <2>6, <2>7, <2>8, <2>9
<1>13. CASE ReceiveCatchUp
  <2>. DEFINE e == recovery.page.epoch
              reduction == ApplyPage(replica, recovery.page, FALSE)
  <2>1. recovery # None /\ recovery.page # None /\ UNCHANGED <<epoch, subscribed, older>>
    BY <1>13 DEF ReceiveCatchUp
  <2>2. /\ recovery.page \in PageType /\ e \in Nat /\ e <= epoch /\ replica.epoch <= e
        /\ ShowsOnly(e, recovery.page.entries) /\ subscribed
        /\ PageOrder(down, e)
    BY <1>p, <2>1
  <2>3. PICK rest \in Seq(Message) : ApplyCatchUp(rest) /\ WireEpochs(rest, e, epoch) /\ NoPage(rest)
    <3>1. CASE Recovery = "websocket" /\ down # <<>> /\ Head(down) = Delivered /\ ApplyCatchUp(Tail(down))
      <4>1. Head(down).type = "page"
        BY <3>1 DEF Delivered
      <4>2. e \in Int /\ epoch \in Int /\ replica.epoch \in Int
        BY <1>0, <2>2
      <4>. HIDE DEF e
      <4>3. WireEpochs(Tail(down), e, epoch) /\ NoPage(Tail(down))
        BY <1>0, <2>2, <3>1, <4>1, <4>2, PageTail
      <4>4. Tail(down) \in Seq(Message)
        BY <3>1, HeadType
      <4>. QED
        BY <3>1, <4>3, <4>4
    <3>2. CASE Recovery = "http" /\ ApplyCatchUp(down)
      <4>1. MaxEpochs = 1
        BY <3>2 DEF Ordered
      <4>2. epoch = 1 /\ e = 1
        BY <1>0, <2>2, <4>1, PageFields
      <4>3. ASSUME NEW i \in DOMAIN down, Carries(down[i])
            PROVE  down[i].epoch = 1 /\ down[i].type # "replacement"
        <5>1. down[i].epoch \in 1..MaxEpochs
          BY <1>0, <4>3, MessageFields
        <5>. QED
          BY <1>0, <4>1, <4>2, <4>3, <5>1 DEF WireEpochs
      <4>4. WireEpochs(down, 1, 1)
        BY <4>3 DEF WireEpochs
      <4>5. NoPage(down)
        BY <1>p, <3>2
      <4>. QED
        BY <1>0, <3>2, <4>2, <4>4, <4>5
    <3>. QED
      BY <1>13, <3>1, <3>2 DEF ReceiveCatchUp
  <2>4. ReplicaEpochs(reduction.replica, epoch) /\ reduction.replica.epoch = e
    BY <1>0, <2>2, <1>i, ApplyEpochs
  <2>5. status # "disconnected"
    BY <1>0, <2>1 DEF Kinds
  <2>6. /\ replica' = reduction.replica /\ down' = rest
        /\ \/ recovery' = None /\ status' = "ready" /\ scan' = scan
           \/ recovery' = None /\ status' = status /\ scan' = scan
           \/ recovery' = Ask("after", e, recovery.page.end) /\ status' = status /\ scan' = scan
           \/ recovery' = Ask("after", reduction.replica.epoch, reduction.replica.next - 1) /\ status' = "catching_up" /\ scan' = None
           \/ recovery' = Ask("tail", 0, 0) /\ status' = "catching_up" /\ scan' = None
    BY <2>3, Zenon DEF ApplyCatchUp, Fetch
  <2>. HIDE DEF e, reduction
  <2>7. /\ recovery' # None => /\ RequestEpochs(recovery', epoch) /\ recovery'.page = None
                               /\ recovery'.direction \in {"tail", "after"}
        /\ status' # "disconnected" /\ scan' \in {None, scan}
    BY <1>0, <2>2, <2>4, <2>5, <2>6, AskEpochs
  <2>8. PagePlaced' /\ Kinds'
    BY <1>0, <2>1, <2>3, <2>6, <2>7 DEF PagePlaced, Kinds
  <2>. QED
    BY <1>0, <1>a, <1>n, <2>1, <2>3, <2>4, <2>6, <2>7, <2>8
<1>14. CASE AskOlder
  <2>1. /\ older' = Ask("before", replica.epoch, FirstStart(replica))
        /\ UNCHANGED <<epoch, subscribed, down, status, recovery, scan, replica>>
    BY <1>14 DEF AskOlder
  <2>2. RequestEpochs(older', epoch) /\ older'.direction = "before"
    BY <1>0, <2>1, AskEpochs
  <2>3. PagePlaced' /\ Kinds'
    BY <1>0, <2>1, <2>2 DEF PagePlaced, Kinds
  <2>. QED
    BY <1>0, <1>a, <2>1, <2>2, <2>3
<1>15. CASE ReceiveOlder
  <2>1. /\ older \in Request /\ older # None /\ older.page # None /\ older' = None
        /\ UNCHANGED <<epoch, subscribed, down, status, recovery, scan>>
        /\ replica' = IF older.page.epoch # replica.epoch \/ older.page.reset THEN replica
                      ELSE ApplyPage(replica, older.page, FALSE).replica
    BY <1>0, <1>15 DEF ReceiveOlder
  <2>2. ReplicaEpochs(replica', epoch) /\ replica'.epoch = replica.epoch
    <3>1. CASE older.page.epoch # replica.epoch \/ older.page.reset
      BY <1>0, <2>1, <3>1
    <3>2. CASE older.page.epoch = replica.epoch /\ ~older.page.reset
      <4>1. older.page \in PageType /\ ShowsOnly(older.page.epoch, older.page.entries)
        BY <1>0, <2>1, RequestFields DEF RequestEpochs, PageEpochs
      <4>2. older.page.epoch <= epoch /\ replica.epoch <= older.page.epoch
        BY <1>0, <3>2
      <4>3. /\ ReplicaEpochs(ApplyPage(replica, older.page, FALSE).replica, epoch)
            /\ ApplyPage(replica, older.page, FALSE).replica.epoch = older.page.epoch
        BY <1>0, <1>i, <4>1, <4>2, ApplyEpochs
      <4>. QED
        BY <2>1, <3>2, <4>3
    <3>. QED
      BY <3>1, <3>2
  <2>3. PagePlaced' /\ Kinds'
    BY <1>0, <2>1, <2>2 DEF PagePlaced, Kinds
  <2>. QED
    BY <1>0, <1>a, <1>n, <2>1, <2>2, <2>3
<1>16. CASE AskScan
  <2>1. PICK seq : scan' = Ask("after", replica.epoch, seq)
    BY <1>16 DEF AskScan
  <2>2. UNCHANGED <<epoch, subscribed, down, status, recovery, older, replica>>
    BY <1>16 DEF AskScan
  <2>3. RequestEpochs(scan', epoch) /\ scan'.direction = "after"
    BY <1>0, <2>1, AskEpochs
  <2>4. PagePlaced' /\ Kinds'
    BY <1>0, <2>2, <2>3 DEF PagePlaced, Kinds
  <2>. QED
    BY <1>0, <1>a, <2>2, <2>3, <2>4
<1>17. CASE ReceiveScan
  <2>1. /\ scan \in Request /\ scan # None /\ scan.page # None
        /\ UNCHANGED <<epoch, subscribed, down, status, recovery, older>>
    BY <1>0, <1>17 DEF ReceiveScan
  <2>2. CASE replica.epoch # scan.epoch \/ scan.page.reset \/ scan.page.gap
    <3>1. scan' = None /\ replica' = replica
      BY <1>17, <2>2 DEF ReceiveScan
    <3>2. PagePlaced' /\ Kinds'
      BY <1>0, <2>1, <3>1 DEF PagePlaced, Kinds
    <3>. QED
      BY <1>0, <1>a, <1>n, <2>1, <3>1, <3>2
  <2>3. CASE replica.epoch = scan.epoch /\ ~scan.page.reset /\ ~scan.page.gap
    <3>1. /\ replica' = ApplyPage(replica, scan.page, TRUE).replica
          /\ scan' = None \/ scan' = Ask("after", scan.epoch, scan.page.end)
      BY <1>17, <2>3 DEF ReceiveScan
    <3>2. scan.page \in PageType /\ ShowsOnly(scan.page.epoch, scan.page.entries) /\ scan.page.epoch = replica.epoch
      BY <1>0, <2>1, <2>3, RequestFields DEF RequestEpochs, PageEpochs, Kinds
    <3>3. ReplicaEpochs(replica', epoch) /\ replica'.epoch = replica.epoch
      <4>1. scan.page.epoch <= epoch /\ replica.epoch <= scan.page.epoch
        BY <1>0, <3>2
      <4>2. /\ ReplicaEpochs(ApplyPage(replica, scan.page, TRUE).replica, epoch)
            /\ ApplyPage(replica, scan.page, TRUE).replica.epoch = scan.page.epoch
        BY <1>0, <1>i, <3>2, <4>1, ApplyEpochs
      <4>. QED
        BY <3>1, <3>2, <4>2
    <3>4. scan' # None => RequestEpochs(scan', epoch) /\ scan'.direction = "after"
      <4>1. scan.epoch <= epoch
        BY <1>0, <2>3
      <4>2. RequestEpochs(Ask("after", scan.epoch, scan.page.end), epoch)
            /\ Ask("after", scan.epoch, scan.page.end).direction = "after"
        BY <4>1, AskEpochs
      <4>. QED
        BY <3>1, <4>2
    <3>5. PagePlaced' /\ Kinds'
      BY <1>0, <2>1, <3>3, <3>4 DEF PagePlaced, Kinds
    <3>. QED
      BY <1>0, <1>a, <1>n, <2>1, <3>3, <3>4, <3>5
  <2>. QED
    BY <2>2, <2>3
<1>18. CASE UNCHANGED vars
  <2>1. UNCHANGED <<epoch, subscribed, down, status, recovery, older, scan, replica>>
    BY <1>18 DEF vars
  <2>2. PagePlaced' /\ Kinds'
    BY <1>0, <2>1 DEF PagePlaced, Kinds
  <2>. QED
    BY <1>0, <1>a, <2>1, <2>2
<1>. QED
  BY <1>1, <1>2, <1>3, <1>4, <1>5, <1>6, <1>7, <1>8, <1>9, <1>10, <1>11, <1>12, <1>13, <1>14, <1>15, <1>16,
     <1>17, <1>18 DEF Next, Relay, Client, Receive

\* Every variable keeps its type: what the projector returns is a page, what the
\* reducer returns a replica.
THEOREM TypesHold == Spec => []TypeInv
<1>. QED
  BY TypeInit, TypeStep, PTL DEF Spec

\* A retired epoch never comes back (applyTimelineReplacement), where replacements
\* and catch-up pages travel in order, whatever other page of an old epoch arrives.
THEOREM OneEpochHolds ==
    ASSUME Ordered
    PROVE  Spec => []OneEpoch
<1>1. TypeInv /\ EpochInv => OneEpoch
  <2>. SUFFICES ASSUME TypeInv, EpochInv PROVE OneEpoch
    OBVIOUS
  <2>1. ReplicaEpochs(replica, epoch) /\ replica \in ReplicaType /\ replica.epoch \in Nat
    BY EpochFacts
  <2>2. replica.epoch \notin replica.retired
    BY <2>1 DEF ReplicaEpochs
  <2>3. ASSUME NEW row \in Shown(replica) PROVE row[1] = replica.epoch
    <3>1. PICK i \in DOMAIN replica.entries : row \in ToSet(replica.entries[i].shown)
      BY DEF Shown
    <3>2. replica.entries[i] \in ToSet(replica.entries)
      BY DEF ToSet
    <3>. QED
      BY <2>1, <3>1, <3>2 DEF ReplicaEpochs, ShowsOnly, EntryShows, ToSet
  <2>. QED
    BY <2>1, <2>2, <2>3 DEF OneEpoch, ReplicaEpochs
<1>2. Init => TypeInv /\ EpochInv
  BY TypeInit, EpochInit
<1>3. TypeInv /\ EpochInv /\ [Next]_vars => TypeInv' /\ EpochInv'
  BY TypeStep, EpochStep
<1>. QED
  BY <1>1, <1>2, <1>3, PTL DEF Spec
-----------------------------------------------------------------------------
(* Content: the state of the three, where T[e] is what the Relay has ever  *)
(* had as the rows of epoch e.                                             *)

ReplicaContent(T, r, list, low) ==
    /\ \A m \in r.pending : Known(T, m)
    /\ \A m \in r.pending, x \in Stream(list) : m.epoch = x.epoch => m.seq < x.seq
    /\ r.initialized =>
          /\ Sorted(r.entries)
          /\ Shows(T[r.epoch], ToSet(r.entries), low, r.next, Coming(r, list))
          /\ \A m \in r.pending : m.seq > r.next

\* A request asks for rows there are, and its page is of them or a reset.
RequestContent(T, rq) ==
    rq # None =>
        /\ rq.direction # "tail" => rq.epoch # 0
        /\ rq.direction = "after" => rq.seq <= Len(T[rq.epoch])
        /\ rq.direction = "before" => rq.seq <= Len(T[rq.epoch]) \/ rq.seq = 1
        /\ rq.page # None =>
              \/ rq.page.reset /\ rq.direction # "tail" /\ rq.page.epoch # rq.epoch
              \/ \E n \in 0..Len(T[rq.page.epoch]) : PageHolds(T[rq.page.epoch], rq.direction, rq.seq, rq.page, n)

LowOf(rq, r) == IF rq # None /\ rq.direction = "after" THEN rq.seq + 1 ELSE r.next

\* Which request may be outstanding, and where.
RecoveryPlaced(rq, r) ==
    rq # None =>
        /\ rq.direction = "tail" => ~r.initialized
        /\ rq.direction = "after" => r.initialized /\ rq.epoch = r.epoch /\ rq.seq < r.next
ReadyPlaced(st, rq, sc, r) ==
    /\ st = "ready" => rq = None /\ r.initialized
    /\ sc # None => st = "ready" /\ sc.epoch = r.epoch /\ sc.seq < r.next
OlderPlaced(T, ol, r, low) ==
    ol # None =>
        /\ ol.epoch <= r.epoch
        /\ ol.epoch = r.epoch =>
              r.initialized /\ (ol.seq = 1 \/ (ol.seq \in 1..low - 1 /\ Leader(T[ol.epoch], ol.seq)))

Content(T) ==
    /\ T \in [1..MaxEpochs -> Rows]
    /\ T[epoch] = rows /\ \A e \in epoch + 1..MaxEpochs : T[e] = <<>>
    /\ RequestContent(T, recovery) /\ RequestContent(T, older) /\ RequestContent(T, scan)
    /\ WireContent(T, down)
    /\ ReplicaContent(T, replica, down, LowOf(recovery, replica))
    /\ RecoveryPlaced(recovery, replica)
    /\ ReadyPlaced(status, recovery, scan, replica)
    /\ OlderPlaced(T, older, replica, LowOf(recovery, replica))

-----------------------------------------------------------------------------
(* The rows on the wire, when messages are taken from it or put on it.     *)
LEMMA StreamTail ==
    ASSUME NEW list \in Seq(Message), list # <<>>
    PROVE  /\ Stream(Tail(list)) \subseteq Stream(list)
           /\ Rising(list) => Rising(Tail(list))
           /\ Stream(list) \subseteq Stream(Tail(list)) \cup {Head(list)}
           /\ Head(list).type = "stream" => Head(list) \in Stream(list)
           /\ Head(list).type = "stream" /\ Rising(list) =>
                 \A x \in Stream(Tail(list)) : x.epoch = Head(list).epoch => Head(list).seq < x.seq
<1>. DEFINE n == Len(list)
            rest == Tail(list)
<1>1. /\ rest \in Seq(Message) /\ n \in Nat \ {0} /\ DOMAIN list = 1..n /\ DOMAIN rest = 1..n - 1
      /\ \A i \in 1..n - 1 : rest[i] = list[i + 1]
      /\ Head(list) = list[1]
  BY TailIs
<1>2. \A i \in 1..n - 1 : i + 1 \in 1..n /\ 1 \in 1..n /\ 1 < i + 1
  BY <1>1
<1>. HIDE DEF rest, n
<1>3. \A i \in 1..n - 1, j \in 1..n - 1 : i < j => i + 1 < j + 1
  BY <1>1
<1>4. Stream(rest) \subseteq Stream(list)
  BY <1>1, <1>2 DEF Stream, ToSet
<1>5. Rising(list) => Rising(rest)
  <2>. SUFFICES ASSUME Rising(list), NEW i \in DOMAIN rest, NEW j \in DOMAIN rest, i < j,
                       rest[i].type = "stream", rest[j].type = "stream", rest[i].epoch = rest[j].epoch
                PROVE  rest[i].seq < rest[j].seq
    BY DEF Rising
  <2>1. /\ i + 1 \in DOMAIN list /\ rest[i] = list[i + 1]
        /\ j + 1 \in DOMAIN list /\ rest[j] = list[j + 1]
        /\ i + 1 < j + 1
    BY <1>1, <1>2, <1>3
  <2>. QED
    BY <2>1 DEF Rising
<1>6. Stream(list) \subseteq Stream(rest) \cup {list[1]}
  <2>1. \A j \in 1..n : j = 1 \/ (j - 1 \in 1..n - 1 /\ (j - 1) + 1 = j)
    BY <1>1
  <2>2. \A j \in 1..n : list[j] = list[1] \/ \E i \in 1..n - 1 : rest[i] = list[j]
    BY <1>1, <2>1
  <2>3. \A i \in 1..n - 1 : rest[i] \in ToSet(rest)
    BY <1>1 DEF ToSet
  <2>4. \A j \in 1..n : list[j] \in ToSet(rest) \cup {list[1]}
    BY <2>2, <2>3
  <2>5. ToSet(list) \subseteq ToSet(rest) \cup {list[1]}
    BY <1>1, <2>4 DEF ToSet
  <2>. QED
    BY <2>5 DEF Stream
<1>7. list[1].type = "stream" => list[1] \in Stream(list)
  BY <1>1 DEF Stream, ToSet
<1>8. list[1].type = "stream" /\ Rising(list) =>
         \A x \in Stream(rest) : x.epoch = list[1].epoch => list[1].seq < x.seq
  BY <1>1, <1>2 DEF Rising, Stream, ToSet
<1>. QED
  BY <1>1, <1>4, <1>5, <1>6, <1>7, <1>8 DEF rest

LEMMA StreamOnly ==
    ASSUME NEW list \in Seq(Message)
    PROVE  /\ Stream(WithoutPage(list)) \subseteq Stream(list)
           /\ Rising(list) => Rising(WithoutPage(list))
<1>. DEFINE rest == WithoutPage(list)
            S == ToSet(list) \ {Delivered}
<1>1. PICK h :
                 /\ \A i \in 1..Len(Only(list, S)) : h[i] \in 1..Len(list) /\ Only(list, S)[i] = list[h[i]] /\ list[h[i]] \in S
                 /\ \A i, j \in 1..Len(Only(list, S)) : i < j => h[i] < h[j]
  BY OnlyIs
<1>2. rest = Only(list, S) /\ rest \in Seq(Message)
  BY WithoutPageType DEF WithoutPage
<1>. HIDE DEF rest, S
<1>3. DOMAIN rest = 1..Len(rest) /\ DOMAIN list = 1..Len(list)
  BY <1>2
<1>4. /\ \A i \in DOMAIN rest : h[i] \in DOMAIN list /\ rest[i] = list[h[i]]
      /\ \A i, j \in DOMAIN rest : i < j => h[i] < h[j]
  BY <1>1, <1>2, <1>3
<1>5. Rising(list) => Rising(rest)
  BY <1>4 DEF Rising
<1>6. Stream(rest) \subseteq Stream(list)
  BY <1>4 DEF Stream, ToSet
<1>. QED
  BY <1>5, <1>6 DEF rest

LEMMA StreamAppend ==
    ASSUME NEW list \in Seq(Message), NEW m \in Message
    PROVE  /\ m.type # "stream" => /\ Stream(Append(list, m)) = Stream(list)
                                   /\ Rising(list) => Rising(Append(list, m))
           /\ m.type = "stream" => Stream(Append(list, m)) = Stream(list) \cup {m}
           /\ Rising(list) /\ (\A x \in Stream(list) : x.epoch = m.epoch => x.seq < m.seq) => Rising(Append(list, m))
<1>. DEFINE n == Len(list)
            new == Append(list, m)
<1>1. /\ n \in Nat /\ DOMAIN list = 1..n /\ DOMAIN new = 1..n + 1
      /\ \A i \in 1..n : new[i] = list[i]
      /\ new[n + 1] = m
  BY AppendIs
<1>. HIDE DEF new, n
<1>2. \A i \in 1..n + 1 : i = n + 1 \/ i \in 1..n
  BY <1>1
<1>3. \A i, j \in 1..n + 1 : i < j => i \in 1..n
  BY <1>1
<1>4. ToSet(new) = ToSet(list) \cup {m}
  <2>1. \A i \in 1..n : i \in 1..n + 1
    BY <1>1
  <2>2. n + 1 \in 1..n + 1
    BY <1>1
  <2>. QED
    BY <1>1, <1>2, <2>1, <2>2 DEF ToSet
<1>5. m.type # "stream" /\ Rising(list) => Rising(new)
  BY <1>1, <1>2, <1>3 DEF Rising
<1>6. Rising(list) /\ (\A x \in Stream(list) : x.epoch = m.epoch => x.seq < m.seq) => Rising(new)
  <2>1. \A i \in 1..n : list[i].type = "stream" => list[i] \in Stream(list)
    BY <1>1 DEF Stream, ToSet
  <2>. QED
    BY <1>1, <1>2, <1>3, <2>1 DEF Rising
<1>7. /\ m.type # "stream" => Stream(new) = Stream(list)
      /\ m.type = "stream" => Stream(new) = Stream(list) \cup {m}
  BY <1>4 DEF Stream
<1>. QED
  BY <1>5, <1>6, <1>7 DEF new

-----------------------------------------------------------------------------
(* A page applied and the buffered rows after it.                          *)

\* The cursor has passed over nothing, except what lies before a first page.
Reaches(items, r, d) ==
    IF r.initialized THEN r.epoch = d.epoch /\ Follows(items, r, d)
    ELSE \A q \in FirstStart(d)..d.next - 1 : Leader(items, q) => \E c \in ToSet(d.entries) : c.start = q

Lands(items, r, d, low, list) ==
    /\ Displays(items, d, low, list)
    /\ \A m \in d.pending : m.seq > d.next
    /\ Reaches(items, r, d)
    /\ low \in 1..d.next /\ d.next \in 1..Len(items) + 1

LEMMA FollowsOn ==
    ASSUME NEW items, NEW r \in ReplicaType, NEW w \in ReplicaType, NEW d \in ReplicaType,
           Follows(items, r, w), Follows(items, w, d)
    PROVE  Follows(items, r, d)
<1>1. \A b \in ToSet(r.entries) : Leader(items, b.start) => \E c \in ToSet(d.entries) : c.start = b.start
  BY DEF Follows
<1>2. r.next \in Int /\ w.next \in Int /\ d.next \in Int
  BY ReplicaFields
<1>3. ASSUME NEW q \in r.next..d.next - 1, Leader(items, q) PROVE \E c \in ToSet(d.entries) : c.start = q
  <2>1. CASE q < w.next
    <3>1. q \in r.next..w.next - 1
      BY <1>2, <2>1
    <3>2. PICK b \in ToSet(w.entries) : b.start = q
      BY <1>3, <3>1 DEF Follows
    <3>. QED
      BY <1>3, <3>2 DEF Follows
  <2>2. CASE ~(q < w.next)
    <3>1. q \in w.next..d.next - 1
      BY <1>2, <2>2
    <3>. QED
      BY <1>3, <3>1 DEF Follows
  <2>. QED
    BY <2>1, <2>2
<1>. QED
  BY <1>1, <1>3 DEF Follows

LEMMA DisplaysRange ==
    ASSUME NEW items \in Seq(PlainKinds), NEW r, NEW low, NEW list, Displays(items, r, low, list)
    PROVE  low \in 1..r.next /\ r.next \in 1..Len(items) + 1 /\ low \in Int /\ r.next \in Int /\ low <= r.next /\ Len(items) \in Nat
<1>1. low \in 1..r.next /\ r.next \in 1..Len(items) + 1
  BY DEF Displays, Shows
<1>. QED
  BY <1>1

LEMMA StaysKeeps ==
    ASSUME NEW b \in EntryType, NEW w \in ReplicaType, NEW d \in ReplicaType,
           Stays(ToSet(w.entries), ToSet(d.entries)), Keeps(b, ToSet(w.entries))
    PROVE  Keeps(b, ToSet(d.entries))
<1>1. \A c \in ToSet(w.entries) : c \in EntryType
  BY ReplicaFields DEF ToSet
<1>2. \A c \in ToSet(d.entries) : c \in EntryType
  BY ReplicaFields DEF ToSet
<1>3. PICK c \in ToSet(w.entries) : b.rows \subseteq c.rows /\ b.end <= c.end
  BY DEF Keeps
<1>4. PICK e \in ToSet(d.entries) : c.rows \subseteq e.rows /\ c.end <= e.end
  BY DEF Stays
<1>5. b.end \in Int /\ c.end \in Int /\ e.end \in Int
  BY <1>1, <1>2, EntryFields
<1>. QED
  BY <1>3, <1>4, <1>5 DEF Keeps

LEMMA FirstStartFacts ==
    ASSUME NEW d \in ReplicaType, Sorted(d.entries)
    PROVE  /\ FirstStart(d) \in Nat /\ 1 <= FirstStart(d)
           /\ \A c \in ToSet(d.entries) : c \in EntryType /\ c.start \in Int /\ c.end \in Int /\ FirstStart(d) <= c.start
           /\ ToSet(d.entries) = {} => FirstStart(d) = 1
           /\ ToSet(d.entries) # {} => d.entries[1] \in ToSet(d.entries) /\ d.entries[1].start = FirstStart(d)
<1>. DEFINE list == d.entries
<1>1. list \in Seq(EntryType) /\ Sorted(list) /\ FirstStart(d) = IF list = <<>> THEN 1 ELSE list[1].start
  BY ReplicaFields DEF FirstStart
<1>. HIDE DEF list
<1>2. /\ \A c \in ToSet(list) : c \in EntryType
      /\ list # <<>> <=> ToSet(list) # {}
      /\ list # <<>> => list[1] \in ToSet(list) /\ \A c \in ToSet(list) : list[1].start <= c.start
  BY <1>1, SortedFacts
<1>3. \A c \in ToSet(list) : c.start \in 1..MaxRows /\ c.start \in Int /\ c.end \in Int /\ c.start \in Nat /\ 1 <= c.start
  BY <1>2, EntryFields, Constants
<1>. QED
  BY <1>1, <1>2, <1>3 DEF list

\* A page after a row on display.
AfterLanded(items, r, preserve, w, d, list, n) ==
    /\ Lands(items, r, d, w.next, list) /\ d.epoch = r.epoch
    /\ n + 1 <= d.next
    /\ ~preserve => w.next = n + 1
    /\ preserve => r.next <= d.next /\ \A b \in ToSet(r.entries) : Keeps(b, ToSet(d.entries))
    /\ Drained(w).status \in {"applied", "gap"}

LEMMA AfterLands ==
    ASSUME NEW items \in Seq(PlainKinds), Len(items) <= MaxRows, NEW list \in Seq(Message),
           NEW r, NEW low, Displays(items, r, low, list),
           NEW page \in PageType, page.direction = "after", page.epoch = r.epoch,
           NEW seq \in Nat, seq < low, NEW n, PageHolds(items, "after", seq, page, n),
           NEW preserve \in BOOLEAN, IF preserve THEN low = r.next ELSE low = seq + 1,
           NEW w, w = WithPage(r, page, preserve), NEW d, d = Drained(w).replica
    PROVE  AfterLanded(items, r, preserve, w, d, list, n)
<1>1. /\ Displays(items, w, w.next, list)
      /\ w.epoch = r.epoch
      /\ Follows(items, r, w)
      /\ low <= w.next /\ n + 1 <= w.next
      /\ ~preserve => w.next = n + 1
      /\ preserve => r.next <= w.next /\ \A b \in ToSet(r.entries) : Keeps(b, ToSet(w.entries))
  <2>1. Displays(items, WithPage(r, page, preserve), WithPage(r, page, preserve).next, list)
    BY AfterContent
  <2>2. /\ WithPage(r, page, preserve).epoch = r.epoch
        /\ Follows(items, r, WithPage(r, page, preserve))
        /\ low <= WithPage(r, page, preserve).next
    BY AfterContent
  <2>3. /\ n + 1 <= WithPage(r, page, preserve).next
        /\ ~preserve => WithPage(r, page, preserve).next = n + 1
    BY AfterContent
  <2>4. preserve => /\ r.next <= WithPage(r, page, preserve).next
                    /\ \A b \in ToSet(r.entries) : Keeps(b, ToSet(WithPage(r, page, preserve).entries))
    BY AfterContent
  <2>. QED
    BY <2>1, <2>2, <2>3, <2>4
<1>2. /\ Displays(items, d, w.next, list)
      /\ d.epoch = w.epoch /\ w.next <= d.next
      /\ \A m \in d.pending : m.seq > d.next
      /\ Stays(ToSet(w.entries), ToSet(d.entries))
      /\ Follows(items, w, d)
      /\ Drained(w).status \in {"applied", "gap"}
  <2>. DEFINE t == w.next
  <2>0. Displays(items, w, t, list)
    BY <1>1
  <2>. HIDE DEF t
  <2>1. Displays(items, Drained(w).replica, t, list)
    BY <2>0, DrainedContent
  <2>2. /\ Drained(w).replica.epoch = w.epoch /\ w.next <= Drained(w).replica.next
        /\ \A m \in Drained(w).replica.pending : m.seq > Drained(w).replica.next
        /\ Stays(ToSet(w.entries), ToSet(Drained(w).replica.entries))
        /\ Follows(items, w, Drained(w).replica)
        /\ Drained(w).status \in {"applied", "gap"}
    BY <2>0, DrainedContent
  <2>. QED
    BY <2>1, <2>2 DEF t
<1>3. r \in ReplicaType /\ w \in ReplicaType /\ d \in ReplicaType /\ r.initialized
  BY <1>1, <1>2 DEF Displays
<1>4. Follows(items, r, d)
  BY <1>1, <1>2, <1>3, FollowsOn
<1>5. w.next \in 1..d.next /\ d.next \in 1..Len(items) + 1
  BY <1>2, DisplaysRange
<1>6. n \in Int /\ w.next \in Int /\ d.next \in Int /\ r.next \in Int
  BY <1>3, ReplicaFields DEF PageHolds
<1>7. n + 1 <= d.next /\ (preserve => r.next <= d.next)
  BY <1>1, <1>2, <1>6
<1>8. ASSUME preserve, NEW b \in ToSet(r.entries) PROVE Keeps(b, ToSet(d.entries))
  <2>1. b \in EntryType
    BY <1>3, ReplicaFields DEF ToSet
  <2>2. Keeps(b, ToSet(w.entries))
    BY <1>1, <1>8
  <2>. QED
    BY <1>2, <1>3, <2>1, <2>2, StaysKeeps
<1>9. Reaches(items, r, d)
  BY <1>1, <1>2, <1>3, <1>4 DEF Reaches
<1>. QED
  BY <1>1, <1>2, <1>5, <1>7, <1>8, <1>9 DEF Lands, AfterLanded

\* A page of earlier history.
BeforeLanded(items, r, d, low, list) ==
    /\ Lands(items, r, d, low, list) /\ d.epoch = r.epoch /\ r.next <= d.next
    /\ \A b \in ToSet(r.entries) : b.item # "tool" => Keeps(b, ToSet(d.entries))

LEMMA BeforeLands ==
    ASSUME NEW items \in Seq(PlainKinds), Len(items) <= MaxRows, NEW list \in Seq(Message),
           NEW r, NEW low, Displays(items, r, low, list),
           NEW page \in PageType, page.direction = "before", page.epoch = r.epoch,
           NEW seq \in Nat, NEW n, PageHolds(items, "before", seq, page, n),
           seq = 1 \/ (seq \in 1..low - 1 /\ Leader(items, seq)),
           NEW no, no = FALSE, NEW w, w = WithPage(r, page, no), NEW d, d = Drained(w).replica
    PROVE  BeforeLanded(items, r, d, low, list)
<1>1. /\ Displays(items, w, low, list)
      /\ w.epoch = r.epoch /\ w.next = r.next
      /\ Follows(items, r, w)
      /\ \A b \in ToSet(r.entries) : b.item # "tool" => Keeps(b, ToSet(w.entries))
  <2>1. Displays(items, WithPage(r, page, FALSE), low, list)
    BY BeforeContent
  <2>2. /\ WithPage(r, page, FALSE).epoch = r.epoch /\ WithPage(r, page, FALSE).next = r.next
        /\ Follows(items, r, WithPage(r, page, FALSE))
        /\ \A b \in ToSet(r.entries) : b.item # "tool" => Keeps(b, ToSet(WithPage(r, page, FALSE).entries))
    BY BeforeContent
  <2>. QED
    BY <2>1, <2>2
<1>2. /\ Displays(items, d, low, list)
      /\ d.epoch = w.epoch /\ w.next <= d.next
      /\ \A m \in d.pending : m.seq > d.next
      /\ Stays(ToSet(w.entries), ToSet(d.entries))
      /\ Follows(items, w, d)
  <2>1. Displays(items, Drained(w).replica, low, list)
    BY <1>1, DrainedContent
  <2>2. /\ Drained(w).replica.epoch = w.epoch /\ w.next <= Drained(w).replica.next
        /\ \A m \in Drained(w).replica.pending : m.seq > Drained(w).replica.next
        /\ Stays(ToSet(w.entries), ToSet(Drained(w).replica.entries))
        /\ Follows(items, w, Drained(w).replica)
    BY <1>1, DrainedContent
  <2>. QED
    BY <2>1, <2>2
<1>3. r \in ReplicaType /\ w \in ReplicaType /\ d \in ReplicaType /\ r.initialized
  BY <1>1, <1>2 DEF Displays
<1>4. Follows(items, r, d)
  BY <1>1, <1>2, <1>3, FollowsOn
<1>5. low \in 1..d.next /\ d.next \in 1..Len(items) + 1
  BY <1>2, DisplaysRange
<1>8. ASSUME NEW b \in ToSet(r.entries), b.item # "tool" PROVE Keeps(b, ToSet(d.entries))
  <2>1. b \in EntryType
    BY <1>3, ReplicaFields DEF ToSet
  <2>2. Keeps(b, ToSet(w.entries))
    BY <1>1, <1>8
  <2>. QED
    BY <1>2, <1>3, <2>1, <2>2, StaysKeeps
<1>9. Reaches(items, r, d)
  BY <1>1, <1>2, <1>3, <1>4 DEF Reaches
<1>. QED
  BY <1>1, <1>2, <1>5, <1>8, <1>9 DEF Lands, BeforeLanded

LEMMA TailReaches ==
    ASSUME NEW items, NEW w \in ReplicaType, NEW d \in ReplicaType, Sorted(w.entries), Sorted(d.entries),
           \A q \in 1..w.next - 1 : Leader(items, q) =>
               \/ \E c \in ToSet(w.entries) : c.start = q
               \/ \E c \in ToSet(w.entries) :
                     q < c.start /\ c.start < w.next /\ \A b \in ToSet(w.entries) : c.start <= b.start,
           Stays(ToSet(w.entries), ToSet(d.entries)), Follows(items, w, d),
           \A c \in ToSet(d.entries) : c.start >= w.next \/ \E b \in ToSet(w.entries) : b.start = c.start
    PROVE  \A q \in FirstStart(d)..d.next - 1 : Leader(items, q) => \E c \in ToSet(d.entries) : c.start = q
<1>3. w.next \in Int /\ d.next \in Int
  BY ReplicaFields, Constants
<1>5. ASSUME NEW q \in FirstStart(d)..d.next - 1, Leader(items, q) PROVE \E c \in ToSet(d.entries) : c.start = q
  <2>0. q \in Int /\ FirstStart(d) \in Nat /\ 1 <= FirstStart(d) /\ FirstStart(d) <= q
    BY <1>3, FirstStartFacts
  <2>1. CASE q < w.next
    <3>2. q \in 1..w.next - 1
      BY <1>3, <2>0, <2>1
    <3>3. CASE \E c \in ToSet(w.entries) : c.start = q
      BY <1>5, <3>3 DEF Follows
    <3>4. CASE \E c \in ToSet(w.entries) :
                  q < c.start /\ c.start < w.next /\ \A b \in ToSet(w.entries) : c.start <= b.start
      <4>1. PICK c \in ToSet(w.entries) :
                  q < c.start /\ c.start < w.next /\ \A b \in ToSet(w.entries) : c.start <= b.start
        BY <3>4
      <4>2. c.start \in Int /\ \A b \in ToSet(w.entries) : b.start \in Int
        BY <1>3, FirstStartFacts
      <4>3. PICK e \in ToSet(d.entries) : e.start = c.start
        BY DEF Stays
      <4>4. PICK f \in ToSet(d.entries) : f.start = FirstStart(d)
        BY <1>3, <4>3, FirstStartFacts
      <4>5. FirstStart(d) >= w.next \/ \E b \in ToSet(w.entries) : b.start = FirstStart(d)
        BY <4>4
      <4>6. q < FirstStart(d)
        BY <1>3, <2>0, <2>1, <4>1, <4>2, <4>5
      <4>. QED
        BY <2>0, <4>6
    <3>. QED
      BY <1>5, <3>2, <3>3, <3>4
  <2>2. CASE ~(q < w.next)
    <3>1. q \in w.next..d.next - 1
      BY <1>3, <2>0, <2>2
    <3>. QED
      BY <1>5, <3>1 DEF Follows
  <2>. QED
    BY <2>1, <2>2
<1>. QED
  BY <1>5

\* The first page of an epoch.
TailLanded(items, r, page, w, d, list) ==
    /\ Lands(items, r, d, w.next, list) /\ d.epoch = page.epoch
    /\ Drained(w).status \in {"applied", "gap"}

LEMMA TailLands ==
    ASSUME NEW items \in Seq(PlainKinds), Len(items) <= MaxRows, NEW list \in Seq(Message),
           NEW r \in ReplicaType, ~r.initialized,
           NEW page \in PageType, page.direction = "tail",
           \A m \in r.pending : m.epoch = page.epoch => m.seq \in 1..Len(items) /\ m.item = items[m.seq],
           \A m \in r.pending, x \in Stream(list) : m.epoch = x.epoch => m.seq < x.seq,
           NEW seq, NEW n, PageHolds(items, "tail", seq, page, n),
           NEW no, no = FALSE, NEW w, w = WithPage(r, page, no), NEW d, d = Drained(w).replica
    PROVE  TailLanded(items, r, page, w, d, list)
<1>. DEFINE t == w.next
<1>1. /\ Displays(items, w, t, list)
      /\ w.epoch = page.epoch
      /\ \A q \in 1..w.next - 1 : Leader(items, q) =>
            \/ \E c \in ToSet(w.entries) : c.start = q
            \/ \E c \in ToSet(w.entries) :
                  q < c.start /\ c.start < w.next /\ \A b \in ToSet(w.entries) : c.start <= b.start
  BY TailContent
<1>. HIDE DEF t
<1>2. /\ Displays(items, d, t, list)
      /\ d.epoch = w.epoch /\ w.next <= d.next
      /\ \A m \in d.pending : m.seq > d.next
      /\ Follows(items, w, d)
      /\ Stays(ToSet(w.entries), ToSet(d.entries))
      /\ \A c \in ToSet(d.entries) : c.start >= w.next \/ \E b \in ToSet(w.entries) : b.start = c.start
      /\ Drained(w).status \in {"applied", "gap"}
  <2>1. Displays(items, Drained(w).replica, t, list)
    BY <1>1, DrainedContent
  <2>2. /\ Drained(w).replica.epoch = w.epoch /\ w.next <= Drained(w).replica.next
        /\ \A m \in Drained(w).replica.pending : m.seq > Drained(w).replica.next
        /\ Stays(ToSet(w.entries), ToSet(Drained(w).replica.entries))
        /\ \A c \in ToSet(Drained(w).replica.entries) : c.start >= w.next \/ \E b \in ToSet(w.entries) : b.start = c.start
        /\ Follows(items, w, Drained(w).replica)
        /\ Drained(w).status \in {"applied", "gap"}
    BY <1>1, DrainedContent
  <2>. QED
    BY <2>1, <2>2
<1>4. t \in 1..d.next /\ d.next \in 1..Len(items) + 1
  BY <1>2, DisplaysRange
<1>5. \A q \in FirstStart(d)..d.next - 1 : Leader(items, q) => \E c \in ToSet(d.entries) : c.start = q
  <2>1. w \in ReplicaType /\ d \in ReplicaType /\ Sorted(w.entries) /\ Sorted(d.entries)
    BY <1>1, <1>2 DEF Displays
  <2>. QED
    BY ONLY <1>1, <1>2, <2>1, TailReaches, ZenonT(60)
<1>6. Reaches(items, r, d)
  BY <1>5 DEF Reaches
<1>7. Lands(items, r, d, t, list)
  BY <1>2, <1>4, <1>6 DEF Lands
<1>. QED
  BY <1>1, <1>2, <1>7 DEF t, TailLanded

-----------------------------------------------------------------------------
(* The content of a replica, as rows arrive and the wire empties.          *)
LEMMA ContentDisplays ==
    ASSUME NEW T, NEW r \in ReplicaType, r.initialized, NEW list, NEW low, ReplicaContent(T, r, list, low),
           \A m \in r.pending : m.epoch = r.epoch
    PROVE  Displays(T[r.epoch], r, low, list)
<1>1. BufferFits(T[r.epoch], r, list)
  BY DEF ReplicaContent, BufferFits, Known
<1>. QED
  BY <1>1 DEF Displays, ReplicaContent

LEMMA DisplaysContent ==
    ASSUME NEW T, NEW d, NEW list, NEW low, Displays(T[d.epoch], d, low, list),
           \A m \in d.pending : m.seq > d.next
    PROVE  ReplicaContent(T, d, list, low)
<1>1. /\ \A m \in d.pending : Known(T, m)
      /\ \A m \in d.pending, x \in Stream(list) : m.epoch = x.epoch => m.seq < x.seq
  BY DEF Displays, BufferFits, Known
<1>. QED
  BY <1>1 DEF Displays, ReplicaContent

LEMMA TableRows ==
    ASSUME NEW T \in [1..MaxEpochs -> Rows], NEW e \in 1..MaxEpochs
    PROVE  /\ T[e] \in Rows /\ T[e] \in Seq(Items) /\ Len(T[e]) \in Nat /\ Len(T[e]) <= MaxRows
           /\ Items \subseteq PlainKinds => T[e] \in Seq(PlainKinds)
<1>1. T[e] \in Rows
  OBVIOUS
<1>2. T[e] \in Seq(Items) /\ Len(T[e]) \in Nat /\ Len(T[e]) <= MaxRows
  BY <1>1 DEF Rows
<1>3. Items \subseteq PlainKinds => T[e] \in Seq(PlainKinds)
  BY <1>2
<1>. QED
  BY <1>1, <1>2, <1>3

LEMMA ShrinkContent ==
    ASSUME NEW T \in [1..MaxEpochs -> Rows], NEW r \in ReplicaType, r.initialized => r.epoch # 0,
           NEW list, NEW low, ReplicaContent(T, r, list, low),
           NEW fewer, Stream(fewer) \subseteq Stream(list),
           NEW later, r.initialized => later \in low..r.next
    PROVE  ReplicaContent(T, r, fewer, later)
<1>1. /\ \A m \in r.pending : Known(T, m)
      /\ \A m \in r.pending, x \in Stream(fewer) : m.epoch = x.epoch => m.seq < x.seq
  BY DEF ReplicaContent
<1>2. Coming(r, fewer) \subseteq Coming(r, list)
  BY DEF Coming
<1>3. ASSUME r.initialized PROVE Shows(T[r.epoch], ToSet(r.entries), later, r.next, Coming(r, fewer))
  <2>1. r.epoch \in 1..MaxEpochs
    BY <1>3, ReplicaFields, Constants
  <2>2. Len(T[r.epoch]) \in Nat
    BY <2>1, TableRows
  <2>3. Shows(T[r.epoch], ToSet(r.entries), low, r.next, Coming(r, list)) /\ later \in low..r.next
    BY <1>3 DEF ReplicaContent
  <2>. QED
    BY <1>2, <2>2, <2>3, ShowsLater
<1>. QED
  BY <1>1, <1>3 DEF ReplicaContent

LEMMA EmptyContent ==
    ASSUME NEW T, NEW r, ~r.initialized, r.pending = {}, NEW list, NEW low
    PROVE  ReplicaContent(T, r, list, low)
BY DEF ReplicaContent

\* Every epoch keeps its rows.
Grows(T, U) == \A e \in 1..MaxEpochs : Prefix(T[e], U[e])

LEMMA GrownKnown ==
    ASSUME NEW T, NEW U, Grows(T, U), NEW m, m.epoch \in 1..MaxEpochs, Known(T, m)
    PROVE  Known(U, m)
BY DEF Grows, Prefix, Known

LEMMA GrownRequest ==
    ASSUME NEW T, NEW U, Grows(T, U), NEW rq \in {None} \cup Request, RequestContent(T, rq)
    PROVE  RequestContent(U, rq)
<1>. SUFFICES ASSUME rq # None PROVE RequestContent(U, rq)
  BY DEF RequestContent
<1>1. /\ rq.direction \in {"tail", "after", "before"} /\ rq.epoch \in 0..MaxEpochs /\ rq.seq \in Nat
      /\ rq.page # None => rq.page \in PageType /\ rq.page.epoch \in 1..MaxEpochs
  BY RequestFields, PageFields, Constants
<1>2. rq.direction # "tail" => rq.epoch # 0 /\ rq.epoch \in 1..MaxEpochs
  BY <1>1, Constants DEF RequestContent
<1>3. rq.direction # "tail" => Len(T[rq.epoch]) \in Nat /\ Len(U[rq.epoch]) \in Nat /\ Len(T[rq.epoch]) <= Len(U[rq.epoch])
  BY <1>2 DEF Grows, Prefix
<1>4. /\ rq.direction = "after" => rq.seq <= Len(U[rq.epoch])
      /\ rq.direction = "before" => rq.seq <= Len(U[rq.epoch]) \/ rq.seq = 1
  BY <1>1, <1>3 DEF RequestContent
<1>5. ASSUME rq.page # None
      PROVE  \/ rq.page.reset /\ rq.direction # "tail" /\ rq.page.epoch # rq.epoch
             \/ \E n \in 0..Len(U[rq.page.epoch]) : PageHolds(U[rq.page.epoch], rq.direction, rq.seq, rq.page, n)
  <2>1. CASE \E n \in 0..Len(T[rq.page.epoch]) : PageHolds(T[rq.page.epoch], rq.direction, rq.seq, rq.page, n)
    <3>1. PICK n \in 0..Len(T[rq.page.epoch]) : PageHolds(T[rq.page.epoch], rq.direction, rq.seq, rq.page, n)
      BY <2>1
    <3>2. Prefix(T[rq.page.epoch], U[rq.page.epoch])
      BY <1>1, <1>5 DEF Grows
    <3>3. PageHolds(U[rq.page.epoch], rq.direction, rq.seq, rq.page, n)
      BY <1>1, <3>1, <3>2, PageStays
    <3>4. n \in 0..Len(U[rq.page.epoch])
      BY <3>3 DEF PageHolds
    <3>. QED
      BY <3>3, <3>4
  <2>. QED
    BY <1>5, <2>1 DEF RequestContent
<1>. QED
  BY <1>2, <1>4, <1>5 DEF RequestContent

LEMMA GrownOlder ==
    ASSUME NEW T, NEW U, Grows(T, U), NEW ol, NEW r, NEW low \in Int,
           OlderPlaced(T, ol, r, low), ol # None => ol.epoch \in 1..MaxEpochs,
           r.initialized => low <= Len(T[r.epoch]) + 1
    PROVE  OlderPlaced(U, ol, r, low)
<1>. SUFFICES ASSUME ol # None, ol.epoch = r.epoch, ol.seq # 1
              PROVE  Leader(U[ol.epoch], ol.seq)
  BY DEF OlderPlaced
<1>1. r.initialized /\ ol.seq \in 1..low - 1 /\ Leader(T[ol.epoch], ol.seq)
  BY DEF OlderPlaced
<1>2. Prefix(T[ol.epoch], U[ol.epoch])
  BY DEF Grows
<1>3. ol.seq \in 1..Len(T[ol.epoch])
  BY <1>1, <1>2 DEF Prefix
<1>. QED
  BY <1>1, <1>2, <1>3, PrefixLeader

\* A row is appended and sent, or not.
LEMMA GrownReplica ==
    ASSUME NEW T, NEW U, Grows(T, U), NEW r \in ReplicaType, r.initialized => r.epoch # 0,
           NEW list \in Seq(Message), NEW low, ReplicaContent(T, r, list, low),
           NEW more, NEW m, m.epoch \in 1..MaxEpochs, Stream(more) \subseteq Stream(list) \cup {m},
           m.seq = Len(T[m.epoch]) + 1, m.seq = Len(U[m.epoch])
    PROVE  ReplicaContent(U, r, more, low)
<1>1. \A p \in r.pending : p.epoch \in 1..MaxEpochs /\ p.seq \in Int
  BY ReplicaFields, Constants DEF Row
<1>2. \A p \in r.pending : Known(U, p)
  BY <1>1, GrownKnown DEF ReplicaContent
<1>3. Len(T[m.epoch]) \in Nat
  BY DEF Grows, Prefix
<1>4. \A p \in r.pending : p.epoch = m.epoch => p.seq < m.seq
  BY <1>1, <1>3 DEF ReplicaContent, Known
<1>5. \A p \in r.pending, x \in Stream(more) : p.epoch = x.epoch => p.seq < x.seq
  BY <1>4 DEF ReplicaContent
<1>6. ASSUME r.initialized PROVE Shows(U[r.epoch], ToSet(r.entries), low, r.next, Coming(r, more))
  <2>1. r.epoch \in 1..MaxEpochs
    BY <1>6, ReplicaFields, Constants
  <2>2. Prefix(T[r.epoch], U[r.epoch])
    BY <2>1 DEF Grows
  <2>3. Shows(T[r.epoch], ToSet(r.entries), low, r.next, Coming(r, list))
    BY <1>6 DEF ReplicaContent
  <2>4. \A t \in Coming(r, more) : t \in Coming(r, list) \/ (r.epoch = m.epoch /\ t = m.seq)
    BY DEF Coming
  <2>5. r.epoch = m.epoch => m.seq \in Len(T[r.epoch]) + 1..Len(U[r.epoch])
    BY <1>3
  <2>6. \A t \in Coming(r, more) : t \in Coming(r, list) \/ t \in Len(T[r.epoch]) + 1..Len(U[r.epoch])
    BY <2>4, <2>5
  <2>. QED
    BY <2>2, <2>3, <2>6, ShowsPrefix
<1>. QED
  BY <1>2, <1>5, <1>6 DEF ReplicaContent

LEMMA GrownWire ==
    ASSUME NEW T, NEW U, Grows(T, U), NEW list \in Seq(Message), WireContent(T, list)
    PROVE  WireContent(U, list)
<1>1. \A m \in Stream(list) : m.epoch \in 1..MaxEpochs
  BY DEF Stream, ToSet, Message
<1>2. \A m \in Stream(list) : Known(U, m)
  BY <1>1, GrownKnown DEF WireContent
<1>. QED
  BY <1>2 DEF WireContent

\* What is taken from the wire or removed.
LEMMA ShrinkWire ==
    ASSUME NEW T, NEW list \in Seq(Message), WireContent(T, list)
    PROVE  /\ WireContent(T, WithoutPage(list)) /\ Stream(WithoutPage(list)) \subseteq Stream(list)
           /\ list # <<>> => WireContent(T, Tail(list)) /\ Stream(Tail(list)) \subseteq Stream(list)
           /\ list # <<>> => WireContent(T, WithoutPage(Tail(list))) /\ Stream(WithoutPage(Tail(list))) \subseteq Stream(list)
<1>1. WireContent(T, WithoutPage(list)) /\ Stream(WithoutPage(list)) \subseteq Stream(list)
  BY StreamOnly DEF WireContent
<1>2. ASSUME list # <<>> PROVE WireContent(T, Tail(list)) /\ Stream(Tail(list)) \subseteq Stream(list) /\ Tail(list) \in Seq(Message)
  BY <1>2, StreamTail, HeadType DEF WireContent
<1>3. ASSUME list # <<>> PROVE WireContent(T, WithoutPage(Tail(list))) /\ Stream(WithoutPage(Tail(list))) \subseteq Stream(list)
  BY <1>2, <1>3, StreamOnly DEF WireContent
<1>. QED
  BY <1>1, <1>2, <1>3

-----------------------------------------------------------------------------
(* A live row.                                                             *)

\* A step of the replica that passes over nothing.
Passes(T, r, d) == d.initialized => Reaches(T[d.epoch], r, d)

LEMMA BufferedContent ==
    ASSUME NEW T, NEW r, NEW m, Known(T, m), NEW list, NEW rest, NEW low,
           \A p \in r.pending : Known(T, p),
           \A p \in r.pending, x \in Stream(rest) : p.epoch = x.epoch => p.seq < x.seq,
           \A x \in Stream(rest) : x.epoch = m.epoch => m.seq < x.seq,
           Buffered(r, m).pending = r.pending \cup {m}, Buffered(r, m).initialized = FALSE
    PROVE  ReplicaContent(T, Buffered(r, m), rest, low)
BY DEF ReplicaContent

\* The next row: nothing is buffered, and it is put on display.
LEMMA AppendedContent ==
    ASSUME Items \subseteq PlainKinds, NEW T \in [1..MaxEpochs -> Rows], NEW r \in ReplicaType, r.initialized,
           \A p \in r.pending : p.epoch = r.epoch,
           NEW list \in Seq(Message), NEW low, ReplicaContent(T, r, list, low),
           NEW m \in Row, m.epoch = r.epoch, m.seq = r.next, Known(T, m),
           NEW h \in Stream(list), h.epoch = m.epoch, h.seq = m.seq,
           NEW rest \in Seq(Message), Stream(rest) \subseteq Stream(list),
           \A x \in Stream(rest) : x.epoch = m.epoch => m.seq < x.seq
    PROVE  /\ ReplicaContent(T, Appended(r, m), rest, low)
           /\ Follows(T[r.epoch], r, Appended(r, m))
<1>. DEFINE a == Appended(r, m)
            items == T[r.epoch]
            coming == Coming(r, list)
            left == Coming(a, rest)
            t == m.seq
<1>1. /\ a \in ReplicaType /\ a.epoch = r.epoch /\ a.initialized = r.initialized /\ a.next = t + 1
      /\ a.pending = {p \in r.pending : p.seq # t}
  BY AppendedIs
<1>2. r.pending = {}
  <2>1. ASSUME NEW p \in r.pending PROVE FALSE
    <3>1. p.seq < h.seq /\ p.seq > r.next
      BY <2>1 DEF ReplicaContent
    <3>2. p.seq \in Int /\ h.seq \in Int
      BY ReplicaFields, Constants DEF Row
    <3>. QED
      BY <3>1, <3>2
  <2>. QED
    BY <2>1
<1>3. items \in Seq(PlainKinds) /\ Len(items) <= MaxRows /\ Len(items) \in Nat /\ t \in 1..Len(items) /\ m.item = items[t]
  <2>1. r.epoch \in 1..MaxEpochs
    BY DEF Row
  <2>. QED
    BY <2>1, TableRows DEF Known
<1>4. Sorted(r.entries) /\ Shows(items, ToSet(r.entries), low, r.next, coming)
  BY DEF ReplicaContent
<1>5. t \in coming
  BY DEF Coming
<1>. HIDE DEF a
<1>6. \A s \in left : s \in coming /\ t < s
  BY <1>1, <1>2 DEF Coming
<1>. HIDE DEF coming, left, items
<1>7. Adds(items, r, a, t, low, left)
  <2>1. \A s \in left : s \in coming /\ m.seq < s
    BY <1>6
  <2>2. Adds(items, r, Appended(r, m), m.seq, low, left)
    BY <1>3, <1>4, <1>5, <2>1, AppendedShows
  <2>. QED
    BY <2>2 DEF a
<1>8. /\ Sorted(a.entries) /\ Shows(items, ToSet(a.entries), low, t + 1, left)
      /\ Stays(ToSet(r.entries), ToSet(a.entries))
  BY <1>7 DEF Adds
<1>9. ReplicaContent(T, a, rest, low)
  BY <1>1, <1>2, <1>8 DEF ReplicaContent, items, left
<1>10. Follows(items, r, a)
  <2>1. \A b \in ToSet(r.entries) : Leader(items, b.start) => \E c \in ToSet(a.entries) : c.start = b.start
    BY <1>8 DEF Stays
  <2>2. ASSUME NEW q \in r.next..a.next - 1, Leader(items, q) PROVE \E c \in ToSet(a.entries) : c.start = q
    <3>1. q = t /\ t \in Nat
      BY <1>1, <1>3
    <3>2. low \in 1..t /\ low \in Nat
      BY <1>3, <1>4 DEF Shows
    <3>3. \A k \in q + 1..low - 1 : FALSE
      BY <3>1, <3>2
    <3>4. Passed(items, ToSet(a.entries), t + 1, q)
      BY <3>1 DEF Passed
    <3>. QED
      BY <1>3, <1>8, <2>2, <3>1, <3>3, <3>4 DEF Shows, LeadersHeld
  <2>. QED
    BY <2>1, <2>2 DEF Follows
<1>. QED
  BY <1>9, <1>10 DEF a, items

\* A row beyond the next one is buffered and stays to come.
LEMMA GapContent ==
    ASSUME NEW T \in [1..MaxEpochs -> Rows], NEW r \in ReplicaType, r.initialized, r.epoch # 0,
           NEW list, NEW low, ReplicaContent(T, r, list, low),
           NEW m, m.epoch = r.epoch, m.seq > r.next, Known(T, m),
           NEW h \in Stream(list), h.epoch = m.epoch, h.seq = m.seq,
           NEW rest, Stream(rest) \subseteq Stream(list),
           \A x \in Stream(rest) : x.epoch = m.epoch => m.seq < x.seq
    PROVE  ReplicaContent(T, Buffered(r, m), rest, low)
<1>. DEFINE d == Buffered(r, m)
<1>1. /\ d.epoch = r.epoch /\ d.initialized = r.initialized /\ d.next = r.next /\ d.entries = r.entries
      /\ d.pending = r.pending \cup {m}
  BY DEF Buffered, ReplicaType
<1>. HIDE DEF d
<1>2. Coming(d, rest) \subseteq Coming(r, list)
  BY <1>1 DEF Coming
<1>3. Shows(T[r.epoch], ToSet(r.entries), low, r.next, Coming(d, rest))
  <2>1. r.epoch \in 1..MaxEpochs
    BY ReplicaFields, Constants
  <2>2. Len(T[r.epoch]) \in Nat
    BY <2>1, TableRows
  <2>3. Shows(T[r.epoch], ToSet(r.entries), low, r.next, Coming(r, list))
    BY DEF ReplicaContent
  <2>4. low \in low..r.next
    BY <2>2, <2>3, ShowsFields
  <2>. QED
    BY <1>2, <2>2, <2>3, <2>4, ShowsLater
<1>4. /\ \A p \in d.pending : Known(T, p) /\ p.seq > d.next
      /\ \A p \in d.pending, x \in Stream(rest) : p.epoch = x.epoch => p.seq < x.seq
  BY <1>1 DEF ReplicaContent
<1>5. Sorted(d.entries)
  BY <1>1 DEF ReplicaContent
<1>6. ReplicaContent(T, d, rest, low)
  BY <1>1, <1>3, <1>4, <1>5 DEF ReplicaContent
<1>. QED
  BY <1>6 DEF d

LEMMA SelfFollows ==
    ASSUME NEW items, NEW r \in ReplicaType, NEW d, d.entries = r.entries, d.next = r.next
    PROVE  Follows(items, r, d)
<1>1. \A q \in r.next..d.next - 1 : FALSE
  BY ReplicaFields, Constants
<1>. QED
  BY <1>1 DEF Follows

LiveOutcome(T, r, d, st, rest, low, e) ==
    /\ ReplicaContent(T, d, rest, low)
    /\ Passes(T, r, d)
    /\ d.epoch = e
    /\ \/ ~d.initialized /\ st = "epoch_changed" /\ r.epoch < e
       \/ ~d.initialized /\ ~r.initialized /\ st = "buffered"
       \/ d.initialized /\ r.initialized /\ r.epoch = e /\ r.next <= d.next /\ st \in {"duplicate", "gap", "applied"}

LEMMA LiveContent ==
    ASSUME Items \subseteq PlainKinds, NEW T \in [1..MaxEpochs -> Rows], NEW r \in ReplicaType, NEW top \in Int, ReplicaEpochs(r, top),
           NEW list \in Seq(Message), NEW low, ReplicaContent(T, r, list, low),
           NEW rest \in Seq(Message), Stream(rest) \subseteq Stream(list),
           NEW h \in Stream(list), Known(T, h),
           \A x \in Stream(rest) : x.epoch = h.epoch => h.seq < x.seq,
           NEW m \in Row, m.epoch = h.epoch, m.seq = h.seq, m.item = h.item, r.epoch <= m.epoch
    PROVE  LiveOutcome(T, r, ReduceLive(r, m).replica, ReduceLive(r, m).status, rest, low, m.epoch)
<1>0. r.epoch \in 0..MaxEpochs /\ m.epoch \in 1..MaxEpochs /\ r.retired \in SUBSET (1..MaxEpochs) /\ r.initialized \in BOOLEAN
      /\ MaxEpochs \in Nat /\ r.next \in Int /\ m.seq \in Int
  BY ReplicaFields, Constants DEF Row
<1>1. m.epoch \notin r.retired
  BY <1>0 DEF ReplicaEpochs
<1>2. /\ Known(T, m) /\ \A x \in Stream(rest) : x.epoch = m.epoch => m.seq < x.seq
      /\ \A p \in r.pending : Known(T, p)
      /\ \A p \in r.pending, x \in Stream(rest) : p.epoch = x.epoch => p.seq < x.seq
  BY DEF Known, ReplicaContent
<1>3. CASE r.epoch \notin {0, m.epoch}
  <2>. DEFINE s == Replaced(r, m.epoch)
              d == Buffered(s, m)
  <2>1. ReduceLive(r, m) = Reduced("epoch_changed", d)
    BY <1>1, <1>3 DEF ReduceLive
  <2>2. s.epoch = m.epoch /\ s.initialized = FALSE /\ s.pending = {}
    BY <1>3 DEF Replaced, EmptyReplica
  <2>3. s \in ReplicaType
    BY <1>0, ReplacedType
  <2>. HIDE DEF s
  <2>4. d.epoch = m.epoch /\ d.initialized = FALSE /\ d.pending = s.pending \cup {m}
    BY <2>2, <2>3 DEF Buffered, ReplicaType
  <2>5. ReplicaContent(T, d, rest, low)
    BY <1>2, <2>2, <2>4, BufferedContent
  <2>6. r.epoch < m.epoch
    BY <1>0, <1>3
  <2>. HIDE DEF d
  <2>7. ReduceLive(r, m).replica = d /\ ReduceLive(r, m).status = "epoch_changed"
    BY <2>1 DEF Reduced
  <2>. QED
    BY <2>4, <2>5, <2>6, <2>7 DEF LiveOutcome, Passes
<1>4. CASE r.epoch \in {0, m.epoch} /\ ~r.initialized
  <2>. DEFINE s == [r EXCEPT !.epoch = m.epoch]
              d == Buffered(s, m)
  <2>1. ReduceLive(r, m) = Reduced("buffered", d)
    BY <1>1, <1>4 DEF ReduceLive
  <2>2. s.epoch = m.epoch /\ s.initialized = FALSE /\ s.pending = r.pending /\ s \in ReplicaType
    <3>0. m.epoch \in 0..MaxEpochs
      BY <1>0
    <3>. DEFINE e == m.epoch
    <3>. HIDE DEF e
    <3>a. s = [r EXCEPT !.epoch = e] /\ e \in 0..MaxEpochs /\ r \in ReplicaType
      BY <3>0 DEF e
    <3>b. s.epoch = e /\ s.initialized = r.initialized /\ s.pending = r.pending /\ s \in ReplicaType
      BY ONLY <3>a DEF ReplicaType
    <3>1. s.epoch = m.epoch /\ s.initialized = r.initialized /\ s.pending = r.pending /\ s \in ReplicaType
      BY <3>b DEF e
    <3>2. r.initialized = FALSE
      BY <1>0, <1>4
    <3>. QED
      BY <3>1, <3>2
  <2>. HIDE DEF s
  <2>4. d.epoch = m.epoch /\ d.initialized = FALSE /\ d.pending = s.pending \cup {m}
    BY <2>2 DEF Buffered, ReplicaType
  <2>5. ReplicaContent(T, d, rest, low)
    BY <1>2, <2>2, <2>4, BufferedContent
  <2>. HIDE DEF d
  <2>7. ReduceLive(r, m).replica = d /\ ReduceLive(r, m).status = "buffered"
    BY <2>1 DEF Reduced
  <2>. QED
    BY <1>4, <2>4, <2>5, <2>7 DEF LiveOutcome, Passes
<1>5. CASE r.epoch \in {0, m.epoch} /\ r.initialized
  <2>0. r.epoch = m.epoch /\ r.epoch # 0
    BY <1>0, <1>5 DEF ReplicaEpochs
  <2>1. CASE m.seq < r.next
    <3>1. ReduceLive(r, m) = Reduced("duplicate", r)
      BY <1>1, <1>5, <2>0, <2>1 DEF ReduceLive
    <3>2. low \in low..r.next
      <4>1. Shows(T[r.epoch], ToSet(r.entries), low, r.next, Coming(r, list))
        BY <1>5 DEF ReplicaContent
      <4>2. Len(T[r.epoch]) \in Nat
        BY <1>0, <2>0, TableRows
      <4>. QED
        BY <4>1, <4>2, ShowsFields
    <3>3. ReplicaContent(T, r, rest, low)
      BY <2>0, <3>2, ShrinkContent
    <3>4. Passes(T, r, r)
      BY SelfFollows DEF Passes, Reaches
    <3>5. ReduceLive(r, m).replica = r /\ ReduceLive(r, m).status = "duplicate"
      BY <3>1 DEF Reduced
    <3>. QED
      BY <1>0, <1>5, <2>0, <3>3, <3>4, <3>5 DEF LiveOutcome
  <2>2. CASE m.seq > r.next
    <3>. DEFINE d == Buffered(r, m)
    <3>1. ReduceLive(r, m) = Reduced("gap", d)
      BY <1>0, <1>1, <1>5, <2>0, <2>2 DEF ReduceLive
    <3>2. d.epoch = r.epoch /\ d.initialized = r.initialized /\ d.next = r.next /\ d.entries = r.entries
      BY DEF Buffered, ReplicaType
    <3>3. ReplicaContent(T, d, rest, low)
      BY <1>2, <1>5, <2>0, <2>2, GapContent
    <3>. HIDE DEF d
    <3>4. Passes(T, r, d)
      BY <1>5, <3>2, SelfFollows DEF Passes, Reaches
    <3>5. ReduceLive(r, m).replica = d /\ ReduceLive(r, m).status = "gap"
      BY <3>1 DEF Reduced
    <3>6. r.next <= d.next /\ d.initialized
      BY <1>0, <1>5, <3>2
    <3>. QED
      BY <1>5, <2>0, <3>2, <3>3, <3>4, <3>5, <3>6 DEF LiveOutcome
  <2>3. CASE m.seq = r.next
    <3>. DEFINE d == Appended(r, m)
    <3>1. ReduceLive(r, m) = Reduced("applied", d)
      BY <1>0, <1>1, <1>5, <2>0, <2>3 DEF ReduceLive
    <3>2. d.epoch = r.epoch /\ d.initialized = r.initialized /\ d.next = m.seq + 1
      BY AppendedIs
    <3>3. ReplicaContent(T, d, rest, low) /\ Follows(T[r.epoch], r, d)
      <4>1. \A p \in r.pending : p.epoch = r.epoch
        BY DEF ReplicaEpochs
      <4>. QED
        BY <1>2, <1>5, <2>0, <2>3, <4>1, AppendedContent
    <3>. HIDE DEF d
    <3>4. Passes(T, r, d)
      BY <1>5, <3>2, <3>3 DEF Passes, Reaches
    <3>5. ReduceLive(r, m).replica = d /\ ReduceLive(r, m).status = "applied"
      BY <3>1 DEF Reduced
    <3>6. r.next <= d.next
      BY <1>0, <2>3, <3>2
    <3>. QED
      BY <1>5, <2>0, <3>2, <3>3, <3>4, <3>5, <3>6 DEF LiveOutcome
  <2>. QED
    BY <1>0, <2>1, <2>2, <2>3
<1>. QED
  BY <1>0, <1>3, <1>4, <1>5

-----------------------------------------------------------------------------
(* A page that was asked for.                                              *)

\* The page and the rows it is of.
LEMMA PageOfRequest ==
    ASSUME NEW T \in [1..MaxEpochs -> Rows], NEW rq \in Request, rq # None, rq.page # None, NEW top, PageEpochs(rq, top),
           RequestContent(T, rq)
    PROVE  /\ rq.page \in PageType /\ rq.page.epoch \in 1..MaxEpochs /\ rq.page.direction = rq.direction /\ rq.seq \in Nat
           /\ rq.page.end \in Int
           /\ T[rq.page.epoch] \in Seq(PlainKinds) \/ ~(Items \subseteq PlainKinds)
           /\ Len(T[rq.page.epoch]) <= MaxRows /\ Len(T[rq.page.epoch]) \in Nat
           /\ \/ rq.page.reset /\ rq.direction # "tail" /\ rq.page.epoch # rq.epoch
              \/ \E n \in 0..Len(T[rq.page.epoch]) :
                    /\ PageHolds(T[rq.page.epoch], rq.direction, rq.seq, rq.page, n)
                    /\ ~rq.page.reset /\ ~rq.page.gap
                    /\ rq.direction # "tail" => rq.page.epoch = rq.epoch
<1>1. rq.page \in PageType /\ rq.page.epoch \in 1..MaxEpochs /\ rq.seq \in Nat /\ rq.page.end \in Int
  BY RequestFields, PageFields, Constants
<1>2. rq.page.direction = rq.direction
  BY DEF PageEpochs
<1>3. CASE \E n \in 0..Len(T[rq.page.epoch]) : PageHolds(T[rq.page.epoch], rq.direction, rq.seq, rq.page, n)
  <2>1. PICK n \in 0..Len(T[rq.page.epoch]) : PageHolds(T[rq.page.epoch], rq.direction, rq.seq, rq.page, n)
    BY <1>3
  <2>2. ~rq.page.reset /\ ~rq.page.gap
    BY <2>1 DEF PageHolds
  <2>3. rq.direction # "tail" => rq.page.epoch = rq.epoch
    BY <2>2 DEF PageEpochs
  <2>. QED
    BY <1>1, <1>2, <2>1, <2>2, <2>3, TableRows
<1>4. CASE rq.page.reset /\ rq.direction # "tail" /\ rq.page.epoch # rq.epoch
  BY <1>1, <1>2, <1>4, TableRows
<1>. QED
  BY <1>3, <1>4 DEF RequestContent

\* Where older history is being read.
LEMMA OlderOn ==
    ASSUME NEW T, NEW ol, NEW r, NEW d, r.epoch \in Int, d.epoch \in Int, ol # None => ol.epoch \in Int,
           NEW low \in Int, NEW later \in Int, OlderPlaced(T, ol, r, low), r.epoch <= d.epoch,
           r.epoch = d.epoch /\ r.initialized => d.initialized /\ low <= later
    PROVE  OlderPlaced(T, ol, d, later)
<1>. SUFFICES ASSUME ol # None PROVE OlderPlaced(T, ol, d, later)
  BY DEF OlderPlaced
<1>1. ol.epoch <= r.epoch /\ ol.epoch \in Int
  BY DEF OlderPlaced
<1>2. CASE ol.epoch = d.epoch
  <2>1. r.epoch = d.epoch /\ r.initialized
    BY <1>1, <1>2 DEF OlderPlaced
  <2>2. d.initialized /\ low <= later
    BY <2>1
  <2>3. ol.seq = 1 \/ (ol.seq \in 1..later - 1 /\ Leader(T[ol.epoch], ol.seq))
    <3>1. ol.seq = 1 \/ (ol.seq \in 1..low - 1 /\ Leader(T[ol.epoch], ol.seq))
      BY <1>2, <2>1 DEF OlderPlaced
    <3>. QED
      BY <2>2, <3>1
  <2>. QED
    BY <1>1, <1>2, <2>1, <2>2, <2>3 DEF OlderPlaced
<1>3. CASE ol.epoch # d.epoch
  BY <1>1, <1>3 DEF OlderPlaced
<1>. QED
  BY <1>2, <1>3

\* What a catch-up page leaves.
CatchUpOutcome(T, r, rq, d, st, list) ==
    /\ Passes(T, r, d)
    /\ \/ st = "reset_required" /\ ~d.initialized /\ d.pending = {} /\ r.epoch < d.epoch
       \/ /\ st \in {"applied", "gap"} /\ d.initialized
          /\ ReplicaContent(T, d, list, d.next)
          /\ rq.direction = "after" /\ rq.page.hasNewer =>
                /\ ReplicaContent(T, d, list, rq.page.end + 1)
                /\ rq.page.end < d.next /\ rq.page.end <= Len(T[d.epoch])
          /\ r.initialized => /\ r.epoch = d.epoch
                              /\ LowOf(rq, r) <= d.next
                              /\ rq.direction = "after" /\ rq.page.hasNewer => LowOf(rq, r) <= rq.page.end + 1

LEMMA LandsContent ==
    ASSUME NEW T \in [1..MaxEpochs -> Rows], NEW r, NEW d \in ReplicaType, d.epoch \in 1..MaxEpochs,
           NEW list, NEW low, Lands(T[d.epoch], r, d, low, list)
    PROVE  /\ d.initialized /\ Passes(T, r, d)
           /\ ReplicaContent(T, d, list, low) /\ ReplicaContent(T, d, list, d.next)
           /\ low \in 1..d.next /\ low \in Int /\ d.next \in Int /\ d.next <= Len(T[d.epoch]) + 1
<1>1. /\ d.initialized /\ Displays(T[d.epoch], d, low, list) /\ Reaches(T[d.epoch], r, d)
      /\ \A m \in d.pending : m.seq > d.next
      /\ low \in 1..d.next /\ d.next \in 1..Len(T[d.epoch]) + 1
  BY DEF Lands, Displays
<1>2. ReplicaContent(T, d, list, low)
  BY <1>1, DisplaysContent
<1>3. d.next \in low..d.next /\ low \in Int /\ d.next \in Int /\ d.next <= Len(T[d.epoch]) + 1
  BY <1>1, TableRows
<1>4. d.epoch # 0
  BY Constants
<1>5. ReplicaContent(T, d, list, d.next)
  BY <1>2, <1>3, <1>4, ShrinkContent
<1>. QED
  BY <1>1, <1>2, <1>3, <1>5 DEF Passes

LEMMA CatchUpContent ==
    ASSUME Items \subseteq PlainKinds, NEW T \in [1..MaxEpochs -> Rows], NEW r \in ReplicaType, NEW top \in Int, ReplicaEpochs(r, top),
           NEW list \in Seq(Message), NEW rq \in Request, rq # None, rq.page # None, RequestContent(T, rq), PageEpochs(rq, top),
           rq.direction \in {"tail", "after"}, RecoveryPlaced(rq, r),
           ReplicaContent(T, r, list, LowOf(rq, r)), r.epoch <= rq.page.epoch
    PROVE  CatchUpOutcome(T, r, rq, ApplyPage(r, rq.page, FALSE).replica, ApplyPage(r, rq.page, FALSE).status, list)
<1>. DEFINE page == rq.page
            items == T[page.epoch]
            d == ApplyPage(r, page, FALSE).replica
            st == ApplyPage(r, page, FALSE).status
            changed == r.epoch \notin {0, page.epoch}
<1>0. /\ page \in PageType /\ page.epoch \in 1..MaxEpochs /\ page.direction = rq.direction /\ rq.seq \in Nat
      /\ items \in Seq(PlainKinds) /\ Len(items) <= MaxRows /\ Len(items) \in Nat /\ page.end \in Int
      /\ \/ page.reset /\ rq.direction # "tail" /\ page.epoch # rq.epoch
         \/ \E n \in 0..Len(items) :
               /\ PageHolds(items, rq.direction, rq.seq, page, n)
               /\ ~page.reset /\ ~page.gap
               /\ rq.direction # "tail" => page.epoch = rq.epoch
  BY PageOfRequest
<1>1. r.epoch \in 0..MaxEpochs /\ r.epoch \in Int /\ page.epoch \in Int /\ r.retired \in SUBSET (1..MaxEpochs)
      /\ r.initialized \in BOOLEAN /\ r.next \in Int
  BY <1>0, ReplicaFields, Constants
<1>2. page.epoch \notin r.retired
  BY <1>1 DEF ReplicaEpochs
<1>3. CASE page.reset /\ rq.direction # "tail" /\ page.epoch # rq.epoch
  <2>1. rq.direction = "after" /\ rq.epoch = r.epoch /\ r.initialized
    BY <1>3 DEF RecoveryPlaced
  <2>2. ApplyPage(r, page, FALSE) = Reduced("reset_required", Replaced(r, page.epoch))
    BY <1>3 DEF ApplyPage
  <2>3. Replaced(r, page.epoch) = EmptyReplica(page.epoch, r.retired \cup ({r.epoch} \ {0, page.epoch}))
    BY <1>3, <2>1 DEF Replaced
  <2>. DEFINE s == EmptyReplica(page.epoch, r.retired \cup ({r.epoch} \ {0, page.epoch}))
  <2>4. s.epoch = page.epoch /\ s.initialized = FALSE /\ s.pending = {}
    BY DEF EmptyReplica
  <2>. HIDE DEF s
  <2>a. ApplyPage(r, page, FALSE) = Reduced("reset_required", s)
    BY ONLY <2>2, <2>3, Zenon DEF s
  <2>. DEFINE y == ApplyPage(r, page, FALSE)
  <2>b. y = Reduced("reset_required", s) /\ d = y.replica /\ st = y.status
    BY <2>a
  <2>. HIDE DEF y, d, st
  <2>5. d = s /\ st = "reset_required"
    BY <2>b DEF Reduced
  <2>6. r.epoch < s.epoch
    BY <1>1, <1>3, <2>1, <2>4
  <2>7. CatchUpOutcome(T, r, rq, d, st, list)
    BY <2>4, <2>5, <2>6 DEF CatchUpOutcome, Passes
  <2>. QED
    BY <2>7 DEF d, st
<1>4. CASE \E n \in 0..Len(items) :
               /\ PageHolds(items, rq.direction, rq.seq, page, n)
               /\ ~page.reset /\ ~page.gap
               /\ rq.direction # "tail" => page.epoch = rq.epoch
  <2>0. PICK n \in 0..Len(items) :
               /\ PageHolds(items, rq.direction, rq.seq, page, n)
               /\ ~page.reset /\ ~page.gap
               /\ rq.direction # "tail" => page.epoch = rq.epoch
    BY <1>4
  <2>1. CASE rq.direction = "after"
    <3>. DEFINE w == WithPage(r, page, FALSE)
                x == Drained(w).replica
                low == rq.seq + 1
    <3>1. r.initialized /\ rq.epoch = r.epoch /\ page.epoch = r.epoch /\ rq.seq < r.next /\ r.epoch # 0
      BY <1>1, <2>0, <2>1, Constants DEF RecoveryPlaced, ReplicaEpochs
    <3>2. ApplyPage(r, page, FALSE) = Drained(w)
      BY <2>0, <3>1 DEF ApplyPage
    <3>3. LowOf(rq, r) = low
      BY <2>1 DEF LowOf
    <3>4. Displays(items, r, low, list)
      <4>1. \A m \in r.pending : m.epoch = r.epoch
        BY DEF ReplicaEpochs
      <4>2. Displays(T[r.epoch], r, LowOf(rq, r), list)
        BY <3>1, <4>1, ContentDisplays
      <4>. QED
        BY <3>1, <3>3, <4>2
    <3>5. FALSE \in BOOLEAN /\ rq.seq < low /\ PageHolds(items, "after", rq.seq, page, n)
      BY <1>0, <2>0, <2>1
    <3>. HIDE DEF items, low
    <3>6. /\ Lands(items, r, x, w.next, list) /\ x.epoch = r.epoch
          /\ n + 1 <= x.next
          /\ w.next = n + 1
          /\ Drained(w).status \in {"applied", "gap"}
      <4>. DEFINE seq == rq.seq
      <4>. DEFINE no == FALSE
      <4>1. low = seq + 1 /\ seq \in Nat /\ seq < low /\ PageHolds(items, "after", seq, page, n) /\ no \in BOOLEAN /\ ~no
        BY <1>0, <3>5 DEF low
      <4>a. /\ page \in PageType /\ page.direction = "after" /\ page.epoch = r.epoch
            /\ items \in Seq(PlainKinds) /\ Len(items) <= MaxRows
        BY <1>0, <2>1, <3>1
      <4>b. w = WithPage(r, page, no) /\ x = Drained(w).replica
        OBVIOUS
      <4>. HIDE DEF seq, page, w, x, no
      <4>2. AfterLanded(items, r, no, w, x, list, n)
        BY <3>4, <4>1, <4>a, <4>b, AfterLands
      <4>. QED
        BY <4>1, <4>2 DEF AfterLanded
    <3>7. d = x /\ st = Drained(w).status
      BY <3>2
    <3>. HIDE DEF d, st, x, w
    <3>8. x \in ReplicaType
      BY <3>6 DEF Lands, Displays
    <3>9. /\ x.initialized /\ Passes(T, r, x)
          /\ ReplicaContent(T, x, list, n + 1) /\ ReplicaContent(T, x, list, x.next)
          /\ x.next \in Int
      <4>1. Lands(T[x.epoch], r, x, w.next, list) /\ x.epoch \in 1..MaxEpochs
        BY <1>0, <3>1, <3>6 DEF items
      <4>. QED
        BY <3>6, <3>8, <4>1, LandsContent
    <3>10. page.hasNewer => page.end = n
      BY <3>5 DEF PageHolds
    <3>11. n \in Int /\ rq.seq <= n /\ rq.seq \in Int /\ n <= Len(T[page.epoch])
      BY <1>0, <3>5 DEF PageHolds, items
    <3>12. rq.page.hasNewer =>
              /\ ReplicaContent(T, x, list, rq.page.end + 1)
              /\ rq.page.end < x.next /\ rq.page.end <= Len(T[x.epoch])
              /\ low <= rq.page.end + 1
      <4>. SUFFICES ASSUME page.hasNewer
                    PROVE  /\ ReplicaContent(T, x, list, page.end + 1)
                           /\ page.end < x.next /\ page.end <= Len(T[x.epoch])
                           /\ low <= page.end + 1
        OBVIOUS
      <4>1. page.end = n
        BY <3>10
      <4>. QED
        BY <3>1, <3>6, <3>9, <3>11, <4>1 DEF low
    <3>13. low <= x.next
      BY <3>6, <3>9, <3>11 DEF low
    <3>14. CatchUpOutcome(T, r, rq, x, Drained(w).status, list)
      BY <3>1, <3>3, <3>6, <3>9, <3>12, <3>13 DEF CatchUpOutcome
    <3>. QED
      BY <3>7, <3>14 DEF d, st
  <2>2. CASE rq.direction = "tail"
    <3>. DEFINE base == IF changed THEN Replaced(r, page.epoch) ELSE r
                w == WithPage(base, page, FALSE)
                x == Drained(w).replica
    <3>1. ~r.initialized
      BY <2>2 DEF RecoveryPlaced
    <3>2. ApplyPage(r, page, FALSE) = Drained(w)
      BY <1>0, <1>2, <2>0, <2>2 DEF ApplyPage
    <3>3. /\ base \in ReplicaType /\ ~base.initialized
          /\ \A m \in base.pending : m \in r.pending
          /\ base.epoch \in {0, page.epoch}
      <4>1. CASE changed
        <5>1. base = EmptyReplica(page.epoch, r.retired \cup ({r.epoch} \ {0, page.epoch}))
          BY <4>1 DEF Replaced
        <5>2. base \in ReplicaType
          BY <1>0, <4>1, ReplacedType
        <5>. QED
          BY <5>1, <5>2 DEF EmptyReplica
      <4>2. CASE ~changed
        BY <3>1, <4>2
      <4>. QED
        BY <4>1, <4>2
    <3>. HIDE DEF base
    <3>4. /\ \A m \in base.pending : m.epoch = page.epoch => m.seq \in 1..Len(items) /\ m.item = items[m.seq]
          /\ \A m \in base.pending, y \in Stream(list) : m.epoch = y.epoch => m.seq < y.seq
      BY <3>3 DEF ReplicaContent, Known
    <3>5. PageHolds(items, "tail", rq.seq, page, n)
      BY <2>0, <2>2
    <3>. HIDE DEF items
    <3>6. /\ Lands(items, base, x, w.next, list) /\ x.epoch = page.epoch
          /\ Drained(w).status \in {"applied", "gap"}
      <4>. DEFINE seq == rq.seq
      <4>a. /\ page \in PageType /\ page.direction = "tail" /\ PageHolds(items, "tail", seq, page, n)
            /\ items \in Seq(PlainKinds) /\ Len(items) <= MaxRows
        BY <1>0, <2>2, <3>5
      <4>. DEFINE no == FALSE
      <4>b. w = WithPage(base, page, no) /\ x = Drained(w).replica /\ no = FALSE
        OBVIOUS
      <4>. HIDE DEF seq, page, w, x, no
      <4>1. TailLanded(items, base, page, w, x, list)
        BY <3>3, <3>4, <4>a, <4>b, TailLands
      <4>. QED
        BY <4>1 DEF TailLanded
    <3>7. d = x /\ st = Drained(w).status
      BY <3>2
    <3>. HIDE DEF d, st, x, w
    <3>8. x \in ReplicaType
      BY <3>6 DEF Lands, Displays
    <3>9. /\ x.initialized /\ Passes(T, base, x) /\ ReplicaContent(T, x, list, x.next)
      <4>1. Lands(T[x.epoch], base, x, w.next, list) /\ x.epoch \in 1..MaxEpochs
        BY <1>0, <3>6 DEF items
      <4>. QED
        BY <3>8, <4>1, LandsContent
    <3>10. Passes(T, r, x)
      BY <3>1, <3>3, <3>9 DEF Passes, Reaches
    <3>11. CatchUpOutcome(T, r, rq, x, Drained(w).status, list)
      BY <2>2, <3>1, <3>6, <3>9, <3>10 DEF CatchUpOutcome
    <3>. QED
      BY <3>7, <3>11 DEF d, st
  <2>. QED
    BY <2>1, <2>2
<1>. QED
  BY <1>0, <1>3, <1>4

-----------------------------------------------------------------------------
(* The other reads.                                                        *)

\* What an older page or a scan leaves.
ReadOutcome(T, r, d, list, low) ==
    /\ d.initialized /\ d.epoch = r.epoch
    /\ Passes(T, r, d)
    /\ ReplicaContent(T, d, list, low) /\ ReplicaContent(T, d, list, d.next)
    /\ low <= d.next /\ r.next <= d.next

OlderKept(r, d) == \A b \in ToSet(r.entries) : b.item # "tool" => Keeps(b, ToSet(d.entries))
ScanKept(r, d) == \A b \in ToSet(r.entries) : Keeps(b, ToSet(d.entries))

\* An earlier page, of the epoch on display.
LEMMA OlderContent ==
    ASSUME Items \subseteq PlainKinds, NEW T \in [1..MaxEpochs -> Rows], NEW r \in ReplicaType, NEW top \in Int, ReplicaEpochs(r, top),
           NEW list \in Seq(Message), NEW rq \in Request, rq # None, rq.page # None, RequestContent(T, rq), PageEpochs(rq, top),
           rq.direction = "before", NEW low, OlderPlaced(T, rq, r, low),
           ReplicaContent(T, r, list, low), rq.page.epoch = r.epoch, ~rq.page.reset
    PROVE  /\ ReadOutcome(T, r, ApplyPage(r, rq.page, FALSE).replica, list, low)
           /\ OlderKept(r, ApplyPage(r, rq.page, FALSE).replica)
<1>. DEFINE page == rq.page
            items == T[page.epoch]
            no == FALSE
            w == WithPage(r, page, no)
            x == Drained(w).replica
            seq == rq.seq
<1>0. /\ page \in PageType /\ page.epoch \in 1..MaxEpochs /\ page.direction = "before" /\ seq \in Nat
      /\ items \in Seq(PlainKinds) /\ Len(items) <= MaxRows /\ Len(items) \in Nat
      /\ \E n \in 0..Len(items) :
            /\ PageHolds(items, "before", seq, page, n)
            /\ ~page.reset /\ ~page.gap
            /\ page.epoch = rq.epoch
  BY PageOfRequest
<1>1. PICK n \in 0..Len(items) :
            /\ PageHolds(items, "before", seq, page, n)
            /\ ~page.reset /\ ~page.gap
            /\ page.epoch = rq.epoch
  BY <1>0
<1>2. r.initialized /\ (seq = 1 \/ (seq \in 1..low - 1 /\ Leader(items, seq)))
  BY <1>1 DEF OlderPlaced
<1>3. ApplyPage(r, page, FALSE) = Drained(w)
  BY <1>1 DEF ApplyPage
<1>4. Displays(items, r, low, list)
  <2>1. \A m \in r.pending : m.epoch = r.epoch
    BY DEF ReplicaEpochs
  <2>2. Displays(T[r.epoch], r, low, list)
    BY <1>2, <2>1, ContentDisplays
  <2>. QED
    BY <2>2
<1>5. Lands(items, r, x, low, list) /\ x.epoch = r.epoch /\ r.next <= x.next /\ OlderKept(r, x)
  <2>1. no = FALSE /\ w = WithPage(r, page, no) /\ x = Drained(w).replica /\ page.epoch = r.epoch
    OBVIOUS
  <2>. HIDE DEF no, w, x, page, items, seq
  <2>2. PageHolds(items, "before", seq, page, n)
    BY <1>1
  <2>3. BeforeLanded(items, r, x, low, list)
    BY <1>0, <1>2, <1>4, <2>1, <2>2, BeforeLands
  <2>. QED
    BY <2>3 DEF BeforeLanded, OlderKept
<1>6. x \in ReplicaType
  BY <1>5 DEF Lands, Displays
<1>. HIDE DEF x, w, no
<1>7. /\ x.initialized /\ Passes(T, r, x)
      /\ ReplicaContent(T, x, list, low) /\ ReplicaContent(T, x, list, x.next)
      /\ low \in 1..x.next
  <2>1. Lands(T[x.epoch], r, x, low, list) /\ x.epoch \in 1..MaxEpochs
    BY <1>0, <1>5
  <2>. QED
    BY <1>6, <2>1, LandsContent
<1>8. low <= x.next
  BY <1>7
<1>9. ReadOutcome(T, r, x, list, low)
  BY <1>5, <1>7, <1>8 DEF ReadOutcome
<1>. QED
  BY <1>3, <1>5, <1>9 DEF x

\* A page the echo scan reads while the client is ready.
LEMMA ScanContent ==
    ASSUME Items \subseteq PlainKinds, NEW T \in [1..MaxEpochs -> Rows], NEW r \in ReplicaType, NEW top \in Int, ReplicaEpochs(r, top),
           NEW list \in Seq(Message), NEW rq \in Request, rq # None, rq.page # None, RequestContent(T, rq), PageEpochs(rq, top),
           rq.direction = "after", r.initialized, rq.epoch = r.epoch, rq.seq < r.next,
           ReplicaContent(T, r, list, r.next), ~rq.page.reset
    PROVE  /\ ReadOutcome(T, r, ApplyPage(r, rq.page, TRUE).replica, list, ApplyPage(r, rq.page, TRUE).replica.next)
           /\ ScanKept(r, ApplyPage(r, rq.page, TRUE).replica)
           /\ rq.page.hasNewer => /\ rq.page.end < ApplyPage(r, rq.page, TRUE).replica.next
                                  /\ rq.page.end <= Len(T[rq.epoch])
<1>. DEFINE page == rq.page
            items == T[page.epoch]
            yes == TRUE
            low == r.next
            w == WithPage(r, page, yes)
            x == Drained(w).replica
            seq == rq.seq
<1>0. /\ page \in PageType /\ page.epoch \in 1..MaxEpochs /\ page.direction = "after" /\ seq \in Nat /\ page.end \in Int
      /\ items \in Seq(PlainKinds) /\ Len(items) <= MaxRows /\ Len(items) \in Nat
      /\ \E n \in 0..Len(items) :
            /\ PageHolds(items, "after", seq, page, n)
            /\ ~page.reset /\ ~page.gap
            /\ page.epoch = rq.epoch
  BY PageOfRequest
<1>1. PICK n \in 0..Len(items) :
            /\ PageHolds(items, "after", seq, page, n)
            /\ ~page.reset /\ ~page.gap
            /\ page.epoch = rq.epoch
  BY <1>0
<1>2. page.epoch = r.epoch
  BY <1>1
<1>3. ApplyPage(r, page, TRUE) = Drained(w)
  BY <1>1, <1>2 DEF ApplyPage
<1>4. Displays(items, r, low, list)
  <2>1. \A m \in r.pending : m.epoch = r.epoch
    BY DEF ReplicaEpochs
  <2>2. Displays(T[r.epoch], r, low, list)
    BY <2>1, ContentDisplays
  <2>. QED
    BY <1>2, <2>2
<1>5. Lands(items, r, x, w.next, list) /\ x.epoch = r.epoch /\ r.next <= x.next /\ n + 1 <= x.next /\ ScanKept(r, x)
  <2>1. yes \in BOOLEAN /\ yes /\ w = WithPage(r, page, yes) /\ x = Drained(w).replica /\ low = r.next /\ seq < low
    OBVIOUS
  <2>2. PageHolds(items, "after", seq, page, n)
    BY <1>1
  <2>3. IF yes THEN low = r.next ELSE low = seq + 1
    OBVIOUS
  <2>. HIDE DEF yes, w, x, page, items, seq, low
  <2>4. AfterLanded(items, r, yes, w, x, list, n)
    BY <1>0, <1>2, <1>4, <2>1, <2>2, <2>3, AfterLands
  <2>. QED
    BY <2>1, <2>4 DEF AfterLanded, ScanKept
<1>6. x \in ReplicaType
  BY <1>5 DEF Lands, Displays
<1>. HIDE DEF x, w, yes
<1>7. /\ x.initialized /\ Passes(T, r, x)
      /\ ReplicaContent(T, x, list, x.next)
      /\ x.next \in Int
  <2>1. Lands(T[x.epoch], r, x, w.next, list) /\ x.epoch \in 1..MaxEpochs
    BY <1>0, <1>2, <1>5
  <2>. QED
    BY <1>6, <2>1, LandsContent
<1>8. ReadOutcome(T, r, x, list, x.next)
  BY <1>5, <1>7 DEF ReadOutcome
<1>9. page.hasNewer => page.end < x.next /\ page.end <= Len(T[rq.epoch])
  <2>1. page.hasNewer => page.end = n
    BY <1>1 DEF PageHolds
  <2>2. n \in Int /\ n <= Len(T[rq.epoch])
    BY <1>0, <1>1
  <2>. QED
    BY <1>5, <1>7, <2>1, <2>2
<1>. QED
  BY <1>3, <1>5, <1>8, <1>9 DEF x

-----------------------------------------------------------------------------
(* What the parts of Content say, and how they are put together again.     *)

LEMMA LowFacts ==
    ASSUME NEW r \in ReplicaType
    PROVE  /\ LowOf(None, r) = r.next
           /\ r.next \in Int /\ r.next \in Nat /\ r.next - 1 \in Nat /\ r.next - 1 + 1 = r.next
BY ReplicaFields, Constants DEF LowOf

LEMMA AskIs ==
    ASSUME NEW direction \in {"tail", "after", "before"}, NEW e \in 0..MaxEpochs, NEW seq \in 0..MaxRows,
           NEW rq, rq = Ask(direction, e, seq)
    PROVE  /\ rq \in Request /\ rq # None
           /\ rq.direction = direction /\ rq.epoch = e /\ rq.seq = seq /\ rq.page = None
<1>1. rq \in Request
  BY AskType
<1>2. rq # None
  BY <1>1, NoneAssumption DEF NoneAssumption
<1>. QED
  BY <1>1, <1>2 DEF Ask

LEMMA AskContent ==
    ASSUME NEW T, NEW direction \in {"tail", "after", "before"}, NEW e \in 0..MaxEpochs, NEW seq \in 0..MaxRows,
           NEW rq, rq = Ask(direction, e, seq),
           direction # "tail" => e # 0,
           direction = "after" => seq <= Len(T[e]),
           direction = "before" => seq <= Len(T[e]) \/ seq = 1
    PROVE  RequestContent(T, rq)
BY AskIs DEF RequestContent

\* A catch-up of r is asked for, of what may be missing from low.
Asked(T, rq, r, low) ==
    RequestContent(T, rq) /\ LowOf(rq, r) = low /\ rq # None /\ RecoveryPlaced(rq, r)

\* The tail is asked for while there is nothing to display.
LEMMA AskTail ==
    ASSUME NEW T, NEW r, ~r.initialized, NEW rq, rq = Ask("tail", 0, 0)
    PROVE  Asked(T, rq, r, r.next)
<1>0. 0 \in 0..MaxEpochs /\ 0 \in 0..MaxRows
  BY Constants
<1>1. rq # None /\ rq.direction = "tail"
  BY <1>0, AskIs
<1>2. RequestContent(T, rq)
  BY <1>0, AskContent
<1>. QED
  BY <1>1, <1>2 DEF LowOf, RecoveryPlaced, Asked

\* What follows a row the replica has is asked for.
LEMMA AskAfter ==
    ASSUME NEW T, NEW r \in ReplicaType, r.initialized, r.epoch # 0, NEW seq \in Nat, seq < r.next, seq <= Len(T[r.epoch]),
           NEW rq, rq = Ask("after", r.epoch, seq)
    PROVE  Asked(T, rq, r, seq + 1)
<1>0. r.epoch \in 0..MaxEpochs /\ seq \in 0..MaxRows
  BY ReplicaFields, Constants
<1>. DEFINE e == r.epoch
<1>1. e \in 0..MaxEpochs /\ rq = Ask("after", e, seq) /\ e # 0 /\ seq <= Len(T[e]) /\ e = r.epoch
  BY <1>0
<1>. HIDE DEF e
<1>2. rq # None /\ rq.direction = "after" /\ rq.epoch = e /\ rq.seq = seq
  BY <1>0, <1>1, AskIs
<1>3. RequestContent(T, rq)
  BY <1>0, <1>1, AskContent
<1>. QED
  BY <1>1, <1>2, <1>3 DEF LowOf, RecoveryPlaced, Asked

\* The request of a replica that continues at its cursor, or begins.
LEMMA AskNext ==
    ASSUME NEW T, NEW r \in ReplicaType, r.initialized, r.epoch # 0, r.next <= Len(T[r.epoch]) + 1, Len(T[r.epoch]) \in Nat,
           NEW rq, rq = Ask("after", r.epoch, r.next - 1)
    PROVE  Asked(T, rq, r, r.next)
<1>. DEFINE seq == r.next - 1
<1>1. seq \in Nat /\ seq < r.next /\ seq <= Len(T[r.epoch]) /\ rq = Ask("after", r.epoch, seq) /\ seq + 1 = r.next
  BY LowFacts
<1>. HIDE DEF seq
<1>2. Asked(T, rq, r, seq + 1)
  BY <1>1, AskAfter
<1>. QED
  BY <1>1, <1>2

LEMMA AskCatchUp ==
    ASSUME NEW T, NEW r \in ReplicaType,
           r.initialized => r.epoch # 0 /\ r.next <= Len(T[r.epoch]) + 1 /\ Len(T[r.epoch]) \in Nat,
           NEW rq, rq = CatchUp(r)
    PROVE  Asked(T, rq, r, r.next)
<1>1. CASE r.initialized
  <2>1. rq = Ask("after", r.epoch, r.next - 1)
    BY <1>1 DEF CatchUp
  <2>. QED
    BY <1>1, <2>1, AskNext
<1>2. CASE ~r.initialized
  <2>1. rq = Ask("tail", 0, 0)
    BY <1>2 DEF CatchUp
  <2>. QED
    BY <1>2, <2>1, AskTail
<1>. QED
  BY <1>1, <1>2

\* The page the Relay answers with is of its rows.
LEMMA AnsweredContent ==
    ASSUME Items \subseteq PlainKinds, TypeOK, NEW T, T[epoch] = rows, NEW rq \in Request, rq # None, RequestContent(T, rq)
    PROVE  /\ RequestContent(T, Answered(rq))
           /\ Answered(rq) # None
           /\ Answered(rq).direction = rq.direction /\ Answered(rq).epoch = rq.epoch /\ Answered(rq).seq = rq.seq
<1>. DEFINE cursor == [epoch |-> rq.epoch, seq |-> rq.seq]
            direction == rq.direction
            page == Page(epoch, rows, direction, cursor, PageSize)
            a == Answered(rq)
<1>1. a \in Request /\ a # None
  <2>1. a \in Request
    BY AnsweredType
  <2>. QED
    BY <2>1, NoneAssumption DEF NoneAssumption
<1>2. /\ a.direction = rq.direction /\ a.epoch = rq.epoch /\ a.seq = rq.seq /\ a.page = page
  BY DEF Answered, Request
<1>3. epoch \in 1..MaxEpochs /\ rows \in Seq(PlainKinds) /\ Len(rows) <= MaxRows /\ Len(rows) \in Nat /\ rows \in Seq(ItemKinds)
  BY Constants DEF TypeOK
<1>4. direction \in {"tail", "after", "before"} /\ cursor.seq \in 0..MaxRows /\ cursor.seq = rq.seq /\ cursor.epoch = rq.epoch
      /\ rq.epoch \in 0..MaxEpochs
  BY RequestFields
<1>. HIDE DEF cursor, a, direction
<1>5. page.epoch = epoch
  BY <1>3, <1>4, PageShows
<1>6. CASE direction = "tail" \/ rq.epoch = epoch
  <2>1. /\ direction = "after" => cursor.seq <= Len(rows)
        /\ direction = "before" => cursor.seq <= Len(rows) \/ cursor.seq = 1
    BY <1>4, <1>6 DEF RequestContent, direction
  <2>2. \E n \in 0..Len(rows) : PageHolds(rows, direction, cursor.seq, Page(epoch, rows, direction, cursor, PageSize), n)
    BY <1>3, <1>4, <1>6, <2>1, PageIsHeld
  <2>3. \E n \in 0..Len(T[page.epoch]) : PageHolds(T[page.epoch], rq.direction, rq.seq, page, n)
    BY <1>4, <1>5, <2>2 DEF direction
  <2>. HIDE DEF page
  <2>. QED
    BY <1>1, <1>2, <2>3 DEF RequestContent, a
<1>7. CASE direction # "tail" /\ rq.epoch # epoch
  <2>1. page.reset = TRUE
    BY <1>4, <1>7 DEF Page, direction
  <2>. HIDE DEF page
  <2>. QED
    BY <1>1, <1>2, <1>5, <1>7, <2>1 DEF RequestContent, a, direction
<1>. QED
  BY <1>6, <1>7

-----------------------------------------------------------------------------
(* Steps keep the content.                                                 *)

\* What a step does: the cursor passes over nothing and the content stays.
Stepped(T) == Passes(T, replica, replica') /\ \E U : Content(U)'

LEMMA ContentFacts ==
    ASSUME TypeInv, EpochInv, NEW T, Content(T), NEW low, low = LowOf(recovery, replica)
    PROVE  /\ T \in [1..MaxEpochs -> Rows] /\ T[epoch] = rows
           /\ epoch \in 1..MaxEpochs /\ epoch \in Int /\ replica \in ReplicaType /\ down \in Seq(Message)
           /\ recovery \in {None} \cup Request /\ older \in {None} \cup Request /\ scan \in {None} \cup Request
           /\ RequestContent(T, recovery) /\ RequestContent(T, older) /\ RequestContent(T, scan)
           /\ WireContent(T, down) /\ ReplicaContent(T, replica, down, low)
           /\ RecoveryPlaced(recovery, replica) /\ ReadyPlaced(status, recovery, scan, replica)
           /\ OlderPlaced(T, older, replica, low)
           /\ low \in Int /\ replica.next \in Int /\ replica.epoch \in Int
           /\ older # None => older \in Request /\ older.epoch \in 1..MaxEpochs /\ older.epoch \in Int /\ older.direction = "before"
           /\ replica.initialized => /\ replica.epoch # 0 /\ replica.epoch \in 1..MaxEpochs
                                     /\ Len(T[replica.epoch]) \in Nat /\ replica.next <= Len(T[replica.epoch]) + 1
                                     /\ low \in 1..replica.next /\ low <= replica.next
                                     /\ \A m \in replica.pending : m.epoch = replica.epoch
           /\ recovery = None => low = replica.next
<1>1. /\ T \in [1..MaxEpochs -> Rows] /\ T[epoch] = rows
      /\ RequestContent(T, recovery) /\ RequestContent(T, older) /\ RequestContent(T, scan)
      /\ WireContent(T, down) /\ ReplicaContent(T, replica, down, low)
      /\ RecoveryPlaced(recovery, replica) /\ ReadyPlaced(status, recovery, scan, replica)
      /\ OlderPlaced(T, older, replica, low)
  BY DEF Content
<1>2. /\ epoch \in 1..MaxEpochs /\ epoch \in Int /\ replica \in ReplicaType /\ down \in Seq(Message) /\ replica.epoch \in Int
      /\ recovery \in {None} \cup Request /\ older \in {None} \cup Request /\ scan \in {None} \cup Request
      /\ ReplicaEpochs(replica, epoch) /\ Kinds
  BY EpochFacts
<1>3. replica.next \in Int /\ replica.epoch \in 0..MaxEpochs /\ MaxEpochs \in Nat /\ (recovery = None => low = replica.next)
  BY <1>2, ReplicaFields, Constants DEF LowOf
<1>4. low \in Int
  <2>1. recovery # None => recovery.seq \in Int
    BY <1>2, RequestFields, Constants
  <2>. QED
    BY <1>3, <2>1 DEF LowOf
<1>5. older # None => older \in Request /\ older.epoch \in 1..MaxEpochs /\ older.epoch \in Int /\ older.direction = "before"
  <2>. SUFFICES ASSUME older # None PROVE older \in Request /\ older.epoch \in 1..MaxEpochs /\ older.epoch \in Int /\ older.direction = "before"
    OBVIOUS
  <2>1. older.direction = "before" /\ older \in Request /\ older.epoch \in 0..MaxEpochs
    BY <1>2, RequestFields DEF Kinds
  <2>2. older.epoch # 0
    BY <1>1, <2>1 DEF RequestContent
  <2>. QED
    BY <1>3, <2>1, <2>2
<1>6. ASSUME replica.initialized
      PROVE  /\ replica.epoch # 0 /\ replica.epoch \in 1..MaxEpochs
             /\ Len(T[replica.epoch]) \in Nat /\ replica.next <= Len(T[replica.epoch]) + 1
             /\ low \in 1..replica.next /\ low <= replica.next
             /\ \A m \in replica.pending : m.epoch = replica.epoch
  <2>1. replica.epoch # 0 /\ \A m \in replica.pending : m.epoch = replica.epoch
    BY <1>2, <1>6 DEF ReplicaEpochs
  <2>2. replica.epoch \in 1..MaxEpochs
    BY <1>3, <2>1
  <2>3. Len(T[replica.epoch]) \in Nat
    BY <1>1, <2>2, TableRows
  <2>4. Shows(T[replica.epoch], ToSet(replica.entries), low, replica.next, Coming(replica, down))
    BY <1>1, <1>6 DEF ReplicaContent
  <2>5. low \in 1..replica.next /\ replica.next \in 1..Len(T[replica.epoch]) + 1 /\ low <= replica.next
    BY <2>3, <2>4, ShowsFields
  <2>. QED
    BY <2>1, <2>2, <2>3, <2>5
<1>. QED
  BY <1>1, <1>2, <1>3, <1>4, <1>5, <1>6

\* The parts of Content, for the rows there were.
LEMMA ContentAgain ==
    ASSUME NEW T, Content(T), UNCHANGED <<epoch, rows>>,
           RequestContent(T, recovery'), RequestContent(T, older'), RequestContent(T, scan'),
           WireContent(T, down'), NEW low, low = LowOf(recovery', replica'), ReplicaContent(T, replica', down', low),
           RecoveryPlaced(recovery', replica'), ReadyPlaced(status', recovery', scan', replica'),
           OlderPlaced(T, older', replica', low),
           Passes(T, replica, replica')
    PROVE  Stepped(T)
<1>1. Content(T)'
  BY DEF Content
<1>. QED
  BY <1>1 DEF Stepped

\* Where older history is read, while the replica stays.
LEMMA OlderLater ==
    ASSUME NEW T, NEW ol, NEW r, r.epoch \in Int, ol # None => ol.epoch \in Int,
           NEW low \in Int, NEW later \in Int, OlderPlaced(T, ol, r, low), r.initialized => low <= later
    PROVE  OlderPlaced(T, ol, r, later)
BY OlderOn

LEMMA NoneContent ==
    ASSUME NEW T
    PROVE  /\ RequestContent(T, None)
           /\ \A r, low : RecoveryPlaced(None, r) /\ OlderPlaced(T, None, r, low)
BY DEF RequestContent, RecoveryPlaced, OlderPlaced

\* A message that is no row.
LEMMA WireMore ==
    ASSUME NEW T, NEW list \in Seq(Message), WireContent(T, list), NEW m \in Message, m.type # "stream"
    PROVE  WireContent(T, Append(list, m)) /\ Stream(Append(list, m)) \subseteq Stream(list)
BY StreamAppend DEF WireContent

\* The replica and the older read stay, the wire carries no row more, and the catch-up
\* that is outstanding leaves low where it is or raises it.
LEMMA StillContent ==
    ASSUME TypeInv, EpochInv, NEW T, Content(T), UNCHANGED <<epoch, rows, replica>>,
           RequestContent(T, recovery'), RequestContent(T, scan'),
           WireContent(T, down'), Stream(down') \subseteq Stream(down),
           replica.initialized => LowOf(recovery, replica) <= LowOf(recovery', replica) /\ LowOf(recovery', replica) <= replica.next,
           LowOf(recovery', replica) \in Int,
           RecoveryPlaced(recovery', replica), ReadyPlaced(status', recovery', scan', replica),
           older' = None \/ older' = older
    PROVE  Stepped(T)
<1>. DEFINE low == LowOf(recovery, replica)
            later == LowOf(recovery', replica)
<1>1. /\ T \in [1..MaxEpochs -> Rows] /\ replica \in ReplicaType /\ replica.epoch \in Int
      /\ ReplicaContent(T, replica, down, low) /\ OlderPlaced(T, older, replica, low) /\ low \in Int /\ replica.next \in Int
      /\ older # None => older.epoch \in Int
      /\ RequestContent(T, older)
      /\ replica.initialized => replica.epoch # 0
  BY ContentFacts
<1>2. later \in Int /\ later = LowOf(recovery', replica') /\ replica' = replica
      /\ (replica.initialized => low <= later /\ later <= replica.next)
  OBVIOUS
<1>. HIDE DEF low, later
<1>3. ReplicaContent(T, replica, down', later)
  <2>1. replica.initialized => later \in low..replica.next
    BY <1>1, <1>2
  <2>. QED
    BY <1>1, <2>1, ShrinkContent
<1>4. OlderPlaced(T, older', replica, later) /\ RequestContent(T, older')
  <2>1. OlderPlaced(T, older, replica, later)
    BY <1>1, <1>2, OlderLater
  <2>. QED
    BY <1>1, <2>1, NoneContent
<1>5. Passes(T, replica, replica')
  BY <1>1, <1>2, SelfFollows DEF Passes, Reaches
<1>. QED
  BY <1>2, <1>3, <1>4, <1>5, ContentAgain

\* A row is appended: the rows of its epoch grow.
LEMMA AppendRowContent ==
    ASSUME TypeInv, EpochInv, NEW T, Content(T), AppendRow
    PROVE  Stepped(T)
<1>. DEFINE low == LowOf(recovery, replica)
<1>0. /\ T \in [1..MaxEpochs -> Rows] /\ T[epoch] = rows /\ epoch \in 1..MaxEpochs /\ epoch \in Int
      /\ replica \in ReplicaType /\ down \in Seq(Message)
      /\ recovery \in {None} \cup Request /\ older \in {None} \cup Request /\ scan \in {None} \cup Request
      /\ RequestContent(T, recovery) /\ RequestContent(T, older) /\ RequestContent(T, scan)
      /\ WireContent(T, down) /\ ReplicaContent(T, replica, down, low)
      /\ RecoveryPlaced(recovery, replica) /\ ReadyPlaced(status, recovery, scan, replica)
      /\ OlderPlaced(T, older, replica, low) /\ low \in Int
      /\ older # None => older.epoch \in 1..MaxEpochs
      /\ replica.initialized => /\ replica.epoch # 0
                                /\ replica.next <= Len(T[replica.epoch]) + 1 /\ low <= replica.next
      /\ replica.next \in Int
      /\ replica.initialized => Len(T[replica.epoch]) \in Int
  BY ContentFacts
<1>1. PICK item \in Items :
          /\ rows' = Append(rows, item)
          /\ Emit([type |-> "stream", epoch |-> epoch, seq |-> Len(rows) + 1, item |-> item])
  BY DEF AppendRow
<1>2. /\ Len(rows) < MaxRows /\ UNCHANGED <<epoch, status, recovery, older, scan, replica>>
  BY DEF AppendRow, reads
<1>3. rows \in Seq(Items) /\ Len(rows) \in Nat
  BY EpochFacts
<1>4. rows' \in Seq(Items) /\ Len(rows') = Len(rows) + 1 /\ (\A i \in 1..Len(rows) : rows'[i] = rows[i]) /\ rows'[Len(rows) + 1] = item
      /\ Len(rows') <= MaxRows /\ rows' \in Rows
  <2>1. /\ Append(rows, item) \in Seq(Items) /\ Len(Append(rows, item)) = Len(rows) + 1
        /\ \A i \in 1..Len(rows) : Append(rows, item)[i] = rows[i]
        /\ Append(rows, item)[Len(rows) + 1] = item
    BY <1>3
  <2>2. Len(rows) + 1 <= MaxRows
    BY <1>2, <1>3, Constants
  <2>. QED
    BY <1>1, <2>1, <2>2 DEF Rows
<1>. DEFINE m == [type |-> "stream", epoch |-> epoch, seq |-> Len(rows) + 1, item |-> item]
<1>5. /\ m \in Message /\ m.type = "stream" /\ m.epoch = epoch /\ m.seq = Len(rows) + 1 /\ m.item = item
      /\ (down' = IF subscribed THEN Append(down, m) ELSE down)
  <2>1. Len(rows) + 1 \in 1..MaxRows
    BY <1>2, <1>3, Constants
  <2>. QED
    BY <1>0, <1>1, <2>1 DEF Message, Emit
<1>. HIDE DEF m
<1>6. PICK U : /\ U \in [1..MaxEpochs -> Rows] /\ U[epoch] = rows'
               /\ \A e \in 1..MaxEpochs : e # epoch => U[e] = T[e]
  <2>. DEFINE grown == [T EXCEPT ![epoch] = rows']
  <2>1. /\ grown \in [1..MaxEpochs -> Rows] /\ grown[epoch] = rows'
        /\ \A e \in 1..MaxEpochs : e # epoch => grown[e] = T[e]
    BY <1>0, <1>4
  <2>. HIDE DEF grown
  <2>. QED
    BY <2>1
<1>7. Grows(T, U)
  <2>1. ASSUME NEW e \in 1..MaxEpochs PROVE Prefix(T[e], U[e])
    <3>1. CASE e = epoch
      BY <1>0, <1>3, <1>4, <1>6, <3>1 DEF Prefix
    <3>2. CASE e # epoch
      <4>1. Len(T[e]) \in Nat
        BY <1>0, TableRows
      <4>. QED
        BY <1>6, <3>2, <4>1 DEF Prefix
    <3>. QED
      BY <3>1, <3>2
  <2>. QED
    BY <2>1 DEF Grows
<1>8. m.epoch \in 1..MaxEpochs /\ m.seq = Len(T[m.epoch]) + 1 /\ m.seq = Len(U[m.epoch]) /\ Known(U, m)
  <2>1. m.seq \in 1..Len(U[m.epoch]) /\ U[m.epoch][m.seq] = m.item
    BY <1>3, <1>4, <1>5, <1>6
  <2>. QED
    BY <1>0, <1>4, <1>5, <1>6, <2>1 DEF Known
<1>9. Stream(down') \subseteq Stream(down) \cup {m} /\ WireContent(U, down')
  <2>1. WireContent(U, down)
    BY <1>0, <1>7, GrownWire
  <2>2. CASE subscribed
    <3>1. down' = Append(down, m) /\ Stream(Append(down, m)) = Stream(down) \cup {m}
      BY <1>0, <1>5, <2>2, StreamAppend
    <3>2. \A x \in Stream(down) : x.epoch = m.epoch => x.seq < m.seq
      <4>1. \A x \in Stream(down) : x.seq \in 1..Len(T[x.epoch])
        BY <1>0 DEF WireContent, Known
      <4>. QED
        BY <1>0, <1>3, <1>5, <4>1
    <3>3. Rising(Append(down, m))
      BY <1>0, <1>5, <3>2, StreamAppend DEF WireContent
    <3>. QED
      BY <1>8, <2>1, <3>1, <3>3 DEF WireContent
  <2>3. CASE ~subscribed
    BY <1>5, <2>1, <2>3
  <2>. QED
    BY <2>2, <2>3
<1>10. ReplicaContent(U, replica, down', low)
  BY <1>0, <1>7, <1>8, <1>9, GrownReplica
<1>11. OlderPlaced(U, older, replica, low)
  <2>1. replica.initialized => low <= Len(T[replica.epoch]) + 1
    BY <1>0
  <2>. QED
    BY <1>0, <1>7, <2>1, GrownOlder
<1>12. RequestContent(U, recovery) /\ RequestContent(U, older) /\ RequestContent(U, scan)
  BY <1>0, <1>7, GrownRequest
<1>13. U[epoch] = rows' /\ \A e \in epoch + 1..MaxEpochs : U[e] = <<>>
  <2>1. \A e \in epoch + 1..MaxEpochs : T[e] = <<>> /\ e \in 1..MaxEpochs /\ e # epoch
    BY <1>0, Constants DEF Content
  <2>. QED
    BY <1>6, <2>1
<1>. HIDE DEF low
<1>14. Content(U)'
  <2>1. U[epoch'] = rows' /\ \A e \in epoch' + 1..MaxEpochs : U[e] = <<>>
    BY <1>2, <1>13
  <2>2. low = LowOf(recovery', replica')
    BY <1>2 DEF low
  <2>. QED
    BY <1>0, <1>2, <1>6, <1>9, <1>10, <1>11, <1>12, <2>1, <2>2 DEF Content
<1>15. Passes(T, replica, replica')
  BY <1>0, <1>2, SelfFollows DEF Passes, Reaches
<1>. QED
  BY <1>14, <1>15 DEF Stepped

\* The Relay begins another epoch, which has no rows.
LEMMA ReplaceTimelineContent ==
    ASSUME TypeInv, EpochInv, NEW T, Content(T), ReplaceTimeline
    PROVE  Stepped(T)
<1>. DEFINE low == LowOf(recovery, replica)
            m == [type |-> "replacement", epoch |-> epoch + 1]
<1>0. /\ T \in [1..MaxEpochs -> Rows] /\ epoch \in 1..MaxEpochs /\ epoch \in Int
      /\ replica \in ReplicaType /\ down \in Seq(Message)
      /\ RequestContent(T, recovery) /\ RequestContent(T, older) /\ RequestContent(T, scan)
      /\ WireContent(T, down) /\ ReplicaContent(T, replica, down, low)
      /\ RecoveryPlaced(recovery, replica) /\ ReadyPlaced(status, recovery, scan, replica)
      /\ OlderPlaced(T, older, replica, low) /\ low \in Int
      /\ replica.initialized => replica.epoch # 0 /\ low \in 1..replica.next /\ low <= replica.next
      /\ replica.next \in Int
  BY ContentFacts
<1>1. /\ epoch < MaxEpochs /\ epoch' = epoch + 1 /\ rows' = <<>>
      /\ (down' = IF subscribed THEN Append(down, m) ELSE down)
      /\ UNCHANGED <<status, recovery, older, scan, replica>>
  BY DEF ReplaceTimeline, Emit, reads
<1>2. epoch + 1 \in 1..MaxEpochs /\ m \in Message /\ m.type # "stream"
  BY <1>0, <1>1, Constants DEF Message
<1>. HIDE DEF m
<1>3. WireContent(T, down') /\ Stream(down') \subseteq Stream(down)
  BY <1>0, <1>1, <1>2, WireMore
<1>4. T[epoch'] = rows' /\ \A e \in epoch' + 1..MaxEpochs : T[e] = <<>>
  <2>1. \A e \in epoch + 1..MaxEpochs : T[e] = <<>>
    BY DEF Content
  <2>2. epoch + 1 \in epoch + 1..MaxEpochs /\ \A e \in epoch + 1 + 1..MaxEpochs : e \in epoch + 1..MaxEpochs
    BY <1>0, <1>2, Constants
  <2>. QED
    BY <1>1, <2>1, <2>2
<1>. HIDE DEF low
<1>5. ReplicaContent(T, replica, down', low)
  <2>1. replica.initialized => low \in low..replica.next
    BY <1>0
  <2>. QED
    BY <1>0, <1>3, <2>1, ShrinkContent
<1>6. Content(T)'
  BY <1>0, <1>1, <1>3, <1>4, <1>5 DEF Content, low
<1>7. Passes(T, replica, replica')
  BY <1>0, <1>1, SelfFollows DEF Passes, Reaches
<1>. QED
  BY <1>6, <1>7 DEF Stepped

LEMMA SubscribeContent ==
    ASSUME TypeInv, EpochInv, NEW T, Content(T), Subscribe
    PROVE  Stepped(T)
<1>. DEFINE m == [type |-> "subscribed"]
            low == LowOf(recovery, replica)
<1>0. /\ down \in Seq(Message) /\ WireContent(T, down) /\ low \in Int
      /\ RequestContent(T, recovery) /\ RequestContent(T, scan)
      /\ RecoveryPlaced(recovery, replica) /\ ReadyPlaced(status, recovery, scan, replica)
      /\ replica.initialized => low <= replica.next
  BY ContentFacts
<1>1. down' = Append(down, m) /\ UNCHANGED <<epoch, rows, status, recovery, older, scan, replica>>
  BY DEF Subscribe, server, reads
<1>2. m \in Message /\ m.type # "stream"
  BY DEF Message
<1>. HIDE DEF m
<1>3. WireContent(T, down') /\ Stream(down') \subseteq Stream(down)
  BY <1>0, <1>1, <1>2, WireMore
<1>. QED
  BY <1>0, <1>1, <1>3, StillContent

LEMMA ComputeCatchUpContent ==
    ASSUME Items \subseteq PlainKinds, TypeInv, EpochInv, NEW T, Content(T), ComputeCatchUp
    PROVE  Stepped(T)
<1>. DEFINE low == LowOf(recovery, replica)
<1>0. /\ down \in Seq(Message) /\ WireContent(T, down) /\ low \in Int /\ T[epoch] = rows
      /\ RequestContent(T, recovery) /\ RequestContent(T, scan)
      /\ RecoveryPlaced(recovery, replica) /\ ReadyPlaced(status, recovery, scan, replica)
      /\ replica.initialized => low <= replica.next
      /\ recovery \in {None} \cup Request
  BY ContentFacts
<1>1. /\ recovery # None /\ recovery' = Answered(recovery) /\ UNCHANGED <<epoch, rows, down, status, older, scan, replica>>
  BY DEF ComputeCatchUp, server, wire, reads
<1>2. /\ RequestContent(T, recovery') /\ recovery' # None
      /\ recovery'.direction = recovery.direction /\ recovery'.epoch = recovery.epoch /\ recovery'.seq = recovery.seq
  <2>1. recovery \in Request /\ TypeOK
    BY <1>0, <1>1 DEF TypeInv
  <2>. QED
    BY <1>0, <1>1, <2>1, AnsweredContent
<1>3. LowOf(recovery', replica) = low /\ RecoveryPlaced(recovery', replica) /\ ReadyPlaced(status', recovery', scan', replica)
  BY <1>0, <1>1, <1>2 DEF LowOf, RecoveryPlaced, ReadyPlaced
<1>4. WireContent(T, down') /\ Stream(down') \subseteq Stream(down) /\ RequestContent(T, scan')
  BY <1>0, <1>1
<1>. QED
  BY <1>0, <1>1, <1>2, <1>3, <1>4, StillContent

LEMMA SendCatchUpContent ==
    ASSUME TypeInv, EpochInv, NEW T, Content(T), SendCatchUp
    PROVE  Stepped(T)
<1>. DEFINE low == LowOf(recovery, replica)
<1>0. /\ down \in Seq(Message) /\ WireContent(T, down) /\ low \in Int /\ T[epoch] = rows
      /\ RequestContent(T, recovery) /\ RequestContent(T, scan)
      /\ RecoveryPlaced(recovery, replica) /\ ReadyPlaced(status, recovery, scan, replica)
      /\ replica.initialized => low <= replica.next
      /\ recovery \in {None} \cup Request
  BY ContentFacts
<1>1. /\ recovery # None /\ recovery' = [recovery EXCEPT !.sent = TRUE] /\ down' = Append(down, Delivered)
      /\ UNCHANGED <<epoch, rows, status, older, scan, replica>>
  BY DEF SendCatchUp, server, reads
<1>2. /\ recovery' \in Request /\ recovery'.direction = recovery.direction /\ recovery'.epoch = recovery.epoch
      /\ recovery'.seq = recovery.seq /\ recovery'.page = recovery.page
  BY <1>0, <1>1 DEF Request
<1>3. recovery' # None
  BY <1>2, NoneAssumption DEF NoneAssumption
<1>4. /\ LowOf(recovery', replica) = low /\ RecoveryPlaced(recovery', replica) /\ ReadyPlaced(status', recovery', scan', replica)
      /\ RequestContent(T, recovery')
  BY <1>0, <1>1, <1>2, <1>3 DEF LowOf, RecoveryPlaced, ReadyPlaced, RequestContent
<1>5. Delivered \in Message /\ Delivered.type # "stream"
  BY DEF Delivered, Message
<1>6. WireContent(T, down') /\ Stream(down') \subseteq Stream(down) /\ RequestContent(T, scan')
  BY <1>0, <1>1, <1>5, WireMore
<1>7. UNCHANGED <<epoch, rows, status, older, scan, replica>>
  BY <1>1
<1>. QED
  BY <1>0, <1>4, <1>6, <1>7, StillContent

LEMMA ComputeOlderContent ==
    ASSUME Items \subseteq PlainKinds, TypeInv, EpochInv, NEW T, Content(T), ComputeOlder
    PROVE  Stepped(T)
<1>. DEFINE low == LowOf(recovery, replica)
<1>0. /\ T[epoch] = rows
      /\ RequestContent(T, recovery) /\ RequestContent(T, older) /\ RequestContent(T, scan) /\ WireContent(T, down)
      /\ ReplicaContent(T, replica, down, low) /\ replica \in ReplicaType
      /\ RecoveryPlaced(recovery, replica) /\ ReadyPlaced(status, recovery, scan, replica)
      /\ OlderPlaced(T, older, replica, low)
      /\ older \in {None} \cup Request
  BY ContentFacts
<1>1. /\ older # None /\ older' = Answered(older) /\ UNCHANGED <<epoch, rows, down, status, recovery, scan, replica>>
  BY DEF ComputeOlder, server, wire
<1>2. /\ RequestContent(T, older') /\ older' # None
      /\ older'.direction = older.direction /\ older'.epoch = older.epoch /\ older'.seq = older.seq
  <2>1. older \in Request /\ TypeOK
    BY <1>0, <1>1 DEF TypeInv
  <2>. QED
    BY <1>0, <1>1, <2>1, AnsweredContent
<1>3. OlderPlaced(T, older', replica, low)
  BY <1>0, <1>1, <1>2 DEF OlderPlaced
<1>4. Passes(T, replica, replica')
  BY <1>0, <1>1, SelfFollows DEF Passes, Reaches
<1>. QED
  BY <1>0, <1>1, <1>2, <1>3, <1>4, ContentAgain

LEMMA ComputeScanContent ==
    ASSUME Items \subseteq PlainKinds, TypeInv, EpochInv, NEW T, Content(T), ComputeScan
    PROVE  Stepped(T)
<1>. DEFINE low == LowOf(recovery, replica)
<1>0. /\ T[epoch] = rows /\ WireContent(T, down) /\ low \in Int
      /\ RequestContent(T, recovery) /\ RequestContent(T, scan)
      /\ RecoveryPlaced(recovery, replica) /\ ReadyPlaced(status, recovery, scan, replica)
      /\ replica.initialized => low <= replica.next
      /\ scan \in {None} \cup Request
  BY ContentFacts
<1>1. /\ scan # None /\ scan' = Answered(scan) /\ UNCHANGED <<epoch, rows, down, status, recovery, older, replica>>
  BY DEF ComputeScan, server, wire
<1>2. /\ RequestContent(T, scan') /\ scan' # None
      /\ scan'.direction = scan.direction /\ scan'.epoch = scan.epoch /\ scan'.seq = scan.seq
  <2>1. scan \in Request /\ TypeOK
    BY <1>0, <1>1 DEF TypeInv
  <2>. QED
    BY <1>0, <1>1, <2>1, AnsweredContent
<1>3. ReadyPlaced(status', recovery', scan', replica)
  BY <1>0, <1>1, <1>2 DEF ReadyPlaced
<1>. QED
  BY <1>0, <1>1, <1>2, <1>3, StillContent

LEMMA ConnectContent ==
    ASSUME TypeInv, EpochInv, NEW T, Content(T), Connect
    PROVE  Stepped(T)
<1>. DEFINE low == LowOf(recovery, replica)
<1>0. /\ WireContent(T, down) /\ low \in Int /\ replica \in ReplicaType /\ replica.next \in Int
      /\ RequestContent(T, recovery) /\ RequestContent(T, scan)
      /\ RecoveryPlaced(recovery, replica) /\ ReadyPlaced(status, recovery, scan, replica)
      /\ replica.initialized => low <= replica.next
      /\ replica.initialized => replica.epoch # 0 /\ replica.next <= Len(T[replica.epoch]) + 1 /\ Len(T[replica.epoch]) \in Nat
  BY ContentFacts
<1>1. /\ status = "disconnected" /\ status' = "catching_up" /\ older' = None
      /\ recovery' = IF Recovery = "websocket" THEN CatchUp(replica) ELSE None
      /\ UNCHANGED <<epoch, rows, down, scan, replica>>
  BY DEF Connect, server, wire
<1>2. Asked(T, CatchUp(replica), replica, replica.next)
  BY <1>0, AskCatchUp
<1>3. RequestContent(T, recovery') /\ LowOf(recovery', replica) = replica.next /\ RecoveryPlaced(recovery', replica)
  <2>1. CASE Recovery = "websocket"
    BY <1>1, <1>2, <2>1 DEF Asked
  <2>2. CASE Recovery # "websocket"
    BY <1>0, <1>1, <2>2, NoneContent, LowFacts
  <2>. QED
    BY <2>1, <2>2
<1>4. ReadyPlaced(status', recovery', scan', replica)
  BY <1>0, <1>1 DEF ReadyPlaced
<1>. QED
  BY <1>0, <1>1, <1>3, <1>4, StillContent

LEMMA DisconnectContent ==
    ASSUME TypeInv, EpochInv, NEW T, Content(T), Disconnect
    PROVE  Stepped(T)
<1>. DEFINE low == LowOf(recovery, replica)
<1>0. /\ low \in Int /\ replica \in ReplicaType /\ replica.next \in Int
      /\ replica.initialized => low <= replica.next
  BY ContentFacts
<1>1. /\ status' = "disconnected" /\ older' = None /\ scan' = None /\ recovery' = None /\ down' = <<>>
      /\ UNCHANGED <<epoch, rows, replica>>
  BY DEF Disconnect, server
<1>2. WireContent(T, down') /\ Stream(down') \subseteq Stream(down)
  BY <1>1 DEF WireContent, Stream, Rising, ToSet
<1>3. RequestContent(T, recovery') /\ RequestContent(T, scan') /\ RecoveryPlaced(recovery', replica)
      /\ LowOf(recovery', replica) = replica.next
  BY <1>0, <1>1, NoneContent, LowFacts
<1>4. ReadyPlaced(status', recovery', scan', replica)
  BY <1>1 DEF ReadyPlaced
<1>. QED
  BY <1>0, <1>1, <1>2, <1>3, <1>4, StillContent

LEMMA ReceiveSubscribedContent ==
    ASSUME TypeInv, EpochInv, NEW T, Content(T), ReceiveSubscribed
    PROVE  Stepped(T)
<1>. DEFINE low == LowOf(recovery, replica)
<1>0. /\ WireContent(T, down) /\ low \in Int /\ replica \in ReplicaType /\ replica.next \in Int /\ down \in Seq(Message)
      /\ RequestContent(T, recovery) /\ RequestContent(T, scan)
      /\ RecoveryPlaced(recovery, replica) /\ ReadyPlaced(status, recovery, scan, replica)
      /\ replica.initialized => low <= replica.next
      /\ replica.initialized => replica.epoch # 0 /\ replica.next <= Len(T[replica.epoch]) + 1 /\ Len(T[replica.epoch]) \in Nat
  BY ContentFacts
<1>1. /\ down # <<>> /\ down' = Tail(down) /\ UNCHANGED <<epoch, rows, older, replica>>
      /\ \/ recovery = None /\ recovery' = CatchUp(replica) /\ status' = "catching_up" /\ scan' = None
         \/ UNCHANGED <<recovery, status, scan>>
  BY DEF ReceiveSubscribed, Fetch, server
<1>2. WireContent(T, down') /\ Stream(down') \subseteq Stream(down)
  BY <1>0, <1>1, ShrinkWire
<1>3. CASE recovery' = CatchUp(replica) /\ status' = "catching_up" /\ scan' = None
  <2>1. Asked(T, recovery', replica, replica.next)
    BY <1>0, <1>3, AskCatchUp
  <2>2. RequestContent(T, recovery') /\ LowOf(recovery', replica) = replica.next /\ RecoveryPlaced(recovery', replica)
    BY <2>1 DEF Asked
  <2>3. ReadyPlaced(status', recovery', scan', replica) /\ RequestContent(T, scan')
    BY <1>3, NoneContent DEF ReadyPlaced
  <2>. QED
    BY <1>0, <1>1, <1>2, <2>2, <2>3, StillContent
<1>4. CASE UNCHANGED <<recovery, status, scan>>
  BY <1>0, <1>1, <1>2, <1>4, StillContent
<1>. QED
  BY <1>1, <1>3, <1>4

LEMMA AskOlderContent ==
    ASSUME TypeInv, EpochInv, NEW T, Content(T), AskOlder
    PROVE  Stepped(T)
<1>. DEFINE low == LowOf(recovery, replica)
            e == replica.epoch
            seq == FirstStart(replica)
<1>0. /\ replica \in ReplicaType /\ T \in [1..MaxEpochs -> Rows]
      /\ RequestContent(T, recovery) /\ RequestContent(T, scan) /\ WireContent(T, down)
      /\ ReplicaContent(T, replica, down, low) /\ low \in Int
      /\ RecoveryPlaced(recovery, replica) /\ ReadyPlaced(status, recovery, scan, replica)
      /\ replica.initialized => e # 0 /\ e \in 1..MaxEpochs /\ Len(T[e]) \in Nat /\ replica.next <= Len(T[e]) + 1
                                /\ low <= replica.next
      /\ e \in Int /\ replica.next \in Int
  BY ContentFacts
<1>1. /\ replica.initialized /\ older' = Ask("before", e, seq)
      /\ UNCHANGED <<epoch, rows, down, status, recovery, scan, replica>>
  BY DEF AskOlder, server, wire
<1>2. Sorted(replica.entries) /\ Shows(T[e], ToSet(replica.entries), low, replica.next, Coming(replica, down))
  BY <1>0, <1>1 DEF ReplicaContent
<1>3. seq = 1 \/ (seq \in 1..low - 1 /\ Leader(T[e], seq))
  <2>. DEFINE E == ToSet(replica.entries)
              c == replica.entries[1]
  <2>1. /\ seq \in Nat /\ 1 <= seq
        /\ \A d \in E : d.start \in Int /\ seq <= d.start
        /\ E = {} => seq = 1
        /\ E # {} => c \in E /\ c.start = seq
    BY <1>0, <1>2, FirstStartFacts
  <2>2. First(T[e], E, low, replica.next)
    BY <1>2 DEF Shows
  <2>. HIDE DEF E, c, seq
  <2>3. CASE E # {}
    <3>1. \A d \in E : c.start <= d.start
      BY <2>1, <2>3
    <3>2. Leader(T[e], c.start) /\ (c.start = 1 \/ c.start < low)
      BY <2>1, <2>2, <2>3, <3>1 DEF First
    <3>. QED
      BY <1>0, <2>1, <2>3, <3>2
  <2>. QED
    BY <2>1, <2>3
<1>. HIDE DEF seq
<1>4. seq \in 0..MaxRows /\ e \in 0..MaxEpochs /\ (seq <= Len(T[e]) \/ seq = 1)
  <2>1. Len(T[e]) <= MaxRows /\ Len(T[e]) \in Nat /\ MaxRows \in Nat \ {0} /\ e \in 0..MaxEpochs
    BY <1>0, <1>1, TableRows, Constants
  <2>. QED
    BY <1>0, <1>1, <1>3, <2>1
<1>. HIDE DEF e
<1>5. /\ older' # None /\ older'.direction = "before" /\ older'.epoch = e /\ older'.seq = seq
      /\ RequestContent(T, older')
  <2>1. older' # None /\ older'.direction = "before" /\ older'.epoch = e /\ older'.seq = seq
    BY <1>1, <1>4, AskIs
  <2>2. RequestContent(T, older')
    BY <1>0, <1>1, <1>4, AskContent
  <2>. QED
    BY <2>1, <2>2
<1>6. OlderPlaced(T, older', replica, low)
  BY <1>0, <1>1, <1>3, <1>5 DEF OlderPlaced, e
<1>7. Passes(T, replica, replica')
  BY <1>0, <1>1, SelfFollows DEF Passes, Reaches
<1>. QED
  BY <1>0, <1>1, <1>5, <1>6, <1>7, ContentAgain

LEMMA AskScanContent ==
    ASSUME TypeInv, EpochInv, NEW T, Content(T), AskScan
    PROVE  Stepped(T)
<1>. DEFINE low == LowOf(recovery, replica)
<1>0. /\ replica \in ReplicaType /\ T \in [1..MaxEpochs -> Rows] /\ low \in Int
      /\ RequestContent(T, recovery) /\ RequestContent(T, scan) /\ WireContent(T, down)
      /\ RecoveryPlaced(recovery, replica) /\ ReadyPlaced(status, recovery, scan, replica)
      /\ ReplicaContent(T, replica, down, low)
      /\ replica.initialized => replica.epoch # 0 /\ Len(T[replica.epoch]) \in Nat /\ replica.next <= Len(T[replica.epoch]) + 1
      /\ replica.initialized => low <= replica.next
      /\ replica.next \in Int
  BY ContentFacts
<1>1. PICK seq \in FirstStart(replica) - 1..replica.next - 1 : scan' = Ask("after", replica.epoch, seq)
  BY DEF AskScan
<1>2. status = "ready" /\ UNCHANGED <<epoch, rows, down, status, recovery, older, replica>>
  BY DEF AskScan, server, wire
<1>3. replica.initialized /\ recovery = None
  BY <1>0, <1>2 DEF ReadyPlaced
<1>4. FirstStart(replica) \in Nat /\ 1 <= FirstStart(replica)
  BY <1>0, <1>3, FirstStartFacts DEF ReplicaContent
<1>5. seq \in Nat /\ seq < replica.next /\ seq <= Len(T[replica.epoch])
  BY <1>0, <1>3, <1>4
<1>. DEFINE e == replica.epoch
<1>6. scan' = Ask("after", e, seq) /\ e \in 0..MaxEpochs /\ seq \in 0..MaxRows /\ e # 0 /\ seq <= Len(T[e])
  BY <1>0, <1>1, <1>3, <1>5, ReplicaFields, Constants
<1>. HIDE DEF e
<1>7. /\ scan' # None /\ scan'.direction = "after" /\ scan'.epoch = e /\ scan'.seq = seq
  BY <1>6, AskIs
<1>8. RequestContent(T, scan')
  BY <1>6, AskContent
<1>9. ReadyPlaced(status', recovery', scan', replica)
  BY <1>0, <1>2, <1>3, <1>5, <1>7 DEF ReadyPlaced, e
<1>. QED
  BY <1>0, <1>2, <1>8, <1>9, StillContent

LEMMA StutterContent ==
    ASSUME TypeInv, EpochInv, NEW T, Content(T), UNCHANGED vars
    PROVE  Stepped(T)
<1>. DEFINE low == LowOf(recovery, replica)
<1>0. /\ low \in Int /\ replica.next \in Int
      /\ RequestContent(T, recovery) /\ RequestContent(T, scan) /\ WireContent(T, down)
      /\ RecoveryPlaced(recovery, replica) /\ ReadyPlaced(status, recovery, scan, replica)
      /\ replica.initialized => low <= replica.next
  BY ContentFacts
<1>1. UNCHANGED <<epoch, rows, down, status, recovery, older, scan, replica>>
  BY DEF vars, server, wire, reads
<1>. QED
  BY <1>0, <1>1, StillContent

\* A replacement that arrives: the replica is empty.
LEMMA ReceiveReplacementContent ==
    ASSUME TypeInv, EpochInv, NEW T, Content(T), ReceiveReplacement
    PROVE  Stepped(T)
<1>. DEFINE low == LowOf(recovery, replica)
            e == Head(down).epoch
<1>0. /\ replica \in ReplicaType /\ low \in Int /\ down \in Seq(Message) /\ replica.epoch \in Int
      /\ WireContent(T, down) /\ RequestContent(T, older)
      /\ OlderPlaced(T, older, replica, low)
      /\ older # None => older.epoch \in Int
  BY ContentFacts
<1>1. /\ down # <<>> /\ Head(down).type = "replacement"
      /\ replica' = Replaced(replica, e)
      /\ recovery' = Ask("tail", 0, 0) /\ status' = "catching_up" /\ scan' = None /\ down' = WithoutPage(Tail(down))
      /\ UNCHANGED <<epoch, rows, older>>
  BY DEF ReceiveReplacement, Fetch, server
<1>2. Head(down) \in Message /\ Carries(Head(down)) /\ e \in 1..MaxEpochs
  BY <1>1, HeadType DEF Carries
<1>3. e \in Int /\ replica.epoch < e
  <2>1. Head(down) = down[1] /\ 1 \in DOMAIN down
    BY <1>0, <1>1, TailIs
  <2>2. WireEpochs(down, replica.epoch, epoch)
    BY EpochFacts
  <2>. QED
    BY <1>1, <1>2, <2>1, <2>2, Constants DEF WireEpochs
<1>4. WireContent(T, down')
  BY <1>0, <1>1, ShrinkWire
<1>. HIDE DEF e
<1>5. replica' = EmptyReplica(e, replica.retired \cup ({replica.epoch} \ {0, e}))
  BY <1>0, <1>1, <1>3 DEF Replaced
<1>6. /\ replica'.epoch = e /\ ~replica'.initialized /\ replica'.pending = {} /\ replica'.next = 1
  BY <1>5 DEF EmptyReplica
<1>7. Asked(T, recovery', replica', replica'.next)
  BY <1>1, <1>6, AskTail
<1>8. /\ RequestContent(T, recovery') /\ LowOf(recovery', replica') = 1 /\ RecoveryPlaced(recovery', replica')
  BY <1>6, <1>7 DEF Asked
<1>9. ReplicaContent(T, replica', down', 1)
  BY <1>6, EmptyContent
<1>10. OlderPlaced(T, older', replica', 1)
  <2>1. 1 \in Int /\ replica'.epoch \in Int /\ replica.epoch <= replica'.epoch /\ replica.epoch # replica'.epoch
    BY <1>0, <1>3, <1>6
  <2>2. OlderPlaced(T, older, replica', 1)
    BY <1>0, <2>1, OlderOn
  <2>. QED
    BY <1>1, <2>2
<1>11. /\ ReadyPlaced(status', recovery', scan', replica') /\ RequestContent(T, scan')
       /\ Passes(T, replica, replica') /\ RequestContent(T, older')
  BY <1>0, <1>1, <1>6, NoneContent DEF ReadyPlaced, Passes
<1>. QED
  BY <1>1, <1>4, <1>8, <1>9, <1>10, <1>11, ContentAgain

\* Where low is after the replica moved on and the catch-up stayed.
LEMMA LaterLow ==
    ASSUME NEW rq \in {None} \cup Request, NEW r, r.initialized, RecoveryPlaced(rq, r), rq # None => rq.direction \in {"tail", "after"}, NEW d
    PROVE  LowOf(rq, d) = IF rq = None THEN d.next ELSE LowOf(rq, r)
BY DEF LowOf, RecoveryPlaced

\* The replica moves on within its epoch, and the catch-up stays.
LEMMA MovedContent ==
    ASSUME TypeInv, EpochInv, NEW T, Content(T), UNCHANGED <<epoch, rows, recovery, status>>,
           replica' \in ReplicaType, replica.initialized, replica'.initialized,
           replica'.epoch = replica.epoch, replica.next <= replica'.next,
           LowOf(recovery, replica) <= replica'.next,
           ReplicaContent(T, replica', down', LowOf(recovery, replica)) \/ recovery = None,
           ReplicaContent(T, replica', down', replica'.next),
           WireContent(T, down'), older' = older \/ older' = None,
           RequestContent(T, scan'),
           scan' # None => status = "ready" /\ scan'.epoch = replica'.epoch /\ scan'.seq < replica'.next,
           scan' # None => scan'.seq \in Int,
           Passes(T, replica, replica')
    PROVE  Stepped(T)
<1>. DEFINE low == LowOf(recovery, replica)
            later == LowOf(recovery, replica')
            d == replica'
<1>0. /\ replica \in ReplicaType /\ low \in Int /\ replica.next \in Int /\ replica.epoch \in Int
      /\ recovery \in {None} \cup Request /\ RequestContent(T, recovery) /\ RequestContent(T, older)
      /\ RecoveryPlaced(recovery, replica) /\ ReadyPlaced(status, recovery, scan, replica)
      /\ OlderPlaced(T, older, replica, low)
      /\ older # None => older.epoch \in Int
      /\ low <= replica.next
  BY ContentFacts
<1>1. recovery # None => recovery.direction \in {"tail", "after"}
  BY EpochFacts DEF Kinds
<1>2. later = IF recovery = None THEN d.next ELSE low
  BY <1>0, <1>1, LaterLow
<1>3. d.next \in Int
  BY LowFacts
<1>4. later \in Int /\ low <= later /\ later <= d.next
  BY <1>0, <1>2, <1>3
<1>5. ReplicaContent(T, d, down', later)
  BY <1>2
<1>6. OlderPlaced(T, older', d, later)
  <2>1. OlderPlaced(T, older, d, later)
    <3>1. d.epoch \in Int /\ replica.epoch <= d.epoch /\ d.initialized
      BY <1>0
    <3>. HIDE DEF d, later, low
    <3>. QED
      BY <1>0, <1>4, <3>1, OlderOn
  <2>. QED
    BY <2>1, NoneContent
<1>7. recovery # None => recovery.seq \in Int
  BY <1>0, RequestFields
<1>8. RecoveryPlaced(recovery', d)
  BY <1>0, <1>1, <1>3, <1>7 DEF RecoveryPlaced
<1>9. ReadyPlaced(status', recovery', scan', d)
  BY <1>0, <1>3 DEF ReadyPlaced
<1>10. RequestContent(T, recovery') /\ RequestContent(T, older') /\ later = LowOf(recovery', replica')
  BY <1>0, NoneContent
<1>. HIDE DEF later, low
<1>. QED
  BY <1>5, <1>6, <1>8, <1>9, <1>10, ContentAgain DEF d

\* What the reduction of a live row leaves, with the messages that remain.
LEMMA FollowContent ==
    ASSUME TypeInv, EpochInv, NEW T, Content(T), NEW reduction, NEW rest \in Seq(Message), NEW e \in 1..MaxEpochs,
           UNCHANGED <<epoch, rows, older>>, Follow(reduction, rest), reduction.replica \in ReplicaType,
           WireContent(T, rest), replica.epoch <= e,
           NEW low, low = LowOf(recovery, replica),
           LiveOutcome(T, replica, reduction.replica, reduction.status, rest, low, e)
    PROVE  Stepped(T)
<1>. DEFINE d == reduction.replica
            st == reduction.status
<1>0. /\ replica \in ReplicaType /\ low \in Int /\ replica.next \in Int /\ replica.epoch \in Int /\ e \in Int
      /\ T \in [1..MaxEpochs -> Rows]
      /\ recovery \in {None} \cup Request /\ RequestContent(T, recovery) /\ RequestContent(T, older) /\ RequestContent(T, scan)
      /\ RecoveryPlaced(recovery, replica) /\ ReadyPlaced(status, recovery, scan, replica)
      /\ OlderPlaced(T, older, replica, low)
      /\ older # None => older.epoch \in Int
      /\ scan \in {None} \cup Request
      /\ replica.initialized => low \in 1..replica.next /\ low <= replica.next
      /\ recovery = None => low = replica.next
  BY ContentFacts
<1>1. /\ replica' = d /\ d \in ReplicaType /\ d.next \in Int /\ d.next - 1 \in Nat /\ d.next - 1 + 1 = d.next
      /\ older' = older
  BY LowFacts DEF Follow
<1>2. ReplicaContent(T, d, rest, low) /\ Passes(T, replica, d) /\ d.epoch = e
  BY DEF LiveOutcome
<1>3. recovery # None => recovery.direction \in {"tail", "after"}
  BY EpochFacts DEF Kinds
<1>4. CASE ~d.initialized
  <2>0. OlderPlaced(T, older', d, d.next)
    <3>1. d.epoch \in Int /\ replica.epoch <= d.epoch /\ (replica.epoch = d.epoch /\ replica.initialized => d.initialized /\ low <= d.next)
      BY <1>0, <1>2, <1>4 DEF LiveOutcome
    <3>. HIDE DEF d
    <3>2. OlderPlaced(T, older, d, d.next)
      BY <1>0, <1>1, <3>1, OlderOn
    <3>. QED
      BY <1>1, <3>2
  <2>1. CASE st = "epoch_changed"
    <3>1. recovery' = Ask("tail", 0, 0) /\ status' = "catching_up" /\ scan' = None /\ down' = WithoutPage(rest)
      BY <2>1 DEF Follow, Fetch
    <3>. HIDE DEF d
    <3>2. Asked(T, recovery', d, d.next)
      BY <1>4, <3>1, AskTail
    <3>3. RequestContent(T, recovery') /\ LowOf(recovery', replica') = d.next /\ RecoveryPlaced(recovery', replica')
      BY <1>1, <3>2 DEF Asked
    <3>4. WireContent(T, down') /\ Stream(down') \subseteq Stream(rest)
      BY <3>1, ShrinkWire
    <3>5. ReplicaContent(T, d, down', d.next)
      BY <1>0, <1>1, <1>2, <1>4, <3>4, ShrinkContent
    <3>6. ReadyPlaced(status', recovery', scan', replica') /\ RequestContent(T, scan') /\ RequestContent(T, older')
      BY <1>0, <1>1, <3>1, NoneContent DEF ReadyPlaced
    <3>. QED
      BY <1>1, <1>2, <2>0, <3>3, <3>4, <3>5, <3>6, ContentAgain
  <2>2. CASE st = "buffered" /\ ~replica.initialized
    <3>1. recovery' = recovery /\ status' = status /\ scan' = scan /\ down' = rest
      BY <2>2 DEF Follow
    <3>2. status # "ready" /\ scan = None /\ (recovery # None => recovery.direction = "tail")
      BY <1>0, <1>3, <2>2 DEF ReadyPlaced, RecoveryPlaced
    <3>3. LowOf(recovery', replica') = d.next
      BY <1>1, <3>1, <3>2 DEF LowOf
    <3>4. RecoveryPlaced(recovery', replica') /\ ReadyPlaced(status', recovery', scan', replica')
      BY <1>1, <1>4, <3>1, <3>2 DEF RecoveryPlaced, ReadyPlaced
    <3>. HIDE DEF d
    <3>5. ReplicaContent(T, d, down', d.next)
      BY <1>0, <1>1, <1>2, <1>4, <3>1, ShrinkContent
    <3>. QED
      BY <1>0, <1>1, <1>2, <2>0, <3>1, <3>3, <3>4, <3>5, ContentAgain
  <2>. QED
    BY <1>4, <2>1, <2>2 DEF LiveOutcome
<1>5. CASE d.initialized
  <2>1. replica.initialized /\ replica.epoch = e /\ replica.next <= d.next /\ st \in {"duplicate", "gap", "applied"}
    BY <1>5 DEF LiveOutcome
  <2>2. d.epoch # 0 /\ low <= d.next /\ low \in 1..replica.next
    BY <1>0, <1>1, <1>2, <2>1
  <2>. HIDE DEF d
  <2>3. ReplicaContent(T, d, rest, d.next)
    <3>1. d.next \in low..d.next
      BY <1>0, <1>1, <2>2
    <3>. QED
      BY <1>0, <1>1, <1>2, <2>2, <3>1, ShrinkContent
  <2>4. CASE st = "gap" /\ recovery = None
    <3>1. recovery' = Ask("after", d.epoch, d.next - 1) /\ status' = "catching_up" /\ scan' = None /\ down' = rest
      BY <2>4 DEF Follow, Fetch, d
    <3>2. Len(T[d.epoch]) \in Nat /\ d.next <= Len(T[d.epoch]) + 1
      <4>1. Len(T[d.epoch]) \in Nat
        BY <1>0, <1>2, TableRows
      <4>2. Shows(T[d.epoch], ToSet(d.entries), low, d.next, Coming(d, rest))
        BY <1>2, <1>5 DEF ReplicaContent
      <4>3. d.next \in 1..Len(T[d.epoch]) + 1
        BY <4>2 DEF Shows
      <4>. QED
        BY <4>1, <4>3
    <3>3. Asked(T, recovery', d, d.next)
      BY <1>1, <1>5, <2>2, <3>1, <3>2, AskNext
    <3>4. RequestContent(T, recovery') /\ LowOf(recovery', replica') = d.next /\ RecoveryPlaced(recovery', replica')
      BY <1>1, <3>3 DEF Asked
    <3>5. OlderPlaced(T, older', d, d.next)
      <4>1. d.epoch \in Int /\ replica.epoch <= d.epoch
        BY <1>0, <1>2
      <4>2. OlderPlaced(T, older, d, d.next)
        BY <1>0, <1>1, <1>5, <2>2, <4>1, OlderOn
      <4>. QED
        BY <1>1, <4>2
    <3>6. ReadyPlaced(status', recovery', scan', replica') /\ RequestContent(T, scan') /\ RequestContent(T, older')
      BY <1>0, <1>1, <3>1, NoneContent DEF ReadyPlaced
    <3>. QED
      BY <1>1, <1>2, <2>3, <3>1, <3>4, <3>5, <3>6, ContentAgain
  <2>5. CASE ~(st = "gap" /\ recovery = None)
    <3>1. recovery' = recovery /\ status' = status /\ scan' = scan /\ down' = rest
      BY <2>1, <2>5 DEF Follow
    <3>2. scan' # None => /\ status = "ready" /\ scan'.epoch = d.epoch /\ scan'.seq < d.next /\ scan'.seq \in Int
      <4>1. scan # None => scan.seq \in Int
        BY <1>0, RequestFields
      <4>. QED
        BY <1>0, <1>1, <1>2, <2>1, <3>1, <4>1 DEF ReadyPlaced
    <3>3. d.epoch = replica.epoch
      BY <1>2, <2>1
    <3>. QED
      BY <1>0, <1>1, <1>2, <1>5, <2>1, <2>2, <2>3, <3>1, <3>2, <3>3, MovedContent
  <2>. QED
    BY <2>4, <2>5
<1>. QED
  BY <1>4, <1>5

LEMMA ReceiveStreamContent ==
    ASSUME Items \subseteq PlainKinds, TypeInv, EpochInv, replica' \in ReplicaType, NEW T, Content(T), ReceiveStream
    PROVE  Stepped(T)
<1>. DEFINE m == [epoch |-> Head(down).epoch, seq |-> Head(down).seq, item |-> Head(down).item]
            reduction == ReduceLive(replica, m)
            rest == Tail(down)
            h == Head(down)
            low == LowOf(recovery, replica)
<1>1. /\ down # <<>> /\ h.type = "stream"
      /\ Follow(reduction, rest)
      /\ UNCHANGED <<epoch, rows, older>>
  BY DEF ReceiveStream, server
<1>2. m \in Row /\ rest \in Seq(Message) /\ h \in Message /\ Carries(h) /\ m.epoch = h.epoch /\ m.seq = h.seq /\ m.item = h.item
  BY <1>1, HeadType DEF Carries
<1>3. /\ replica \in ReplicaType /\ T \in [1..MaxEpochs -> Rows] /\ down \in Seq(Message) /\ epoch \in Int
      /\ WireContent(T, down) /\ ReplicaContent(T, replica, down, low)
  BY ContentFacts
<1>4. ReplicaEpochs(replica, epoch) /\ WireEpochs(down, replica.epoch, epoch)
  BY EpochFacts
<1>5. replica.epoch <= m.epoch
  <2>1. Head(down) = down[1] /\ 1 \in DOMAIN down
    BY <1>1, <1>3, TailIs
  <2>. QED
    BY <1>2, <1>4, <2>1 DEF WireEpochs
<1>6. m.epoch \in 1..MaxEpochs
  BY <1>2 DEF Row
<1>7. /\ Stream(rest) \subseteq Stream(down) /\ h \in Stream(down)
      /\ \A x \in Stream(rest) : x.epoch = h.epoch => h.seq < x.seq
      /\ WireContent(T, rest)
  <2>1. Stream(rest) \subseteq Stream(down) /\ h \in Stream(down)
        /\ \A x \in Stream(rest) : x.epoch = h.epoch => h.seq < x.seq
    BY <1>1, <1>3, StreamTail DEF WireContent
  <2>2. WireContent(T, rest)
    BY <1>1, <1>3, ShrinkWire
  <2>. QED
    BY <2>1, <2>2
<1>8. Known(T, h)
  BY <1>3, <1>7 DEF WireContent
<1>. HIDE DEF m, h, rest
<1>9. LiveOutcome(T, replica, ReduceLive(replica, m).replica, ReduceLive(replica, m).status, rest, low, m.epoch)
  BY <1>2, <1>3, <1>4, <1>5, <1>7, <1>8, LiveContent
<1>10. reduction.replica \in ReplicaType
  BY <1>1 DEF Follow
<1>11. LiveOutcome(T, replica, reduction.replica, reduction.status, rest, low, m.epoch)
  BY <1>9
<1>. DEFINE e == m.epoch
<1>12. e \in 1..MaxEpochs /\ replica.epoch <= e /\ LiveOutcome(T, replica, reduction.replica, reduction.status, rest, low, e)
       /\ low = LowOf(recovery, replica)
  BY <1>5, <1>6, <1>11
<1>. HIDE DEF reduction, low, e
<1>. QED
  BY <1>1, <1>2, <1>7, <1>10, <1>12, FollowContent

LEMMA ReceiveOlderContent ==
    ASSUME Items \subseteq PlainKinds, TypeInv, EpochInv, replica' \in ReplicaType, NEW T, Content(T), ReceiveOlder
    PROVE  Stepped(T) /\ OlderKept(replica, replica')
<1>. DEFINE low == LowOf(recovery, replica)
<1>0. /\ replica \in ReplicaType /\ T \in [1..MaxEpochs -> Rows] /\ down \in Seq(Message) /\ epoch \in Int /\ low \in Int
      /\ replica.next \in Int
      /\ RequestContent(T, recovery) /\ RequestContent(T, older) /\ RequestContent(T, scan)
      /\ RecoveryPlaced(recovery, replica) /\ ReadyPlaced(status, recovery, scan, replica)
      /\ WireContent(T, down) /\ ReplicaContent(T, replica, down, low)
      /\ OlderPlaced(T, older, replica, low)
      /\ replica.initialized => low <= replica.next
      /\ older # None => older \in Request /\ older.direction = "before"
      /\ scan \in {None} \cup Request
  BY ContentFacts
<1>1. /\ older # None /\ older.page # None /\ older' = None
      /\ UNCHANGED <<epoch, rows, down, status, recovery, scan>>
  BY DEF ReceiveOlder, server, wire
<1>r. replica' = IF older.page.epoch # replica.epoch \/ older.page.reset THEN replica
                 ELSE ApplyPage(replica, older.page, FALSE).replica
  BY DEF ReceiveOlder
<1>2. CASE older.page.epoch # replica.epoch \/ older.page.reset
  <2>1. replica' = replica
    BY <1>r, <1>2
  <2>2. Stepped(T)
    BY <1>0, <1>1, <2>1, StillContent
  <2>3. OlderKept(replica, replica')
    <3>1. \A b \in ToSet(replica.entries) : b.end <= b.end
      BY <1>0, ReplicaFields, EntryFields DEF ToSet
    <3>. QED
      BY <2>1, <3>1 DEF OlderKept, Keeps
  <2>. QED
    BY <2>2, <2>3
<1>3. CASE ~(older.page.epoch # replica.epoch \/ older.page.reset)
  <2>. DEFINE rq == older
              d == ApplyPage(replica, rq.page, FALSE).replica
  <2>1. ReplicaEpochs(replica, epoch) /\ PageEpochs(rq, epoch)
    BY <1>1, EpochFacts DEF RequestEpochs
  <2>2. replica' = d
    BY <1>r, <1>3
  <2>3. ReadOutcome(T, replica, d, down, low) /\ OlderKept(replica, d)
    <3>. HIDE DEF low
    <3>1. rq \in Request /\ rq # None /\ rq.page # None /\ RequestContent(T, rq) /\ rq.direction = "before"
          /\ OlderPlaced(T, rq, replica, low) /\ rq.page.epoch = replica.epoch /\ ~rq.page.reset
      BY <1>0, <1>1, <1>3
    <3>. HIDE DEF rq
    <3>2. ReadOutcome(T, replica, ApplyPage(replica, rq.page, FALSE).replica, down, low)
      BY <1>0, <2>1, <3>1, OlderContent
    <3>3. OlderKept(replica, ApplyPage(replica, rq.page, FALSE).replica)
      BY <1>0, <2>1, <3>1, <3>2, OlderContent
    <3>. QED
      BY <3>2, <3>3
  <2>. HIDE DEF d, low
  <2>4. replica.initialized
    BY <1>0, <1>1, <1>3, <2>1 DEF PageEpochs, OlderPlaced
  <2>5. /\ replica'.initialized /\ replica'.epoch = replica.epoch /\ Passes(T, replica, replica')
        /\ ReplicaContent(T, replica', down', low) /\ ReplicaContent(T, replica', down', replica'.next)
        /\ low <= replica'.next /\ replica.next <= replica'.next
    BY <1>1, <2>2, <2>3 DEF ReadOutcome
  <2>6. scan' # None => status = "ready" /\ scan'.epoch = replica'.epoch /\ scan'.seq < replica'.next /\ scan'.seq \in Int
    <3>1. scan # None => scan.seq \in Int
      BY <1>0, RequestFields
    <3>2. replica'.next \in Int
      BY LowFacts
    <3>. QED
      BY <1>0, <1>1, <2>5, <3>1, <3>2 DEF ReadyPlaced
  <2>7. UNCHANGED <<epoch, rows, recovery, status>> /\ WireContent(T, down') /\ (older' = older \/ older' = None) /\ RequestContent(T, scan')
    BY <1>0, <1>1
  <2>8. Stepped(T)
    BY <2>4, <2>5, <2>6, <2>7, MovedContent DEF low
  <2>. QED
    BY <2>2, <2>3, <2>8
<1>. QED
  BY <1>2, <1>3

LEMMA ReceiveScanContent ==
    ASSUME Items \subseteq PlainKinds, TypeInv, EpochInv, replica' \in ReplicaType, NEW T, Content(T), ReceiveScan
    PROVE  Stepped(T) /\ ScanKept(replica, replica') /\ replica.next <= replica'.next
<1>. DEFINE low == LowOf(recovery, replica)
<1>0. /\ replica \in ReplicaType /\ T \in [1..MaxEpochs -> Rows] /\ down \in Seq(Message) /\ epoch \in Int /\ low \in Int
      /\ replica.next \in Int
      /\ RequestContent(T, recovery) /\ RequestContent(T, older) /\ RequestContent(T, scan)
      /\ RecoveryPlaced(recovery, replica) /\ ReadyPlaced(status, recovery, scan, replica)
      /\ WireContent(T, down) /\ ReplicaContent(T, replica, down, low)
      /\ replica.initialized => low <= replica.next /\ replica.epoch # 0
      /\ scan \in {None} \cup Request
      /\ recovery = None => low = replica.next
  BY ContentFacts
<1>1. /\ scan # None /\ scan.page # None
      /\ UNCHANGED <<epoch, rows, down, status, recovery, older>>
  BY DEF ReceiveScan, server, wire
<1>2. /\ status = "ready" /\ recovery = None /\ replica.initialized /\ low = replica.next
      /\ scan.epoch = replica.epoch /\ scan.seq < replica.next
  BY <1>0, <1>1 DEF ReadyPlaced
<1>3. CASE replica.epoch # scan.epoch \/ scan.page.reset \/ scan.page.gap
  <2>1. scan' = None /\ replica' = replica
    BY <1>3 DEF ReceiveScan
  <2>2. ReadyPlaced(status', recovery', scan', replica) /\ RequestContent(T, scan')
    BY <1>0, <1>1, <2>1, NoneContent DEF ReadyPlaced
  <2>3. Stepped(T)
    BY <1>0, <1>1, <2>1, <2>2, StillContent
  <2>4. ScanKept(replica, replica')
    <3>1. \A b \in ToSet(replica.entries) : b.end <= b.end
      BY <1>0, ReplicaFields, EntryFields DEF ToSet
    <3>. QED
      BY <2>1, <3>1 DEF ScanKept, Keeps
  <2>. QED
    BY <1>0, <2>1, <2>3, <2>4
<1>4. CASE ~(replica.epoch # scan.epoch \/ scan.page.reset \/ scan.page.gap)
  <2>. DEFINE rq == scan
              d == ApplyPage(replica, rq.page, TRUE).replica
  <2>1. ReplicaEpochs(replica, epoch) /\ PageEpochs(rq, epoch) /\ rq.direction = "after"
    BY <1>1, EpochFacts DEF RequestEpochs, Kinds
  <2>2. /\ replica' = d
        /\ scan' \in {None} \cup (IF rq.page.hasNewer THEN {Ask("after", rq.epoch, rq.page.end)} ELSE {})
    BY <1>4 DEF ReceiveScan
  <2>3. /\ ReadOutcome(T, replica, d, down, d.next)
        /\ ScanKept(replica, d)
        /\ rq.page.hasNewer => rq.page.end < d.next /\ rq.page.end <= Len(T[rq.epoch])
    <3>1. rq \in Request /\ rq # None /\ rq.page # None /\ RequestContent(T, rq)
          /\ rq.epoch = replica.epoch /\ rq.seq < replica.next /\ ~rq.page.reset
          /\ ReplicaContent(T, replica, down, replica.next)
      BY <1>0, <1>1, <1>2, <1>4
    <3>. HIDE DEF rq, low
    <3>2. ReadOutcome(T, replica, ApplyPage(replica, rq.page, TRUE).replica, down, ApplyPage(replica, rq.page, TRUE).replica.next)
      BY <1>0, <1>2, <2>1, <3>1, ScanContent
    <3>3. ScanKept(replica, ApplyPage(replica, rq.page, TRUE).replica)
      BY <1>0, <1>2, <2>1, <3>1, <3>2, ScanContent
    <3>4. rq.page.hasNewer => /\ rq.page.end < ApplyPage(replica, rq.page, TRUE).replica.next
                              /\ rq.page.end <= Len(T[rq.epoch])
      BY <1>0, <1>2, <2>1, <3>1, <3>2, ScanContent
    <3>. QED
      BY <3>2, <3>3, <3>4
  <2>4. rq.page.end \in 0..MaxRows /\ rq.page.end \in Int
    <3>1. rq \in Request
      BY <1>0, <1>1
    <3>. QED
      BY <1>1, <3>1, RequestFields, PageFields, Constants
  <2>. HIDE DEF d, low
  <2>5. /\ replica'.initialized /\ replica'.epoch = replica.epoch /\ Passes(T, replica, replica')
        /\ ReplicaContent(T, replica', down', replica'.next)
        /\ replica.next <= replica'.next
    BY <1>1, <2>2, <2>3 DEF ReadOutcome
  <2>6. /\ RequestContent(T, scan')
        /\ scan' # None => status = "ready" /\ scan'.epoch = replica'.epoch /\ scan'.seq < replica'.next /\ scan'.seq \in Int
    <3>1. CASE scan' = None
      BY <3>1, NoneContent
    <3>2. CASE scan' # None
      <4>. DEFINE e == rq.epoch
                  seq == rq.page.end
      <4>1. scan' = Ask("after", e, seq) /\ rq.page.hasNewer
        BY <2>2, <3>2
      <4>2. /\ e \in 0..MaxEpochs /\ seq \in 0..MaxRows /\ e # 0 /\ seq <= Len(T[e]) /\ seq < d.next
            /\ e = replica.epoch /\ seq \in Int
        BY <1>0, <1>2, <2>3, <2>4, <4>1, ReplicaFields
      <4>. HIDE DEF e, seq
      <4>3. scan' # None /\ scan'.epoch = e /\ scan'.seq = seq
        BY <4>1, <4>2, AskIs
      <4>4. RequestContent(T, scan')
        BY <4>1, <4>2, AskContent
      <4>. QED
        BY <1>2, <2>2, <2>5, <4>2, <4>3, <4>4
    <3>. QED
      BY <3>1, <3>2
  <2>7. UNCHANGED <<epoch, rows, recovery, status>> /\ WireContent(T, down') /\ (older' = older \/ older' = None)
        /\ LowOf(recovery, replica) <= replica'.next
    BY <1>0, <1>1, <1>2, <2>5 DEF low
  <2>8. Stepped(T)
    BY <1>2, <2>5, <2>6, <2>7, MovedContent
  <2>. QED
    BY <2>2, <2>3, <2>5, <2>8
<1>. QED
  BY <1>3, <1>4

LEMMA ReceiveCatchUpContent ==
    ASSUME Items \subseteq PlainKinds, Ordered, TypeInv, EpochInv, replica' \in ReplicaType, NEW T, Content(T), ReceiveCatchUp
    PROVE  Stepped(T)
<1>. DEFINE low == LowOf(recovery, replica)
            rq == recovery
            e == rq.page.epoch
            end == rq.page.end
            d == ApplyPage(replica, rq.page, FALSE).replica
            st == ApplyPage(replica, rq.page, FALSE).status
<1>0. /\ replica \in ReplicaType /\ T \in [1..MaxEpochs -> Rows] /\ down \in Seq(Message) /\ epoch \in Int /\ low \in Int
      /\ replica.next \in Int /\ replica.epoch \in Int
      /\ RequestContent(T, recovery) /\ RequestContent(T, older) /\ RequestContent(T, scan)
      /\ RecoveryPlaced(recovery, replica) /\ ReadyPlaced(status, recovery, scan, replica)
      /\ WireContent(T, down) /\ ReplicaContent(T, replica, down, low)
      /\ OlderPlaced(T, older, replica, low)
      /\ older # None => older.epoch \in Int
      /\ replica.initialized => low \in 1..replica.next /\ low <= replica.next /\ replica.epoch # 0
      /\ recovery \in {None} \cup Request
  BY ContentFacts
<1>1. /\ rq # None /\ rq.page # None /\ UNCHANGED <<epoch, rows, older>>
  BY DEF ReceiveCatchUp, server
<1>2. /\ rq.page \in PageType /\ e \in Nat /\ e <= epoch /\ replica.epoch <= e
      /\ ShowsOnly(e, rq.page.entries)
  BY <1>1, PlacedFacts
<1>3. PICK rest \in Seq(Message) : ApplyCatchUp(rest) /\ WireContent(T, rest) /\ Stream(rest) \subseteq Stream(down)
  <2>1. CASE down # <<>> /\ ApplyCatchUp(Tail(down))
    <3>1. Tail(down) \in Seq(Message)
      BY <2>1, HeadType
    <3>. QED
      BY <1>0, <2>1, <3>1, ShrinkWire
  <2>2. CASE ApplyCatchUp(down)
    BY <1>0, <2>2
  <2>. QED
    BY <2>1, <2>2 DEF ReceiveCatchUp
<1>4. scan = None /\ rq.direction \in {"tail", "after"} /\ rq \in Request
  BY <1>0, <1>1, EpochFacts DEF ReadyPlaced, Kinds
<1>5. ReplicaEpochs(replica, epoch) /\ PageEpochs(rq, epoch)
  BY <1>1, EpochFacts DEF RequestEpochs
<1>6. d.epoch = e
  <2>1. FALSE \in BOOLEAN
    OBVIOUS
  <2>. QED
    BY <1>0, <1>2, <1>5, <2>1, ApplyEpochs
<1>7. CatchUpOutcome(T, replica, rq, d, st, rest)
  <2>1. replica.initialized => low \in low..replica.next
    BY <1>0
  <2>2. ReplicaContent(T, replica, rest, low)
    BY <1>0, <1>3, <2>1, ShrinkContent
  <2>3. rq \in Request /\ rq # None /\ rq.page # None /\ RequestContent(T, rq) /\ PageEpochs(rq, epoch)
        /\ rq.direction \in {"tail", "after"} /\ RecoveryPlaced(rq, replica) /\ replica.epoch <= rq.page.epoch
        /\ low = LowOf(rq, replica)
    BY <1>0, <1>1, <1>2, <1>4, <1>5
  <2>. HIDE DEF rq, low
  <2>4. ReplicaContent(T, replica, rest, LowOf(rq, replica))
    BY <2>2, <2>3
  <2>5. CatchUpOutcome(T, replica, rq, ApplyPage(replica, rq.page, FALSE).replica, ApplyPage(replica, rq.page, FALSE).status, rest)
    BY <1>0, <1>5, <2>3, <2>4, CatchUpContent
  <2>. QED
    BY <2>5
<1>8. /\ replica' = d /\ down' = rest
      /\ st = "applied" /\ rq.direction = "after" /\ rq.page.hasNewer =>
             recovery' = Ask("after", e, end) /\ status' = status /\ scan' = scan
      /\ st = "applied" /\ ~(rq.direction = "after" /\ rq.page.hasNewer) => recovery' = None /\ status' = "ready" /\ scan' = scan
      /\ st = "gap" => recovery' = Ask("after", d.epoch, d.next - 1) /\ scan' = None /\ status' = "catching_up"
      /\ st = "reset_required" => recovery' = Ask("tail", 0, 0) /\ scan' = None /\ status' = "catching_up"
  BY <1>3 DEF ApplyCatchUp, Fetch
<1>9. d \in ReplicaType /\ d.next \in Int /\ d.epoch \in Int /\ end \in Int /\ end \in Nat /\ replica' = d
  <2>1. d \in ReplicaType
    BY <1>8
  <2>2. end \in 0..MaxRows
    BY <1>2, PageFields
  <2>. HIDE DEF d, end
  <2>. QED
    BY <1>8, <2>1, <2>2, ReplicaFields, Constants
<1>. HIDE DEF d, st, low
<1>10. Passes(T, replica, d)
  BY <1>7 DEF CatchUpOutcome
\* Each outcome names what is asked for next, and from where.
<1>11. ASSUME NEW later \in Int, later = LowOf(recovery', d), RequestContent(T, recovery'), RecoveryPlaced(recovery', d),
              ReplicaContent(T, d, rest, later),
              replica.initialized => replica.epoch < d.epoch \/ (d.initialized /\ low <= later),
              scan' = None, status' = "ready" => recovery' = None /\ d.initialized
       PROVE  Stepped(T)
  <2>1. replica.epoch <= d.epoch /\ (replica.epoch = d.epoch /\ replica.initialized => d.initialized /\ low <= later)
    BY <1>0, <1>2, <1>6, <1>9, <1>11
  <2>2. OlderPlaced(T, older, d, later)
    BY <1>0, <1>9, <1>11, <2>1, OlderOn
  <2>3. ReadyPlaced(status', recovery', scan', replica') /\ RequestContent(T, scan')
    BY <1>9, <1>11, NoneContent DEF ReadyPlaced
  <2>4. /\ later = LowOf(recovery', replica') /\ ReplicaContent(T, replica', down', later)
        /\ OlderPlaced(T, older', replica', later) /\ RecoveryPlaced(recovery', replica')
        /\ Passes(T, replica, replica') /\ WireContent(T, down') /\ RequestContent(T, older')
        /\ UNCHANGED <<epoch, rows>>
    BY <1>0, <1>1, <1>3, <1>8, <1>10, <1>11, <2>2
  <2>. QED
    BY <1>11, <2>3, <2>4, ContentAgain
<1>12. CASE st = "reset_required"
  <2>1. ~d.initialized /\ d.pending = {} /\ replica.epoch < d.epoch
    BY <1>7, <1>12 DEF CatchUpOutcome
  <2>2. recovery' = Ask("tail", 0, 0) /\ scan' = None /\ status' = "catching_up"
    BY <1>8, <1>12
  <2>3. Asked(T, recovery', d, d.next)
    BY <2>1, <2>2, AskTail
  <2>4. RequestContent(T, recovery') /\ LowOf(recovery', d) = d.next /\ RecoveryPlaced(recovery', d)
    BY <2>3 DEF Asked
  <2>5. ReplicaContent(T, d, rest, d.next)
    BY <2>1, EmptyContent
  <2>. QED
    BY <1>9, <1>11, <2>1, <2>2, <2>4, <2>5
<1>13. CASE st \in {"applied", "gap"}
  <2>1. /\ d.initialized
        /\ ReplicaContent(T, d, rest, d.next)
        /\ rq.direction = "after" /\ rq.page.hasNewer =>
              /\ ReplicaContent(T, d, rest, end + 1)
              /\ end < d.next /\ end <= Len(T[d.epoch])
        /\ replica.initialized => /\ replica.epoch = d.epoch
                                  /\ low <= d.next
                                  /\ rq.direction = "after" /\ rq.page.hasNewer => low <= end + 1
    BY <1>7, <1>13 DEF CatchUpOutcome, low
  <2>2. d.epoch # 0 /\ d.epoch \in 1..MaxEpochs
    BY <1>2, <1>6, PageFields, Constants
  <2>3. CASE st = "applied" /\ rq.direction = "after" /\ rq.page.hasNewer
    <3>1. recovery' = Ask("after", d.epoch, end) /\ status' = status /\ scan' = scan
      BY <1>6, <1>8, <2>3
    <3>2. Asked(T, recovery', d, end + 1)
      <4>1. end < d.next /\ end <= Len(T[d.epoch])
        BY <2>1, <2>3
      <4>. HIDE DEF end
      <4>. QED
        BY <1>9, <2>1, <2>2, <3>1, <4>1, AskAfter
    <3>3. RequestContent(T, recovery') /\ LowOf(recovery', d) = end + 1 /\ RecoveryPlaced(recovery', d) /\ end + 1 \in Int
      BY <1>9, <3>2 DEF Asked
    <3>4. status' # "ready" /\ scan' = None
      BY <1>0, <1>1, <1>4, <3>1 DEF ReadyPlaced
    <3>. QED
      BY <1>11, <2>1, <2>3, <3>3, <3>4
  <2>4. CASE st = "applied" /\ ~(rq.direction = "after" /\ rq.page.hasNewer)
    <3>1. recovery' = None /\ status' = "ready" /\ scan' = None
      BY <1>4, <1>8, <2>4
    <3>2. RequestContent(T, recovery') /\ LowOf(recovery', d) = d.next /\ RecoveryPlaced(recovery', d)
      BY <1>9, <3>1, NoneContent, LowFacts
    <3>. QED
      BY <1>9, <1>11, <2>1, <3>1, <3>2
  <2>5. CASE st = "gap"
    <3>1. recovery' = Ask("after", d.epoch, d.next - 1) /\ scan' = None /\ status' = "catching_up"
      BY <1>8, <2>5
    <3>2. Len(T[d.epoch]) \in Nat /\ d.next <= Len(T[d.epoch]) + 1
      <4>1. Len(T[d.epoch]) \in Nat
        BY <1>0, <2>2, TableRows
      <4>2. Shows(T[d.epoch], ToSet(d.entries), d.next, d.next, Coming(d, rest))
        BY <2>1 DEF ReplicaContent
      <4>3. d.next \in 1..Len(T[d.epoch]) + 1
        BY <4>2 DEF Shows
      <4>. QED
        BY <4>1, <4>3
    <3>3. Asked(T, recovery', d, d.next)
      BY <1>9, <2>1, <2>2, <3>1, <3>2, AskNext
    <3>4. RequestContent(T, recovery') /\ LowOf(recovery', d) = d.next /\ RecoveryPlaced(recovery', d)
      BY <3>3 DEF Asked
    <3>. QED
      BY <1>9, <1>11, <2>1, <3>1, <3>4
  <2>. QED
    BY <1>13, <2>3, <2>4, <2>5
<1>. QED
  BY <1>7, <1>12, <1>13 DEF CatchUpOutcome

LEMMA ContentInit == Init => \E T : Content(T)
<1>. SUFFICES ASSUME Init PROVE \E T : Content(T)
  OBVIOUS
<1>1. PICK T : T = [e \in 1..MaxEpochs |-> <<>>]
  OBVIOUS
<1>2. /\ epoch = 1 /\ rows = <<>> /\ down = <<>> /\ status = "disconnected"
      /\ recovery = None /\ older = None /\ scan = None /\ replica = EmptyReplica(0, {})
  BY DEF Init
<1>3. MaxEpochs \in Nat \ {0} /\ MaxRows \in Nat \ {0}
  BY Constants
<1>4. <<>> \in Rows
  BY <1>3 DEF Rows
<1>5. T \in [1..MaxEpochs -> Rows] /\ T[epoch] = rows /\ \A e \in epoch + 1..MaxEpochs : T[e] = <<>>
  BY <1>1, <1>2, <1>3, <1>4
<1>6. ~replica.initialized /\ replica.pending = {}
  BY <1>2 DEF EmptyReplica
<1>7. WireContent(T, down)
  BY <1>2 DEF WireContent, Rising, Stream, ToSet
<1>8. ReplicaContent(T, replica, down, LowOf(recovery, replica))
  BY <1>6, EmptyContent
<1>9. ReadyPlaced(status, recovery, scan, replica)
  BY <1>2 DEF ReadyPlaced
<1>10. /\ RequestContent(T, recovery) /\ RequestContent(T, older) /\ RequestContent(T, scan)
       /\ RecoveryPlaced(recovery, replica) /\ OlderPlaced(T, older, replica, LowOf(recovery, replica))
  BY <1>2, NoneContent
<1>. QED
  BY <1>5, <1>7, <1>8, <1>9, <1>10 DEF Content

\* What every step does to what the replica displays.
LEMMA ContentStep ==
    ASSUME Ordered, Items \subseteq PlainKinds, TypeInv, EpochInv, TypeInv', NEW T, Content(T), [Next]_vars
    PROVE  Stepped(T)
<1>1. replica' \in ReplicaType
  BY DEF TypeInv, TypeOK
<1>2. CASE Relay
  BY <1>2, AppendRowContent, ReplaceTimelineContent, SubscribeContent, ComputeCatchUpContent, SendCatchUpContent,
     ComputeOlderContent, ComputeScanContent DEF Relay
<1>3. CASE Receive
  BY <1>1, <1>3, ReceiveSubscribedContent, ReceiveStreamContent, ReceiveReplacementContent, ReceiveCatchUpContent DEF Receive
<1>4. CASE Client /\ ~Receive
  BY <1>1, <1>4, ConnectContent, DisconnectContent, AskOlderContent, ReceiveOlderContent, AskScanContent, ReceiveScanContent DEF Client
<1>5. CASE UNCHANGED vars
  BY <1>5, StutterContent
<1>. QED
  BY <1>2, <1>3, <1>4, <1>5 DEF Next, Client

\* The invariant: some rows of the epochs there have been account for what is displayed.
ContentInv == TypeInv /\ EpochInv /\ \E T : Content(T)

LEMMA ContentInvHolds ==
    ASSUME Ordered, Items \subseteq PlainKinds
    PROVE  /\ Init => ContentInv
           /\ ContentInv /\ [Next]_vars => ContentInv'
<1>1. Init => ContentInv
  BY TypeInit, EpochInit, ContentInit DEF ContentInv
<1>2. ASSUME ContentInv, [Next]_vars PROVE ContentInv'
  <2>1. TypeInv /\ EpochInv /\ TypeInv' /\ EpochInv'
    BY <1>2, TypeStep, EpochStep DEF ContentInv
  <2>2. PICK T : Content(T)
    BY <1>2 DEF ContentInv
  <2>3. Stepped(T)
    BY <1>2, <2>1, <2>2, ContentStep
  <2>. QED
    BY <2>1, <2>3 DEF ContentInv, Stepped
<1>. QED
  BY <1>1, <1>2

\* It accounts for every row once, and for the order of text.
LEMMA ContentShownOnce ==
    ASSUME ContentInv
    PROVE  ShownOnce
<1>1. TypeInv /\ EpochInv
  BY DEF ContentInv
<1>2. PICK T : Content(T)
  BY DEF ContentInv
<1>. DEFINE list == replica.entries
            low == LowOf(recovery, replica)
<1>3. CASE ~replica.initialized
  <2>1. list = <<>>
    BY <1>1, <1>3, EpochFacts DEF ReplicaEpochs
  <2>. QED
    BY <2>1 DEF ShownOnce
<1>4. CASE replica.initialized
  <2>1. /\ replica \in ReplicaType /\ ReplicaContent(T, replica, down, low)
    BY <1>1, <1>2, ContentFacts
  <2>2. /\ Sorted(list) /\ Shows(T[replica.epoch], ToSet(list), low, replica.next, Coming(replica, down))
        /\ list \in Seq(EntryType)
    BY <1>4, <2>1, ReplicaFields DEF ReplicaContent
  <2>. DEFINE items == T[replica.epoch]
  <2>3. Apart(ToSet(list)) /\ \A c \in ToSet(list) : Fits(items, c)
    BY <2>2 DEF Shows
  <2>. HIDE DEF list
  <2>4. \A i, j \in DOMAIN list : i # j => list[i].start # list[j].start
    <3>1. \A i \in DOMAIN list : i \in Int /\ list[i].start \in Int
      BY <2>2, EntryFields
    <3>. QED
      BY <2>2, <3>1 DEF Sorted
  <2>5. ASSUME NEW i \in DOMAIN list
        PROVE  /\ \A j \in DOMAIN list \ {i} : ~Overlap(list[i], list[j])
               /\ \A j, k \in DOMAIN list[i].shown : j < k => list[i].shown[j][2] < list[i].shown[k][2]
    <3>1. list[i] \in ToSet(list) /\ \A j \in DOMAIN list : list[j] \in ToSet(list)
      BY DEF ToSet
    <3>2. \A j \in DOMAIN list \ {i} : ~Overlap(list[i], list[j])
      BY <2>3, <2>4, <3>1 DEF Apart
    <3>. QED
      BY <2>3, <3>1, <3>2 DEF Fits
  <2>. QED
    BY <2>5 DEF ShownOnce, list
<1>. QED
  BY <1>3, <1>4

\* No row is on display twice and text is in order, whichever of live rows
\* (reduceTimelineEvent), catch-up, earlier pages and scans (applyHistoryPage)
\* brought it.
THEOREM DisplayHolds ==
    ASSUME Ordered, Items \subseteq PlainKinds
    PROVE  Spec => []DisplayInv
<1>1. Init => ContentInv
  BY ContentInvHolds
<1>2. ContentInv /\ [Next]_vars => ContentInv'
  BY ContentInvHolds
<1>3. ContentInv => DisplayInv
  BY ContentShownOnce DEF ContentInv, DisplayInv, TypeInv
<1>. QED
  BY <1>1, <1>2, <1>3, PTL DEF Spec

\* Every entry that starts at a row the cursor moves over, or that was on display, is on display.
SkipsNothing ==
    LET same == replica.initialized /\ replica.epoch = replica'.epoch
        passed == (IF same THEN replica.next ELSE FirstStart(replica'))..replica'.next - 1
        due == passed \cup (IF same THEN Starts(replica.entries) ELSE {})
    IN  due \cap Starts(Projection(epoch, rows)) \subseteq Starts(replica'.entries)

LEMMA PassesSkipsNothing ==
    ASSUME Items \subseteq PlainKinds, TypeInv, TypeInv', NEW T \in [1..MaxEpochs -> Rows], T[epoch] = rows,
           Passes(T, replica, replica'), replica'.initialized, replica'.epoch = epoch
    PROVE  SkipsNothing
<1>. DEFINE r == replica
            d == replica'
            same == r.initialized /\ r.epoch = d.epoch
            S == Starts(Projection(epoch, rows))
<1>1. r \in ReplicaType /\ d \in ReplicaType /\ epoch \in 1..MaxEpochs /\ rows \in Seq(PlainKinds) /\ Len(rows) <= MaxRows
      /\ Len(rows) \in Nat
  BY DEF TypeInv, TypeOK
<1>2. S = {q \in 1..Len(rows) : Leader(rows, q)}
  <2>. DEFINE list == Projection(epoch, rows)
              n == Len(rows)
  <2>1. Whole(epoch, rows, n, list)
    BY <1>1, ProjectionWhole
  <2>2. n \in 0..Len(rows) /\ Len(rows) \in Nat
    BY <1>1
  <2>. HIDE DEF list, n, r, d, S
  <2>3. Starts(list) = {q \in 1..n : Leader(rows, q)}
    BY ONLY <2>1, <2>2, WholeFacts
  <2>. QED
    BY <2>3 DEF list, n, S
<1>3. Starts(d.entries) = {c.start : c \in ToSet(d.entries)} /\ Starts(r.entries) = {c.start : c \in ToSet(r.entries)}
  BY DEF Starts, ToSet
<1>. HIDE DEF S
<1>4. Reaches(rows, r, d)
  BY DEF Passes
<1>5. CASE r.initialized
  <2>1. r.epoch = d.epoch /\ Follows(rows, r, d)
    BY <1>4, <1>5 DEF Reaches
  <2>. HIDE DEF r, d
  <2>2. \A q \in (r.next..d.next - 1) \cup Starts(r.entries) : q \in S => q \in Starts(d.entries)
    BY <1>2, <1>3, <2>1 DEF Follows
  <2>. QED
    BY <1>5, <2>1, <2>2 DEF S, r, d, SkipsNothing
<1>6. CASE ~r.initialized
  <2>1. \A q \in FirstStart(d)..d.next - 1 : Leader(rows, q) => \E c \in ToSet(d.entries) : c.start = q
    BY <1>4, <1>6 DEF Reaches
  <2>. HIDE DEF r, d
  <2>2. \A q \in FirstStart(d)..d.next - 1 : q \in S => q \in Starts(d.entries)
    BY <1>2, <1>3, <2>1
  <2>. QED
    BY <1>6, <2>2 DEF S, r, d, SkipsNothing
<1>. QED
  BY <1>5, <1>6

\* The cursor passes over nothing that is not put on display, and nothing but a
\* change of epoch takes an entry away (nextSequenceForPage, drainPending).
THEOREM CursorSkips ==
    ASSUME Ordered, Items \subseteq PlainKinds
    PROVE  Spec => CursorSkipsNothing
<1>1. Init => ContentInv
  BY ContentInvHolds
<1>2. ContentInv /\ [Next]_vars => ContentInv'
  BY ContentInvHolds
<1>3. ContentInv /\ [Next]_vars => [replica'.initialized /\ replica'.epoch = epoch => SkipsNothing]_vars
  <2>. SUFFICES ASSUME ContentInv, [Next]_vars, replica'.initialized, replica'.epoch = epoch PROVE SkipsNothing
    OBVIOUS
  <2>1. TypeInv /\ EpochInv /\ TypeInv'
    BY TypeStep DEF ContentInv
  <2>2. PICK T : Content(T)
    BY DEF ContentInv
  <2>3. T \in [1..MaxEpochs -> Rows] /\ T[epoch] = rows /\ Passes(T, replica, replica')
    BY <2>1, <2>2, ContentStep DEF Content, Stepped
  <2>4. SkipsNothing
    BY <2>1, <2>3, PassesSkipsNothing
  <2>. QED
    BY <2>4
<1>. QED
  BY <1>1, <1>2, <1>3, PTL DEF Spec, CursorSkipsNothing, SkipsNothing

\* An entry is kept.
LEMMA KeptIs ==
    ASSUME NEW c, Keeps(c, ToSet(replica'.entries))
    PROVE  KeptAfter(c)
BY DEF Keeps, KeptAfter, ToSet

\* An echo scan takes nothing from the display and never moves the cursor back
\* (applyHistoryPage with preserveLive).
THEOREM ScanKeepsDisplay ==
    ASSUME Ordered, Items \subseteq PlainKinds
    PROVE  Spec => ScanPreserves
<1>1. Init => ContentInv
  BY ContentInvHolds
<1>2. ContentInv /\ [Next]_vars => ContentInv'
  BY ContentInvHolds
<1>3. ContentInv /\ [Next]_vars => [ReceiveScan => replica'.next >= replica.next /\ Preserved]_vars
  <2>. SUFFICES ASSUME ContentInv, [Next]_vars, ReceiveScan PROVE replica'.next >= replica.next /\ Preserved
    OBVIOUS
  <2>1. TypeInv /\ EpochInv /\ TypeInv' /\ replica' \in ReplicaType /\ replica \in ReplicaType
    BY TypeStep DEF ContentInv, TypeInv, TypeOK
  <2>2. PICK T : Content(T)
    BY DEF ContentInv
  <2>3. ScanKept(replica, replica') /\ replica.next <= replica'.next
    BY <2>1, <2>2, ReceiveScanContent
  <2>4. replica.next \in Int /\ replica'.next \in Int
    BY <2>1, ReplicaFields, Constants
  <2>5. Preserved
    <3>1. \A i \in DOMAIN replica.entries : replica.entries[i] \in ToSet(replica.entries)
      BY DEF ToSet
    <3>. QED
      BY <2>3, <3>1, KeptIs DEF Preserved, ScanKept
  <2>. QED
    BY <2>3, <2>4, <2>5
<1>. QED
  BY <1>1, <1>2, <1>3, PTL DEF Spec, ScanPreserves

\* An earlier page takes nothing from entries that grow by adjoining rows, however
\* old it is when it arrives (loadOlder, mergeAuthoritative).
THEOREM OlderKeepsAdjoining ==
    ASSUME Ordered, Items \subseteq PlainKinds
    PROVE  Spec => OlderPreservesAdjoining
<1>. DEFINE Adjoining == \A i \in DOMAIN replica.entries : replica.entries[i].item # "tool" => KeptAfter(replica.entries[i])
<1>1. Init => ContentInv
  BY ContentInvHolds
<1>2. ContentInv /\ [Next]_vars => ContentInv'
  BY ContentInvHolds
<1>3. ContentInv /\ [Next]_vars => [ReceiveOlder => Adjoining]_vars
  <2>. SUFFICES ASSUME ContentInv, [Next]_vars, ReceiveOlder PROVE Adjoining
    OBVIOUS
  <2>1. TypeInv /\ EpochInv /\ TypeInv' /\ replica' \in ReplicaType
    BY TypeStep DEF ContentInv, TypeInv, TypeOK
  <2>2. PICK T : Content(T)
    BY DEF ContentInv
  <2>3. OlderKept(replica, replica')
    BY <2>1, <2>2, ReceiveOlderContent
  <2>4. \A i \in DOMAIN replica.entries : replica.entries[i] \in ToSet(replica.entries)
    BY DEF ToSet
  <2>. QED
    BY <2>3, <2>4, KeptIs DEF OlderKept
<1>. QED
  BY <1>1, <1>2, <1>3, PTL DEF Spec, OlderPreservesAdjoining

-----------------------------------------------------------------------------
(* Convergence, where every item stands alone.                             *)

\* Entries of single rows.
Single(e, list) == \A c \in ToSet(list) : c = EntryOf(e, c.start, "note")

\* A row on its way to the replica: buffered, or on the wire.
Comes(r, list, e, q) ==
    \/ \E m \in r.pending : m.epoch = e /\ m.seq = q
    \/ \E m \in Stream(list) : m.epoch = e /\ m.seq = q

\* A row the catch-up asks for, and its page, if computed, reaches or leaves to the next one.
Seeks(rq, q) ==
    /\ rq # None /\ rq.direction = "after" /\ rq.seq < q
    /\ rq.page # None => rq.page.hasNewer \/ q < rq.page.next

HasType(list, type) == \E i \in DOMAIN list : list[i].type = type

\* The acknowledged subscription will start the catch-up.
Awaited(rq, list) == Recovery = "http" /\ rq = None /\ HasType(list, "subscribed")

\* No hole between the first entry on display and the cursor.
Unbroken(r) == r.initialized => FirstStart(r)..r.next - 1 \subseteq Starts(r.entries)

\* Every row from the cursor on is on display, on its way, or will be asked for.
Lossless(sub, r, e, n, list, rq) ==
    sub /\ r.initialized /\ r.epoch = e =>
        \A q \in r.next..n : q \in Starts(r.entries) \/ Comes(r, list, e, q) \/ Seeks(rq, q) \/ Awaited(rq, list)

\* Every row after a page from the end is on its way.
TailLossless(r, e, n, list, rq) ==
    rq # None /\ rq.direction = "tail" /\ rq.page # None /\ rq.page.epoch = e =>
        \A q \in NextBy(rq.page)..n : Comes(r, list, e, q)

\* Pages have no hole and do not reach back.
WholePage(rq) ==
    rq # None /\ rq.page # None /\ ~rq.page.reset =>
        /\ Single(rq.page.epoch, rq.page.entries)
        /\ rq.direction = "before" =>
              \A c \in ToSet(rq.page.entries) : c.start..rq.seq - 1 \subseteq Starts(rq.page.entries)
        /\ rq.direction = "after" => \A c \in ToSet(rq.page.entries) : rq.seq < c.start

\* Reads start next to, or within, what is on display.
AfterReaches(rq, r) == rq # None /\ rq.direction = "after" => FirstStart(r) <= rq.seq + 1
BeforeReaches(rq, r) == rq # None /\ rq.epoch = r.epoch => FirstStart(r) <= rq.seq

\* What the client waits for.
Waits(st, sub, r, e, rq, list) ==
    /\ st = "ready" => sub /\ r.pending = {}
    /\ st = "ready" /\ r.epoch < e => HasType(list, "replacement")
    /\ st = "catching_up" /\ rq = None => Recovery = "http" /\ (~sub \/ Awaited(rq, list))

Steady ==
    /\ Single(replica.epoch, replica.entries)
    /\ WholePage(recovery) /\ WholePage(older) /\ WholePage(scan)
    /\ Unbroken(replica)
    /\ Lossless(subscribed, replica, epoch, Len(rows), down, recovery)
    /\ TailLossless(replica, epoch, Len(rows), down, recovery)
    /\ AfterReaches(recovery, replica) /\ BeforeReaches(older, replica) /\ AfterReaches(scan, replica)
    /\ Waits(status, subscribed, replica, epoch, recovery, down)

LEMMA StartsAre ==
    ASSUME NEW list
    PROVE  Starts(list) = {c.start : c \in ToSet(list)}
BY DEF Starts, ToSet

LEMMA NoteFields ==
    ASSUME NEW e, NEW q
    PROVE  /\ EntryOf(e, q, "note").start = q /\ EntryOf(e, q, "note").end = q /\ EntryOf(e, q, "note").rows = {q}
           /\ EntryOf(e, q, "note").item = "note"
BY DEF EntryOf

\* Single entries are known by their start.
LEMMA SingleIs ==
    ASSUME NEW e, NEW list, Single(e, list)
    PROVE  /\ \A q : q \in Starts(list) <=> EntryOf(e, q, "note") \in ToSet(list)
           /\ \A c \in ToSet(list) : c = EntryOf(e, c.start, "note") /\ c.end = c.start /\ c.rows = {c.start}
                                     /\ c.start \in Starts(list)
<1>1. \A c \in ToSet(list) : c = EntryOf(e, c.start, "note") /\ c.end = c.start /\ c.rows = {c.start} /\ c.start \in Starts(list)
  BY NoteFields, StartsAre DEF Single
<1>2. ASSUME NEW q PROVE q \in Starts(list) <=> EntryOf(e, q, "note") \in ToSet(list)
  BY <1>1, NoteFields, StartsAre
<1>. QED
  BY <1>1, <1>2

\* Every row of single rows leads.
LEMMA NotesLead ==
    ASSUME Items \subseteq {"note"}, NEW items \in Seq(Items), NEW q \in 1..Len(items)
    PROVE  Leader(items, q) /\ items[q] = "note"
<1>1. items[q] \in Items
  OBVIOUS
<1>. QED
  BY <1>1 DEF Leader, Update, Continues

LEMMA ItemsKinds ==
    ASSUME NEW items \in Seq(Items)
    PROVE  items \in Seq(ItemKinds)
<1>. DEFINE n == Len(items)
<1>1. n \in Nat /\ (\A k \in 1..n : items[k] \in Items) /\ items = [k \in 1..n |-> items[k]]
  OBVIOUS
<1>2. \A k \in 1..n : items[k] \in ItemKinds
  BY <1>1, Constants
<1>. HIDE DEF n
<1>. QED
  BY <1>1, <1>2

\* The projection of single rows.
LEMMA NoteProjection ==
    ASSUME Items \subseteq {"note"}, NEW e \in 1..MaxEpochs, NEW items \in Seq(Items), Len(items) <= MaxRows
    PROVE  /\ Projection(e, items) \in Seq(EntryType)
           /\ Len(Projection(e, items)) = Len(items)
           /\ \A i \in 1..Len(items) : Projection(e, items)[i] = EntryOf(e, i, "note")
<1>. DEFINE n == Len(items)
            Good(k, list) == Len(list) = k /\ \A i \in 1..k : list[i] = EntryOf(e, i, "note")
<1>1. items \in Seq(ItemKinds) /\ n \in Nat /\ \A k \in 1..n : items[k] = "note"
  <2>1. n \in Nat /\ \A k \in 1..n : items[k] \in Items
    OBVIOUS
  <2>2. \A k \in 1..n : items[k] = "note"
    BY <2>1
  <2>. QED
    BY <2>1, <2>2, ItemsKinds
<1>2. PICK list :
          /\ \A k \in 0..n : list[k] \in Seq(EntryType)
          /\ list[0] = <<>>
          /\ \A k \in 1..n : list[k] = Step(e, list[k - 1], k, items[k])
          /\ Projection(e, items) = list[n]
  BY <1>1, ProjectionSteps
<1>. DEFINE P == {k \in 0..n : Good(k, list[k])}
<1>3. 0 \in P
  BY <1>1, <1>2
<1>4. ASSUME NEW k \in 0..n - 1, k \in P PROVE k + 1 \in P
  <2>1. k + 1 \in 1..n /\ k + 1 - 1 = k /\ k \in 0..n /\ k + 1 \in 0..n
    BY <1>1, <1>4
  <2>2. list[k] \in Seq(EntryType) /\ Good(k, list[k])
    BY <1>2, <1>4, <2>1
  <2>3. list[k + 1] = Step(e, list[k], k + 1, "note")
    BY <1>1, <1>2, <2>1
  <2>4. list[k + 1] = Append(list[k], EntryOf(e, k + 1, "note"))
    BY <2>2, <2>3, JoinedIs DEF Step
  <2>5. Good(k + 1, list[k + 1])
    <3>. HIDE DEF P
    <3>1. \A c : Len(Append(list[k], c)) = k + 1 /\ Append(list[k], c)[k + 1] = c
                 /\ \A i \in 1..k : Append(list[k], c)[i] = list[k][i]
      BY <2>1, <2>2
    <3>. QED
      BY <2>1, <2>2, <2>4, <3>1
  <2>. QED
    BY <2>1, <2>5
<1>5. 0..n \subseteq P
  <2>1. 0 \in Int /\ n \in Int
    BY <1>1
  <2>. HIDE DEF P, n
  <2>. QED
    BY <1>3, <1>4, <2>1, IntervalInduction
<1>. QED
  BY <1>1, <1>2, <1>5

\* It holds an entry for each row.
LEMMA NoteProjectionSet ==
    ASSUME Items \subseteq {"note"}, NEW e \in 1..MaxEpochs, NEW items \in Seq(Items), Len(items) <= MaxRows
    PROVE  /\ Projection(e, items) \in Seq(EntryType) /\ Sorted(Projection(e, items))
           /\ ToSet(Projection(e, items)) = {EntryOf(e, q, "note") : q \in 1..Len(items)}
<1>. DEFINE list == Projection(e, items)
<1>1. list \in Seq(EntryType) /\ Len(list) = Len(items) /\ \A i \in 1..Len(items) : list[i] = EntryOf(e, i, "note")
  BY NoteProjection
<1>2. DOMAIN list = 1..Len(items) /\ Len(items) \in Nat
  BY <1>1
<1>3. Sorted(list)
  BY <1>1, <1>2, NoteFields DEF Sorted
<1>4. ToSet(list) = {EntryOf(e, q, "note") : q \in 1..Len(items)}
  BY <1>1, <1>2 DEF ToSet
<1>. QED
  BY <1>1, <1>3, <1>4

\* What the Relay answers is whole, and ends at the last row unless newer history remains.
LEMMA NoteTail ==
    ASSUME Items \subseteq {"note"}, NEW e \in 1..MaxEpochs, NEW items \in Seq(Items), Len(items) <= MaxRows,
           NEW page, page = TailPage(e, items, PageSize)
    PROVE  Single(e, page.entries) /\ NextBy(page) = Len(items) + 1
<1>. DEFINE list == Projection(e, items)
            part == LastOf(list, PageSize)
            n == Len(items)
            last == IF part = <<>> THEN 0 ELSE Last(part).end
<1>1. /\ list \in Seq(EntryType) /\ Len(list) = n /\ \A i \in 1..n : list[i] = EntryOf(e, i, "note")
      /\ ToSet(list) = {EntryOf(e, q, "note") : q \in 1..n} /\ n \in Nat
  BY NoteProjection, NoteProjectionSet
<1>2. PageSize \in Nat \ {0}
  BY Constants
<1>3. page.entries = part /\ page.next = n + 1 /\ page.end = last /\ page.hasNewer = (last # 0 /\ last < n)
  BY DEF TailPage, EntriesPage, PageOf
<1>. HIDE DEF list, n
<1>4. PICK k \in 1..Len(list) + 1 :
              /\ part \in Seq(EntryType)
              /\ Len(part) = Len(list) - k + 1
              /\ \A i \in 1..Len(list) - k + 1 : part[i] = list[k + i - 1]
              /\ list # <<>> => k <= Len(list)
  BY <1>1, <1>2, LastOfIs
<1>5. ToSet(part) \subseteq ToSet(list)
  BY <1>1, <1>2, LastOfSet
<1>. HIDE DEF part
<1>6. part # <<>> => Last(part).end = n
  <2>. SUFFICES ASSUME part # <<>> PROVE Last(part).end = n
    OBVIOUS
  <2>1. k <= n /\ n >= 1 /\ Len(part) \in 1..n - k + 1 /\ k + Len(part) - 1 = n /\ n \in 1..n
    BY <1>1, <1>4
  <2>2. Last(part) = list[n]
    BY <1>1, <1>4, <2>1 DEF Last
  <2>. QED
    BY <1>1, <2>1, <2>2, NoteFields
<1>7. last = 0 \/ last = n
  BY <1>6
<1>. HIDE DEF last
<1>8. NextBy(page) = IF last # 0 /\ last < n THEN last + 1 ELSE n + 1
  BY <1>3 DEF NextBy
<1>9. NextBy(page) = n + 1
  BY <1>1, <1>7, <1>8
<1>10. Single(e, part)
  BY <1>1, <1>5, NoteFields DEF Single
<1>. QED
  BY <1>3, <1>9, <1>10 DEF n

\* A page before a row holds every row from its first one up to there.
LEMMA NoteBefore ==
    ASSUME Items \subseteq {"note"}, NEW e \in 1..MaxEpochs, NEW items \in Seq(Items), Len(items) <= MaxRows,
           NEW seq \in Nat, seq <= Len(items) \/ seq = 1,
           NEW page, page = BeforePage(e, items, seq, PageSize)
    PROVE  /\ Single(e, page.entries)
           /\ \A c \in ToSet(page.entries) : c.start..seq - 1 \subseteq Starts(page.entries)
<1>. DEFINE list == Projection(e, items)
            earlier == Only(list, {c \in ToSet(list) : c.start < seq})
            part == LastOf(earlier, PageSize)
            n == Len(items)
<1>1. /\ list \in Seq(EntryType) /\ Sorted(list)
      /\ ToSet(list) = {EntryOf(e, q, "note") : q \in 1..n} /\ n \in Nat
  BY NoteProjectionSet
<1>2. PageSize \in Nat \ {0}
  BY Constants
<1>3. page.entries = part
  BY DEF BeforePage, EntriesPage, PageOf
<1>. HIDE DEF list, n
<1>4. /\ earlier \in Seq(EntryType) /\ Sorted(earlier)
      /\ ToSet(earlier) = ToSet(list) \cap {c \in ToSet(list) : c.start < seq}
  BY <1>1, OnlySorted
<1>. HIDE DEF earlier
<1>5. /\ part \in Seq(EntryType) /\ Sorted(part) /\ ToSet(part) \subseteq ToSet(earlier)
      /\ \A c \in ToSet(earlier) : part[1].start <= c.start => c \in ToSet(part)
  BY <1>2, <1>4, LastOfSorted
<1>. HIDE DEF part
<1>6. Single(e, part)
  BY <1>1, <1>4, <1>5, NoteFields DEF Single
<1>7. ASSUME NEW c \in ToSet(part), NEW q \in c.start..seq - 1 PROVE q \in Starts(part)
  <2>1. c \in ToSet(list) /\ c.start \in 1..n /\ c \in EntryType
    BY <1>1, <1>4, <1>5, <1>7, NoteFields, SortedFacts
  <2>2. q \in 1..n /\ q < seq /\ c.start <= q
    BY <1>1, <2>1 DEF n
  <2>3. part # <<>> /\ part[1].start <= c.start /\ part[1] \in ToSet(part)
    BY <1>5, <1>7, SortedFacts
  <2>4. part[1].start \in Int
    BY <1>5, <2>3, SortedFacts, EntryFields
  <2>5. EntryOf(e, q, "note") \in ToSet(earlier)
    BY <1>1, <1>4, <2>2, NoteFields
  <2>6. EntryOf(e, q, "note") \in ToSet(part)
    BY <1>5, <2>1, <2>2, <2>3, <2>4, <2>5, NoteFields
  <2>. QED
    BY <1>6, <2>6, SingleIs
<1>. QED
  BY <1>3, <1>6, <1>7

\* A page after a row starts behind it.
LEMMA NoteAfter ==
    ASSUME Items \subseteq {"note"}, NEW e \in 1..MaxEpochs, NEW items \in Seq(Items), Len(items) <= MaxRows,
           NEW seq \in Nat, seq <= Len(items),
           NEW page, page = AfterPage(e, items, seq, PageSize)
    PROVE  /\ Single(e, page.entries) /\ page.next = Len(items) + 1
           /\ \A c \in ToSet(page.entries) : seq < c.start
<1>1. CASE seq = Len(items)
  <2>1. page = EntriesPage(e, items, "after", <<>>)
    BY <1>1 DEF AfterPage
  <2>2. page.entries = <<>> /\ page.next = Len(items) + 1
    BY <2>1 DEF EntriesPage, PageOf
  <2>. QED
    BY <2>2 DEF Single, ToSet
<1>2. CASE seq < Len(items)
  <2>. DEFINE last == IF seq + PageSize < Len(items) THEN seq + PageSize ELSE Len(items)
              part == SubSeq(items, 1, last)
              list == Projection(e, part)
              entries == Only(list, {c \in ToSet(list) : c.end > seq})
  <2>1. last \in 0..Len(items)
    BY <1>2, Constants
  <2>2. page = PageOf(e, items, "after", entries, seq + 1, last)
    BY <1>2 DEF AfterPage
  <2>. HIDE DEF last
  <2>3. page.entries = entries /\ page.next = Len(items) + 1
    BY <2>2 DEF PageOf
  <2>4. part \in Seq(Items) /\ Len(part) = last /\ Len(part) <= MaxRows
    <3>1. part \in Seq(Items) /\ Len(part) = last
      BY <2>1, SubSeqPrefix
    <3>. QED
      BY <2>1, <3>1, Constants
  <2>. HIDE DEF part
  <2>5. /\ list \in Seq(EntryType) /\ Sorted(list) /\ ToSet(list) = {EntryOf(e, q, "note") : q \in 1..Len(part)}
    BY <2>4, NoteProjectionSet
  <2>. HIDE DEF list
  <2>6. ToSet(entries) = ToSet(list) \cap {c \in ToSet(list) : c.end > seq}
    BY <2>5, OnlySorted
  <2>. HIDE DEF entries
  <2>. QED
    BY <2>3, <2>5, <2>6, NoteFields DEF Single
<1>. QED
  BY <1>1, <1>2

\* Merging pages of single rows adds them to the display.
LEMMA NoteMerged ==
    ASSUME NEW e, NEW base \in Seq(EntryType), NEW incoming \in Seq(EntryType), Single(e, base), Single(e, incoming)
    PROVE  /\ Single(e, Merged(base, incoming))
           /\ Starts(Merged(base, incoming)) = Starts(base) \cup Starts(incoming)
<1>1. ToSet(Merged(base, incoming)) = {b \in ToSet(base) : \A c \in ToSet(incoming) : ~Overlap(b, c)} \cup ToSet(incoming)
  BY MergedSet
<1>2. ASSUME NEW b \in ToSet(base), NEW c \in ToSet(incoming), Overlap(b, c) PROVE b = c
  <2>1. b.rows = {b.start} /\ c.rows = {c.start}
    BY SingleIs
  <2>2. b.start = c.start
    BY <1>2, <2>1 DEF Overlap
  <2>. QED
    BY <2>2 DEF Single
<1>3. ToSet(Merged(base, incoming)) = ToSet(base) \cup ToSet(incoming)
  BY <1>1, <1>2
<1>. QED
  BY <1>3, StartsAre DEF Single

LEMMA NoteWithPage ==
    ASSUME NEW r \in ReplicaType, NEW page \in PageType, NEW preserve \in BOOLEAN,
           Single(page.epoch, Base(r, page)), Single(page.epoch, page.entries),
           NEW w, w = WithPage(r, page, preserve)
    PROVE  /\ Single(page.epoch, w.entries)
           /\ Starts(w.entries) = Starts(Base(r, page)) \cup Starts(page.entries)
<1>. DEFINE base == Base(r, page)
            incoming == Incoming(r, page, preserve)
<1>1. base \in Seq(EntryType) /\ incoming \in Seq(EntryType) /\ page.entries \in Seq(EntryType)
  BY PartsType, PageFields
<1>2. w.entries = Merged(base, incoming)
  BY WithPageIs
<1>3. Superseded(r, page) = {}
  <2>. SUFFICES ASSUME NEW c \in ToSet(page.entries), NEW i \in DOMAIN base, base[i].end > c.end, Overlap(base[i], c) PROVE FALSE
    BY DEF Superseded
  <2>1. base[i] \in ToSet(base)
    BY DEF ToSet
  <2>. HIDE DEF base
  <2>2. base[i].rows = {base[i].start} /\ base[i].end = base[i].start /\ c.rows = {c.start} /\ c.end = c.start
        /\ base[i] \in EntryType
    BY <1>1, <2>1, SingleIs DEF base
  <2>3. base[i].start = c.start /\ base[i].start \in Int
    BY <2>2, EntryFields DEF Overlap
  <2>. QED
    BY <2>2, <2>3
<1>4. ToSet(incoming) = ToSet(page.entries)
  <2>1. CASE preserve
    <3>1. incoming = Only(page.entries, ToSet(page.entries) \ Superseded(r, page))
      BY <2>1 DEF Incoming
    <3>. HIDE DEF incoming
    <3>2. ToSet(incoming) = ToSet(page.entries) \cap (ToSet(page.entries) \ Superseded(r, page))
      BY <1>1, <3>1, OnlySet
    <3>. QED
      BY <1>3, <3>2
  <2>2. CASE ~preserve
    BY <2>2 DEF Incoming
  <2>. QED
    BY <2>1, <2>2
<1>. HIDE DEF base, incoming
<1>5. Single(page.epoch, incoming) /\ Single(page.epoch, base)
  BY <1>4 DEF Single, base
<1>6. Starts(incoming) = Starts(page.entries)
  BY <1>4, StartsAre
<1>. QED
  BY <1>1, <1>2, <1>5, <1>6, NoteMerged DEF base

\* A live row of single rows.
LEMMA NoteAppended ==
    ASSUME Items \subseteq {"note"}, NEW r \in ReplicaType, NEW m \in Row, m.epoch = r.epoch, Single(r.epoch, r.entries)
    PROVE  /\ Single(r.epoch, Appended(r, m).entries)
           /\ Starts(Appended(r, m).entries) = Starts(r.entries) \cup {m.seq}
<1>1. r.entries \in Seq(EntryType) /\ m.epoch \in 1..MaxEpochs /\ m.seq \in 1..MaxRows /\ m.item = "note"
  BY ReplicaFields DEF Row
<1>2. Appended(r, m).entries = Coalesced(r.entries, m)
  BY AppendedIs
<1>3. Coalesced(r.entries, m) = Inserted(r.entries, EntryOf(r.epoch, m.seq, "note"))
  BY <1>1, JoinedIs DEF Coalesced
<1>4. EntryOf(r.epoch, m.seq, "note") \in EntryType
  BY <1>1, EntryOfType DEF ItemKinds
<1>5. ToSet(Coalesced(r.entries, m)) = ToSet(r.entries) \cup {EntryOf(r.epoch, m.seq, "note")}
  BY <1>1, <1>3, <1>4, InsertedSet
<1>. QED
  BY <1>2, <1>5, NoteFields, StartsAre DEF Single

\* What d adds to the display of r: the rows from first up to its cursor.
Adding(r, d, first) ==
    /\ d.epoch = r.epoch /\ d.initialized = r.initialized /\ first <= d.next
    /\ Single(r.epoch, d.entries)
    /\ Starts(d.entries) = Starts(r.entries) \cup (first..d.next - 1)

LEMMA NoteDrained ==
    ASSUME Items \subseteq {"note"}, NEW r \in ReplicaType, \A m \in r.pending : m.epoch = r.epoch, Single(r.epoch, r.entries),
           NEW d, d = Drained(r).replica
    PROVE  /\ Adding(r, d, r.next)
           /\ d.pending = {m \in r.pending : m.seq >= d.next}
           /\ Drained(r).status = (IF d.pending = {} THEN "applied" ELSE "gap")
<1>1. PICK reach, applied : DrainedBy(r, reach, applied, Drained(r))
  BY DrainedSteps
<1>2. /\ reach \in r.next - 1..MaxRows
      /\ \A s \in r.next - 1..reach : applied[s] \in ReplicaType
      /\ applied[r.next - 1] = r
      /\ \A s \in r.next..reach : \E m \in r.pending : m.seq = s /\ applied[s] = Appended(applied[s - 1], m)
      /\ d = [applied[reach] EXCEPT !.pending = {m \in r.pending : m.seq > reach}]
      /\ Drained(r).status = IF {m \in r.pending : m.seq > reach} = {} THEN "applied" ELSE "gap"
  BY <1>1 DEF DrainedBy
<1>3. r.next \in Nat /\ r.next >= 1 /\ r.next - 1 \in Int /\ reach \in Int /\ r.next - 1 <= reach /\ r.pending \subseteq Row
  BY <1>2, ReplicaFields, Constants
<1>. DEFINE Good(s, a) == /\ a.epoch = r.epoch /\ a.initialized = r.initialized /\ a.next = s + 1
                          /\ Single(r.epoch, a.entries) /\ Starts(a.entries) = Starts(r.entries) \cup (r.next..s)
            P == {s \in r.next - 1..reach : Good(s, applied[s])}
<1>4. r.next - 1 \in P
  <2>1. r.next..r.next - 1 = {} /\ r.next - 1 + 1 = r.next /\ r.next - 1 \in r.next - 1..reach
    BY <1>3
  <2>. QED
    BY <1>2, <2>1
<1>5. ASSUME NEW s \in r.next - 1..reach - 1, s \in P PROVE s + 1 \in P
  <2>1. s \in r.next - 1..reach /\ s + 1 \in r.next..reach /\ s + 1 - 1 = s /\ s + 1 \in r.next - 1..reach /\ s \in Int
    BY <1>3
  <2>2. applied[s] \in ReplicaType /\ Good(s, applied[s])
    BY <1>2, <1>5, <2>1
  <2>3. PICK m \in r.pending : m.seq = s + 1 /\ applied[s + 1] = Appended(applied[s], m)
    BY <1>2, <2>1
  <2>4. m \in Row /\ m.epoch = applied[s].epoch
    BY <1>3, <2>2
  <2>5. /\ Single(r.epoch, Appended(applied[s], m).entries)
        /\ Starts(Appended(applied[s], m).entries) = Starts(applied[s].entries) \cup {s + 1}
    BY <2>2, <2>3, <2>4, NoteAppended
  <2>6. /\ Appended(applied[s], m).epoch = r.epoch /\ Appended(applied[s], m).initialized = r.initialized
        /\ Appended(applied[s], m).next = s + 1 + 1
    BY <2>2, <2>3, <2>4, AppendedIs
  <2>7. r.next..s + 1 = (r.next..s) \cup {s + 1}
    BY <1>3, <2>1
  <2>8. Good(s + 1, applied[s + 1])
    BY <2>2, <2>3, <2>5, <2>6, <2>7
  <2>. QED
    BY <2>1, <2>8
<1>. HIDE DEF P
<1>6. r.next - 1..reach \subseteq P
  BY <1>3, <1>4, <1>5, IntervalInduction
<1>7. Good(reach, applied[reach]) /\ applied[reach] \in ReplicaType
  BY <1>2, <1>3, <1>6 DEF P
<1>8. /\ d.epoch = r.epoch /\ d.initialized = r.initialized /\ d.next = reach + 1 /\ d.entries = applied[reach].entries
      /\ d.pending = {m \in r.pending : m.seq > reach}
  BY <1>2, <1>7 DEF ReplicaType
<1>9. Adding(r, d, r.next)
  BY <1>3, <1>7, <1>8 DEF Adding
<1>10. \A m \in r.pending : m.seq > reach <=> m.seq >= d.next
  BY <1>3, <1>8 DEF Row
<1>. QED
  BY <1>2, <1>8, <1>9, <1>10

\* The entries on display start between the first one and the end, and none but
\* the first rows may be missing.
Neat(r) ==
    /\ Starts(r.entries) \subseteq Nat \ {0}
    /\ r.next \in Nat \ {0} /\ FirstStart(r) \in Nat \ {0} /\ FirstStart(r) <= r.next
    /\ \A q \in Starts(r.entries) : FirstStart(r) <= q
    /\ r.entries = <<>> => r.next = 1 /\ FirstStart(r) = 1
    /\ r.entries # <<>> => FirstStart(r) \in Starts(r.entries)

LEMMA ContentNeat ==
    ASSUME NEW T \in [1..MaxEpochs -> Rows], NEW r \in ReplicaType, r.initialized, r.epoch # 0,
           NEW list, NEW low, ReplicaContent(T, r, list, low)
    PROVE  /\ Neat(r) /\ Sorted(r.entries)
           /\ Len(T[r.epoch]) \in Nat /\ r.next <= Len(T[r.epoch]) + 1
           /\ Starts(r.entries) \subseteq 1..Len(T[r.epoch])
           /\ \A m \in r.pending : m.seq > r.next
<1>. DEFINE items == T[r.epoch]
            E == ToSet(r.entries)
<1>1. r.epoch \in 1..MaxEpochs /\ r.entries \in Seq(EntryType)
  BY ReplicaFields, Constants
<1>2. items \in Rows /\ Len(items) \in Nat
  BY <1>1, TableRows
<1>3. Sorted(r.entries) /\ Shows(items, E, low, r.next, Coming(r, list)) /\ \A m \in r.pending : m.seq > r.next
  BY DEF ReplicaContent
<1>. HIDE DEF items
<1>4. /\ low \in Nat /\ r.next \in Nat /\ low <= r.next /\ r.next \in 1..Len(items) + 1
      /\ \A c \in E : c.start \in 1..Len(items) /\ c.start \in Nat \ {0}
  BY ONLY <1>2, <1>3, ShowsFields
<1>5. /\ FirstStart(r) \in Nat /\ 1 <= FirstStart(r)
      /\ \A c \in E : FirstStart(r) <= c.start
      /\ E = {} => FirstStart(r) = 1
      /\ E # {} => r.entries[1] \in E /\ r.entries[1].start = FirstStart(r)
  BY <1>3, FirstStartFacts
<1>6. r.entries = <<>> <=> E = {}
  BY <1>1, <1>3, SortedFacts
<1>7. Starts(r.entries) = {c.start : c \in E}
  BY StartsAre
<1>8. FirstStart(r) <= r.next
  <2>1. CASE E = {}
    BY <1>4, <1>5, <2>1
  <2>2. CASE E # {}
    <3>1. r.entries[1].start = 1 \/ r.entries[1].start < low
      BY <1>3, <1>5, <2>2 DEF Shows, First
    <3>. QED
      BY <1>4, <1>5, <2>2, <3>1
  <2>. QED
    BY <2>1, <2>2
<1>9. E = {} => r.next = 1
  BY <1>3 DEF Shows, First
<1>. HIDE DEF E
<1>10. Starts(r.entries) \subseteq 1..Len(items) /\ Starts(r.entries) \subseteq Nat \ {0}
  BY <1>4, <1>7
<1>11. /\ \A q \in Starts(r.entries) : FirstStart(r) <= q
       /\ r.entries # <<>> => FirstStart(r) \in Starts(r.entries)
  BY <1>5, <1>6, <1>7
<1>12. Neat(r)
  BY <1>4, <1>5, <1>6, <1>8, <1>9, <1>10, <1>11 DEF Neat
<1>. QED
  BY <1>2, <1>3, <1>4, <1>10, <1>12 DEF items

\* A display without a hole has none after it takes in rows S next to it and the rows from w to its cursor.
LEMMA WidenedUnbroken ==
    ASSUME NEW r, NEW d, r.initialized, Neat(r), Neat(d), Unbroken(r), NEW S, NEW w \in Nat,
           Starts(d.entries) = Starts(r.entries) \cup S \cup (w..d.next - 1),
           FirstStart(r) <= w, \A q \in r.next..w - 1 : q \in S,
           \A s \in S : \A q \in s..FirstStart(r) - 1 : q \in S
    PROVE  Unbroken(d) /\ FirstStart(d) <= FirstStart(r)
<1>. DEFINE f == FirstStart(r)
            g == FirstStart(d)
            R == Starts(r.entries)
            D == Starts(d.entries)
<1>1. /\ f \in Nat /\ g \in Nat /\ f >= 1 /\ g >= 1 /\ r.next \in Nat /\ d.next \in Nat /\ g <= d.next /\ f <= r.next
      /\ \A q \in R : f <= q
      /\ \A q \in D : g <= q
      /\ r.entries = <<>> => r.next = 1 /\ f = 1
      /\ r.entries # <<>> => f \in R
      /\ d.entries = <<>> => d.next = 1 /\ g = 1
      /\ d.entries # <<>> => g \in D
      /\ \A q \in f..r.next - 1 : q \in R
  BY DEF Neat, Unbroken
<1>2. D = R \cup S \cup (w..d.next - 1)
  OBVIOUS
<1>. HIDE DEF f, g, R, D
<1>3. g <= f
  <2>1. CASE r.entries # <<>>
    BY <1>1, <1>2, <2>1
  <2>2. CASE r.entries = <<>>
    <3>. SUFFICES ASSUME g > 1 PROVE FALSE
      BY <1>1, <2>2
    <3>1. 1 \in w..d.next - 1 \/ 1 \in r.next..w - 1
      BY <1>1, <2>2
    <3>. QED
      BY <1>1, <1>2, <3>1 DEF f
  <2>. QED
    BY <2>1, <2>2
<1>4. ASSUME NEW q \in g..d.next - 1 PROVE q \in D
  <2>1. q \in Int /\ g <= q /\ q <= d.next - 1
    BY <1>1
  <2>2. CASE q >= w
    BY <1>1, <1>2, <2>1, <2>2
  <2>3. CASE q < w /\ q >= r.next
    <3>1. q \in r.next..w - 1
      BY <1>1, <2>1, <2>3
    <3>. QED
      BY <1>2, <3>1
  <2>4. CASE q < r.next /\ q >= f
    <3>1. q \in f..r.next - 1
      BY <1>1, <2>1, <2>4
    <3>. QED
      BY <1>1, <1>2, <3>1
  <2>5. CASE q < f
    <3>1. d.entries # <<>>
      BY <1>1, <2>1
    <3>2. g \in S
      BY <1>1, <1>2, <2>1, <2>5, <3>1 DEF f
    <3>3. q \in g..f - 1
      BY <1>1, <2>1, <2>5
    <3>. QED
      BY <1>2, <3>2, <3>3 DEF f
  <2>. QED
    BY <1>1, <2>1, <2>2, <2>3, <2>4, <2>5
<1>. QED
  BY <1>3, <1>4 DEF f, g, D, Unbroken

\* What a page of the epoch on display adds.
NoteLands(r, d, page, w, list, st) ==
    /\ d.epoch = page.epoch /\ d.initialized /\ w <= d.next
    /\ Single(d.epoch, d.entries)
    /\ d.pending = {m \in r.pending : m.epoch = page.epoch /\ m.seq >= d.next}
    /\ Starts(d.entries) = Starts(list) \cup Starts(page.entries) \cup (w..d.next - 1)
    /\ st = IF d.pending = {} THEN "applied" ELSE "gap"

LEMMA NoteLanded ==
    ASSUME Items \subseteq {"note"}, NEW r \in ReplicaType, NEW page \in PageType, NEW preserve \in BOOLEAN,
           Single(page.epoch, Base(r, page)), Single(page.epoch, page.entries),
           NEW d, d = Drained(WithPage(r, page, preserve)).replica, NEW w, w = LaterOf(r, page, preserve)
    PROVE  NoteLands(r, d, page, w, Base(r, page), Drained(WithPage(r, page, preserve)).status)
<1>. DEFINE x == WithPage(r, page, preserve)
<1>1. /\ x \in ReplicaType /\ x.epoch = page.epoch /\ x.initialized = TRUE /\ x.next = w
      /\ x.pending = {m \in r.pending : m.epoch = page.epoch}
  BY WithPageIs DEF Pertinent
<1>2. Single(page.epoch, x.entries) /\ Starts(x.entries) = Starts(Base(r, page)) \cup Starts(page.entries)
  BY NoteWithPage
<1>. HIDE DEF x
<1>3. d = Drained(x).replica
  BY DEF x
<1>4. \A m \in x.pending : m.epoch = x.epoch
  BY <1>1
<1>5. /\ Adding(x, d, x.next)
      /\ d.pending = {m \in x.pending : m.seq >= d.next}
      /\ Drained(x).status = (IF d.pending = {} THEN "applied" ELSE "gap")
  BY <1>1, <1>2, <1>3, <1>4, NoteDrained
<1>6. d.pending = {m \in r.pending : m.epoch = page.epoch /\ m.seq >= d.next}
  BY <1>1, <1>5
<1>. QED
  BY <1>1, <1>2, <1>5, <1>6 DEF Adding, NoteLands, x

\* A page applied to a display of its epoch.
LEMMA NoteApplied ==
    ASSUME Items \subseteq {"note"}, NEW r \in ReplicaType, r.initialized, NEW page \in PageType, page.epoch = r.epoch,
           page.direction # "tail", ~page.reset, ~page.gap, NEW preserve \in BOOLEAN,
           Single(r.epoch, r.entries), Single(page.epoch, page.entries),
           NEW d, d = ApplyPage(r, page, preserve).replica, NEW w, w = LaterOf(r, page, preserve)
    PROVE  NoteLands(r, d, page, w, r.entries, ApplyPage(r, page, preserve).status)
<1>1. ApplyPage(r, page, preserve) = Drained(WithPage(r, page, preserve))
  BY DEF ApplyPage
<1>2. Base(r, page) = r.entries
  BY DEF Base
<1>3. Single(page.epoch, Base(r, page)) /\ d = Drained(WithPage(r, page, preserve)).replica
  BY <1>1, <1>2
<1>. HIDE DEF LaterOf
<1>. QED
  BY <1>1, <1>2, <1>3, NoteLanded

\* A page from the end, where nothing is on display.
LEMMA NoteTailApplied ==
    ASSUME Items \subseteq {"note"}, NEW r \in ReplicaType, ~r.initialized, NEW top, ReplicaEpochs(r, top),
           NEW page \in PageType, r.epoch <= page.epoch,
           page.direction = "tail", ~page.reset, ~page.gap, Single(page.epoch, page.entries),
           NEW d, d = ApplyPage(r, page, FALSE).replica
    PROVE  NoteLands(r, d, page, NextBy(page), <<>>, ApplyPage(r, page, FALSE).status)
<1>. DEFINE x == IF r.epoch \notin {0, page.epoch} THEN Replaced(r, page.epoch) ELSE r
<1>1. page.epoch \in 1..MaxEpochs /\ r.epoch \in 0..MaxEpochs /\ page.epoch \in Int
  BY PageFields, ReplicaFields, Constants
<1>2. page.epoch \notin r.retired
  <2>1. \A e \in r.retired : e < r.epoch
    BY DEF ReplicaEpochs
  <2>. QED
    BY <1>1, <2>1, Constants
<1>3. ApplyPage(r, page, FALSE) = Drained(WithPage(x, page, FALSE))
  BY <1>2 DEF ApplyPage
<1>4. x \in ReplicaType /\ ~x.initialized
  BY <1>1, ReplacedType DEF Replaced, EmptyReplica
<1>5. \A m : m \in x.pending /\ m.epoch = page.epoch <=> m \in r.pending /\ m.epoch = page.epoch
  <2>1. CASE r.epoch \notin {0, page.epoch}
    <3>1. Replaced(r, page.epoch) = EmptyReplica(page.epoch, r.retired \cup ({r.epoch} \ {0, page.epoch}))
      BY <2>1 DEF Replaced
    <3>2. x.pending = {}
      BY <2>1, <3>1 DEF EmptyReplica
    <3>3. \A m \in r.pending : m.epoch = r.epoch
      BY DEF ReplicaEpochs
    <3>. QED
      BY <2>1, <3>2, <3>3
  <2>2. CASE ~(r.epoch \notin {0, page.epoch})
    BY <2>2
  <2>. QED
    BY <2>1, <2>2
<1>. HIDE DEF x
<1>6. Base(x, page) = <<>>
  BY <1>4 DEF Base
<1>7. Single(page.epoch, <<>>) /\ Starts(<<>>) = {}
  BY DEF Single, Starts, ToSet
<1>8. LaterOf(x, page, FALSE) = NextBy(page)
  BY DEF LaterOf, NextOf, NextBy
<1>9. NoteLands(x, d, page, NextBy(page), Base(x, page), Drained(WithPage(x, page, FALSE)).status)
  <2>1. FALSE \in BOOLEAN /\ Single(page.epoch, Base(x, page)) /\ d = Drained(WithPage(x, page, FALSE)).replica
        /\ NextBy(page) = LaterOf(x, page, FALSE)
    BY <1>3, <1>6, <1>7, <1>8
  <2>. QED
    BY <1>4, <2>1, NoteLanded
<1>10. NoteLands(r, d, page, NextBy(page), <<>>, ApplyPage(r, page, FALSE).status)
  BY <1>3, <1>5, <1>6, <1>9 DEF NoteLands
<1>. QED
  BY <1>10

-----------------------------------------------------------------------------
(* The steps that leave the display alone.                                 *)

SyncInv(T) == TypeInv /\ EpochInv /\ Content(T) /\ Steady

LEMMA SyncFacts ==
    ASSUME Items \subseteq {"note"}, NEW T, SyncInv(T)
    PROVE  /\ TypeInv /\ EpochInv /\ Content(T) /\ Items \subseteq PlainKinds
           /\ T \in [1..MaxEpochs -> Rows] /\ T[epoch] = rows /\ epoch \in 1..MaxEpochs /\ epoch \in Int
           /\ rows \in Seq(Items) /\ Len(rows) \in Nat /\ Len(rows) <= MaxRows
           /\ replica \in ReplicaType /\ down \in Seq(Message) /\ replica.epoch \in Int /\ replica.epoch <= epoch
           /\ recovery \in {None} \cup Request /\ older \in {None} \cup Request /\ scan \in {None} \cup Request
           /\ replica.next \in Nat
           /\ replica.initialized =>
                 /\ Neat(replica) /\ Sorted(replica.entries) /\ replica.epoch # 0
                 /\ Starts(replica.entries) \subseteq 1..Len(T[replica.epoch])
                 /\ \A m \in replica.pending : m.seq > replica.next
           /\ ~replica.initialized => replica.entries = <<>>
           /\ Single(replica.epoch, replica.entries)
           /\ WholePage(recovery) /\ WholePage(older) /\ WholePage(scan)
           /\ Unbroken(replica)
           /\ Lossless(subscribed, replica, epoch, Len(rows), down, recovery)
           /\ TailLossless(replica, epoch, Len(rows), down, recovery)
           /\ AfterReaches(recovery, replica) /\ BeforeReaches(older, replica) /\ AfterReaches(scan, replica)
           /\ Waits(status, subscribed, replica, epoch, recovery, down)
<1>1. TypeInv /\ EpochInv /\ Content(T) /\ Steady
  BY DEF SyncInv
<1>. DEFINE low == LowOf(recovery, replica)
<1>2. low = LowOf(recovery, replica)
  OBVIOUS
<1>. HIDE DEF low
<1>3. /\ T \in [1..MaxEpochs -> Rows] /\ T[epoch] = rows
      /\ replica \in ReplicaType /\ ReplicaContent(T, replica, down, low)
      /\ replica.initialized => replica.epoch # 0
  BY ONLY <1>1, <1>2, ContentFacts
<1>4. /\ epoch \in 1..MaxEpochs /\ epoch \in Int /\ replica.epoch \in Int /\ replica.epoch <= epoch
      /\ down \in Seq(Message) /\ rows \in Seq(Items) /\ Len(rows) \in Nat
      /\ recovery \in {None} \cup Request /\ older \in {None} \cup Request /\ scan \in {None} \cup Request
      /\ ReplicaEpochs(replica, epoch)
  BY <1>1, EpochFacts
<1>5. Len(rows) <= MaxRows
  BY <1>1 DEF TypeInv, TypeOK
<1>6. replica.next \in Nat
  BY <1>3, ReplicaFields, Constants
<1>7. replica.initialized =>
                 /\ Neat(replica) /\ Sorted(replica.entries)
                 /\ Starts(replica.entries) \subseteq 1..Len(T[replica.epoch])
                 /\ \A m \in replica.pending : m.seq > replica.next
  BY <1>3, ContentNeat
<1>8. ~replica.initialized => replica.entries = <<>>
  BY <1>4 DEF ReplicaEpochs
<1>9. Items \subseteq PlainKinds
  BY DEF PlainKinds
<1>. QED
  BY <1>1, <1>3, <1>4, <1>5, <1>6, <1>7, <1>8, <1>9 DEF Steady

\* Messages added at one end and taken from the other.
LEMMA LonglistHas ==
    ASSUME NEW list \in Seq(Message), NEW m \in Message
    PROVE  /\ Stream(list) \subseteq Stream(Append(list, m))
           /\ m.type = "stream" => m \in Stream(Append(list, m))
           /\ \A type : HasType(list, type) \/ m.type = type => HasType(Append(list, m), type)
<1>1. /\ DOMAIN list = 1..Len(list) /\ DOMAIN Append(list, m) = 1..Len(list) + 1 /\ Len(list) \in Nat
      /\ \A i \in 1..Len(list) : Append(list, m)[i] = list[i]
      /\ Append(list, m)[Len(list) + 1] = m
  BY AppendIs
<1>2. \A type : HasType(list, type) \/ m.type = type => HasType(Append(list, m), type)
  <2>1. ASSUME NEW type, HasType(list, type) PROVE HasType(Append(list, m), type)
    BY <1>1, <2>1 DEF HasType
  <2>2. ASSUME NEW type, m.type = type PROVE HasType(Append(list, m), type)
    <3>1. Len(list) + 1 \in DOMAIN Append(list, m)
      BY <1>1
    <3>. QED
      BY <1>1, <2>2, <3>1 DEF HasType
  <2>. QED
    BY <2>1, <2>2
<1>. QED
  BY <1>2, StreamAppend

LEMMA ShortlistHas ==
    ASSUME NEW list \in Seq(Message), list # <<>>
    PROVE  /\ \A type : HasType(list, type) /\ Head(list).type # type => HasType(Tail(list), type)
           /\ \A m \in Stream(list) : m \in Stream(Tail(list)) \/ m = Head(list)
           /\ Head(list).type # "stream" => Stream(Tail(list)) = Stream(list)
<1>1. /\ Len(list) \in Nat \ {0}
      /\ DOMAIN list = 1..Len(list) /\ DOMAIN Tail(list) = 1..Len(list) - 1
      /\ \A i \in 1..Len(list) - 1 : Tail(list)[i] = list[i + 1]
      /\ Head(list) = list[1]
  BY TailIs
<1>2. ASSUME NEW type, HasType(list, type), Head(list).type # type PROVE HasType(Tail(list), type)
  <2>1. PICK i \in 1..Len(list) : list[i].type = type
    BY <1>1, <1>2 DEF HasType
  <2>2. i - 1 \in 1..Len(list) - 1 /\ i - 1 + 1 = i
    BY <1>1, <1>2, <2>1
  <2>3. Tail(list)[i - 1].type = type
    BY <1>1, <2>1, <2>2
  <2>. QED
    BY <1>1, <2>2, <2>3 DEF HasType
<1>3. Stream(Tail(list)) \subseteq Stream(list) /\ Stream(list) \subseteq Stream(Tail(list)) \cup {Head(list)}
  BY StreamTail
<1>4. Head(list).type # "stream" => Stream(Tail(list)) = Stream(list)
  BY <1>3 DEF Stream
<1>. QED
  BY <1>2, <1>3, <1>4

\* What is on its way remains so on a longer wire.
LEMMA ComesStill ==
    ASSUME NEW r, NEW list, NEW more, Stream(list) \subseteq Stream(more), NEW e, NEW q, Comes(r, list, e, q)
    PROVE  Comes(r, more, e, q)
BY DEF Comes

LEMMA LosslessStill ==
    ASSUME NEW sub, NEW r, NEW e, NEW n, NEW list, NEW rq, Lossless(sub, r, e, n, list, rq),
           NEW more, Stream(list) \subseteq Stream(more), NEW rq2, \A q \in r.next..n : Seeks(rq, q) => Seeks(rq2, q),
           Awaited(rq, list) => Awaited(rq2, more) \/ \A q \in r.next..n : Seeks(rq2, q)
    PROVE  Lossless(sub, r, e, n, more, rq2)
<1>. SUFFICES ASSUME sub, r.initialized, r.epoch = e, NEW q \in r.next..n
     PROVE  q \in Starts(r.entries) \/ Comes(r, more, e, q) \/ Seeks(rq2, q) \/ Awaited(rq2, more)
  BY DEF Lossless
<1>1. q \in Starts(r.entries) \/ Comes(r, list, e, q) \/ Seeks(rq, q) \/ Awaited(rq, list)
  BY DEF Lossless
<1>. QED
  BY <1>1, ComesStill

LEMMA TailStill ==
    ASSUME NEW r, NEW e, NEW n, NEW list, NEW rq, TailLossless(r, e, n, list, rq),
           NEW more, Stream(list) \subseteq Stream(more)
    PROVE  TailLossless(r, e, n, more, rq)
BY ComesStill DEF TailLossless

LEMMA NoRequest ==
    /\ WholePage(None)
    /\ \A r : AfterReaches(None, r) /\ BeforeReaches(None, r)
    /\ \A r, e, n, list : TailLossless(r, e, n, list, None)
    /\ \A q : ~Seeks(None, q)
BY DEF WholePage, AfterReaches, BeforeReaches, TailLossless, Seeks

\* A new request has no page.
LEMMA NewRequest ==
    ASSUME NEW direction \in {"tail", "after", "before"}, NEW e \in 0..MaxEpochs, NEW seq \in 0..MaxRows,
           NEW rq, rq = Ask(direction, e, seq)
    PROVE  /\ rq # None /\ WholePage(rq) /\ \A r, x, n, list : TailLossless(r, x, n, list, rq)
           /\ direction = "after" => \A q : seq < q => Seeks(rq, q)
           /\ \A r : (direction = "after" => FirstStart(r) <= seq + 1) => AfterReaches(rq, r)
           /\ \A r : (e = r.epoch => FirstStart(r) <= seq) => BeforeReaches(rq, r)
<1>1. rq # None /\ rq.direction = direction /\ rq.epoch = e /\ rq.seq = seq /\ rq.page = None
  BY AskIs
<1>. QED
  BY <1>1 DEF WholePage, TailLossless, Seeks, AfterReaches, BeforeReaches

LEMMA AppendRowSteady ==
    ASSUME Items \subseteq {"note"}, NEW T, SyncInv(T), AppendRow
    PROVE  Steady'
<1>. DEFINE n == Len(rows)
<1>1. /\ TypeInv /\ EpochInv /\ Len(rows) \in Nat /\ rows \in Seq(Items) /\ down \in Seq(Message)
      /\ epoch \in 1..MaxEpochs /\ replica.next \in Nat
      /\ Single(replica.epoch, replica.entries)
      /\ WholePage(recovery) /\ WholePage(older) /\ WholePage(scan)
      /\ Unbroken(replica)
      /\ Lossless(subscribed, replica, epoch, n, down, recovery)
      /\ TailLossless(replica, epoch, n, down, recovery)
      /\ AfterReaches(recovery, replica) /\ BeforeReaches(older, replica) /\ AfterReaches(scan, replica)
      /\ Waits(status, subscribed, replica, epoch, recovery, down)
  BY SyncFacts
<1>2. PICK item \in Items :
          /\ rows' = Append(rows, item)
          /\ Emit([type |-> "stream", epoch |-> epoch, seq |-> n + 1, item |-> item])
  BY DEF AppendRow
<1>3. n < MaxRows /\ UNCHANGED <<epoch, subscribed, status, recovery, older, scan, replica>>
  BY DEF AppendRow, reads
<1>4. PICK m : m = [type |-> "stream", epoch |-> epoch, seq |-> n + 1, item |-> item]
  OBVIOUS
<1>5. m \in Message /\ m.type = "stream" /\ m.epoch = epoch /\ m.seq = n + 1
  <2>1. n + 1 \in 1..MaxRows
    BY <1>1, <1>3, Constants
  <2>. QED
    BY <1>1, <1>4, <2>1 DEF Message
<1>6. /\ Stream(down) \subseteq Stream(down') /\ \A type : HasType(down, type) => HasType(down', type)
      /\ subscribed => m \in Stream(down')
  <2>1. down' = IF subscribed THEN Append(down, m) ELSE down
    BY <1>2, <1>4 DEF Emit
  <2>. QED
    BY <1>1, <1>5, <2>1, LonglistHas
<1>7. Len(rows') = n + 1
  BY <1>1, <1>2
<1>. HIDE DEF n
<1>8. Lossless(subscribed, replica, epoch, n + 1, down', recovery)
  <2>. SUFFICES ASSUME subscribed, replica.initialized, replica.epoch = epoch, NEW q \in replica.next..n + 1
       PROVE  q \in Starts(replica.entries) \/ Comes(replica, down', epoch, q) \/ Seeks(recovery, q) \/ Awaited(recovery, down')
    BY DEF Lossless
  <2>1. CASE q = n + 1
    BY <1>5, <1>6, <2>1 DEF Comes
  <2>2. CASE q # n + 1
    <3>1. q \in replica.next..n
      BY <1>1, <2>2 DEF n
    <3>2. q \in Starts(replica.entries) \/ Comes(replica, down, epoch, q) \/ Seeks(recovery, q) \/ Awaited(recovery, down)
      BY <1>1, <3>1 DEF Lossless
    <3>. QED
      BY <1>6, <3>2, ComesStill DEF Awaited
  <2>. QED
    BY <2>1, <2>2
<1>9. TailLossless(replica, epoch, n + 1, down', recovery)
  <2>. SUFFICES ASSUME recovery # None, recovery.direction = "tail", recovery.page # None, recovery.page.epoch = epoch,
                       NEW q \in NextBy(recovery.page)..n + 1
       PROVE  Comes(replica, down', epoch, q)
    BY DEF TailLossless
  <2>1. subscribed
    BY <1>1, PlacedFacts
  <2>2. CASE q = n + 1
    BY <1>5, <1>6, <2>1, <2>2 DEF Comes
  <2>3. CASE q # n + 1
    <3>1. q \in NextBy(recovery.page)..n
      BY <1>1, <2>3 DEF n
    <3>2. Comes(replica, down, epoch, q)
      BY <1>1, <3>1 DEF TailLossless
    <3>. QED
      BY <1>6, <3>2, ComesStill
  <2>. QED
    BY <2>2, <2>3
<1>10. Waits(status, subscribed, replica, epoch, recovery, down')
  BY <1>1, <1>6 DEF Waits, Awaited
<1>. QED
  BY <1>1, <1>3, <1>7, <1>8, <1>9, <1>10 DEF Steady

LEMMA ReplaceTimelineSteady ==
    ASSUME Items \subseteq {"note"}, NEW T, SyncInv(T), ReplaceTimeline
    PROVE  Steady'
<1>1. /\ TypeInv /\ EpochInv /\ down \in Seq(Message)
      /\ epoch \in 1..MaxEpochs /\ epoch \in Int /\ replica.epoch \in Int /\ replica.epoch <= epoch
      /\ Single(replica.epoch, replica.entries)
      /\ WholePage(recovery) /\ WholePage(older) /\ WholePage(scan)
      /\ Unbroken(replica)
      /\ AfterReaches(recovery, replica) /\ BeforeReaches(older, replica) /\ AfterReaches(scan, replica)
      /\ Waits(status, subscribed, replica, epoch, recovery, down)
  BY SyncFacts
<1>2. /\ epoch' = epoch + 1 /\ epoch < MaxEpochs /\ Emit([type |-> "replacement", epoch |-> epoch + 1])
      /\ UNCHANGED <<subscribed, status, recovery, older, scan, replica>>
  BY DEF ReplaceTimeline, reads
<1>3. PICK m : m = [type |-> "replacement", epoch |-> epoch + 1]
  OBVIOUS
<1>4. m \in Message /\ m.type = "replacement"
  <2>1. epoch + 1 \in 1..MaxEpochs
    BY <1>1, <1>2, Constants
  <2>. QED
    BY <1>3, <2>1 DEF Message
<1>5. (\A type : HasType(down, type) => HasType(down', type)) /\ (subscribed => HasType(down', "replacement"))
  <2>1. down' = IF subscribed THEN Append(down, m) ELSE down
    BY <1>2, <1>3 DEF Emit
  <2>. QED
    BY <1>1, <1>4, <2>1, LonglistHas
<1>6. replica.epoch # epoch' /\ \A n, list, rq : Lossless(subscribed, replica, epoch', n, list, rq)
  <2>1. replica.epoch # epoch'
    BY <1>1, <1>2
  <2>. QED
    BY <2>1 DEF Lossless
<1>7. \A n, list : TailLossless(replica, epoch', n, list, recovery)
  <2>1. recovery # None /\ recovery.page # None => recovery.page.epoch \in Nat /\ recovery.page.epoch <= epoch
    BY <1>1, PlacedFacts
  <2>2. recovery # None /\ recovery.page # None => recovery.page.epoch # epoch'
    BY <1>1, <1>2, <2>1
  <2>. QED
    BY <2>2 DEF TailLossless
<1>8. Waits(status, subscribed, replica, epoch', recovery, down')
  BY <1>1, <1>5 DEF Waits, Awaited
<1>. QED
  BY <1>1, <1>2, <1>6, <1>7, <1>8 DEF Steady

LEMMA SubscribeSteady ==
    ASSUME Items \subseteq {"note"}, NEW T, SyncInv(T), Subscribe
    PROVE  Steady'
<1>1. /\ TypeInv /\ EpochInv /\ Content(T) /\ down \in Seq(Message) /\ replica.next \in Nat
      /\ recovery \in {None} \cup Request
      /\ Single(replica.epoch, replica.entries)
      /\ WholePage(recovery) /\ WholePage(older) /\ WholePage(scan)
      /\ Unbroken(replica)
      /\ TailLossless(replica, epoch, Len(rows), down, recovery)
      /\ AfterReaches(recovery, replica) /\ BeforeReaches(older, replica) /\ AfterReaches(scan, replica)
      /\ Waits(status, subscribed, replica, epoch, recovery, down)
  BY SyncFacts
<1>2. /\ status # "disconnected" /\ ~subscribed /\ subscribed' = TRUE /\ down' = Append(down, [type |-> "subscribed"])
      /\ UNCHANGED <<epoch, rows, status, recovery, older, scan, replica>>
  BY DEF Subscribe, server, reads
<1>3. PICK m : m = [type |-> "subscribed"]
  OBVIOUS
<1>4. m \in Message /\ m.type = "subscribed"
  BY <1>3 DEF Message
<1>5. Stream(down) \subseteq Stream(down') /\ HasType(down', "subscribed") /\ down' = Append(down, m)
  BY <1>1, <1>2, <1>3, <1>4, LonglistHas
<1>6. status = "catching_up" /\ (recovery = None => Recovery = "http")
  <2>1. status \in {"disconnected", "catching_up", "ready"}
    BY <1>1 DEF TypeInv, TypeOK
  <2>. QED
    BY <1>1, <1>2, <2>1 DEF Waits
<1>7. Lossless(TRUE, replica, epoch, Len(rows), down', recovery)
  <2>. SUFFICES ASSUME replica.initialized, NEW q \in replica.next..Len(rows)
       PROVE  Seeks(recovery, q) \/ Awaited(recovery, down')
    BY DEF Lossless
  <2>1. CASE recovery = None
    BY <1>5, <1>6, <2>1 DEF Awaited
  <2>2. CASE recovery # None
    <3>1. recovery.page = None /\ recovery.direction \in {"tail", "after"}
      BY <1>1, <1>2, <2>2, PlacedFacts, EpochFacts DEF Kinds
    <3>2. recovery.direction = "after" /\ recovery.seq < replica.next
      BY <1>1, <2>2, <3>1 DEF Content, RecoveryPlaced
    <3>3. recovery.seq \in Int
      BY <1>1, <2>2, RequestFields, Constants
    <3>4. Len(rows) \in Int /\ q >= replica.next
      BY <1>1, SyncFacts
    <3>. QED
      BY <1>1, <2>2, <3>1, <3>2, <3>3, <3>4 DEF Seeks
  <2>. QED
    BY <2>1, <2>2
<1>8. TailLossless(replica, epoch, Len(rows), down', recovery)
  BY <1>1, <1>5, TailStill
<1>9. Waits(status, TRUE, replica, epoch, recovery, down')
  BY <1>5, <1>6 DEF Waits, Awaited
<1>. QED
  BY <1>1, <1>2, <1>7, <1>8, <1>9 DEF Steady

\* What the Relay answers.
NoteAnswer(rq, a) ==
    /\ a # None /\ a.page # None /\ a.direction = rq.direction /\ a.epoch = rq.epoch /\ a.seq = rq.seq
    /\ WholePage(a)
    /\ rq.direction = "tail" => NextBy(a.page) = Len(rows) + 1
    /\ rq.direction = "after" /\ rq.epoch = epoch => a.page.next = Len(rows) + 1

LEMMA AnsweredSteady ==
    ASSUME Items \subseteq {"note"}, TypeOK, NEW T, T[epoch] = rows, NEW rq \in Request, rq # None, RequestContent(T, rq),
           NEW a, a = Answered(rq)
    PROVE  NoteAnswer(rq, a)
<1>. DEFINE cursor == [epoch |-> rq.epoch, seq |-> rq.seq]
            page == Page(epoch, rows, rq.direction, cursor, PageSize)
<1>1. a = [rq EXCEPT !.page = page]
  BY DEF Answered
<1>2. page \in PageType /\ page.epoch = epoch /\ page # None
  <2>1. cursor.seq \in 0..MaxRows /\ rq.direction \in {"tail", "after", "before"}
    BY RequestFields
  <2>2. rows \in Seq(ItemKinds) /\ Len(rows) <= MaxRows /\ epoch \in 1..MaxEpochs
    <3>1. rows \in Seq(Items) /\ Len(rows) <= MaxRows /\ epoch \in 1..MaxEpochs
      BY DEF TypeOK
    <3>. QED
      BY <3>1, ItemsKinds
  <2>. HIDE DEF cursor
  <2>3. page \in PageType /\ page.epoch = epoch
    BY <2>1, <2>2, PageIsPage, PageShows
  <2>. QED
    BY <2>3, NoneAssumption
<1>3. epoch \in 1..MaxEpochs /\ rows \in Seq(Items) /\ Len(rows) <= MaxRows /\ rq.seq \in Nat
      /\ rq.direction \in {"tail", "after", "before"}
  BY RequestFields, Constants DEF TypeOK
<1>4. cursor.epoch = rq.epoch /\ cursor.seq = rq.seq
  OBVIOUS
<1>. HIDE DEF page, cursor
<1>5. a.page = page /\ a.direction = rq.direction /\ a.epoch = rq.epoch /\ a.seq = rq.seq /\ a # None
  <2>1. a \in Request
    BY AnsweredType
  <2>. QED
    BY <1>1, <2>1, NoneAssumption DEF Request
<1>6. rq.direction = "tail" => Single(epoch, page.entries) /\ NextBy(page) = Len(rows) + 1
  <2>. SUFFICES ASSUME rq.direction = "tail" PROVE Single(epoch, page.entries) /\ NextBy(page) = Len(rows) + 1
    OBVIOUS
  <2>1. page = TailPage(epoch, rows, PageSize)
    BY DEF page, Page
  <2>. QED
    BY <1>3, <2>1, NoteTail
<1>7. rq.direction # "tail" /\ rq.epoch # epoch => page.reset
  BY <1>4 DEF page, Page, EntriesPage, PageOf
<1>8. rq.direction = "before" /\ rq.epoch = epoch =>
          /\ Single(epoch, page.entries)
          /\ \A c \in ToSet(page.entries) : c.start..rq.seq - 1 \subseteq Starts(page.entries)
  <2>. SUFFICES ASSUME rq.direction = "before", rq.epoch = epoch
       PROVE  /\ Single(epoch, page.entries)
              /\ \A c \in ToSet(page.entries) : c.start..rq.seq - 1 \subseteq Starts(page.entries)
    OBVIOUS
  <2>1. page = BeforePage(epoch, rows, rq.seq, PageSize)
    BY <1>4 DEF page, Page
  <2>2. rq.seq <= Len(rows) \/ rq.seq = 1
    BY DEF RequestContent
  <2>. QED
    BY <1>3, <2>1, <2>2, NoteBefore
<1>9. rq.direction = "after" /\ rq.epoch = epoch =>
          /\ Single(epoch, page.entries) /\ page.next = Len(rows) + 1
          /\ \A c \in ToSet(page.entries) : rq.seq < c.start
  <2>. SUFFICES ASSUME rq.direction = "after", rq.epoch = epoch
       PROVE  /\ Single(epoch, page.entries) /\ page.next = Len(rows) + 1
              /\ \A c \in ToSet(page.entries) : rq.seq < c.start
    OBVIOUS
  <2>1. page = AfterPage(epoch, rows, rq.seq, PageSize)
    BY <1>4 DEF page, Page
  <2>2. rq.seq <= Len(rows)
    BY DEF RequestContent
  <2>. QED
    BY <1>3, <2>1, <2>2, NoteAfter
<1>10. WholePage(a)
  BY <1>2, <1>3, <1>5, <1>6, <1>7, <1>8, <1>9 DEF WholePage
<1>. QED
  BY <1>2, <1>5, <1>6, <1>9, <1>10 DEF NoteAnswer

LEMMA ComputeCatchUpSteady ==
    ASSUME Items \subseteq {"note"}, NEW T, SyncInv(T), ComputeCatchUp
    PROVE  Steady'
<1>1. /\ TypeInv /\ EpochInv /\ Content(T) /\ T[epoch] = rows /\ Len(rows) \in Nat /\ replica.next \in Nat
      /\ recovery \in {None} \cup Request
      /\ Single(replica.epoch, replica.entries)
      /\ WholePage(older) /\ WholePage(scan)
      /\ Unbroken(replica)
      /\ Lossless(subscribed, replica, epoch, Len(rows), down, recovery)
      /\ AfterReaches(recovery, replica) /\ BeforeReaches(older, replica) /\ AfterReaches(scan, replica)
      /\ Waits(status, subscribed, replica, epoch, recovery, down)
  BY SyncFacts
<1>2. /\ recovery # None /\ recovery.page = None /\ recovery' = Answered(recovery)
      /\ UNCHANGED <<epoch, rows, subscribed, down, status, older, scan, replica>>
  BY DEF ComputeCatchUp, server, wire, reads
<1>3. NoteAnswer(recovery, recovery')
  <2>1. TypeOK /\ RequestContent(T, recovery) /\ recovery \in Request
    BY <1>1, <1>2 DEF TypeInv, Content
  <2>. QED
    BY <1>1, <1>2, <2>1, AnsweredSteady
<1>4. RecoveryPlaced(recovery, replica)
  BY <1>1 DEF Content
<1>5. replica.initialized /\ replica.epoch = epoch /\ recovery.direction = "after" =>
          \A q \in replica.next..Len(rows) : Seeks(recovery, q) => Seeks(recovery', q)
  <2>. SUFFICES ASSUME replica.initialized, replica.epoch = epoch, recovery.direction = "after",
                       NEW q \in replica.next..Len(rows), Seeks(recovery, q)
       PROVE  Seeks(recovery', q)
    OBVIOUS
  <2>1. recovery.epoch = epoch
    BY <1>2, <1>4 DEF RecoveryPlaced
  <2>2. q < recovery'.page.next
    BY <1>1, <1>3, <2>1 DEF NoteAnswer
  <2>. QED
    BY <1>3, <2>2 DEF Seeks, NoteAnswer
<1>6. Lossless(subscribed, replica, epoch, Len(rows), down, recovery')
  <2>. SUFFICES ASSUME subscribed, replica.initialized, replica.epoch = epoch, NEW q \in replica.next..Len(rows)
       PROVE  q \in Starts(replica.entries) \/ Comes(replica, down, epoch, q) \/ Seeks(recovery', q)
    BY DEF Lossless
  <2>1. q \in Starts(replica.entries) \/ Comes(replica, down, epoch, q) \/ Seeks(recovery, q)
    BY <1>1, <1>2 DEF Lossless, Awaited
  <2>. QED
    BY <1>5, <2>1 DEF Seeks
<1>7. TailLossless(replica, epoch, Len(rows), down, recovery')
  <2>. SUFFICES ASSUME recovery.direction = "tail", NEW q \in Len(rows) + 1..Len(rows) PROVE FALSE
    BY <1>3 DEF TailLossless, NoteAnswer
  <2>. QED
    BY <1>1
<1>8. WholePage(recovery') /\ AfterReaches(recovery', replica)
  BY <1>1, <1>2, <1>3 DEF NoteAnswer, AfterReaches
<1>9. Waits(status, subscribed, replica, epoch, recovery', down)
  BY <1>1, <1>3 DEF Waits, NoteAnswer
<1>. QED
  BY <1>1, <1>2, <1>6, <1>7, <1>8, <1>9 DEF Steady

LEMMA SendCatchUpSteady ==
    ASSUME Items \subseteq {"note"}, NEW T, SyncInv(T), SendCatchUp
    PROVE  Steady'
<1>1. /\ TypeInv /\ down \in Seq(Message) /\ recovery \in {None} \cup Request
      /\ Single(replica.epoch, replica.entries)
      /\ WholePage(recovery) /\ WholePage(older) /\ WholePage(scan)
      /\ Unbroken(replica)
      /\ Lossless(subscribed, replica, epoch, Len(rows), down, recovery)
      /\ TailLossless(replica, epoch, Len(rows), down, recovery)
      /\ AfterReaches(recovery, replica) /\ BeforeReaches(older, replica) /\ AfterReaches(scan, replica)
      /\ Waits(status, subscribed, replica, epoch, recovery, down)
  BY SyncFacts
<1>2. /\ recovery # None /\ recovery' = [recovery EXCEPT !.sent = TRUE] /\ down' = Append(down, Delivered)
      /\ UNCHANGED <<epoch, rows, subscribed, status, older, scan, replica>>
  BY DEF SendCatchUp, server, reads
<1>3. /\ recovery' # None /\ recovery'.direction = recovery.direction /\ recovery'.epoch = recovery.epoch
      /\ recovery'.seq = recovery.seq /\ recovery'.page = recovery.page
  <2>1. recovery' \in Request
    BY <1>1, <1>2 DEF Request
  <2>. QED
    BY <1>1, <1>2, <2>1, NoneAssumption DEF Request
<1>4. Stream(down) \subseteq Stream(down') /\ \A type : HasType(down, type) => HasType(down', type)
  <2>1. Delivered \in Message
    BY DEF Delivered, Message
  <2>. QED
    BY <1>1, <1>2, <2>1, LonglistHas
<1>5. WholePage(recovery') /\ AfterReaches(recovery', replica)
  BY <1>1, <1>2, <1>3 DEF WholePage, AfterReaches
<1>6. TailLossless(replica, epoch, Len(rows), down', recovery')
  <2>1. TailLossless(replica, epoch, Len(rows), down', recovery)
    BY <1>1, <1>4, TailStill
  <2>. QED
    BY <1>2, <1>3, <2>1 DEF TailLossless
<1>7. Lossless(subscribed, replica, epoch, Len(rows), down', recovery')
  <2>1. (\A q : Seeks(recovery, q) => Seeks(recovery', q)) /\ ~Awaited(recovery, down)
    BY <1>2, <1>3 DEF Seeks, Awaited
  <2>. QED
    BY <1>1, <1>4, <2>1, LosslessStill
<1>8. Waits(status, subscribed, replica, epoch, recovery', down')
  BY <1>1, <1>2, <1>3, <1>4 DEF Waits
<1>. QED
  BY <1>1, <1>2, <1>5, <1>6, <1>7, <1>8 DEF Steady

LEMMA ComputeOlderSteady ==
    ASSUME Items \subseteq {"note"}, NEW T, SyncInv(T), ComputeOlder
    PROVE  Steady'
<1>1. /\ TypeInv /\ Content(T) /\ T[epoch] = rows /\ older \in {None} \cup Request /\ BeforeReaches(older, replica)
      /\ Steady
  BY SyncFacts DEF SyncInv
<1>2. /\ older # None /\ older' = Answered(older)
      /\ UNCHANGED <<epoch, rows, subscribed, down, status, recovery, scan, replica>>
  BY DEF ComputeOlder, server, wire
<1>3. NoteAnswer(older, older')
  <2>1. TypeOK /\ RequestContent(T, older) /\ older \in Request
    BY <1>1, <1>2 DEF TypeInv, Content
  <2>. QED
    BY <1>1, <1>2, <2>1, AnsweredSteady
<1>4. WholePage(older') /\ BeforeReaches(older', replica)
  BY <1>1, <1>2, <1>3 DEF NoteAnswer, BeforeReaches
<1>. QED
  BY <1>1, <1>2, <1>4 DEF Steady

LEMMA ComputeScanSteady ==
    ASSUME Items \subseteq {"note"}, NEW T, SyncInv(T), ComputeScan
    PROVE  Steady'
<1>1. /\ TypeInv /\ Content(T) /\ T[epoch] = rows /\ scan \in {None} \cup Request /\ AfterReaches(scan, replica)
      /\ Steady
  BY SyncFacts DEF SyncInv
<1>2. /\ scan # None /\ scan' = Answered(scan)
      /\ UNCHANGED <<epoch, rows, subscribed, down, status, recovery, older, replica>>
  BY DEF ComputeScan, server, wire
<1>3. NoteAnswer(scan, scan')
  <2>1. TypeOK /\ RequestContent(T, scan) /\ scan \in Request
    BY <1>1, <1>2 DEF TypeInv, Content
  <2>. QED
    BY <1>1, <1>2, <2>1, AnsweredSteady
<1>4. WholePage(scan') /\ AfterReaches(scan', replica)
  BY <1>1, <1>2, <1>3 DEF NoteAnswer, AfterReaches
<1>. QED
  BY <1>1, <1>2, <1>4 DEF Steady

\* A catch-up started now asks for all that is not on display.
LEMMA CatchUpReaches ==
    ASSUME NEW r \in ReplicaType, r.initialized => Neat(r), NEW rq, rq = CatchUp(r)
    PROVE  /\ rq # None /\ WholePage(rq) /\ \A x, e, n, list : TailLossless(x, e, n, list, rq)
           /\ AfterReaches(rq, r)
           /\ \A sub, e, n, list : n \in Int => Lossless(sub, r, e, n, list, rq)
<1>1. r.epoch \in 0..MaxEpochs /\ r.next \in 1..MaxRows + 1 /\ r.next - 1 \in 0..MaxRows /\ r.next \in Int
  BY ReplicaFields, Constants
<1>2. CASE r.initialized
  <2>1. rq = Ask("after", r.epoch, r.next - 1)
    BY <1>2 DEF CatchUp
  <2>2. /\ rq # None /\ WholePage(rq) /\ \A x, e, n, list : TailLossless(x, e, n, list, rq)
        /\ \A q : r.next - 1 < q => Seeks(rq, q)
        /\ \A x : FirstStart(x) <= r.next - 1 + 1 => AfterReaches(rq, x)
    BY <1>1, <2>1, NewRequest
  <2>3. FirstStart(r) <= r.next - 1 + 1
    BY <1>1, <1>2 DEF Neat
  <2>4. ASSUME NEW sub, NEW e, NEW n \in Int, NEW list PROVE Lossless(sub, r, e, n, list, rq)
    <3>1. \A q \in r.next..n : r.next - 1 < q
      BY <1>1
    <3>. QED
      BY <2>2, <3>1 DEF Lossless
  <2>. QED
    BY <2>2, <2>3, <2>4
<1>3. CASE ~r.initialized
  <2>1. rq = Ask("tail", 0, 0) /\ 0 \in 0..MaxEpochs /\ 0 \in 0..MaxRows
    BY <1>3, Constants DEF CatchUp
  <2>2. /\ rq # None /\ WholePage(rq) /\ \A x, e, n, list : TailLossless(x, e, n, list, rq)
        /\ AfterReaches(rq, r)
    BY <2>1, NewRequest
  <2>. QED
    BY <1>3, <2>2 DEF Lossless
<1>. QED
  BY <1>2, <1>3

LEMMA ConnectSteady ==
    ASSUME Items \subseteq {"note"}, NEW T, SyncInv(T), Connect
    PROVE  Steady'
<1>1. /\ TypeInv /\ EpochInv /\ replica \in ReplicaType /\ (replica.initialized => Neat(replica)) /\ Steady
  BY SyncFacts DEF SyncInv
<1>2. /\ status = "disconnected" /\ status' = "catching_up" /\ older' = None
      /\ recovery' = IF Recovery = "websocket" THEN CatchUp(replica) ELSE None
      /\ UNCHANGED <<epoch, rows, subscribed, down, scan, replica>>
  BY DEF Connect, server, wire
<1>3. ~subscribed
  BY <1>1, <1>2, EpochFacts DEF Kinds
<1>4. /\ WholePage(recovery') /\ AfterReaches(recovery', replica)
      /\ \A n, list : TailLossless(replica, epoch, n, list, recovery')
      /\ recovery' = None => Recovery = "http"
  <2>1. Recovery \in {"websocket", "http"}
    BY SyncAssumption
  <2>. QED
    BY <1>1, <1>2, <2>1, CatchUpReaches, NoRequest
<1>5. \A n, list : Lossless(subscribed, replica, epoch, n, list, recovery')
  BY <1>3 DEF Lossless
<1>6. Waits("catching_up", subscribed, replica, epoch, recovery', down)
  BY <1>3, <1>4 DEF Waits
<1>. QED
  BY <1>1, <1>2, <1>4, <1>5, <1>6, NoRequest DEF Steady

LEMMA DisconnectSteady ==
    ASSUME Items \subseteq {"note"}, NEW T, SyncInv(T), Disconnect
    PROVE  Steady'
<1>1. Steady
  BY DEF SyncInv
<1>2. /\ status' = "disconnected" /\ subscribed' = FALSE /\ recovery' = None /\ older' = None /\ scan' = None
      /\ UNCHANGED <<epoch, rows, replica>>
  BY DEF Disconnect, server
<1>3. \A n, list : Lossless(FALSE, replica, epoch, n, list, None) /\ Waits("disconnected", FALSE, replica, epoch, None, list)
  BY DEF Lossless, Waits
<1>. QED
  BY <1>1, <1>2, <1>3, NoRequest DEF Steady

LEMMA ReceiveSubscribedSteady ==
    ASSUME Items \subseteq {"note"}, NEW T, SyncInv(T), ReceiveSubscribed
    PROVE  Steady'
<1>1. /\ TypeInv /\ EpochInv /\ Content(T) /\ replica \in ReplicaType /\ (replica.initialized => Neat(replica))
      /\ down \in Seq(Message) /\ Len(rows) \in Nat
      /\ Single(replica.epoch, replica.entries)
      /\ WholePage(recovery) /\ WholePage(older) /\ WholePage(scan)
      /\ Unbroken(replica)
      /\ Lossless(subscribed, replica, epoch, Len(rows), down, recovery)
      /\ TailLossless(replica, epoch, Len(rows), down, recovery)
      /\ AfterReaches(recovery, replica) /\ BeforeReaches(older, replica) /\ AfterReaches(scan, replica)
      /\ Waits(status, subscribed, replica, epoch, recovery, down)
  BY SyncFacts
<1>2. /\ down # <<>> /\ Head(down).type = "subscribed"
      /\ UNCHANGED <<epoch, rows, subscribed, replica, older>>
      /\ IF Recovery = "http" /\ recovery = None
         THEN Fetch(CatchUp(replica), Tail(down))
         ELSE down' = Tail(down) /\ UNCHANGED <<recovery, status, scan>>
  BY DEF ReceiveSubscribed, server
<1>3. CASE Recovery = "http" /\ recovery = None
  <2>1. recovery' = CatchUp(replica) /\ status' = "catching_up" /\ scan' = None
    BY <1>2, <1>3 DEF Fetch
  <2>2. /\ recovery' # None /\ WholePage(recovery') /\ AfterReaches(recovery', replica)
        /\ \A n, list : TailLossless(replica, epoch, n, list, recovery')
        /\ \A sub, n, list : n \in Int => Lossless(sub, replica, epoch, n, list, recovery')
    BY <1>1, <2>1, CatchUpReaches
  <2>3. \A list : Waits("catching_up", subscribed, replica, epoch, recovery', list)
    BY <2>2 DEF Waits
  <2>4. Len(rows) \in Int
    BY <1>1
  <2>. QED
    BY <1>1, <1>2, <2>1, <2>2, <2>3, <2>4, NoRequest DEF Steady
<1>4. CASE ~(Recovery = "http" /\ recovery = None)
  <2>1. down' = Tail(down) /\ UNCHANGED <<recovery, status, scan>>
    BY <1>2, <1>4
  <2>2. Stream(down) \subseteq Stream(down') /\ (HasType(down, "replacement") => HasType(down', "replacement"))
    BY <1>1, <1>2, <2>1, ShortlistHas
  <2>3. ~Awaited(recovery, down)
    BY <1>4 DEF Awaited
  <2>4. Lossless(subscribed, replica, epoch, Len(rows), down', recovery)
    BY <1>1, <2>2, <2>3, LosslessStill
  <2>5. TailLossless(replica, epoch, Len(rows), down', recovery)
    BY <1>1, <2>2, TailStill
  <2>6. Waits(status, subscribed, replica, epoch, recovery, down')
    <3>1. status = "catching_up" /\ recovery = None => FALSE
      BY <1>1, <1>4 DEF Waits
    <3>. QED
      BY <1>1, <2>2, <3>1 DEF Waits
  <2>. QED
    BY <1>1, <1>2, <2>1, <2>4, <2>5, <2>6 DEF Steady
<1>. QED
  BY <1>3, <1>4

LEMMA AskOlderSteady ==
    ASSUME Items \subseteq {"note"}, NEW T, SyncInv(T), AskOlder
    PROVE  Steady'
<1>1. Steady /\ replica \in ReplicaType /\ (replica.initialized => Neat(replica) /\ Starts(replica.entries) \subseteq 1..Len(T[replica.epoch]))
      /\ replica.epoch \in 0..MaxEpochs /\ replica.entries \in Seq(EntryType)
  BY SyncFacts, ReplicaFields DEF SyncInv
<1>2. /\ replica.initialized /\ older' = Ask("before", replica.epoch, FirstStart(replica))
      /\ UNCHANGED <<epoch, rows, subscribed, down, status, recovery, scan, replica>>
  BY DEF AskOlder, server, wire
<1>3. FirstStart(replica) \in 0..MaxRows /\ FirstStart(replica) <= FirstStart(replica)
  <2>1. CASE replica.entries = <<>>
    BY <2>1, Constants DEF FirstStart
  <2>2. CASE replica.entries # <<>>
    <3>1. replica.entries[1] \in EntryType
      BY <1>1, <2>2
    <3>. QED
      BY <2>2, <3>1, EntryFields, Constants DEF FirstStart
  <2>. QED
    BY <2>1, <2>2
<1>4. WholePage(older') /\ BeforeReaches(older', replica)
  BY <1>1, <1>2, <1>3, NewRequest
<1>. QED
  BY <1>1, <1>2, <1>4 DEF Steady

LEMMA AskScanSteady ==
    ASSUME Items \subseteq {"note"}, NEW T, SyncInv(T), AskScan
    PROVE  Steady'
<1>1. /\ Steady /\ Content(T) /\ replica \in ReplicaType /\ (replica.initialized => Neat(replica))
      /\ replica.epoch \in 0..MaxEpochs /\ replica.next \in 1..MaxRows + 1
  BY SyncFacts, ReplicaFields DEF SyncInv
<1>2. /\ status = "ready"
      /\ UNCHANGED <<epoch, rows, subscribed, down, status, recovery, older, replica>>
  BY DEF AskScan, server, wire
<1>3. PICK seq \in FirstStart(replica) - 1..replica.next - 1 : scan' = Ask("after", replica.epoch, seq)
  BY DEF AskScan
<1>4. Neat(replica)
  BY <1>1, <1>2 DEF Content, ReadyPlaced
<1>5. seq \in 0..MaxRows /\ FirstStart(replica) <= seq + 1
  BY <1>1, <1>3, <1>4, Constants DEF Neat
<1>6. WholePage(scan') /\ AfterReaches(scan', replica)
  BY <1>1, <1>3, <1>5, NewRequest
<1>. QED
  BY <1>1, <1>2, <1>6 DEF Steady

LEMMA StutterSteady ==
    ASSUME NEW T, SyncInv(T), UNCHANGED vars
    PROVE  Steady'
<1>1. Steady
  BY DEF SyncInv
<1>2. UNCHANGED <<epoch, rows, subscribed, down, status, recovery, older, scan, replica>>
  BY DEF vars, server, wire, reads
<1>. QED
  BY <1>1, <1>2 DEF Steady

\* A fresh catch-up of a replica that shows nothing.
LEMMA FreshSteady ==
    ASSUME NEW r, ~r.initialized, r.entries = <<>>, NEW rq, rq = Ask("tail", 0, 0)
    PROVE  /\ Single(r.epoch, r.entries) /\ Unbroken(r)
           /\ rq # None /\ WholePage(rq) /\ AfterReaches(rq, r)
           /\ \A sub, e, n, list : Lossless(sub, r, e, n, list, rq) /\ TailLossless(r, e, n, list, rq)
           /\ \A sub, e, list : Waits("catching_up", sub, r, e, rq, list)
<1>1. 0 \in 0..MaxEpochs /\ 0 \in 0..MaxRows
  BY Constants
<1>2. /\ rq # None /\ WholePage(rq) /\ AfterReaches(rq, r)
      /\ \A e, n, list : TailLossless(r, e, n, list, rq)
  BY <1>1, NewRequest
<1>3. Single(r.epoch, r.entries) /\ Unbroken(r)
  BY DEF Single, Unbroken, ToSet
<1>. QED
  BY <1>2, <1>3 DEF Lossless, Waits

LEMMA ReceiveReplacementSteady ==
    ASSUME Items \subseteq {"note"}, NEW T, SyncInv(T), ReceiveReplacement
    PROVE  Steady'
<1>1. /\ TypeInv /\ EpochInv /\ replica \in ReplicaType /\ replica.epoch \in Int
      /\ down \in Seq(Message) /\ WholePage(older) /\ older \in {None} \cup Request /\ Content(T)
  BY SyncFacts
<1>2. /\ down # <<>> /\ Head(down).type = "replacement" /\ replica' = Replaced(replica, Head(down).epoch)
      /\ recovery' = Ask("tail", 0, 0) /\ status' = "catching_up" /\ scan' = None
      /\ UNCHANGED <<epoch, rows, subscribed, older>>
  BY DEF ReceiveReplacement, Fetch, server
<1>. DEFINE e == Head(down).epoch
<1>3. e \in Int /\ replica.epoch < e
  <2>1. WireEpochs(down, replica.epoch, epoch)
    BY <1>1, EpochFacts
  <2>2. 1 \in DOMAIN down /\ Head(down) = down[1]
    BY <1>1, <1>2, TailIs
  <2>3. e \in 1..MaxEpochs
    BY <1>1, <1>2, HeadType
  <2>. QED
    BY <1>2, <2>1, <2>2, <2>3, Constants DEF WireEpochs, Carries
<1>4. replica' = EmptyReplica(e, replica.retired \cup ({replica.epoch} \ {0, e}))
  BY <1>1, <1>2, <1>3 DEF Replaced
<1>5. ~replica'.initialized /\ replica'.entries = <<>> /\ replica'.epoch = e
  BY <1>4 DEF EmptyReplica
<1>6. BeforeReaches(older, replica')
  <2>1. older # None => older.epoch <= replica.epoch /\ older.epoch \in Int
    BY <1>1, RequestFields, Constants DEF Content, OlderPlaced
  <2>. QED
    BY <1>1, <1>3, <1>5, <2>1 DEF BeforeReaches
<1>7. /\ Single(replica'.epoch, replica'.entries) /\ Unbroken(replica')
      /\ WholePage(recovery') /\ AfterReaches(recovery', replica')
      /\ \A sub, x, n, list : Lossless(sub, replica', x, n, list, recovery') /\ TailLossless(replica', x, n, list, recovery')
      /\ \A sub, x, list : Waits("catching_up", sub, replica', x, recovery', list)
  BY <1>2, <1>5, FreshSteady
<1>. QED
  BY <1>1, <1>2, <1>6, <1>7, NoRequest DEF Steady

-----------------------------------------------------------------------------
(* The steps that change the display.                                      *)

\* What is on display after a step.
LEMMA NewNeat ==
    ASSUME TypeInv', EpochInv', NEW U, Content(U)'
    PROVE  /\ replica' \in ReplicaType /\ replica'.next \in Int /\ replica'.epoch \in Int
           /\ U \in [1..MaxEpochs -> Rows] /\ U[epoch'] = rows'
           /\ replica'.initialized =>
                 /\ Neat(replica') /\ FirstStart(replica') \in Int /\ replica'.epoch \in 1..MaxEpochs
                 /\ Len(U[replica'.epoch]) \in Nat /\ replica'.next <= Len(U[replica'.epoch]) + 1
           /\ ~replica'.initialized => replica'.entries = <<>> /\ FirstStart(replica') = 1
           /\ RecoveryPlaced(recovery', replica') /\ ReadyPlaced(status', recovery', scan', replica')
<1>1. /\ replica' \in ReplicaType /\ ReplicaEpochs(replica', epoch')
  BY DEF TypeInv, TypeOK, EpochInv
<1>. DEFINE low == LowOf(recovery', replica')
<1>2. /\ U \in [1..MaxEpochs -> Rows] /\ U[epoch'] = rows' /\ ReplicaContent(U, replica', down', low)
      /\ RecoveryPlaced(recovery', replica') /\ ReadyPlaced(status', recovery', scan', replica')
  BY DEF Content
<1>. HIDE DEF low
<1>3. replica'.next \in Int /\ replica'.epoch \in 0..MaxEpochs /\ replica'.epoch \in Int
  BY <1>1, ReplicaFields, Constants
<1>4. CASE replica'.initialized
  <2>1. replica'.epoch # 0
    BY <1>1, <1>4 DEF ReplicaEpochs
  <2>2. Neat(replica') /\ Len(U[replica'.epoch]) \in Nat /\ replica'.next <= Len(U[replica'.epoch]) + 1
    BY <1>1, <1>2, <1>4, <2>1, ContentNeat
  <2>3. FirstStart(replica') \in Int
    BY <2>2 DEF Neat
  <2>4. replica'.epoch \in 1..MaxEpochs
    BY <1>3, <2>1, Constants
  <2>. QED
    BY <1>1, <1>2, <1>3, <1>4, <2>2, <2>3, <2>4
<1>5. CASE ~replica'.initialized
  BY <1>1, <1>2, <1>3, <1>5 DEF ReplicaEpochs, FirstStart
<1>. QED
  BY <1>4, <1>5

\* Reads keep starting within a display that only widens.
LEMMA ReachOn ==
    ASSUME Items \subseteq {"note"}, NEW T, SyncInv(T), NEW d, d.epoch \in Int, replica.epoch <= d.epoch,
           FirstStart(d) \in Int, replica.epoch = d.epoch /\ replica.initialized => FirstStart(d) <= FirstStart(replica)
    PROVE  /\ BeforeReaches(older, d)
           /\ FirstStart(d) <= FirstStart(replica) => AfterReaches(recovery, d) /\ AfterReaches(scan, d)
<1>1. /\ Content(T) /\ replica.epoch \in Int /\ BeforeReaches(older, replica)
      /\ AfterReaches(recovery, replica) /\ AfterReaches(scan, replica)
      /\ recovery \in {None} \cup Request /\ older \in {None} \cup Request /\ scan \in {None} \cup Request
      /\ replica.initialized => Neat(replica)
      /\ ~replica.initialized => replica.entries = <<>>
  BY SyncFacts
<1>2. FirstStart(replica) \in Int
  BY <1>1 DEF Neat, FirstStart
<1>3. \A rq \in {recovery, older, scan} : rq # None => rq.seq \in Int /\ rq.epoch \in Int
  BY <1>1, RequestFields, Constants
<1>4. older # None => older.epoch <= replica.epoch /\ (older.epoch = replica.epoch => replica.initialized)
  BY <1>1 DEF Content, OlderPlaced
<1>5. ASSUME older # None, older.epoch = d.epoch PROVE FirstStart(d) <= older.seq
  <2>1. older.epoch = replica.epoch /\ replica.epoch = d.epoch
    BY <1>1, <1>3, <1>4, <1>5
  <2>2. FirstStart(replica) <= older.seq /\ FirstStart(d) <= FirstStart(replica)
    BY <1>1, <1>4, <1>5, <2>1 DEF BeforeReaches
  <2>3. older.seq \in Int
    BY <1>3, <1>5
  <2>. QED
    BY <1>2, <2>2, <2>3
<1>6. ASSUME FirstStart(d) <= FirstStart(replica), NEW rq \in {recovery, scan}, rq # None, rq.direction = "after"
      PROVE  FirstStart(d) <= rq.seq + 1
  <2>1. FirstStart(replica) <= rq.seq + 1 /\ rq.seq \in Int
    BY <1>1, <1>3, <1>6 DEF AfterReaches
  <2>. QED
    BY <1>2, <1>6, <2>1
<1>. QED
  BY <1>5, <1>6 DEF BeforeReaches, AfterReaches

\* Nothing is lost to a display that moves on.
LEMMA MovedSteady ==
    ASSUME Items \subseteq {"note"}, NEW T, SyncInv(T), NEW d, replica.initialized, d.initialized,
           d.epoch = replica.epoch, d.next \in Int, replica.next <= d.next,
           Starts(replica.entries) \subseteq Starts(d.entries), NEW rest,
           \A q \in d.next..Len(rows) : Comes(replica, down, epoch, q) => Comes(d, rest, epoch, q),
           status = "ready" => d.pending = {},
           \A type \in {"replacement", "subscribed"} : HasType(down, type) => HasType(rest, type)
    PROVE  /\ Lossless(subscribed, d, epoch, Len(rows), rest, recovery)
           /\ TailLossless(d, epoch, Len(rows), rest, recovery)
           /\ Waits(status, subscribed, d, epoch, recovery, rest)
<1>1. /\ Content(T) /\ replica.next \in Nat /\ Len(rows) \in Nat
      /\ Lossless(subscribed, replica, epoch, Len(rows), down, recovery)
      /\ Waits(status, subscribed, replica, epoch, recovery, down)
  BY SyncFacts
<1>2. recovery # None => recovery.direction # "tail"
  BY <1>1 DEF Content, RecoveryPlaced
<1>3. Awaited(recovery, down) => Awaited(recovery, rest)
  BY DEF Awaited
<1>4. ASSUME subscribed, d.epoch = epoch, NEW q \in d.next..Len(rows)
      PROVE  q \in Starts(d.entries) \/ Comes(d, rest, epoch, q) \/ Seeks(recovery, q) \/ Awaited(recovery, rest)
  <2>1. q \in replica.next..Len(rows)
    BY <1>1
  <2>2. q \in Starts(replica.entries) \/ Comes(replica, down, epoch, q) \/ Seeks(recovery, q) \/ Awaited(recovery, down)
    BY <1>1, <1>4, <2>1 DEF Lossless
  <2>. QED
    BY <1>3, <1>4, <2>2
<1>5. Lossless(subscribed, d, epoch, Len(rows), rest, recovery)
  BY <1>4 DEF Lossless
<1>6. TailLossless(d, epoch, Len(rows), rest, recovery)
  BY <1>2 DEF TailLossless
<1>7. Waits(status, subscribed, d, epoch, recovery, rest)
  BY <1>1, <1>3 DEF Waits
<1>. QED
  BY <1>5, <1>6, <1>7

\* The display is given up for a fresh catch-up.
LEMMA RestartSteady ==
    ASSUME Items \subseteq {"note"}, NEW T, SyncInv(T), UNCHANGED <<epoch, rows, subscribed, older>>,
           ~replica'.initialized, replica'.entries = <<>>, replica'.epoch \in Int, replica.epoch < replica'.epoch,
           recovery' = Ask("tail", 0, 0), status' = "catching_up", scan' = None
    PROVE  Steady'
<1>1. WholePage(older) /\ replica.epoch \in Int
  BY SyncFacts
<1>2. /\ Single(replica'.epoch, replica'.entries) /\ Unbroken(replica')
      /\ WholePage(recovery') /\ AfterReaches(recovery', replica')
      /\ \A sub, x, n, list : Lossless(sub, replica', x, n, list, recovery') /\ TailLossless(replica', x, n, list, recovery')
      /\ \A sub, x, list : Waits("catching_up", sub, replica', x, recovery', list)
  BY FreshSteady
<1>3. BeforeReaches(older, replica')
  <2>1. FirstStart(replica') = 1 /\ replica.epoch <= replica'.epoch /\ replica.epoch # replica'.epoch
    BY <1>1 DEF FirstStart
  <2>. QED
    BY <2>1, ReachOn
<1>. QED
  BY <1>1, <1>2, <1>3, NoRequest DEF Steady

LEMMA ReceiveStreamSteady ==
    ASSUME Items \subseteq {"note"}, NEW T, SyncInv(T), TypeInv', EpochInv', NEW U, Content(U)', ReceiveStream
    PROVE  Steady'
<1>. DEFINE m == [epoch |-> Head(down).epoch, seq |-> Head(down).seq, item |-> Head(down).item]
            reduction == ReduceLive(replica, m)
            rest == Tail(down)
            h == Head(down)
<1>1. /\ down # <<>> /\ h.type = "stream" /\ Follow(reduction, rest)
      /\ UNCHANGED <<epoch, rows, subscribed, older>> /\ replica' = reduction.replica
  BY DEF ReceiveStream, Follow, server
<1>2. /\ TypeInv /\ EpochInv /\ Content(T) /\ epoch \in Int /\ Len(rows) \in Nat
      /\ replica \in ReplicaType /\ down \in Seq(Message) /\ replica.epoch \in Int
      /\ replica.next \in Nat
      /\ replica.initialized => Neat(replica)
      /\ ~replica.initialized => replica.entries = <<>>
      /\ Single(replica.epoch, replica.entries)
      /\ WholePage(recovery) /\ WholePage(older) /\ WholePage(scan)
      /\ Unbroken(replica)
      /\ TailLossless(replica, epoch, Len(rows), down, recovery)
      /\ AfterReaches(recovery, replica) /\ AfterReaches(scan, replica)
      /\ Waits(status, subscribed, replica, epoch, recovery, down)
  BY SyncFacts
<1>3. /\ m \in Row /\ rest \in Seq(Message) /\ h \in Message /\ Carries(h)
      /\ m.epoch = h.epoch /\ m.seq = h.seq /\ m.item = h.item
      /\ m.epoch \in 1..MaxEpochs /\ m.epoch \in Int /\ m.seq \in Int
  <2>1. m \in Row /\ rest \in Seq(Message) /\ h \in Message /\ Carries(h) /\ m.epoch = h.epoch /\ m.seq = h.seq /\ m.item = h.item
    BY <1>1, <1>2, HeadType DEF Carries
  <2>2. m.epoch \in 1..MaxEpochs /\ m.seq \in 1..MaxRows
    BY <2>1 DEF Row
  <2>. QED
    BY <2>1, <2>2, Constants
<1>4. ReplicaEpochs(replica, epoch) /\ replica.epoch <= m.epoch /\ m.epoch <= epoch
  <2>1. ReplicaEpochs(replica, epoch) /\ WireEpochs(down, replica.epoch, epoch)
    BY <1>2, EpochFacts
  <2>2. Head(down) = down[1] /\ 1 \in DOMAIN down
    BY <1>1, <1>2, TailIs
  <2>. QED
    BY <1>3, <2>1, <2>2 DEF WireEpochs
<1>5. /\ \A x \in Stream(down) : x \in Stream(rest) \/ x = h
      /\ \A type \in {"replacement", "subscribed"} : HasType(down, type) => HasType(rest, type)
  BY <1>1, <1>2, ShortlistHas
<1>6. /\ replica' \in ReplicaType /\ replica'.next \in Int /\ replica'.epoch \in Int
      /\ replica'.initialized => Neat(replica') /\ FirstStart(replica') \in Int
      /\ ~replica'.initialized => replica'.entries = <<>> /\ FirstStart(replica') = 1
  BY NewNeat
<1>. HIDE DEF m, rest, h
<1>7. /\ reduction.replica.epoch = m.epoch
      /\ reduction.status \in {"applied", "buffered", "duplicate", "gap", "epoch_changed"}
      /\ reduction.status # "epoch_changed" => replica.epoch \in {0, m.epoch}
      /\ reduction.status \notin {"epoch_changed", "buffered"} => replica.epoch = m.epoch
  BY <1>2, <1>3, <1>4, LiveEpochs
<1>8. reduction = IF replica.epoch \notin {0, m.epoch} THEN Reduced("epoch_changed", Buffered(Replaced(replica, m.epoch), m))
                  ELSE IF ~replica.initialized THEN Reduced("buffered", Buffered([replica EXCEPT !.epoch = m.epoch], m))
                  ELSE IF m.seq < replica.next THEN Reduced("duplicate", replica)
                  ELSE IF m.seq > replica.next THEN Reduced("gap", Buffered(replica, m))
                  ELSE Reduced("applied", Appended(replica, m))
  BY <1>7 DEF ReduceLive, Reduced
<1>9. \A st, r : Reduced(st, r).status = st /\ Reduced(st, r).replica = r
  BY DEF Reduced
<1>10. replica \in [epoch : 0..MaxEpochs, initialized : BOOLEAN, entries : Seq(EntryType),
     next : 1..MaxRows + 1, hasOlder : BOOLEAN,
     pending : SUBSET [epoch : 1..MaxEpochs, seq : 1..MaxRows, item : Items],
     retired : SUBSET (1..MaxEpochs)]
  BY <1>2 DEF ReplicaType
<1>. HIDE DEF reduction
<1>11. CASE reduction.status = "epoch_changed"
  <2>1. replica.epoch \notin {0, m.epoch} /\ replica' = Buffered(Replaced(replica, m.epoch), m)
    BY <1>1, <1>8, <1>9, <1>11
  <2>2. ~replica'.initialized
    BY <2>1 DEF Replaced, EmptyReplica, Buffered
  <2>3. recovery' = Ask("tail", 0, 0) /\ status' = "catching_up" /\ scan' = None
    BY <1>1, <1>11 DEF Follow, Fetch
  <2>4. replica'.epoch = m.epoch /\ replica.epoch < replica'.epoch
    BY <1>1, <1>2, <1>3, <1>4, <1>7, <2>1
  <2>. QED
    BY <1>1, <1>6, <2>2, <2>3, <2>4, RestartSteady
\* Otherwise the catch-up that runs, if any, goes on.
<1>12. ASSUME UNCHANGED <<recovery, status, scan>>, down' = rest,
              FirstStart(replica') <= FirstStart(replica), Single(replica'.epoch, replica'.entries), Unbroken(replica'),
              Lossless(subscribed, replica', epoch, Len(rows), rest, recovery),
              TailLossless(replica', epoch, Len(rows), rest, recovery),
              Waits(status, subscribed, replica', epoch, recovery, rest)
       PROVE  Steady'
  <2>1. replica.epoch <= replica'.epoch /\ FirstStart(replica') \in Int
    BY <1>1, <1>4, <1>6, <1>7
  <2>2. BeforeReaches(older, replica') /\ AfterReaches(recovery, replica') /\ AfterReaches(scan, replica')
    BY <1>6, <1>12, <2>1, ReachOn
  <2>. QED
    BY <1>1, <1>2, <1>12, <2>2 DEF Steady
\* A row that is now buffered has not gone.
<1>13. ASSUME NEW q, \A p \in replica.pending : p \in replica'.pending, m \in replica'.pending, Comes(replica, down, epoch, q)
       PROVE  Comes(replica', rest, epoch, q)
  BY <1>3, <1>5, <1>13 DEF Comes
<1>14. CASE reduction.status = "buffered"
  <2>1. ~replica.initialized /\ replica' = Buffered([replica EXCEPT !.epoch = m.epoch], m)
    BY <1>1, <1>8, <1>9, <1>14
  <2>2. /\ replica'.initialized = FALSE /\ replica'.entries = replica.entries /\ replica'.epoch = m.epoch
        /\ replica'.pending = replica.pending \cup {m}
    BY <1>10, <2>1 DEF Buffered
  <2>3. UNCHANGED <<recovery, status, scan>> /\ down' = rest
    BY <1>1, <1>14 DEF Follow
  <2>4. FirstStart(replica') <= FirstStart(replica)
    BY <1>6, <2>1, <2>2 DEF FirstStart
  <2>5. Single(replica'.epoch, replica'.entries) /\ Unbroken(replica')
    BY <1>6, <2>2 DEF Single, Unbroken, ToSet
  <2>6. Lossless(subscribed, replica', epoch, Len(rows), rest, recovery)
    BY <2>2 DEF Lossless
  <2>7. TailLossless(replica', epoch, Len(rows), rest, recovery)
    BY <1>2, <1>13, <2>2 DEF TailLossless
  <2>8. status # "ready"
    BY <1>2, <2>1 DEF Content, ReadyPlaced
  <2>9. Waits(status, subscribed, replica', epoch, recovery, rest)
    BY <1>2, <1>5, <2>8 DEF Waits, Awaited
  <2>. QED
    BY <1>12, <2>3, <2>4, <2>5, <2>6, <2>7, <2>9
<1>15. CASE reduction.status = "duplicate"
  <2>1. replica.initialized /\ m.seq < replica.next /\ replica' = replica
    BY <1>1, <1>8, <1>9, <1>15
  <2>2. UNCHANGED <<recovery, status, scan>> /\ down' = rest
    BY <1>1, <1>15 DEF Follow
  <2>3. \A q \in replica'.next..Len(rows) : Comes(replica, down, epoch, q) => Comes(replica', rest, epoch, q)
    <3>1. \A q \in replica'.next..Len(rows) : q # m.seq
      BY <1>2, <1>3, <2>1
    <3>. QED
      BY <1>3, <1>5, <2>1, <3>1 DEF Comes
  <2>4. /\ Lossless(subscribed, replica', epoch, Len(rows), rest, recovery)
        /\ TailLossless(replica', epoch, Len(rows), rest, recovery)
        /\ Waits(status, subscribed, replica', epoch, recovery, rest)
    <3>1. status = "ready" => replica'.pending = {}
      BY <1>2, <2>1 DEF Waits
    <3>2. replica.next <= replica'.next
      BY <1>2, <2>1
    <3>. QED
      BY <1>5, <1>6, <2>1, <2>3, <3>1, <3>2, MovedSteady
  <2>5. FirstStart(replica') <= FirstStart(replica)
    BY <1>6, <2>1
  <2>. QED
    BY <1>2, <1>12, <2>1, <2>2, <2>4, <2>5
<1>16. CASE reduction.status = "gap"
  <2>1. replica.initialized /\ replica' = Buffered(replica, m)
    BY <1>1, <1>8, <1>9, <1>16
  <2>2. /\ replica'.initialized /\ replica'.entries = replica.entries /\ replica'.epoch = replica.epoch
        /\ replica'.next = replica.next /\ replica'.pending = replica.pending \cup {m}
    BY <1>10, <2>1 DEF Buffered
  <2>3. FirstStart(replica') = FirstStart(replica) /\ FirstStart(replica') <= FirstStart(replica)
    BY <1>6, <2>2 DEF FirstStart
  <2>4. Single(replica'.epoch, replica'.entries) /\ Unbroken(replica')
    BY <1>2, <2>1, <2>2, <2>3 DEF Unbroken
  <2>5. CASE recovery = None
    <3>1. recovery' = CatchUp(replica') /\ status' = "catching_up" /\ scan' = None
      BY <1>1, <1>16, <2>2, <2>5 DEF Follow, Fetch, CatchUp
    <3>2. /\ recovery' # None /\ WholePage(recovery') /\ \A x, e, n, list : TailLossless(x, e, n, list, recovery')
          /\ AfterReaches(recovery', replica')
          /\ \A sub, e, n, list : n \in Int => Lossless(sub, replica', e, n, list, recovery')
      BY <1>6, <3>1, CatchUpReaches
    <3>3. BeforeReaches(older, replica')
      <4>1. replica.epoch <= replica'.epoch
        BY <1>2, <2>2
      <4>. QED
        BY <1>6, <2>2, <2>3, <4>1, ReachOn
    <3>4. Waits("catching_up", subscribed, replica', epoch, recovery', down')
      BY <3>2 DEF Waits
    <3>5. Len(rows) \in Int
      BY <1>2
    <3>. QED
      BY <1>1, <1>2, <2>4, <3>1, <3>2, <3>3, <3>4, <3>5, NoRequest DEF Steady
  <2>6. CASE recovery # None
    <3>1. UNCHANGED <<recovery, status, scan>> /\ down' = rest
      BY <1>1, <1>16, <2>6 DEF Follow
    <3>2. status # "ready"
      BY <1>2, <2>6 DEF Content, ReadyPlaced
    <3>3. \A q \in replica'.next..Len(rows) : Comes(replica, down, epoch, q) => Comes(replica', rest, epoch, q)
      BY <1>13, <2>2
    <3>4. /\ Lossless(subscribed, replica', epoch, Len(rows), rest, recovery)
          /\ TailLossless(replica', epoch, Len(rows), rest, recovery)
          /\ Waits(status, subscribed, replica', epoch, recovery, rest)
      <4>1. replica.next <= replica'.next
        BY <1>2, <2>2
      <4>. QED
        BY <1>5, <1>6, <2>1, <2>2, <3>2, <3>3, <4>1, MovedSteady
    <3>. QED
      BY <1>12, <2>3, <2>4, <3>1, <3>4
  <2>. QED
    BY <2>5, <2>6
<1>17. CASE reduction.status = "applied"
  <2>1. replica.initialized /\ m.seq = replica.next /\ replica' = Appended(replica, m) /\ replica.epoch = m.epoch
    BY <1>1, <1>2, <1>3, <1>7, <1>8, <1>9, <1>17
  <2>2. /\ replica'.initialized /\ replica'.epoch = replica.epoch /\ replica'.next = m.seq + 1
        /\ replica'.pending = {p \in replica.pending : p.seq # m.seq}
    BY <1>2, <1>3, <2>1, AppendedIs
  <2>3. Single(replica'.epoch, replica'.entries) /\ Starts(replica'.entries) = Starts(replica.entries) \cup {m.seq}
    BY <1>2, <1>3, <2>1, <2>2, NoteAppended
  <2>4. UNCHANGED <<recovery, status, scan>> /\ down' = rest
    BY <1>1, <1>17 DEF Follow
  <2>5. Unbroken(replica') /\ FirstStart(replica') <= FirstStart(replica)
    <3>. DEFINE S == {}
                w == replica.next
    <3>1. w..replica'.next - 1 = {m.seq}
      BY <1>2, <1>3, <2>1, <2>2
    <3>2. Starts(replica'.entries) = Starts(replica.entries) \cup S \cup (w..replica'.next - 1)
      BY <2>3, <3>1
    <3>3. FirstStart(replica) <= w /\ w \in Nat
      BY <1>2, <2>1 DEF Neat
    <3>4. /\ \A q \in replica.next..w - 1 : q \in S
          /\ \A s \in S : \A q \in s..FirstStart(replica) - 1 : q \in S
      BY <1>2
    <3>. HIDE DEF w, S
    <3>. QED
      BY <1>2, <1>6, <2>1, <2>2, <3>2, <3>3, <3>4, WidenedUnbroken
  <2>6. \A q \in replica'.next..Len(rows) : Comes(replica, down, epoch, q) => Comes(replica', rest, epoch, q)
    <3>1. \A q \in replica'.next..Len(rows) : q # m.seq
      BY <1>3, <2>2
    <3>. QED
      BY <1>3, <1>5, <2>2, <3>1 DEF Comes
  <2>7. /\ Lossless(subscribed, replica', epoch, Len(rows), rest, recovery)
        /\ TailLossless(replica', epoch, Len(rows), rest, recovery)
        /\ Waits(status, subscribed, replica', epoch, recovery, rest)
    <3>1. status = "ready" => replica'.pending = {}
      BY <1>2, <2>2 DEF Waits
    <3>2. replica.next <= replica'.next /\ Starts(replica.entries) \subseteq Starts(replica'.entries)
      BY <1>2, <1>3, <2>1, <2>2, <2>3
    <3>. QED
      BY <1>5, <1>6, <2>1, <2>2, <2>6, <3>1, <3>2, MovedSteady
  <2>. QED
    BY <1>12, <2>3, <2>4, <2>5, <2>7
<1>. QED
  BY <1>7, <1>11, <1>14, <1>15, <1>16, <1>17

LEMMA ReceiveOlderSteady ==
    ASSUME Items \subseteq {"note"}, NEW T, SyncInv(T), TypeInv', EpochInv', NEW U, Content(U)', ReceiveOlder
    PROVE  Steady'
<1>. DEFINE rq == older
            page == rq.page
            w == LaterOf(replica, page, FALSE)
<1>1. /\ rq # None /\ page # None /\ older' = None
      /\ UNCHANGED <<epoch, rows, subscribed, down, status, recovery, scan>>
      /\ replica' = IF page.epoch # replica.epoch \/ page.reset THEN replica
                    ELSE ApplyPage(replica, page, FALSE).replica
  BY DEF ReceiveOlder, server, wire
<1>2. /\ TypeInv /\ EpochInv /\ Content(T) /\ Steady /\ Len(rows) \in Nat
      /\ T \in [1..MaxEpochs -> Rows] /\ older \in {None} \cup Request
      /\ replica \in ReplicaType /\ replica.epoch \in Int /\ replica.next \in Nat
      /\ replica.initialized => Neat(replica)
      /\ Single(replica.epoch, replica.entries)
      /\ WholePage(recovery) /\ WholePage(older) /\ WholePage(scan)
      /\ Unbroken(replica) /\ BeforeReaches(older, replica)
      /\ Waits(status, subscribed, replica, epoch, recovery, down)
  BY SyncFacts DEF SyncInv
<1>3. CASE page.epoch # replica.epoch \/ page.reset
  <2>1. replica' = replica
    BY <1>1, <1>3
  <2>. QED
    BY <1>1, <1>2, <2>1, NoRequest DEF Steady
<1>4. CASE ~(page.epoch # replica.epoch \/ page.reset)
  <2>1. rq.direction = "before" /\ RequestContent(T, rq) /\ PageEpochs(rq, epoch) /\ rq \in Request
        /\ OlderPlaced(T, rq, replica, LowOf(recovery, replica))
    BY <1>1, <1>2, EpochFacts DEF Content, Kinds, RequestEpochs
  <2>2. /\ page \in PageType /\ page.direction = "before" /\ ~page.reset /\ ~page.gap /\ page.epoch = rq.epoch /\ rq.seq \in Nat
    <3>. HIDE DEF rq
    <3>. QED
      BY <1>1, <1>2, <1>4, <2>1, PageOfRequest
  <2>3. replica.initialized
    BY <1>1, <1>4, <2>1, <2>2 DEF OlderPlaced
  <2>4. /\ Single(page.epoch, page.entries)
        /\ \A c \in ToSet(page.entries) : c.start..rq.seq - 1 \subseteq Starts(page.entries)
    BY <1>1, <1>2, <2>1, <2>2 DEF WholePage
  <2>5. FirstStart(replica) <= rq.seq /\ FirstStart(replica) \in Nat /\ Neat(replica)
    BY <1>1, <1>2, <1>4, <2>2, <2>3 DEF BeforeReaches, Neat
  <2>6. replica' = ApplyPage(replica, page, FALSE).replica
    BY <1>1, <1>4
  <2>7. w = replica.next
    BY <2>2 DEF LaterOf, NextOf
  <2>. DEFINE st == ApplyPage(replica, page, FALSE).status
  <2>8. NoteLands(replica, replica', page, w, replica.entries, st)
    <3>1. FALSE \in BOOLEAN /\ w = LaterOf(replica, page, FALSE) /\ page.epoch = replica.epoch /\ page.direction # "tail"
      BY <1>4, <2>2
    <3>2. /\ Items \subseteq {"note"} /\ replica \in ReplicaType /\ page \in PageType /\ ~page.gap /\ ~page.reset
          /\ Single(replica.epoch, replica.entries)
      BY <1>2, <2>2
    <3>. HIDE DEF w, page
    <3>. QED
      BY ONLY <2>3, <2>4, <2>6, <3>1, <3>2, NoteApplied
  <2>. HIDE DEF st
  <2>. HIDE DEF w
  <2>9. /\ replica'.epoch = replica.epoch /\ replica'.initialized /\ replica.next <= replica'.next
        /\ Single(replica'.epoch, replica'.entries)
        /\ replica'.pending = {m \in replica.pending : m.epoch = page.epoch /\ m.seq >= replica'.next}
    BY <1>4, <2>7, <2>8 DEF NoteLands
  <2>10. /\ replica'.next \in Int /\ replica'.epoch \in Int /\ Neat(replica') /\ FirstStart(replica') \in Int
    BY <2>9, NewNeat
  <2>11. Unbroken(replica') /\ FirstStart(replica') <= FirstStart(replica)
    <3>. DEFINE S == Starts(page.entries)
    <3>1. \A s \in S : s..rq.seq - 1 \subseteq S
      BY <2>4, StartsAre
    <3>2. S \subseteq Int
      <4>1. page.entries \in Seq(EntryType)
        BY <2>2, PageFields
      <4>. QED
        BY <4>1, EntryFields DEF Starts
    <3>. HIDE DEF S
    <3>3. \A s \in S : \A q \in s..FirstStart(replica) - 1 : q \in S
      <4>1. \A s \in S : \A q \in s..FirstStart(replica) - 1 : q \in s..rq.seq - 1
        BY <2>2, <2>5, <3>2
      <4>. QED
        BY <3>1, <4>1
    <3>4. \A q \in replica.next..w - 1 : q \in S
      BY <1>2, <2>7
    <3>5. FirstStart(replica) <= w /\ w \in Nat
      BY <1>2, <2>5, <2>7 DEF Neat
    <3>6. Starts(replica'.entries) = Starts(replica.entries) \cup S \cup (w..replica'.next - 1)
      BY <2>8 DEF S, NoteLands
    <3>. QED
      BY <1>2, <2>3, <2>5, <2>10, <3>3, <3>4, <3>5, <3>6, WidenedUnbroken
  <2>12. \A q \in replica'.next..Len(rows) : Comes(replica, down, epoch, q) => Comes(replica', down, epoch, q)
    <3>1. ASSUME NEW m \in replica.pending, NEW q \in replica'.next..Len(rows), m.seq = q PROVE m \in replica'.pending
      <4>1. m.epoch = replica.epoch
        BY <1>2, EpochFacts DEF ReplicaEpochs
      <4>2. m.seq >= replica'.next
        BY <2>10, <3>1
      <4>. QED
        BY <1>4, <2>9, <4>1, <4>2
    <3>. QED
      BY <3>1 DEF Comes
  <2>13. /\ Lossless(subscribed, replica', epoch, Len(rows), down, recovery)
         /\ TailLossless(replica', epoch, Len(rows), down, recovery)
         /\ Waits(status, subscribed, replica', epoch, recovery, down)
    <3>1. status = "ready" => replica'.pending = {}
      BY <1>2, <2>9 DEF Waits
    <3>2. Starts(replica.entries) \subseteq Starts(replica'.entries)
      BY <2>8 DEF NoteLands
    <3>. QED
      BY <2>3, <2>9, <2>10, <2>12, <3>1, <3>2, MovedSteady
  <2>14. AfterReaches(recovery, replica') /\ AfterReaches(scan, replica')
    <3>1. replica.epoch <= replica'.epoch
      BY <1>2, <2>9
    <3>. QED
      BY <2>10, <2>11, <3>1, ReachOn
  <2>. QED
    BY <1>1, <1>2, <2>9, <2>11, <2>13, <2>14, NoRequest DEF Steady
<1>. QED
  BY <1>3, <1>4

\* What a page of the rows after seq adds, where seq is on display or adjoins it.
NoteWidens(r, d, page, w, seq, n, st) ==
    /\ NoteLands(r, d, page, w, r.entries, st)
    /\ seq <= n /\ NextBy(page) = n + 1 /\ (page.hasNewer => page.end = n)
    /\ Unbroken(d) /\ FirstStart(d) <= FirstStart(r)
    /\ \A q \in seq + 1..n : q \in Starts(page.entries)

LEMMA AfterWidens ==
    ASSUME Items \subseteq {"note"}, NEW r \in ReplicaType, r.initialized, Neat(r), Unbroken(r), Single(r.epoch, r.entries),
           NEW items \in Seq(Items), NEW n \in 0..Len(items), NEW page \in PageType, page.epoch = r.epoch, page.direction = "after",
           ~page.reset, ~page.gap, Single(page.epoch, page.entries),
           NEW seq \in Nat, FirstStart(r) <= seq + 1, seq < r.next,
           PageHolds(items, "after", seq, page, n), \A c \in ToSet(page.entries) : seq < c.start,
           NEW preserve \in BOOLEAN, NEW d, d = ApplyPage(r, page, preserve).replica, Neat(d),
           NEW w, w = LaterOf(r, page, preserve)
    PROVE  NoteWidens(r, d, page, w, seq, n, ApplyPage(r, page, preserve).status)
<1>. DEFINE S == Starts(page.entries)
            f == FirstStart(r)
<1>1. /\ NoteLands(r, d, page, w, r.entries, ApplyPage(r, page, preserve).status)
      /\ Starts(d.entries) = Starts(r.entries) \cup S \cup (w..d.next - 1)
  <2>1. page.direction # "tail"
    OBVIOUS
  <2>2. NoteLands(r, d, page, w, r.entries, ApplyPage(r, page, preserve).status)
    BY <2>1, NoteApplied
  <2>. QED
    BY <2>2 DEF NoteLands
<1>2. /\ seq <= n /\ NextBy(page) = n + 1 /\ (page.hasNewer => page.end = n) /\ n \in Nat
      /\ \A q \in seq + 1..n : Leader(items, q) => \E c \in ToSet(page.entries) : c.start = q
  BY DEF PageHolds
<1>3. \A q \in seq + 1..n : q \in S
  <2>. TAKE q \in seq + 1..n
  <2>1. q \in 1..Len(items)
    BY <1>2
  <2>2. Leader(items, q)
    BY <2>1, NotesLead
  <2>. QED
    BY <1>2, <2>2, StartsAre
<1>4. w = r.next \/ w = n + 1
  BY <1>2 DEF LaterOf, NextOf, NextBy
<1>5. f \in Nat /\ r.next \in Nat /\ f <= r.next
  BY DEF Neat
<1>6. \A s \in S : s \in Int /\ seq < s
  <2>1. page.entries \in Seq(EntryType)
    BY PageFields
  <2>2. S \subseteq Int
    BY <2>1, EntryFields DEF Starts
  <2>. QED
    BY <2>2, StartsAre
<1>. HIDE DEF S, f
<1>7. /\ w \in Nat /\ f <= w
      /\ \A q \in r.next..w - 1 : q \in S
      /\ \A s \in S : \A q \in s..f - 1 : q \in S
  <2>1. \A q \in r.next..w - 1 : q \in seq + 1..n
    BY <1>2, <1>4, <1>5
  <2>2. f <= seq + 1
    BY DEF f
  <2>3. \A s \in S : \A q \in s..f - 1 : FALSE
    BY <1>5, <1>6, <2>2
  <2>4. w \in Nat /\ f <= w
    BY <1>2, <1>4, <1>5, <2>2
  <2>. QED
    BY <1>3, <2>1, <2>3, <2>4
<1>8. Unbroken(d) /\ FirstStart(d) <= FirstStart(r)
  <2>. HIDE DEF LaterOf
  <2>. QED
    BY <1>1, <1>7, WidenedUnbroken DEF f
<1>. QED
  BY <1>1, <1>2, <1>3, <1>8 DEF S, NoteWidens

LEMMA ReceiveScanSteady ==
    ASSUME Items \subseteq {"note"}, NEW T, SyncInv(T), TypeInv', EpochInv', NEW U, Content(U)', ReceiveScan
    PROVE  Steady'
<1>. DEFINE rq == scan
            page == rq.page
            items == T[page.epoch]
            w == LaterOf(replica, page, TRUE)
<1>1. /\ rq # None /\ page # None
      /\ UNCHANGED <<epoch, rows, subscribed, down, status, recovery, older>>
  BY DEF ReceiveScan, server, wire
<1>2. /\ TypeInv /\ EpochInv /\ Content(T) /\ Steady /\ Len(rows) \in Nat
      /\ T \in [1..MaxEpochs -> Rows] /\ scan \in {None} \cup Request
      /\ replica \in ReplicaType /\ replica.epoch \in Int /\ replica.next \in Nat
      /\ replica.initialized => Neat(replica)
      /\ Single(replica.epoch, replica.entries)
      /\ WholePage(recovery) /\ WholePage(older) /\ WholePage(scan)
      /\ Unbroken(replica) /\ AfterReaches(scan, replica)
      /\ Waits(status, subscribed, replica, epoch, recovery, down)
  BY SyncFacts DEF SyncInv
<1>3. CASE replica.epoch # scan.epoch \/ page.reset \/ page.gap
  <2>1. replica' = replica /\ scan' = None
    BY <1>3 DEF ReceiveScan
  <2>. QED
    BY <1>1, <1>2, <2>1, NoRequest DEF Steady
<1>4. CASE ~(replica.epoch # scan.epoch \/ page.reset \/ page.gap)
  <2>1. rq.direction = "after" /\ RequestContent(T, rq) /\ PageEpochs(rq, epoch) /\ rq \in Request
        /\ status = "ready" /\ rq.seq < replica.next /\ replica.initialized /\ Neat(replica)
        /\ FirstStart(replica) <= rq.seq + 1
    BY <1>1, <1>2, EpochFacts DEF Content, Kinds, RequestEpochs, ReadyPlaced, AfterReaches
  <2>2. /\ page \in PageType /\ page.direction = "after" /\ page.epoch = rq.epoch /\ rq.seq \in Nat /\ page.end \in Int
        /\ page.epoch \in 1..MaxEpochs
        /\ \E n \in 0..Len(items) : PageHolds(items, "after", rq.seq, page, n)
    <3>. HIDE DEF rq
    <3>. QED
      BY <1>1, <1>2, <1>4, <2>1, PageOfRequest
  <2>3. PICK n \in 0..Len(items) : PageHolds(items, "after", rq.seq, page, n)
    BY <2>2
  <2>4. items \in Seq(Items)
    BY <1>2, <2>2, TableRows
  <2>5. /\ Single(page.epoch, page.entries) /\ \A c \in ToSet(page.entries) : rq.seq < c.start
    BY <1>1, <1>2, <1>4, <2>1 DEF WholePage
  <2>6. /\ replica' = ApplyPage(replica, page, TRUE).replica
        /\ scan' \in {None} \cup (IF page.hasNewer THEN {Ask("after", scan.epoch, page.end)} ELSE {})
    BY <1>4 DEF ReceiveScan
  <2>7. w = LaterOf(replica, page, TRUE) /\ TRUE \in BOOLEAN /\ page.epoch = replica.epoch /\ ~page.reset /\ ~page.gap
    BY <1>4, <2>2
  <2>8. replica'.initialized /\ replica'.epoch = replica.epoch
    <3>1. NoteLands(replica, replica', page, w, replica.entries, ApplyPage(replica, page, TRUE).status)
      <4>. HIDE DEF w, page, items, rq
      <4>. QED
        BY <1>2, <2>1, <2>2, <2>5, <2>6, <2>7, NoteApplied
    <3>. QED
      BY <2>7, <3>1 DEF NoteLands
  <2>9. /\ replica'.next \in Int /\ replica'.epoch \in Int /\ Neat(replica') /\ FirstStart(replica') \in Int
    BY <2>8, NewNeat
  <2>. DEFINE st == ApplyPage(replica, page, TRUE).status
  <2>a. NoteWidens(replica, replica', page, w, rq.seq, n, st)
    <3>1. /\ Items \subseteq {"note"} /\ replica \in ReplicaType /\ replica.initialized /\ Neat(replica) /\ Unbroken(replica)
          /\ Single(replica.epoch, replica.entries)
          /\ items \in Seq(Items) /\ n \in 0..Len(items) /\ page \in PageType /\ page.epoch = replica.epoch
          /\ page.direction = "after" /\ ~page.reset /\ ~page.gap /\ Single(page.epoch, page.entries)
          /\ rq.seq \in Nat /\ FirstStart(replica) <= rq.seq + 1 /\ rq.seq < replica.next
          /\ PageHolds(items, "after", rq.seq, page, n) /\ \A c \in ToSet(page.entries) : rq.seq < c.start
          /\ TRUE \in BOOLEAN /\ replica' = ApplyPage(replica, page, TRUE).replica /\ Neat(replica')
          /\ w = LaterOf(replica, page, TRUE)
      BY <1>2, <2>1, <2>2, <2>3, <2>4, <2>5, <2>6, <2>7, <2>9
    <3>. HIDE DEF w, page, items
    <3>. QED
      BY ONLY <3>1, AfterWidens
  <2>. HIDE DEF st
  <2>10. /\ NoteLands(replica, replica', page, w, replica.entries, st)
         /\ Starts(replica'.entries) = Starts(replica.entries) \cup Starts(page.entries) \cup (w..replica'.next - 1)
         /\ rq.seq <= n /\ (page.hasNewer => page.end = n)
         /\ Unbroken(replica') /\ FirstStart(replica') <= FirstStart(replica)
    BY <2>a DEF NoteWidens, NoteLands
  <2>11. replica.next <= w /\ w \in Int
    <3>1. NextOf(replica, page) \in Int
      BY <1>2, <2>2, NextOfType, Constants
    <3>. QED
      BY <1>2, <3>1 DEF LaterOf
  <2>. HIDE DEF w
  <2>12. /\ replica.next <= replica'.next
         /\ Single(replica'.epoch, replica'.entries)
         /\ replica'.pending = {m \in replica.pending : m.epoch = page.epoch /\ m.seq >= replica'.next}
    BY <1>2, <2>9, <2>10, <2>11 DEF NoteLands
  <2>13. \A q \in replica'.next..Len(rows) : Comes(replica, down, epoch, q) => Comes(replica', down, epoch, q)
    <3>1. ASSUME NEW m \in replica.pending, NEW q \in replica'.next..Len(rows), m.seq = q PROVE m \in replica'.pending
      <4>1. m.epoch = replica.epoch
        BY <1>2, EpochFacts DEF ReplicaEpochs
      <4>2. m.seq >= replica'.next
        BY <2>9, <3>1
      <4>. QED
        BY <2>7, <2>12, <4>1, <4>2
    <3>. QED
      BY <3>1 DEF Comes
  <2>14. /\ Lossless(subscribed, replica', epoch, Len(rows), down, recovery)
         /\ TailLossless(replica', epoch, Len(rows), down, recovery)
         /\ Waits(status, subscribed, replica', epoch, recovery, down)
    <3>1. status = "ready" => replica'.pending = {}
      BY <1>2, <2>12 DEF Waits
    <3>2. Starts(replica.entries) \subseteq Starts(replica'.entries)
      BY <2>10
    <3>. QED
      BY <2>1, <2>8, <2>9, <2>12, <2>13, <3>1, <3>2, MovedSteady
  <2>15. AfterReaches(recovery, replica') /\ BeforeReaches(older, replica')
    <3>1. replica.epoch <= replica'.epoch
      BY <1>2, <2>8
    <3>. QED
      BY <2>9, <2>10, <3>1, ReachOn
  <2>16. WholePage(scan') /\ AfterReaches(scan', replica')
    <3>1. CASE scan' = None
      BY <3>1, NoRequest
    <3>2. CASE scan' # None
      <4>1. scan' = Ask("after", rq.epoch, page.end) /\ page.end = n
        BY <2>6, <2>10, <3>2
      <4>2. FirstStart(replica') <= page.end + 1
        <5>1. FirstStart(replica) \in Int /\ n \in Int
          BY <2>1, <2>3 DEF Neat
        <5>. QED
          BY <2>1, <2>2, <2>9, <2>10, <4>1, <5>1
      <4>3. rq.epoch \in 0..MaxEpochs /\ page.end \in 0..MaxRows
        BY <2>1, <2>2, RequestFields, PageFields
      <4>. QED
        BY <4>1, <4>2, <4>3, NewRequest
    <3>. QED
      BY <3>1, <3>2
  <2>. QED
    BY <1>1, <1>2, <2>10, <2>12, <2>14, <2>15, <2>16 DEF Steady
<1>. QED
  BY <1>3, <1>4

\* What a page of the catch-up leaves: no hole, and nothing lost that will not be asked for.
Spread(d, st, page, direction, rest) ==
    /\ d.epoch = page.epoch /\ Single(d.epoch, d.entries) /\ Unbroken(d)
    /\ st = "applied" => d.pending = {}
    /\ replica.initialized /\ replica.epoch = d.epoch => FirstStart(d) <= FirstStart(replica)
    /\ d.epoch = epoch => \A q \in d.next..Len(rows) :
          q \in Starts(d.entries) \/ Comes(d, rest, epoch, q) \/ (direction = "after" /\ page.hasNewer /\ page.end < q)
    /\ direction = "after" /\ page.hasNewer => FirstStart(d) <= page.end + 1

LEMMA TailSpreads ==
    ASSUME Items \subseteq {"note"}, NEW T, SyncInv(T), NEW rq, rq = recovery, rq # None, NEW page, page = rq.page, page # None,
           rq.direction = "tail",
           NEW n \in 0..Len(T[page.epoch]), PageHolds(T[page.epoch], "tail", rq.seq, page, n),
           NEW d, d = ApplyPage(replica, page, FALSE).replica, NEW st, st = ApplyPage(replica, page, FALSE).status,
           Neat(d), NEW rest, Stream(down) \subseteq Stream(rest)
    PROVE  Spread(d, st, page, rq.direction, rest)
<1>. DEFINE w == NextBy(page)
            S == Starts(page.entries)
            items == T[page.epoch]
<1>0. Neat(d)
  OBVIOUS
<1>1. /\ TypeInv /\ EpochInv /\ Content(T) /\ replica \in ReplicaType /\ WholePage(recovery) /\ recovery \in {None} \cup Request
      /\ TailLossless(replica, epoch, Len(rows), down, recovery) /\ T \in [1..MaxEpochs -> Rows] /\ Len(rows) \in Nat
  BY SyncFacts
<1>2. ~replica.initialized
  BY <1>1 DEF Content, RecoveryPlaced
<1>3. /\ page \in PageType /\ page.direction = "tail" /\ ReplicaEpochs(replica, epoch) /\ replica.epoch <= page.epoch
  <2>1. page \in PageType /\ replica.epoch <= page.epoch
    BY <1>1, PlacedFacts
  <2>2. ReplicaEpochs(replica, epoch) /\ RequestEpochs(recovery, epoch)
    BY <1>1, EpochFacts
  <2>. QED
    BY <2>1, <2>2 DEF RequestEpochs, PageEpochs
<1>4. /\ n \in Nat /\ ~page.reset /\ ~page.gap
      /\ page.entries \in Seq(EntryType) /\ Sorted(page.entries)
      /\ w \in 1..n + 1
      /\ page.entries = <<>> => w = 1
      /\ page.entries # <<>> => page.entries[1].start < w
      /\ page.entries # <<>> => \A q \in page.entries[1].start..n : Leader(items, q) => \E c \in ToSet(page.entries) : c.start = q
  BY DEF PageHolds
<1>5. items \in Seq(Items) /\ Len(items) \in Nat
  <2>1. page.epoch \in 1..MaxEpochs
    BY <1>3, PageFields
  <2>. QED
    BY <1>1, <2>1, TableRows
<1>6. Single(page.epoch, page.entries)
  BY <1>1, <1>4 DEF WholePage
<1>7. NoteLands(replica, d, page, NextBy(page), <<>>, st)
  BY <1>1, <1>2, <1>3, <1>4, <1>6, NoteTailApplied
<1>8. Starts(<<>>) = {}
  BY DEF Starts
<1>. HIDE DEF w, items
<1>9. /\ d.epoch = page.epoch /\ d.initialized /\ w <= d.next /\ Single(d.epoch, d.entries)
      /\ d.pending = {m \in replica.pending : m.epoch = page.epoch /\ m.seq >= d.next}
      /\ Starts(d.entries) = S \cup (w..d.next - 1)
      /\ st = IF d.pending = {} THEN "applied" ELSE "gap"
  BY <1>7, <1>8 DEF NoteLands, w
<1>10. Unbroken(d)
  <2>. DEFINE g == FirstStart(d)
  <2>1. /\ g \in Nat /\ 1 <= g /\ d.next \in Nat
        /\ d.entries = <<>> => d.next = 1
        /\ d.entries # <<>> => g \in Starts(d.entries)
    BY ONLY <1>0 DEF Neat
  <2>. HIDE DEF g
  <2>2. CASE page.entries = <<>>
    <3>1. \A q \in g..d.next - 1 : q \in w..d.next - 1
      BY ONLY <1>4, <2>1, <2>2
    <3>. QED
      BY <1>9, <3>1 DEF Unbroken, g
  <2>3. CASE page.entries # <<>>
    <3>. DEFINE f == page.entries[1].start
    <3>1. /\ f \in Int /\ f \in 1..MaxRows /\ f < w
          /\ \A c \in ToSet(page.entries) : f <= c.start /\ c.start \in Int
      <4>1. page.entries[1] \in ToSet(page.entries) /\ \A c \in ToSet(page.entries) : c \in EntryType /\ page.entries[1].start <= c.start
        BY <1>4, <2>3, SortedFacts
      <4>. QED
        BY <1>4, <2>3, <4>1, EntryFields
    <3>2. \A s \in S : s \in Int /\ f <= s
      BY <3>1, StartsAre
    <3>. HIDE DEF f
    <3>3. \A q \in f..n : q \in S
      <4>. TAKE q \in f..n
      <4>1. q \in 1..Len(items)
        BY <1>4, <1>5, <3>1 DEF items
      <4>2. Leader(items, q)
        BY <1>5, <4>1, NotesLead
      <4>. QED
        BY <1>4, <2>3, <4>2, StartsAre DEF f
    <3>4. d.entries # <<>> => f <= g
      BY ONLY <1>4, <1>9, <2>1, <3>1, <3>2
    <3>. HIDE DEF S
    <3>5. ASSUME NEW q \in g..d.next - 1 PROVE q \in Starts(d.entries)
      <4>1. f <= q /\ q \in Int
        BY ONLY <2>1, <3>1, <3>4, <3>5
      <4>2. CASE q < w
        <5>1. q \in f..n
          BY <1>4, <3>1, <4>1, <4>2
        <5>. QED
          BY <1>9, <3>3, <5>1
      <4>3. CASE q >= w
        BY ONLY <1>4, <1>9, <2>1, <3>5, <4>1, <4>3
      <4>. QED
        BY ONLY <1>4, <4>1, <4>2, <4>3
    <3>. QED
      BY <3>5 DEF Unbroken, g
  <2>. QED
    BY <2>2, <2>3
<1>11. ASSUME d.epoch = epoch, NEW q \in d.next..Len(rows) PROVE Comes(d, rest, epoch, q)
  <2>1. d.next \in Nat /\ w \in Int
    BY ONLY <1>0, <1>4 DEF Neat
  <2>2. q \in w..Len(rows)
    BY ONLY <1>1, <1>9, <2>1
  <2>3. Comes(replica, down, epoch, q)
    BY <1>1, <1>9, <1>11, <2>2 DEF TailLossless, w
  <2>4. \A m \in replica.pending : m.epoch = epoch /\ m.seq = q => m \in d.pending
    BY ONLY <1>9, <1>11, <2>1
  <2>. QED
    BY <2>3, <2>4 DEF Comes
<1>. QED
  BY <1>2, <1>9, <1>10, <1>11 DEF Spread

LEMMA AfterSpreads ==
    ASSUME Items \subseteq {"note"}, NEW T, SyncInv(T), NEW rq, rq = recovery, rq # None, NEW page, page = rq.page, page # None,
           rq.direction = "after", page.epoch = rq.epoch,
           NEW n \in 0..Len(T[page.epoch]), PageHolds(T[page.epoch], "after", rq.seq, page, n),
           NEW d, d = ApplyPage(replica, page, FALSE).replica, NEW st, st = ApplyPage(replica, page, FALSE).status,
           Neat(d), NEW rest, Stream(down) \subseteq Stream(rest)
    PROVE  Spread(d, st, page, rq.direction, rest)
<1>. DEFINE w == LaterOf(replica, page, FALSE)
            items == T[page.epoch]
<1>1. /\ TypeInv /\ EpochInv /\ Content(T) /\ replica \in ReplicaType /\ WholePage(recovery) /\ recovery \in {None} \cup Request
      /\ T \in [1..MaxEpochs -> Rows] /\ Len(rows) \in Nat /\ AfterReaches(recovery, replica) /\ Unbroken(replica)
      /\ Lossless(subscribed, replica, epoch, Len(rows), down, recovery)
      /\ Single(replica.epoch, replica.entries) /\ replica.next \in Nat
      /\ replica.initialized => Neat(replica)
  BY SyncFacts
<1>2. replica.initialized /\ rq.epoch = replica.epoch /\ rq.seq < replica.next /\ Neat(replica)
  BY <1>1 DEF Content, RecoveryPlaced
<1>3. /\ page \in PageType /\ page.direction = "after" /\ subscribed
  <2>1. page \in PageType /\ subscribed
    BY <1>1, PlacedFacts
  <2>2. RequestEpochs(recovery, epoch)
    BY <1>1, EpochFacts
  <2>. QED
    BY <2>1, <2>2 DEF RequestEpochs, PageEpochs
<1>4. /\ n \in Nat /\ ~page.reset /\ ~page.gap
  BY DEF PageHolds
<1>5. items \in Seq(Items) /\ Len(items) \in Nat
  <2>1. page.epoch \in 1..MaxEpochs
    BY <1>3, PageFields
  <2>. QED
    BY <1>1, <2>1, TableRows
<1>6. Single(page.epoch, page.entries) /\ \A c \in ToSet(page.entries) : rq.seq < c.start
  BY <1>1, <1>4 DEF WholePage
<1>7. rq.seq \in Nat /\ FirstStart(replica) <= rq.seq + 1 /\ FirstStart(replica) \in Nat
  <2>1. rq.seq \in 0..MaxRows
    BY <1>1, RequestFields
  <2>. QED
    BY <1>1, <1>2, <2>1, Constants DEF AfterReaches, Neat
<1>8. NoteWidens(replica, d, page, w, rq.seq, n, st)
  <2>1. /\ page.epoch = replica.epoch /\ FALSE \in BOOLEAN /\ w = LaterOf(replica, page, FALSE)
        /\ n \in 0..Len(items) /\ PageHolds(items, "after", rq.seq, page, n)
    BY <1>2
  <2>. HIDE DEF w, items
  <2>. QED
    BY <1>1, <1>2, <1>3, <1>4, <1>5, <1>6, <1>7, <2>1, AfterWidens
<1>9. w = NextBy(page)
  BY <1>3 DEF LaterOf, NextOf, NextBy
<1>. HIDE DEF w, items
<1>10. /\ d.epoch = page.epoch /\ w <= d.next /\ Single(d.epoch, d.entries)
       /\ d.pending = {m \in replica.pending : m.epoch = page.epoch /\ m.seq >= d.next}
       /\ Starts(replica.entries) \subseteq Starts(d.entries)
       /\ st = IF d.pending = {} THEN "applied" ELSE "gap"
       /\ rq.seq <= n /\ w = n + 1 /\ (page.hasNewer => page.end = n)
       /\ Unbroken(d) /\ FirstStart(d) <= FirstStart(replica)
  BY <1>8, <1>9 DEF NoteWidens, NoteLands
<1>11. d.next \in Nat /\ FirstStart(d) \in Nat
  BY DEF Neat
<1>12. ASSUME d.epoch = epoch, NEW q \in d.next..Len(rows)
       PROVE  q \in Starts(d.entries) \/ Comes(d, rest, epoch, q) \/ (page.hasNewer /\ page.end < q)
  <2>1. q \in Int /\ n < q
    BY ONLY <1>4, <1>10, <1>11
  <2>2. CASE q < replica.next
    <3>1. q \in FirstStart(replica)..replica.next - 1
      BY <1>1, <1>4, <1>7, <1>10, <2>1, <2>2
    <3>. QED
      BY <1>1, <1>2, <1>10, <3>1 DEF Unbroken
  <2>3. CASE q >= replica.next
    <3>1. q \in replica.next..Len(rows)
      BY <1>1, <1>11, <2>3
    <3>2. q \in Starts(replica.entries) \/ Comes(replica, down, epoch, q) \/ Seeks(rq, q) \/ Awaited(rq, down)
      BY <1>1, <1>2, <1>3, <1>10, <1>12, <3>1 DEF Lossless
    <3>3. ~Awaited(rq, down)
      BY DEF Awaited
    <3>4. Comes(replica, down, epoch, q) => Comes(d, rest, epoch, q)
      <4>1. \A m \in replica.pending : m.epoch = epoch /\ m.seq = q => m \in d.pending
        BY ONLY <1>10, <1>11, <1>12
      <4>. QED
        BY <4>1 DEF Comes
    <3>5. Seeks(rq, q) => page.hasNewer /\ page.end < q
      <4>1. Seeks(rq, q) => page.hasNewer \/ q < page.next
        BY DEF Seeks
      <4>2. ~page.hasNewer => page.next = n + 1
        BY <1>9, <1>10 DEF NextBy
      <4>. QED
        BY <1>4, <1>10, <2>1, <4>1, <4>2
    <3>. QED
      BY <1>10, <3>2, <3>3, <3>4, <3>5
  <2>. QED
    BY ONLY <1>1, <2>1, <2>2, <2>3
<1>13. page.hasNewer => FirstStart(d) <= page.end + 1
  BY ONLY <1>4, <1>7, <1>10, <1>11
<1>. QED
  BY <1>10, <1>12, <1>13 DEF Spread

LEMMA CatchUpSpreads ==
    ASSUME Items \subseteq {"note"}, NEW T, SyncInv(T), NEW rq, rq = recovery, rq # None, NEW page, page = rq.page, page # None,
           NEW d, d = ApplyPage(replica, page, FALSE).replica, NEW st, st = ApplyPage(replica, page, FALSE).status,
           st \in {"applied", "gap"}, Neat(d), NEW rest, Stream(down) \subseteq Stream(rest)
    PROVE  Spread(d, st, page, rq.direction, rest)
<1>1. /\ TypeInv /\ EpochInv /\ Content(T) /\ recovery \in {None} \cup Request /\ T \in [1..MaxEpochs -> Rows]
  BY SyncFacts
<1>2. RequestContent(T, rq) /\ PageEpochs(rq, epoch) /\ rq \in Request /\ rq.direction \in {"tail", "after"}
  BY <1>1, EpochFacts DEF Content, Kinds, RequestEpochs
<1>3. ~page.reset
  <2>1. page.reset => st = "reset_required"
    BY DEF ApplyPage, Reduced
  <2>. QED
    BY <2>1
<1>4. PICK n \in 0..Len(T[page.epoch]) :
          /\ PageHolds(T[page.epoch], rq.direction, rq.seq, page, n)
          /\ rq.direction # "tail" => page.epoch = rq.epoch
  <2>1. rq # None /\ rq.page # None /\ ~rq.page.reset
    BY <1>3
  <2>2. \E n \in 0..Len(T[rq.page.epoch]) :
                    /\ PageHolds(T[rq.page.epoch], rq.direction, rq.seq, rq.page, n)
                    /\ rq.direction # "tail" => rq.page.epoch = rq.epoch
    BY ONLY <1>1, <1>2, <2>1, PageOfRequest
  <2>. QED
    BY <2>2
<1>5. CASE rq.direction = "tail"
  BY <1>4, <1>5, TailSpreads
<1>6. CASE rq.direction = "after"
  <2>1. page.epoch = rq.epoch
    BY <1>4, <1>6
  <2>. QED
    BY <1>4, <1>6, <2>1, AfterSpreads
<1>. QED
  BY <1>2, <1>5, <1>6

LEMMA ReceiveCatchUpSteady ==
    ASSUME Items \subseteq {"note"}, NEW T, SyncInv(T), TypeInv', EpochInv', NEW U, Content(U)', ReceiveCatchUp
    PROVE  Steady'
<1>. DEFINE rq == recovery
            page == rq.page
            d == ApplyPage(replica, page, FALSE).replica
            st == ApplyPage(replica, page, FALSE).status
            low == LowOf(rq, replica)
<1>1. /\ rq # None /\ page # None /\ UNCHANGED <<epoch, rows, subscribed, older>>
  BY DEF ReceiveCatchUp, server
<1>2. /\ TypeInv /\ EpochInv /\ Content(T) /\ Items \subseteq PlainKinds /\ T \in [1..MaxEpochs -> Rows]
      /\ replica \in ReplicaType /\ down \in Seq(Message) /\ replica.epoch \in Int /\ Len(rows) \in Nat /\ epoch \in Int
      /\ recovery \in {None} \cup Request
      /\ WholePage(older)
      /\ Waits(status, subscribed, replica, epoch, recovery, down)
  BY SyncFacts
<1>3. PICK rest \in Seq(Message) :
          /\ ApplyCatchUp(rest) /\ Stream(rest) = Stream(down)
          /\ HasType(down, "replacement") => HasType(rest, "replacement")
  <2>1. CASE down # <<>> /\ Head(down) = Delivered /\ ApplyCatchUp(Tail(down))
    <3>1. Tail(down) \in Seq(Message)
      BY <1>2, <2>1, HeadType
    <3>2. Head(down).type = "page"
      BY <2>1 DEF Delivered
    <3>3. Stream(Tail(down)) = Stream(down) /\ (HasType(down, "replacement") => HasType(Tail(down), "replacement"))
      BY <1>2, <2>1, <3>2, ShortlistHas
    <3>. QED
      BY <2>1, <3>1, <3>3
  <2>2. CASE ApplyCatchUp(down)
    BY <1>2, <2>2
  <2>. QED
    BY <2>1, <2>2 DEF ReceiveCatchUp
<1>4. /\ replica' = d /\ down' = rest
      /\ st = "applied" /\ rq.direction = "after" /\ page.hasNewer =>
             recovery' = Ask("after", page.epoch, page.end) /\ status' = status /\ scan' = scan
      /\ st = "applied" /\ ~(rq.direction = "after" /\ page.hasNewer) => recovery' = None /\ status' = "ready" /\ scan' = scan
      /\ st = "gap" => recovery' = Ask("after", d.epoch, d.next - 1) /\ scan' = None /\ status' = "catching_up"
      /\ st = "reset_required" => recovery' = Ask("tail", 0, 0) /\ scan' = None /\ status' = "catching_up"
  BY <1>3 DEF ApplyCatchUp, Fetch
<1>5. scan = None /\ status # "ready"
  BY <1>1, <1>2 DEF Content, ReadyPlaced
<1>6. /\ page \in PageType /\ page.epoch \in Int /\ replica.epoch <= page.epoch /\ subscribed
      /\ Announced(down, page.epoch, epoch)
  BY <1>1, <1>2, PlacedFacts
<1>7. /\ ReplicaEpochs(replica, epoch) /\ PageEpochs(rq, epoch) /\ rq.direction \in {"tail", "after"} /\ rq \in Request
      /\ RequestContent(T, rq) /\ RecoveryPlaced(rq, replica) /\ ReplicaContent(T, replica, down, low)
  BY <1>1, <1>2, EpochFacts DEF Content, Kinds, RequestEpochs
<1>8. \/ st = "reset_required" /\ ~d.initialized /\ replica.epoch < d.epoch
      \/ st \in {"applied", "gap"} /\ d.initialized
  <2>1. rq.page # None /\ replica.epoch <= rq.page.epoch /\ ReplicaContent(T, replica, down, LowOf(rq, replica))
    BY <1>1, <1>6, <1>7
  <2>. HIDE DEF rq, low
  <2>2. CatchUpOutcome(T, replica, rq, ApplyPage(replica, rq.page, FALSE).replica, ApplyPage(replica, rq.page, FALSE).status, down)
    BY <1>1, <1>2, <1>7, <2>1, CatchUpContent
  <2>. QED
    BY <2>2 DEF CatchUpOutcome
<1>9. /\ d \in ReplicaType /\ d.next \in Int /\ d.epoch \in Int
      /\ d.initialized => Neat(d) /\ FirstStart(d) \in Int
      /\ ~d.initialized => d.entries = <<>>
  BY <1>4, NewNeat
<1>. HIDE DEF d, st
<1>10. CASE st = "reset_required"
  BY <1>1, <1>4, <1>8, <1>9, <1>10, RestartSteady
<1>11. CASE st \in {"applied", "gap"}
  <2>1. Neat(d) /\ d.initialized
    BY <1>8, <1>9, <1>11
  <2>2. Spread(d, st, page, rq.direction, rest)
    <3>1. /\ recovery # None /\ recovery.page # None
          /\ d = ApplyPage(replica, recovery.page, FALSE).replica /\ st = ApplyPage(replica, recovery.page, FALSE).status
          /\ Stream(down) \subseteq Stream(rest)
      BY <1>1, <1>3 DEF d, st
    <3>2. Spread(d, st, recovery.page, recovery.direction, rest)
      BY <1>11, <2>1, <3>1, CatchUpSpreads
    <3>. QED
      BY <3>2
  <2>3. /\ d.epoch = page.epoch /\ Single(d.epoch, d.entries) /\ Unbroken(d)
        /\ st = "applied" => d.pending = {}
        /\ replica.initialized /\ replica.epoch = d.epoch => FirstStart(d) <= FirstStart(replica)
        /\ d.epoch = epoch => \A q \in d.next..Len(rows) :
              q \in Starts(d.entries) \/ Comes(d, rest, epoch, q) \/ (rq.direction = "after" /\ page.hasNewer /\ page.end < q)
        /\ rq.direction = "after" /\ page.hasNewer => FirstStart(d) <= page.end + 1
    BY <2>2 DEF Spread
  <2>4. BeforeReaches(older, d)
    <3>1. replica.epoch <= d.epoch
      BY <1>6, <2>3
    <3>. QED
      BY <1>9, <2>1, <2>3, <3>1, ReachOn
  <2>5. ASSUME scan' = None, WholePage(recovery'), AfterReaches(recovery', d),
               Lossless(subscribed, d, epoch, Len(rows), rest, recovery'),
               TailLossless(d, epoch, Len(rows), rest, recovery'),
               Waits(status', subscribed, d, epoch, recovery', rest)
        PROVE  Steady'
    BY <1>1, <1>2, <1>4, <2>3, <2>4, <2>5, NoRequest DEF Steady
  <2>6. CASE st = "applied" /\ rq.direction = "after" /\ page.hasNewer
    <3>. DEFINE e == page.epoch
                seq == page.end
    <3>1. recovery' = Ask("after", e, seq) /\ status' = status /\ scan' = None
      BY <1>4, <1>5, <2>6
    <3>2. e \in 0..MaxEpochs /\ seq \in 0..MaxRows /\ FirstStart(d) <= seq + 1
      BY <1>6, <2>3, <2>6, PageFields
    <3>. HIDE DEF e, seq
    <3>3. /\ recovery' # None /\ WholePage(recovery') /\ TailLossless(d, epoch, Len(rows), rest, recovery')
          /\ \A q : seq < q => Seeks(recovery', q)
          /\ AfterReaches(recovery', d)
      BY <3>1, <3>2, NewRequest
    <3>4. Lossless(subscribed, d, epoch, Len(rows), rest, recovery')
      BY <2>3, <3>3 DEF Lossless, seq
    <3>5. Waits(status', subscribed, d, epoch, recovery', rest)
      BY <1>5, <3>1, <3>3 DEF Waits
    <3>. QED
      BY <2>5, <3>1, <3>3, <3>4, <3>5
  <2>7. CASE st = "applied" /\ ~(rq.direction = "after" /\ page.hasNewer)
    <3>1. recovery' = None /\ status' = "ready" /\ scan' = None
      BY <1>4, <1>5, <2>7
    <3>2. Lossless(subscribed, d, epoch, Len(rows), rest, recovery')
      BY <2>3, <2>7 DEF Lossless
    <3>3. d.epoch < epoch => HasType(rest, "replacement")
      BY <1>3, <1>6, <2>3 DEF Announced, HasType
    <3>4. Waits(status', subscribed, d, epoch, recovery', rest)
      BY <1>6, <2>3, <2>7, <3>1, <3>3 DEF Waits
    <3>. QED
      BY <2>5, <3>1, <3>2, <3>4, NoRequest
  <2>8. CASE st = "gap"
    <3>1. recovery' = CatchUp(d) /\ status' = "catching_up" /\ scan' = None
      BY <1>4, <2>1, <2>8 DEF CatchUp
    <3>2. /\ recovery' # None /\ WholePage(recovery') /\ \A x, e, n, list : TailLossless(x, e, n, list, recovery')
          /\ AfterReaches(recovery', d)
          /\ \A sub, e, n, list : n \in Int => Lossless(sub, d, e, n, list, recovery')
      BY <1>9, <2>1, <3>1, CatchUpReaches
    <3>3. Waits("catching_up", subscribed, d, epoch, recovery', rest) /\ Len(rows) \in Int
      BY <1>2, <3>2 DEF Waits
    <3>. QED
      BY <2>5, <3>1, <3>2, <3>3
  <2>. QED
    BY <1>11, <2>6, <2>7, <2>8
<1>. QED
  BY <1>8, <1>10, <1>11

\* Initially nothing is on display, on its way or asked for.
LEMMA SteadyInit == Init => Steady
<1>. SUFFICES ASSUME Init PROVE Steady
  OBVIOUS
<1>1. /\ down = <<>> /\ status = "disconnected" /\ subscribed = FALSE
      /\ recovery = None /\ older = None /\ scan = None /\ replica = EmptyReplica(0, {})
  BY DEF Init
<1>2. ~replica.initialized /\ replica.entries = <<>>
  BY <1>1 DEF EmptyReplica
<1>3. Single(replica.epoch, replica.entries)
  BY <1>2 DEF Single, ToSet
<1>4. Unbroken(replica) /\ Lossless(subscribed, replica, epoch, Len(rows), down, recovery)
  BY <1>1, <1>2 DEF Unbroken, Lossless
<1>5. Waits(status, subscribed, replica, epoch, recovery, down)
  BY <1>1 DEF Waits
<1>6. /\ WholePage(recovery) /\ WholePage(older) /\ WholePage(scan)
      /\ TailLossless(replica, epoch, Len(rows), down, recovery)
      /\ AfterReaches(recovery, replica) /\ BeforeReaches(older, replica) /\ AfterReaches(scan, replica)
  BY <1>1, NoRequest
<1>. QED
  BY <1>3, <1>4, <1>5, <1>6 DEF Steady

\* Every step keeps the display whole.
LEMMA SteadyStep ==
    ASSUME Items \subseteq {"note"}, NEW T, SyncInv(T), TypeInv', EpochInv', NEW U, Content(U)', [Next]_vars
    PROVE  Steady'
<1>1. CASE Relay
  BY <1>1, AppendRowSteady, ReplaceTimelineSteady, SubscribeSteady, ComputeCatchUpSteady, SendCatchUpSteady,
     ComputeOlderSteady, ComputeScanSteady DEF Relay
<1>2. CASE Receive
  BY <1>2, ReceiveSubscribedSteady, ReceiveStreamSteady, ReceiveReplacementSteady, ReceiveCatchUpSteady DEF Receive
<1>3. CASE Client /\ ~Receive
  BY <1>3, ConnectSteady, DisconnectSteady, AskOlderSteady, ReceiveOlderSteady, AskScanSteady, ReceiveScanSteady DEF Client
<1>4. CASE UNCHANGED vars
  BY <1>4, StutterSteady
<1>. QED
  BY <1>1, <1>2, <1>3, <1>4 DEF Next, Client

\* The invariant: with the rows of every epoch, what is on display, on its way and
\* asked for leaves no row out.
ConvergeInv == \E T : SyncInv(T)

LEMMA ConvergeInvHolds ==
    ASSUME Ordered, Items \subseteq {"note"}
    PROVE  /\ Init => ConvergeInv
           /\ ConvergeInv /\ [Next]_vars => ConvergeInv'
<1>1. Init => ConvergeInv
  BY TypeInit, EpochInit, ContentInit, SteadyInit DEF ConvergeInv, SyncInv
<1>2. ASSUME ConvergeInv, [Next]_vars PROVE ConvergeInv'
  <2>1. PICK T : SyncInv(T)
    BY <1>2 DEF ConvergeInv
  <2>2. TypeInv /\ EpochInv /\ Content(T) /\ Items \subseteq PlainKinds
    BY <2>1, SyncFacts
  <2>3. TypeInv' /\ EpochInv'
    BY <1>2, <2>2, TypeStep, EpochStep
  <2>4. PICK U : Content(U)'
    BY <1>2, <2>2, <2>3, ContentStep DEF Stepped
  <2>5. Steady'
    BY <1>2, <2>1, <2>3, <2>4, SteadyStep
  <2>. QED
    BY <2>3, <2>4, <2>5 DEF ConvergeInv, SyncInv
<1>. QED
  BY <1>1, <1>2

\* Sorted lists of the same entries begin alike ...
LEMMA SameBeginning ==
    ASSUME NEW a \in Seq(EntryType), NEW b \in Seq(EntryType), Sorted(a), Sorted(b), ToSet(a) = ToSet(b)
    PROVE  Len(a) <= Len(b) /\ \A i \in 1..Len(a) : a[i] = b[i]
<1>. DEFINE P == {k \in Nat : k <= Len(b) /\ \A i \in 1..k : a[i] = b[i]}
<1>1. Len(a) \in Nat /\ Len(b) \in Nat /\ DOMAIN a = 1..Len(a) /\ DOMAIN b = 1..Len(b)
  OBVIOUS
<1>2. /\ \A i \in 1..Len(a) : a[i].start \in Int /\ \E j \in 1..Len(b) : a[i] = b[j]
      /\ \A i \in 1..Len(b) : b[i].start \in Int /\ \E j \in 1..Len(a) : b[i] = a[j]
  <2>1. /\ \A i \in 1..Len(a) : a[i] \in EntryType /\ a[i] \in ToSet(a)
        /\ \A i \in 1..Len(b) : b[i] \in EntryType /\ b[i] \in ToSet(b)
    BY <1>1 DEF ToSet
  <2>2. /\ \A x \in ToSet(a) : \E j \in 1..Len(a) : x = a[j]
        /\ \A x \in ToSet(b) : \E j \in 1..Len(b) : x = b[j]
    BY <1>1 DEF ToSet
  <2>3. \A x \in EntryType : x.start \in Int
    BY EntryFields
  <2>. QED
    BY <2>1, <2>2, <2>3
<1>3. /\ \A i, j \in 1..Len(a) : i < j => a[i].start < a[j].start
      /\ \A i, j \in 1..Len(b) : i < j => b[i].start < b[j].start
  BY <1>1 DEF Sorted
<1>4. ASSUME NEW k \in 0..Len(a) - 1, k \in P PROVE k + 1 \in P
  <2>1. k \in Nat /\ k + 1 \in 1..Len(a) /\ k <= Len(b) /\ \A i \in 1..k : a[i] = b[i]
    BY <1>1, <1>4
  <2>2. PICK j \in 1..Len(b) : a[k + 1] = b[j]
    BY <1>2, <2>1
  <2>3. j > k
    <3>1. SUFFICES ASSUME j <= k PROVE FALSE
      BY <2>1, <2>2
    <3>2. j \in 1..k /\ j \in 1..Len(a) /\ j < k + 1
      BY <1>1, <2>1, <2>2, <3>1
    <3>3. a[j] = a[k + 1]
      BY <2>1, <2>2, <3>2
    <3>4. a[j].start < a[k + 1].start /\ a[j].start \in Int
      BY <1>2, <1>3, <2>1, <3>2
    <3>. QED
      BY <3>3, <3>4
  <2>4. k + 1 \in 1..Len(b)
    BY <1>1, <2>1, <2>3
  <2>5. PICK i \in 1..Len(a) : b[k + 1] = a[i]
    BY <1>2, <2>4
  <2>6. i > k
    <3>1. SUFFICES ASSUME i <= k PROVE FALSE
      BY <2>1, <2>5
    <3>2. i \in 1..k /\ i \in 1..Len(b) /\ i < k + 1
      BY <1>1, <2>1, <2>5, <3>1
    <3>3. b[i] = b[k + 1]
      BY <2>1, <2>5, <3>2
    <3>4. b[i].start < b[k + 1].start /\ b[i].start \in Int
      BY <1>2, <1>3, <2>4, <3>2
    <3>. QED
      BY <3>3, <3>4
  <2>7. a[k + 1] = b[k + 1]
    <3>1. CASE j = k + 1 \/ i = k + 1
      BY <2>2, <2>5, <3>1
    <3>2. CASE j # k + 1 /\ i # k + 1
      <4>1. k + 1 < j /\ k + 1 < i
        BY <2>1, <2>2, <2>3, <2>5, <2>6, <3>2
      <4>2. b[k + 1].start < b[j].start /\ a[k + 1].start < a[i].start
        BY <1>3, <2>1, <2>2, <2>4, <2>5, <4>1
      <4>3. a[k + 1].start \in Int /\ b[k + 1].start \in Int
        BY <1>2, <2>1, <2>4
      <4>. QED
        BY <2>2, <2>5, <4>2, <4>3
    <3>. QED
      BY <3>1, <3>2
  <2>. QED
    <3>1. \A m \in 1..k + 1 : m \in 1..k \/ m = k + 1
      BY <2>1
    <3>. QED
      BY <1>1, <2>1, <2>4, <2>7, <3>1
<1>5. 0 \in P
  BY <1>1
<1>. HIDE DEF P
<1>6. 0..Len(a) \subseteq P
  <2>1. \A k \in 0..Len(a) - 1 : k \in P => k + 1 \in P
    BY <1>4
  <2>2. 0 \in Int /\ Len(a) \in Int
    BY <1>1
  <2>. QED
    BY ONLY <1>5, <2>1, <2>2, IntervalInduction
<1>7. Len(a) \in P
  BY <1>1, <1>6
<1>. QED
  BY <1>7 DEF P

\* ... so they are equal.
LEMMA SameSorted ==
    ASSUME NEW a \in Seq(EntryType), NEW b \in Seq(EntryType), Sorted(a), Sorted(b), ToSet(a) = ToSet(b)
    PROVE  a = b
<1>1. Len(a) <= Len(b) /\ Len(b) <= Len(a) /\ \A i \in 1..Len(a) : a[i] = b[i]
  BY SameBeginning
<1>2. Len(a) \in Nat /\ Len(b) \in Nat
  OBVIOUS
<1>3. Len(a) = Len(b)
  BY <1>1, <1>2
<1>. QED
  BY <1>1, <1>3

\* A settled client has nothing outstanding, so it is at the Relay's epoch and displays
\* every row from its first.
LEMMA SettledShows ==
    ASSUME Items \subseteq {"note"}, NEW T, SyncInv(T), Settled
    PROVE  /\ replica.epoch = epoch /\ replica.initialized
           /\ Starts(replica.entries) = FirstStart(replica)..Len(rows)
<1>1. /\ status = "ready" /\ subscribed /\ down = <<>>
  BY DEF Settled
<1>2. /\ TypeInv /\ EpochInv /\ Content(T) /\ Waits(status, subscribed, replica, epoch, recovery, down)
      /\ Unbroken(replica) /\ Lossless(subscribed, replica, epoch, Len(rows), down, recovery)
      /\ T[epoch] = rows /\ epoch \in Int /\ replica.epoch \in Int /\ replica.epoch <= epoch
      /\ replica \in ReplicaType /\ Len(rows) \in Nat /\ replica.next \in Nat
  BY SyncFacts
<1>3. recovery = None /\ replica.initialized
  BY <1>1, <1>2 DEF Content, ReadyPlaced
<1>4. \A type : ~HasType(down, type)
  BY <1>1 DEF HasType
<1>5. replica.pending = {} /\ replica.epoch = epoch
  BY <1>1, <1>2, <1>4 DEF Waits
<1>6. replica.next..Len(rows) \subseteq Starts(replica.entries)
  <2>1. \A q : ~Comes(replica, down, epoch, q)
    BY <1>1, <1>5 DEF Comes, Stream, ToSet
  <2>2. (\A q : ~Seeks(recovery, q)) /\ ~Awaited(recovery, down)
    BY <1>3, <1>4, NoRequest DEF Awaited
  <2>. QED
    BY <1>1, <1>2, <1>3, <1>5, <2>1, <2>2 DEF Lossless
<1>7. FirstStart(replica)..replica.next - 1 \subseteq Starts(replica.entries)
  BY <1>2, <1>3 DEF Unbroken
<1>8. Neat(replica) /\ Starts(replica.entries) \subseteq 1..Len(rows)
  BY <1>2, <1>3, <1>5, SyncFacts
<1>9. FirstStart(replica) \in Int /\ \A q \in Starts(replica.entries) : FirstStart(replica) <= q
  BY <1>8 DEF Neat
<1>10. \A q \in FirstStart(replica)..Len(rows) : q \in FirstStart(replica)..replica.next - 1 \/ q \in replica.next..Len(rows)
  BY <1>2, <1>9
<1>11. \A q \in Starts(replica.entries) : q \in FirstStart(replica)..Len(rows)
  BY <1>8, <1>9
<1>. QED
  BY <1>3, <1>5, <1>6, <1>7, <1>10, <1>11

LEMMA SettledConverged ==
    ASSUME Items \subseteq {"note"}, NEW T, SyncInv(T)
    PROVE  Converged
<1>. SUFFICES ASSUME Settled PROVE Converged
  BY DEF Converged
<1>. DEFINE list == Projection(epoch, rows)
            entries == replica.entries
            S == {e \in ToSet(list) : entries # <<>> /\ e.start >= entries[1].start}
            first == FirstStart(replica)
<1>1. replica.epoch = epoch /\ replica.initialized /\ Starts(entries) = first..Len(rows)
  BY SettledShows
<1>2. /\ epoch \in 1..MaxEpochs /\ rows \in Seq(Items) /\ Len(rows) <= MaxRows /\ Len(rows) \in Nat
      /\ replica \in ReplicaType /\ Neat(replica) /\ Sorted(entries) /\ Single(epoch, entries)
  <2>1. TypeInv
    BY SyncFacts
  <2>. QED
    BY <1>1, <2>1, SyncFacts DEF TypeInv, TypeOK
<1>3. entries \in Seq(EntryType)
  BY <1>2, ReplicaFields
<1>4. list \in Seq(EntryType) /\ Sorted(list) /\ ToSet(list) = {EntryOf(epoch, q, "note") : q \in 1..Len(rows)}
  BY <1>2, NoteProjectionSet
<1>. HIDE DEF list
<1>5. Only(list, S) \in Seq(EntryType) /\ Sorted(Only(list, S)) /\ ToSet(Only(list, S)) = ToSet(list) \cap S
  BY <1>4, OnlySorted
<1>6. entries = <<>> => rows = <<>>
  <2>. SUFFICES ASSUME entries = <<>> PROVE rows = <<>>
    OBVIOUS
  <2>1. Starts(entries) = {} /\ first = 1
    BY DEF Starts, FirstStart
  <2>2. Len(rows) = 0
    <3>1. 1..Len(rows) = {}
      BY <1>1, <2>1
    <3>2. ~(1 \in 1..Len(rows)) /\ Len(rows) \in Nat
      BY <1>2, <3>1
    <3>. QED
      BY ONLY <3>2
  <2>. QED
    BY <1>2, <2>2
<1>7. ToSet(entries) = S
  <2>1. CASE entries = <<>>
    BY <2>1 DEF ToSet
  <2>2. CASE entries # <<>>
    <3>1. first = entries[1].start /\ first \in Nat \ {0}
      BY <1>2, <2>2 DEF FirstStart, Neat
    <3>2. \A c \in ToSet(entries) : c = EntryOf(epoch, c.start, "note") /\ c.start \in first..Len(rows)
      BY <1>1, <1>2, SingleIs
    <3>3. \A q \in first..Len(rows) : EntryOf(epoch, q, "note") \in ToSet(entries)
      BY <1>1, <1>2, SingleIs
    <3>4. \A q \in first..Len(rows) : q \in 1..Len(rows) /\ q >= first
      BY <1>2, <3>1
    <3>5. \A q \in 1..Len(rows) : q >= first => q \in first..Len(rows)
      BY <1>2, <3>1
    <3>6. \A q : EntryOf(epoch, q, "note").start = q
      BY NoteFields
    <3>7. ToSet(entries) \subseteq S
      BY <1>4, <2>2, <3>1, <3>2, <3>4
    <3>8. S \subseteq ToSet(entries)
      BY <1>4, <2>2, <3>1, <3>3, <3>5, <3>6
    <3>. QED
      BY <3>7, <3>8
  <2>. QED
    BY <2>1, <2>2
<1>8. entries = Only(list, S)
  <2>1. ToSet(Only(list, S)) = ToSet(entries)
    BY <1>5, <1>7
  <2>. HIDE DEF entries, S
  <2>. QED
    BY <1>2, <1>3, <1>5, <2>1, SameSorted
<1>. QED
  BY <1>1, <1>6, <1>8 DEF Converged, list

\* A settled client displays what the Relay's own projection displays, from the
\* first entry it loaded, where every item stands alone: whatever rows, pages,
\* reconnections and replacements crossed on the way (fetchTimeline, drainPending,
\* applyHistoryPage).
THEOREM DisplayConverges ==
    ASSUME Ordered, Items \subseteq {"note"}
    PROVE  Spec => []Converged
<1>1. Init => ConvergeInv
  BY ConvergeInvHolds
<1>2. ConvergeInv /\ [Next]_vars => ConvergeInv'
  BY ConvergeInvHolds
<1>3. ConvergeInv => Converged
  BY SettledConverged DEF ConvergeInv
<1>. QED
  BY <1>1, <1>2, <1>3, PTL DEF Spec

\* Between the first entry on display and the cursor none is missing, where every
\* item stands alone: earlier pages and scans reach back without a hole
\* (loadOlder, loadSearchMatch).
THEOREM HistoryUnbroken ==
    ASSUME Ordered, Items \subseteq {"note"}
    PROVE  Spec => []HistoryContiguous
<1>1. Init => ConvergeInv
  BY ConvergeInvHolds
<1>2. ConvergeInv /\ [Next]_vars => ConvergeInv'
  BY ConvergeInvHolds
<1>3. ConvergeInv => HistoryContiguous
  BY SyncFacts DEF ConvergeInv, HistoryContiguous, Unbroken
<1>. QED
  BY <1>1, <1>2, <1>3, PTL DEF Spec
=============================================================================
