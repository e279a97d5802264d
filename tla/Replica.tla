------------------------------ MODULE Replica ------------------------------
(***************************************************************************)
(* The browser's replica of a timeline (replica/reducer.ts): a pure        *)
(* reducer of live rows and history pages.  Each reduction returns the new *)
(* replica and a status the session client acts on.                        *)
(***************************************************************************)
EXTENDS Timeline

\* Epoch 0 is null; retired holds the epochs that were replaced.
EmptyReplica(epoch, retired) ==
    [epoch |-> epoch, initialized |-> FALSE, entries |-> <<>>, next |-> 1,
     hasOlder |-> FALSE, pending |-> {}, retired |-> retired]

Reduced(status, replica) == [status |-> status, replica |-> replica]

\* Mutant: keeps the entries of the replaced epoch.
ReplacedUncleared(r, epoch) ==
    IF r.epoch = epoch /\ ~r.initialized THEN r
    ELSE [r EXCEPT !.epoch = epoch, !.initialized = FALSE, !.next = 1,
                   !.retired = @ \cup ({r.epoch} \ {0, epoch})]

\* applyTimelineReplacement
Replaced(r, epoch) ==
    IF r.epoch = epoch /\ ~r.initialized THEN r
    ELSE EmptyReplica(epoch, r.retired \cup ({r.epoch} \ {0, epoch}))

Buffered(r, m) == [r EXCEPT !.pending = @ \cup {m}]

\* Entries stay sorted by (start, end); the sort is stable.
Inserted(entries, e) ==
    LET before == {i \in DOMAIN entries :
            \/ entries[i].start < e.start
            \/ entries[i].start = e.start /\ entries[i].end <= e.end}
    IN  InsertAt(entries, Max({0} \cup before) + 1, e)

Coalesced(entries, m) ==
    LET i == Joined(entries, m.item)
    IN  IF i = 0 THEN Inserted(entries, EntryOf(m.epoch, m.seq, m.item))
        ELSE [entries EXCEPT ![i] = Extended(@, m.epoch, m.seq, m.item)]

Appended(r, m) ==
    [r EXCEPT !.entries = Coalesced(@, m),
              !.next = m.seq + 1,
              !.pending = {p \in @ : p.seq # m.seq}]

\* Mutant: applies a row it has already.
ReduceLiveAgain(r, m) ==
    IF m.epoch \in r.retired THEN Reduced("stale_epoch", r)
    ELSE IF r.epoch \notin {0, m.epoch} THEN Reduced("epoch_changed", Buffered(Replaced(r, m.epoch), m))
    ELSE IF ~r.initialized THEN Reduced("buffered", Buffered([r EXCEPT !.epoch = m.epoch], m))
    ELSE IF m.seq > r.next THEN Reduced("gap", Buffered(r, m))
    ELSE Reduced("applied", Appended(r, m))

\* reduceTimelineEvent
ReduceLive(r, m) ==
    IF m.epoch \in r.retired THEN Reduced("stale_epoch", r)
    ELSE IF r.epoch \notin {0, m.epoch} THEN Reduced("epoch_changed", Buffered(Replaced(r, m.epoch), m))
    ELSE IF ~r.initialized THEN Reduced("buffered", Buffered([r EXCEPT !.epoch = m.epoch], m))
    ELSE IF m.seq < r.next THEN Reduced("duplicate", r)
    ELSE IF m.seq > r.next THEN Reduced("gap", Buffered(r, m))
    ELSE Reduced("applied", Appended(r, m))

\* drainPending: apply the buffered rows that are next, forget older ones.
Drained(r) ==
    LET buffered == {m.seq : m \in r.pending}
        reach == Max({r.next - 1} \cup {s \in buffered : r.next..s \subseteq buffered})
        applied[s \in r.next - 1..reach] ==
            IF s < r.next THEN r
            ELSE Appended(applied[s - 1], CHOOSE m \in r.pending : m.seq = s)
        left == {m \in r.pending : m.seq > reach}
    IN  Reduced(IF left = {} THEN "applied" ELSE "gap", [applied[reach] EXCEPT !.pending = left])

Overlap(a, b) == a.rows \cap b.rows # {}

\* mergeAuthoritative: what the page covers replaces what overlaps it.
Merged(base, incoming) ==
    LET kept == Only(base, {e \in ToSet(base) : \A i \in DOMAIN incoming : ~Overlap(e, incoming[i])})
        merged[n \in 0..Len(incoming)] ==
            IF n = 0 THEN kept ELSE Inserted(merged[n - 1], incoming[n])
    IN  merged[Len(incoming)]

\* Mutant: takes the end of history for the end of the page.
NextOfWindow(r, page) == IF page.direction = "before" THEN r.next ELSE page.next

\* nextSequenceForPage
NextOf(r, page) ==
    IF page.direction = "before" THEN r.next
    ELSE IF page.hasNewer THEN page.end + 1
    ELSE page.next

\* The page in place of what the replica holds, before buffered rows drain.
WithPage(r, page, preserveLive) ==
    LET base == IF ~r.initialized \/ page.direction = "tail" THEN <<>> ELSE r.entries
        superseded == {c \in ToSet(page.entries) :
            \E i \in DOMAIN base : base[i].end > c.end /\ Overlap(base[i], c)}
        incoming == IF preserveLive THEN Only(page.entries, ToSet(page.entries) \ superseded)
                    ELSE page.entries
        next == NextOf(r, page)
    IN  [r EXCEPT !.epoch = page.epoch, !.initialized = TRUE,
                  !.entries = Merged(base, incoming),
                  !.next = IF preserveLive THEN Max({@, next}) ELSE next,
                  !.hasOlder = page.hasOlder \/ (page.direction # "before" /\ @),
                  !.pending = {m \in @ : m.epoch = page.epoch}]

\* applyHistoryPage
ApplyPage(r, page, preserveLive) ==
    LET changed == r.epoch \notin {0, page.epoch}
    IN  IF page.reset \/ page.gap THEN Reduced("reset_required", Replaced(r, page.epoch))
        ELSE IF changed /\ page.epoch \in r.retired THEN Reduced("stale_epoch", r)
        ELSE IF changed /\ page.direction # "tail" THEN Reduced("epoch_changed", Replaced(r, page.epoch))
        ELSE Drained(WithPage(IF changed THEN Replaced(r, page.epoch) ELSE r, page, preserveLive))
=============================================================================
