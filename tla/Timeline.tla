------------------------------ MODULE Timeline ------------------------------
(***************************************************************************)
(* The Relay's timeline (timeline-store.ts, timeline-projector.ts): the    *)
(* rows of an epoch in the order they were appended, the projection that   *)
(* joins rows of one activity into one entry, and the pages a client may   *)
(* ask for.                                                                *)
(*                                                                         *)
(* A row is its item kind: "text" (assistant and reasoning text, joined to *)
(* the entry before it), "tool" (a tool call or a todo list, joined to its *)
(* one earlier entry), "loading" and "completed" (a compaction, the second *)
(* joined to a loading first) and "note" (everything that stands alone).   *)
(* What an entry displays is kept as the identities <<epoch, seq>> of the  *)
(* rows whose content is on display.                                       *)
(***************************************************************************)
EXTENDS Integers, Sequences, SequencesExt

ItemKinds == {"note", "text", "tool", "loading", "completed"}

EntryOf(epoch, seq, item) ==
    [item |-> item, start |-> seq, end |-> seq, rows |-> {seq}, shown |-> <<(<<epoch, seq>>)>>]

\* The entry of the list that a row joins, 0 for none.
Joined(entries, item) ==
    LET compactions == {i \in DOMAIN entries : entries[i].item \in {"loading", "completed"}}
    IN  CASE item = "text" ->
               IF entries # <<>> /\ Last(entries).item = "text" THEN Len(entries) ELSE 0
          [] item = "tool" ->
               SelectInSeq(entries, LAMBDA e : e.item = "tool")
          [] item = "completed" /\ compactions # {} ->
               IF entries[Max(compactions)].item = "loading" THEN Max(compactions) ELSE 0
          [] OTHER -> 0

\* Text accumulates; the other items show their latest row.
Extended(entry, epoch, seq, item) ==
    [entry EXCEPT !.item = item,
                  !.end = Max({@, seq}),
                  !.rows = @ \cup {seq},
                  !.shown = IF item = "text" THEN Append(@, <<epoch, seq>>) ELSE <<(<<epoch, seq>>)>>]

Projection(epoch, items) ==
    LET list[n \in 0..Len(items)] ==
            IF n = 0 THEN <<>>
            ELSE LET entries == list[n - 1]
                     i == Joined(entries, items[n])
                 IN  IF i = 0 THEN Append(entries, EntryOf(epoch, n, items[n]))
                     ELSE [entries EXCEPT ![i] = Extended(@, epoch, n, items[n])]
    IN  list[Len(items)]

\* The elements of s that are in S, in their order.
Only(s, S) ==
    LET kept[n \in 0..Len(s)] ==
            IF n = 0 THEN <<>>
            ELSE IF s[n] \in S THEN Append(kept[n - 1], s[n]) ELSE kept[n - 1]
    IN  kept[Len(s)]

LastOf(s, n) == SubSeq(s, Max({1, Len(s) - n + 1}), Len(s))

-----------------------------------------------------------------------------
(* Pages.  end is the seq of endCursor, 0 where it is null; next is        *)
(* window.nextSeq.                                                         *)

PageOf(epoch, items, direction, entries, first, last) ==
    [direction |-> direction, epoch |-> epoch, reset |-> FALSE, gap |-> FALSE,
     entries |-> entries, next |-> Len(items) + 1, end |-> last,
     hasOlder |-> first > 1, hasNewer |-> last # 0 /\ last < Len(items)]

EntriesPage(epoch, items, direction, entries) ==
    PageOf(epoch, items, direction, entries,
           IF entries = <<>> THEN 0 ELSE entries[1].start,
           IF entries = <<>> THEN 0 ELSE Last(entries).end)

TailPage(epoch, items, limit) ==
    EntriesPage(epoch, items, "tail", LastOf(Projection(epoch, items), limit))

\* Mutant: includes the entry the cursor stands at.
BeforePageInclusive(epoch, items, seq, limit) ==
    LET list == Projection(epoch, items)
    IN  EntriesPage(epoch, items, "before", LastOf(Only(list, {e \in ToSet(list) : e.start <= seq}), limit))

BeforePage(epoch, items, seq, limit) ==
    LET list == Projection(epoch, items)
    IN  EntriesPage(epoch, items, "before", LastOf(Only(list, {e \in ToSet(list) : e.start < seq}), limit))

\* The first rows after the cursor, each with all of its entry up to there.
AfterPage(epoch, items, seq, limit) ==
    IF seq > Len(items) THEN [EntriesPage(epoch, items, "after", <<>>) EXCEPT !.gap = TRUE]
    ELSE IF seq = Len(items) THEN EntriesPage(epoch, items, "after", <<>>)
    ELSE LET last == IF seq + limit < Len(items) THEN seq + limit ELSE Len(items)
             list == Projection(epoch, SubSeq(items, 1, last))
         IN  PageOf(epoch, items, "after", Only(list, {e \in ToSet(list) : e.end > seq}), seq + 1, last)

\* projectTimelinePage: a cursor of another epoch is answered with a reset.
Page(epoch, items, direction, cursor, limit) ==
    IF direction = "tail" THEN TailPage(epoch, items, limit)
    ELSE IF cursor.epoch # epoch THEN [EntriesPage(epoch, items, direction, <<>>) EXCEPT !.reset = TRUE]
    ELSE IF direction = "before" THEN BeforePage(epoch, items, cursor.seq, limit)
    ELSE AfterPage(epoch, items, cursor.seq, limit)
=============================================================================
