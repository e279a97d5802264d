--------------------------- MODULE MessageOutbox ---------------------------
(***************************************************************************)
(* The outbox of a browser page (replica/message-outbox.ts, and what       *)
(* replica/store.ts, remote-session-client.ts and message-recovery.ts do   *)
(* with its messages): a message stays on display until its echo, the row  *)
(* of user input the agent's timeline gains for it, is found among the     *)
(* rows the page has.  Nothing but the text ties an echo to its message:   *)
(* as it was written, or, of input the Host prepared with the history of   *)
(* an earlier session, the digest of the text as it was submitted, known   *)
(* from the acknowledgement.                                               *)
(*                                                                         *)
(* Texts stand for classes of text that normalize to one another; a digest *)
(* for the text it is of.  The page sends and retries with its timeline    *)
(* initialized, as its views require (session-state.ts), and the browser's *)
(* storage holds the latest outbox when the page is reloaded.              *)
(***************************************************************************)
EXTENDS Integers, Sequences, FiniteSets

CONSTANTS
    Texts,        \* what users write and the Host submits
    Prepared,     \* the text the Host submits for a first input of a text
    Window,       \* rows of user input on a history page
    MaxMessages,  \* bounds the messages of the page in the model
    MaxAttempts,  \* bounds the operations of a message in the model
    MaxInputs,    \* bounds the rows of user input of an epoch in the model
    MaxUpsets,    \* bounds what goes wrong in the model: refusals, lost answers,
                  \* failed digests, reloads, replaced timelines, other users' input
    Unknown       \* no text, no digest

ASSUME OutboxAssumption ==
    /\ Prepared \in [Texts -> Texts]
    /\ {Window, MaxMessages, MaxAttempts, MaxInputs} \subseteq Nat \ {0}
    /\ MaxUpsets \in Nat
    /\ Unknown \notin Texts

VARIABLES
    log,      \* the user input in the Relay's timeline: the texts of its rows
    ops,      \* per message and attempt, the operation at the Host
    view,     \* the page's timeline: its epoch, entries and nextSeq
    box,      \* outgoingMessages; one with status "none" or "gone" is not there
    waiting,  \* messages whose current operation is unanswered
    claims,   \* which echo each settled message was settled by
    born,     \* per message, the cursor when its current operation was created
    upsets    \* what has gone wrong so far

outboxVars == <<log, ops, view, box, waiting, claims, born, upsets>>

Messages == 1..MaxMessages
Attempts == 1..MaxAttempts
Operations == Messages \X Attempts

\* An operation: what the Host answers, and whether a row of input is to follow.
NoOperation == [verdict |-> "none", echo |-> "none", text |-> Unknown]

NoMessage ==
    [status |-> "none", text |-> Unknown, attempt |-> 0, retryRequiresNewOperation |-> FALSE,
     submitted |-> Unknown, epoch |-> 0, afterSeq |-> 0, consumed |-> {}]

Gone == [NoMessage EXCEPT !.status = "gone"]

Pending(b) == b.status \in {"sending", "awaiting_echo", "unconfirmed"}

Least(s, S) == s \in S /\ \A t \in S : s <= t
Greatest(S) == CHOOSE s \in S : \A t \in S : s >= t

OutboxInit ==
    /\ log = <<>>
    /\ ops = [o \in Operations |-> NoOperation]
    /\ view = [epoch |-> 1, entries |-> <<>>, nextSeq |-> 1]
    /\ box = [m \in Messages |-> NoMessage]
    /\ waiting = {} /\ claims = {}
    /\ born = [m \in Messages |-> 0]
    /\ upsets = 0

-----------------------------------------------------------------------------
(* Reconciliation, part of every change of the replica's state.            *)

Here(b, v) == Pending(b) /\ b.epoch = v.epoch

Unclaimed(b, s) == s > b.afterSeq /\ s \notin b.consumed

\* A message whose submitted text is known waits for the digests of the entries
\* that could be its echo.
Hashed(v, bs, s) ==
    \E m \in Messages : bs[m].submitted # Unknown /\ Here(bs[m], v) /\ Unclaimed(bs[m], s)

DigestsStarted(v, bs) ==
    [v EXCEPT !.entries =
        [s \in DOMAIN @ |-> IF Hashed(v, bs, s) /\ @[s].digest = "none"
                            THEN [@[s] EXCEPT !.digest = "pending"] ELSE @[s]]]

DigestsReady(v, bs) ==
    \A s \in DOMAIN v.entries : Hashed(v, bs, s) => v.entries[s].digest # "pending"

Matches(b, entry) ==
    IF b.submitted # Unknown THEN entry.digest = "done" /\ entry.text = b.submitted
    ELSE entry.text = b.text

Echoes(v, b) ==
    {s \in DOMAIN v.entries : Here(b, v) /\ Unclaimed(b, s) /\ Matches(b, v.entries[s])}

\* In the order they were sent, each message takes the first echo no other took.
Assigned(v, bs, echo) ==
    \A m \in Messages :
        LET left == Echoes(v, bs[m]) \ {echo[k] : k \in 1..(m - 1)}
        IN  IF left = {} THEN echo[m] = 0 ELSE Least(echo[m], left)

\* Mutant: forgets which echoes were taken.
PassOverForgetting(v, b, taken) ==
    LET afterSeq == Greatest({b.afterSeq} \cup
                       {s \in taken : s \in DOMAIN v.entries /\ Matches(b, v.entries[s])})
    IN  [b EXCEPT !.afterSeq = afterSeq]

\* A later acknowledgement may show that a taken echo would have matched: those
\* that remain pass over what was taken.
PassOver(v, b, taken) ==
    LET afterSeq == Greatest({b.afterSeq} \cup
                       {s \in taken : s \in DOMAIN v.entries /\ Matches(b, v.entries[s])})
    IN  [b EXCEPT !.afterSeq = afterSeq,
                  !.consumed = {s \in @ \cup taken : s > afterSeq}]

Reconciled(v, bs, echo) ==
    LET taken == {echo[m] : m \in Messages} \ {0}
    IN  [m \in Messages |->
            IF echo[m] # 0 THEN Gone
            ELSE IF Here(bs[m], v) /\ taken # {} THEN PassOver(v, bs[m], taken)
            ELSE IF Pending(bs[m]) /\ bs[m].epoch # v.epoch THEN [bs[m] EXCEPT !.status = "unconfirmed"]
            ELSE bs[m]]

Claim(v, bs, m, s) == [message |-> m, attempt |-> bs[m].attempt, epoch |-> v.epoch, seq |-> s]

\* AgentReplica.replace: nothing is settled while a digest is computed.
Replace(v, bs) ==
    LET w == DigestsStarted(v, bs)
    IN  /\ view' = w
        /\ IF DigestsReady(w, bs)
           THEN \E echo \in [Messages -> 0..MaxInputs] :
                   /\ Assigned(w, bs, echo)
                   /\ box' = Reconciled(w, bs, echo)
                   /\ claims' = claims \cup {Claim(w, bs, m, echo[m]) : m \in {k \in Messages : echo[k] # 0}}
           ELSE box' = bs /\ UNCHANGED claims

ReplaceMessage(m, b) == Replace(view, [box EXCEPT ![m] = b])

Upset == upsets < MaxUpsets /\ upsets' = upsets + 1

-----------------------------------------------------------------------------
(* The Host, the agent and its other users.                                *)

Operated(m, k, verdict, echo, text) ==
    ops' = [ops EXCEPT ![<<m, k>>] = [verdict |-> verdict, echo |-> echo, text |-> text]]

Accepted == {o \in Operations : ops[o].verdict \in {"accepted", "prepared"}}

\* An operation is carried out once, whoever asks again; only the first input to a
\* session is prepared.
CarryOut(m, k) ==
    LET text == ops[<<m, k>>].text
    IN  /\ ops[<<m, k>>].verdict = "sent"
        /\ \/ Operated(m, k, "accepted", "due", text) /\ UNCHANGED upsets
           \/ /\ Accepted = {} /\ Prepared[text] # text
              /\ Operated(m, k, "prepared", "due", Prepared[text]) /\ UNCHANGED upsets
           \/ Operated(m, k, "handled", "none", text) /\ Upset
           \/ Operated(m, k, "refused", "none", text) /\ Upset
           \/ \E echo \in {"none", "due"} : Operated(m, k, "unknown", echo, text) /\ Upset
        /\ UNCHANGED <<log, view, box, waiting, claims, born>>

\* The agent echoes input in the order it likes: some of it is queued.
Echo(m, k) ==
    /\ ops[<<m, k>>].echo = "due" /\ Len(log) < MaxInputs
    /\ log' = Append(log, ops[<<m, k>>].text)
    /\ ops' = [ops EXCEPT ![<<m, k>>].echo = "logged"]
    /\ UNCHANGED <<view, box, waiting, claims, born, upsets>>

OthersInput ==
    /\ Len(log) < MaxInputs
    /\ \E text \in Texts : log' = Append(log, text)
    /\ Upset
    /\ UNCHANGED <<ops, view, box, waiting, claims, born>>

-----------------------------------------------------------------------------
(* The page's timeline.                                                    *)

\* What is shown already keeps its digest.
With(v, rows) ==
    [v EXCEPT !.entries = [s \in DOMAIN @ \cup rows |->
                              IF s \in DOMAIN @ THEN @[s] ELSE [text |-> log[s], digest |-> "none"]],
              !.nextSeq = Greatest({@} \cup {s + 1 : s \in rows})]

Shows(rows) == rows # {} /\ Replace(With(view, rows), box)

NotShown == (1..Len(log)) \ DOMAIN view.entries

\* A row arrives live or by catching up after a reconnection.
ShowNext ==
    /\ Shows({view.nextSeq} \cap NotShown)
    /\ UNCHANGED <<log, ops, waiting, born, upsets>>

\* loadOlder
ShowOlder ==
    /\ \E first \in DOMAIN view.entries :
          /\ Least(first, DOMAIN view.entries)
          /\ Shows({s \in NotShown : s < first /\ s >= first - Window})
    /\ UNCHANGED <<log, ops, waiting, born, upsets>>

\* watchMessageEchoes: from the earliest cursor that awaits an echo, page by page.
ScanPage ==
    LET awaiting == {box[m].afterSeq : m \in
                        {k \in Messages : box[k].status = "awaiting_echo" /\ box[k].epoch = view.epoch}}
        missing == {s \in NotShown : \E start \in awaiting : s > start}
    IN  /\ \E first \in missing :
              /\ Least(first, missing)
              /\ Shows({s \in missing : s < first + Window})
        /\ UNCHANGED <<log, ops, waiting, born, upsets>>

\* The digest of an entry is computed, or cannot be.
DigestEnds(s) ==
    /\ s \in DOMAIN view.entries /\ view.entries[s].digest = "pending"
    /\ \E digest \in {"done", "failed"} :
          /\ digest = "failed" => upsets < MaxUpsets
          /\ upsets' = IF digest = "failed" THEN upsets + 1 ELSE upsets
          /\ Replace([view EXCEPT !.entries[s].digest = digest], box)
    /\ UNCHANGED <<log, ops, waiting, born>>

LatestPage(epoch, rows) ==
    [epoch |-> epoch, nextSeq |-> Len(rows) + 1,
     entries |-> [s \in {r \in 1..Len(rows) : r > Len(rows) - Window} |->
                     [text |-> rows[s], digest |-> "none"]]]

\* The Relay rebuilds the timeline from native history, as far as there is any.
NewEpoch ==
    /\ Upset
    /\ \E rows \in {<<>>, log} : log' = rows /\ Replace(LatestPage(view.epoch + 1, rows), box)
    /\ UNCHANGED <<ops, waiting, born>>

-----------------------------------------------------------------------------
(* Messages.                                                               *)

Cursor == view.nextSeq - 1

Requested(m, k, text) ==
    /\ ops' = [ops EXCEPT ![<<m, k>>] = [verdict |-> "sent", echo |-> "none", text |-> text]]
    /\ born' = [born EXCEPT ![m] = Cursor]

\* sendMessage and beginMessage.
SendMessage(m, text) ==
    /\ box[m].status = "none" /\ \A k \in 1..(m - 1) : box[k].status # "none"
    /\ Requested(m, 1, text)
    /\ waiting' = waiting \cup {m}
    /\ ReplaceMessage(m, [NoMessage EXCEPT !.status = "sending", !.text = text, !.attempt = 1,
                                           !.epoch = view.epoch, !.afterSeq = Cursor])
    /\ UNCHANGED <<log, upsets>>

\* acknowledgeMessage; "handled" needs no echo.
Acknowledged(b, o) ==
    IF o.verdict = "handled" THEN Gone
    ELSE IF ~Pending(b) THEN b
    ELSE [b EXCEPT !.submitted = IF o.verdict = "prepared" THEN o.text ELSE @,
                   !.status = IF @ = "unconfirmed" THEN @ ELSE "awaiting_echo"]

\* A refusal, or an outcome the Host cannot tell; only another operation may follow.
Refused(b, o) ==
    IF o.verdict = "refused" THEN [b EXCEPT !.status = "failed"]
    ELSE [b EXCEPT !.status = "unconfirmed", !.retryRequiresNewOperation = TRUE]

\* The answer to the current operation of a message still in the box.
Answer(m) ==
    LET o == ops[<<m, box[m].attempt>>]
    IN  /\ m \in waiting /\ box[m].status \notin {"none", "gone"}
        /\ o.verdict # "sent"
        /\ ReplaceMessage(m, IF o.verdict \in {"refused", "unknown"} THEN Refused(box[m], o)
                             ELSE Acknowledged(box[m], o))
        /\ waiting' = waiting \ {m}
        /\ UNCHANGED <<log, ops, born, upsets>>

\* rejectPendingOperations: the connection ends; what it carried may still be done.
LoseConnection ==
    /\ waiting # {} /\ Upset
    /\ waiting' = {}
    /\ Replace(view, [m \in Messages |-> IF m \in waiting /\ box[m].status # "gone"
                                         THEN [box[m] EXCEPT !.status = "unconfirmed"] ELSE box[m]])
    /\ UNCHANGED <<log, ops, born>>

SameOperation(b) ==
    b.status = "unconfirmed" /\ ~b.retryRequiresNewOperation /\ b.epoch = view.epoch

\* retryMessage with the same operation: where its echo may be is still known.
RetrySame(m) ==
    /\ SameOperation(box[m])
    /\ waiting' = waiting \cup {m}
    /\ ReplaceMessage(m, [box[m] EXCEPT !.status = "sending"])
    /\ UNCHANGED <<log, ops, born, upsets>>

\* retryMessage with another operation: nothing of the earlier one is evidence.
RetryNew(m) ==
    /\ box[m].status \in {"failed", "unconfirmed"} /\ ~SameOperation(box[m])
    /\ box[m].attempt < MaxAttempts
    /\ Requested(m, box[m].attempt + 1, box[m].text)
    /\ waiting' = waiting \cup {m}
    /\ ReplaceMessage(m, [NoMessage EXCEPT !.status = "sending", !.text = box[m].text,
                                           !.attempt = box[m].attempt + 1,
                                           !.epoch = view.epoch, !.afterSeq = Cursor])
    /\ UNCHANGED <<log, upsets>>

DeleteMessage(m) ==
    /\ box[m].status \in {"failed", "unconfirmed"}
    /\ waiting' = waiting \ {m}
    /\ ReplaceMessage(m, Gone)
    /\ UNCHANGED <<log, ops, born, upsets>>

\* restoreMessages: the page is loaded again and shows the latest page of history.
Reload ==
    /\ Upset
    /\ waiting' = {}
    /\ Replace(LatestPage(view.epoch, log),
               [m \in Messages |-> IF Pending(box[m]) THEN [box[m] EXCEPT !.status = "unconfirmed"]
                                   ELSE box[m]])
    /\ UNCHANGED <<log, ops, born>>

OutboxNext ==
    \/ \E m \in Messages, k \in Attempts : CarryOut(m, k) \/ Echo(m, k)
    \/ OthersInput \/ ShowNext \/ ShowOlder \/ ScanPage \/ NewEpoch \/ LoseConnection \/ Reload
    \/ \E s \in 1..MaxInputs : DigestEnds(s)
    \/ \E m \in Messages :
          \/ \E text \in Texts : SendMessage(m, text)
          \/ Answer(m) \/ RetrySame(m) \/ RetryNew(m) \/ DeleteMessage(m)

OutboxSpec == OutboxInit /\ [][OutboxNext]_outboxVars

-----------------------------------------------------------------------------
(* Properties.                                                             *)

\* Type: every variable stays in its range.
OutboxTypeOK ==
    /\ log \in Seq(Texts)
    /\ ops \in [Operations -> [verdict : {"none", "sent", "accepted", "prepared", "handled", "refused", "unknown"},
                               echo : {"none", "due", "logged"}, text : Texts \cup {Unknown}]]
    /\ view \in [epoch : Nat \ {0}, nextSeq : Nat \ {0},
                 entries : UNION {[rows -> [text : Texts, digest : {"none", "pending", "done", "failed"}]] :
                                    rows \in SUBSET (1..Len(log))}]
    /\ box \in [Messages -> [status : {"none", "sending", "awaiting_echo", "unconfirmed", "failed", "gone"},
                             text : Texts \cup {Unknown}, attempt : 0..MaxAttempts,
                             retryRequiresNewOperation : BOOLEAN, submitted : Texts \cup {Unknown},
                             epoch : Nat, afterSeq : Nat, consumed : SUBSET Nat]]
    /\ waiting \subseteq Messages
    /\ claims \subseteq [message : Messages, attempt : 0..MaxAttempts, epoch : Nat, seq : Nat]
    /\ born \in [Messages -> Nat]
    /\ upsets \in 0..MaxUpsets

\* Safety: an echo settles one message, whatever order echoes, acknowledgements,
\* digests, retries and reloads come in (consumedEchoSeqs).
OneEchoOneMessage ==
    \A c, d \in claims : c.epoch = d.epoch /\ c.seq = d.seq => c = d

\* Safety: what the page showed before an operation was created is no evidence of it;
\* a retry starts behind it.
FreshEcho == \A c \in claims : c.seq > born[c.message]

Claimed(s) == \E c \in claims : c.epoch = view.epoch /\ c.seq = s

\* A row that would be the message's echo and no message took, with no digest awaited.
Missed(b, first, s) ==
    /\ \A r \in DOMAIN view.entries : view.entries[r].digest # "pending"
    /\ s \in DOMAIN view.entries /\ s > first
    /\ Here(b, view) /\ Matches(b, view.entries[s]) /\ ~Claimed(s)

\* Safety: a message passes an echo over only where a later row with its text has
\* settled another one; nothing else costs it the echo that is there.
MissedBehindClaim ==
    \A m \in Messages : \A s \in DOMAIN view.entries :
        Missed(box[m], born[m], s) =>
            \E r \in (s + 1)..Len(log) : Claimed(r) /\ log[r] \in {box[m].text, box[m].submitted}

\* Safety: the outbox as a whole.
OutboxInv == OutboxTypeOK /\ OneEchoOneMessage /\ FreshEcho /\ MissedBehindClaim

\* Safety, as the documentation has it: each echo can confirm a send that waits for
\* one, across reloads.  Not so: see the run that expects its violation.
NoEchoMissed ==
    \A m \in Messages : \A s \in DOMAIN view.entries : ~Missed(box[m], born[m], s)
=============================================================================
