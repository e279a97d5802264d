---------------------------- MODULE TeamDelivery ----------------------------
(***************************************************************************)
(* The delivery of Team messages to one member: the Relay's mailbox        *)
(* (packages/agent-remote-hosted/src/teams.ts and team-delivery.ts), the   *)
(* member's Controller (packages/agent-host/src/team.ts) and the uplink    *)
(* between them.                                                           *)
(*                                                                         *)
(* The Controller polls, claims a queued message, makes a receipt durable, *)
(* gives the input to the native session and settles the message with what *)
(* it learned.  The native session may hold input for a later turn, run it *)
(* or drop it when it is stopped, and reports this to the process that     *)
(* gave it the input.  The agent may instead read a queued message and     *)
(* acknowledge it; the user may archive the Team or resolve a message; the *)
(* member's role may move to another session.                              *)
(*                                                                         *)
(* Sent messages are never forgotten here: the Relay keeps receipts for a  *)
(* day.  All unresolved messages have one recipient, as the role moves     *)
(* only when none is left (MoveFindsSettled), so recipients of messages    *)
(* are left out.  Native readiness is a choice at each look.               *)
(***************************************************************************)
EXTENDS Naturals, Sequences

CONSTANTS
    Messages,
    MaxMishaps,    \* bounds crashes, lost connections, timeouts and failed writes
    MaxMoves,      \* bounds the handoffs of the member's session
    MaxArchives,   \* bounds how often the Team is archived
    NoMessage

ASSUME DeliveryAssumption ==
    /\ NoMessage \notin Messages
    /\ {MaxMishaps, MaxMoves, MaxArchives} \subseteq Nat

VARIABLES
    \* the Relay, durable
    team,          \* status of the Team
    inbox,         \* messages: the place of a message in the delivery queue, 0 outside it
    sends,         \* messages sent so far
    mail,          \* status and acceptance of every message, queued or kept as a receipt
    idleSeen,      \* the member reported itself idle since the Team was last touched
    addressee,     \* the session that holds the member's role, as the Relay resolves it
    frozen,        \* a handoff reserved that session
    \* the uplink
    wire,          \* requests that have an effect, in order
    reply,         \* to the request the tick awaits: "none", "ok" or "no"
    \* the Controller
    receipts,      \* records[].receipts in memory
    disk,          \* the same in seats.json
    writes,        \* persistence: the pending saves, in order
    broken,        \* a save failed
    stage,         \* where the tick is
    todo,          \* the polled messages the tick has not handled, with their places
    polled,        \* what the poll said of the Team and the recipient
    holder,        \* the session that holds the role, as the Controller routes it
    \* the native session
    input,         \* what became of the input of each message
    hooked,        \* messages whose callbacks still reach the Controller
    \* history and bounds
    consumed,      \* how often each message was read or given to the native session
    resolved,      \* messages the user decided
    mishaps, archives

mailbox == <<team, inbox, sends, mail, idleSeen>>
role == <<addressee, frozen, holder>>
uplink == <<wire, reply>>
saved == <<disk, writes, broken>>
tick == <<stage, todo, polled>>
agent == <<input, hooked>>
account == <<consumed, resolved, mishaps, archives>>
deliveryVars == <<mailbox, role, uplink, receipts, saved, tick, agent, account>>

Final == {"started", "handled"}
Blank == [status |-> "none", acceptance |-> "none"]

\* Mutant: an accepted message is settled, started or not.
UnresolvedClaims(r) == r.status \in {"dispatching", "unknown"}

\* unresolvedTeamDelivery: the effect is unknown or has not begun.
Unresolved(r) ==
    \/ r.status \in {"dispatching", "unknown"}
    \/ r.status = "accepted" /\ r.acceptance \notin Final

\* pendingTeamMessage: what stays in the queue.
Pending(r) == r.status = "queued" \/ Unresolved(r)

\* What a Controller may copy into an unresolved receipt.
Verdict(r) ==
    \/ r.status = "rejected"
    \/ r.status = "accepted" /\ r.acceptance \in Final

\* hasUnsettledRecipient, at the Relay and at the Controller.
RelayUnsettled == \E m \in Messages : Unresolved(mail[m])
Claiming == stage \in {"claiming", "writing"}
ControllerUnsettled == Claiming \/ \E m \in Messages : Unresolved(receipts[m])

DeliveryInit ==
    /\ team = "active" /\ mail = [m \in Messages |-> Blank] /\ idleSeen = FALSE
    /\ inbox = [m \in Messages |-> 0] /\ sends = 0
    /\ addressee = 0 /\ frozen = FALSE /\ holder = 0
    /\ wire = <<>> /\ reply = "none"
    /\ receipts = [m \in Messages |-> Blank] /\ disk = receipts
    /\ writes = <<>> /\ broken = FALSE
    /\ stage = "off" /\ todo = {} /\ polled = [status |-> "active", to |-> 0]
    /\ input = [m \in Messages |-> "none"] /\ hooked = {}
    /\ consumed = [m \in Messages |-> 0] /\ resolved = {}
    /\ mishaps = 0 /\ archives = 0

-----------------------------------------------------------------------------
(* The Relay.                                                              *)

\* Every change compacts the queue: settled messages become receipts.
Keep(letters) ==
    /\ mail' = letters
    /\ inbox' = [m \in Messages |-> IF Pending(letters[m]) THEN inbox[m] ELSE 0]
    /\ sends' = sends

\* settleArchive.
SettleArchive(idle) ==
    team' = IF team = "archiving" /\ idle /\ ~\E m \in Messages : Unresolved(mail'[m])
            THEN "archived" ELSE team

\* action "send" of another member.
SendMessage(m) ==
    /\ team = "active" /\ mail[m] = Blank
    /\ mail' = [mail EXCEPT ![m].status = "queued"]
    /\ sends' = sends + 1
    /\ inbox' = [inbox EXCEPT ![m] = sends']
    /\ UNCHANGED <<team, idleSeen, role, uplink, receipts, saved, tick, agent, account>>

\* action "acknowledge": the agent has read a queued message.
AcknowledgeMessage(m) ==
    /\ team = "active" /\ ~frozen /\ holder = addressee
    /\ mail[m].status = "queued"
    /\ Keep([mail EXCEPT ![m] = [status |-> "accepted", acceptance |-> "handled"]])
    /\ consumed' = [consumed EXCEPT ![m] = @ + 1]
    /\ UNCHANGED <<team, idleSeen, role, uplink, receipts, saved, tick, agent, resolved, mishaps, archives>>

\* action "resolve_message": the user decides what is unresolved.
ResolveMessage(m, outcome) ==
    /\ Unresolved(mail[m])
    /\ Keep([mail EXCEPT ![m] = [status |-> outcome,
                                 acceptance |-> IF outcome = "accepted" THEN "handled" ELSE "none"]])
    /\ SettleArchive(idleSeen)
    /\ resolved' = resolved \cup {m}
    /\ UNCHANGED <<idleSeen, role, uplink, receipts, saved, tick, agent, consumed, mishaps, archives>>

\* action "archive": closes admission and cancels what was not claimed.
ArchiveTeam ==
    /\ team = "active" /\ archives < MaxArchives
    /\ team' = "archiving" /\ archives' = archives + 1 /\ idleSeen' = FALSE
    /\ Keep([m \in Messages |-> IF mail[m].status = "queued"
                                THEN [mail[m] EXCEPT !.status = "canceled"] ELSE mail[m]])
    /\ UNCHANGED <<role, uplink, receipts, saved, tick, agent, consumed, resolved, mishaps>>

\* action "restore".
RestoreTeam ==
    /\ team = "archived"
    /\ team' = "active"
    /\ UNCHANGED <<inbox, sends, mail, idleSeen, role, uplink, receipts, saved, tick, agent, account>>

\* hostCall "claim".
Claimable(c) ==
    /\ team = "active" /\ mail[c.of].status = "queued"
    /\ c.to = addressee /\ ~frozen

\* hostCall "settle": an outcome the message can still take, or the one it has.
Settleable(m, outcome) ==
    \/ mail[m].status \in {"dispatching", "unknown", outcome}
    \/ mail[m] = [status |-> "accepted", acceptance |-> "queued"] /\ outcome = "rejected"

\* Mutant: the latest settlement replaces the earlier ones.
SettledByLatest(m, c) == [status |-> c.status, acceptance |-> c.acceptance]

SettledBy(m, c) ==
    IF inbox[m] = 0 THEN mail[m]
    ELSE [status |-> c.status,
          acceptance |-> IF mail[m].acceptance \in Final THEN mail[m].acceptance ELSE c.acceptance]

Answer(c, verdict) ==
    /\ wire' = Tail(wire)
    /\ reply' = IF c.awaited THEN verdict ELSE reply

HostClaim ==
    /\ wire # <<>> /\ Head(wire).call = "claim"
    /\ LET c == Head(wire)
       IN  IF Claimable(c)
           THEN Keep([mail EXCEPT ![c.of].status = "dispatching"]) /\ Answer(c, "ok")
           ELSE UNCHANGED <<mail, inbox, sends>> /\ Answer(c, "no")
    /\ UNCHANGED <<team, idleSeen, role, receipts, saved, tick, agent, account>>

HostSettle ==
    /\ wire # <<>> /\ Head(wire).call = "settle"
    /\ LET c == Head(wire)
       IN  IF Settleable(c.of, c.status)
           THEN Keep([mail EXCEPT ![c.of] = SettledBy(c.of, c)]) /\ Answer(c, "ok")
           ELSE UNCHANGED <<mail, inbox, sends>> /\ Answer(c, "no")
    /\ UNCHANGED <<team, idleSeen, role, receipts, saved, tick, agent, account>>

-----------------------------------------------------------------------------
(* A handoff of the member's session.                                      *)

\* The Relay reserves the session unless it has an unresolved delivery.
Freeze ==
    /\ addressee < MaxMoves /\ ~frozen /\ ~RelayUnsettled
    /\ frozen' = TRUE
    /\ UNCHANGED <<mailbox, addressee, holder, uplink, receipts, saved, tick, agent, account>>

\* The Controller commits unless it has one.
Move ==
    /\ frozen /\ holder = addressee /\ ~RelayUnsettled /\ ~ControllerUnsettled
    /\ holder' = holder + 1
    /\ UNCHANGED <<mailbox, addressee, frozen, uplink, receipts, saved, tick, agent, account>>

\* The Relay learns of the commit, or of the cancellation.
Unfreeze ==
    /\ frozen
    /\ frozen' = FALSE /\ addressee' = holder
    /\ UNCHANGED <<mailbox, holder, uplink, receipts, saved, tick, agent, account>>

-----------------------------------------------------------------------------
(* The Controller.                                                         *)

\* save: a snapshot of now joins the queue; after a failure every save fails.
Save(new, follow, m) ==
    writes' = IF broken THEN writes
              ELSE Append(writes, [notes |-> new, follow |-> follow, of |-> m])

\* settle: a request with what the receipt says now.
SettleCall(m, r, awaited) ==
    [call |-> "settle", of |-> m, status |-> r.status, acceptance |-> r.acceptance,
     to |-> holder, awaited |-> awaited]

ClaimCall(m) ==
    [call |-> "claim", of |-> m, status |-> "none", acceptance |-> "none",
     to |-> holder, awaited |-> TRUE]

\* The tick is over, with nothing remembered.
EndTick ==
    /\ stage' = "off" /\ todo' = {} /\ polled' = [status |-> "active", to |-> 0]

\* Poll, then reconcileReceipts: verdicts the Relay reached without this
\* Controller close its unresolved receipts.  A member that moved is skipped.
Poll ==
    /\ stage = "off"
    /\ LET decided == {m \in Messages : /\ Unresolved(receipts[m]) /\ Verdict(mail[m])
                                        /\ inbox[m] = 0}
       IN  /\ receipts' = [m \in Messages |-> IF m \in decided THEN mail[m] ELSE receipts[m]]
           /\ IF decided = {} THEN writes' = writes ELSE Save(receipts', "reconciled", NoMessage)
           /\ stage' = IF decided = {} \/ broken THEN "loop" ELSE "reconciling"
    /\ polled' = [status |-> team, to |-> addressee]
    /\ todo' = IF team = "archived" \/ holder # addressee THEN {}
               ELSE {[of |-> m, at |-> inbox[m], status |-> mail[m].status] :
                        m \in {n \in Messages : inbox[n] > 0}}
    /\ UNCHANGED <<mailbox, role, uplink, disk, broken, agent, account>>

\* The tick handles the polled messages in their order.
Next1 == CHOOSE e \in todo : \A f \in todo : e.at <= f.at
Looping == stage = "loop" /\ todo # {}

\* Mutant: a claim without a receipt is left alone.
OrphanNever(e) == FALSE

\* A claim that survived while its receipt did not is never taken as unexecuted.
Orphan(e) == e.status = "dispatching" /\ receipts[e.of] = Blank

\* The tick reports what it knows of a message.
ReportKnown ==
    /\ Looping
    /\ LET m == Next1.of
       IN  \/ /\ receipts[m].status \notin {"none", "dispatching"}
              /\ wire' = Append(wire, SettleCall(m, receipts[m], TRUE))
           \/ /\ Orphan(Next1)
              /\ wire' = Append(wire, SettleCall(m, [Blank EXCEPT !.status = "unknown"], TRUE))
    /\ stage' = "settling"
    /\ UNCHANGED <<mailbox, role, reply, receipts, saved, todo, polled, agent, account>>

\* dispatch, first part: a queued message without a receipt is claimed.
Dispatchable(e) ==
    /\ e.status = "queued" /\ receipts[e.of] = Blank
    /\ polled.status = "active" /\ holder = polled.to

ClaimNext ==
    /\ Looping /\ Dispatchable(Next1)
    /\ wire' = Append(wire, ClaimCall(Next1.of))
    /\ stage' = "claiming"
    /\ UNCHANGED <<mailbox, role, reply, receipts, saved, todo, polled, agent, account>>

\* Nothing to do for a message, or its recipient is not ready for it.
PassOver ==
    /\ Looping
    /\ receipts[Next1.of].status \in {"none", "dispatching"} /\ ~Orphan(Next1)
    /\ todo' = todo \ {Next1}
    /\ UNCHANGED <<mailbox, role, uplink, receipts, saved, stage, polled, agent, account>>

\* presence closes the tick; while archiving it may complete the archive.
Presence(idle) ==
    /\ stage = "loop" /\ todo = {}
    /\ IF team = "archiving" /\ polled.status # "archived" /\ holder = polled.to
       THEN /\ idleSeen' = idle /\ mail' = mail /\ SettleArchive(idle)
       ELSE UNCHANGED <<team, mail, idleSeen>>
    /\ EndTick
    /\ UNCHANGED <<inbox, sends, role, uplink, receipts, saved, agent, account>>

\* assertCurrent fails: the role moved after the poll.
Interrupted ==
    /\ Looping /\ holder # polled.to
    /\ EndTick
    /\ UNCHANGED <<mailbox, role, uplink, receipts, saved, agent, account>>

\* A refused or lost settle ends the tick, the later messages with it.
SettleAnswered ==
    /\ stage = "settling" /\ reply # "none"
    /\ reply' = "none"
    /\ IF reply = "ok" THEN stage' = "loop" /\ todo' = todo \ {Next1} /\ polled' = polled ELSE EndTick
    /\ UNCHANGED <<mailbox, role, wire, receipts, saved, agent, account>>

\* Without the claim there is no receipt and no effect; with it the receipt is
\* made durable first, or the message stays uncertain.
ClaimAnswered ==
    /\ stage = "claiming" /\ reply # "none"
    /\ reply' = "none"
    /\ LET m == Next1.of
       IN  CASE reply = "no" ->
                    /\ stage' = "loop" /\ todo' = todo \ {Next1}
                    /\ UNCHANGED <<receipts, writes, polled>>
             [] reply = "ok" /\ ~broken ->
                    /\ receipts' = [receipts EXCEPT ![m].status = "dispatching"]
                    /\ Save(receipts', "boundary", m)
                    /\ stage' = "writing"
                    /\ UNCHANGED <<todo, polled>>
             [] OTHER ->
                    /\ receipts' = [receipts EXCEPT ![m].status = "unknown"]
                    /\ writes' = writes
                    /\ EndTick
    /\ UNCHANGED <<mailbox, role, wire, disk, broken, agent, account>>

\* A save completes and what waited for it goes on.
DiskWrites ==
    /\ writes # <<>>
    /\ LET w == Head(writes)
       IN  /\ disk' = w.notes
           /\ stage' = CASE w.follow = "reconciled" -> "loop"
                         [] w.follow = "boundary" -> "executing"
                         [] w.follow = "final" -> "settling"
                         [] OTHER -> stage
           /\ wire' = IF w.follow \in {"note", "final"}
                      THEN Append(wire, SettleCall(w.of, receipts[w.of], w.follow = "final"))
                      ELSE wire
    /\ writes' = Tail(writes)
    /\ UNCHANGED <<mailbox, role, reply, receipts, broken, todo, polled, agent, account>>

\* It fails, and with it every later one: no further effect begins.
DiskFails ==
    /\ writes # <<>> /\ mishaps < MaxMishaps
    /\ mishaps' = mishaps + 1
    /\ broken' = TRUE /\ writes' = <<>>
    /\ CASE stage = "writing" ->
               receipts' = [receipts EXCEPT ![Next1.of].status = "unknown"] /\ EndTick
         [] stage = "finishing" -> receipts' = receipts /\ EndTick
         [] stage = "reconciling" -> stage' = "loop" /\ UNCHANGED <<receipts, todo, polled>>
         [] OTHER -> UNCHANGED <<receipts, tick>>
    /\ UNCHANGED <<mailbox, role, uplink, disk, agent, consumed, resolved, archives>>

\* onAcceptance and onWithdrawn.
Accepted(r, acceptance) ==
    [status |-> "accepted", acceptance |-> IF r.acceptance \in Final THEN r.acceptance ELSE acceptance]

Callback(m, r) ==
    IF m \in hooked
    THEN /\ receipts' = [receipts EXCEPT ![m] = r]
         /\ Save(receipts', "note", m)
    ELSE UNCHANGED <<receipts, writes>>

-----------------------------------------------------------------------------
(* The native session.                                                     *)

\* It has the input and did not run it; once it "waits" it has said so.
Held == {"held", "waits"}

\* The checked input reaches it.
NativeTakes ==
    /\ stage = "executing" /\ holder = polled.to
    /\ LET m == Next1.of
       IN  /\ m \notin hooked
           /\ input' = [input EXCEPT ![m] = "held"]
           /\ hooked' = hooked \cup {m}
           /\ consumed' = [consumed EXCEPT ![m] = @ + 1]
    /\ UNCHANGED <<mailbox, role, uplink, receipts, saved, tick, resolved, mishaps, archives>>

NativeStarts(m) ==
    /\ input[m] \in Held
    /\ input' = [input EXCEPT ![m] = "ran"]
    /\ Callback(m, Accepted(receipts[m], "started"))
    /\ UNCHANGED <<mailbox, role, uplink, disk, broken, tick, hooked, account>>

NativeQueued(m) ==
    /\ input[m] = "held"
    /\ input' = [input EXCEPT ![m] = "waits"]
    /\ Callback(m, Accepted(receipts[m], "queued"))
    /\ UNCHANGED <<mailbox, role, uplink, disk, broken, tick, hooked, account>>

\* Stopping the session removes input it held.
NativeWithdraws(m) ==
    /\ input[m] \in Held
    /\ input' = [input EXCEPT ![m] = "gone"]
    /\ Callback(m, [status |-> "rejected", acceptance |-> "none"])
    /\ UNCHANGED <<mailbox, role, uplink, disk, broken, tick, hooked, account>>

\* How the operation ends: with a disposition, without one, refused before it
\* had an effect, or with an unknown outcome.
Ends(m) ==
    {e \in {"queued", "started", "void", "refused", "unknown"} :
        /\ e = "queued" => input[m] \in Held
        /\ e = "started" => input[m] = "ran"
        /\ e = "void" => m \in hooked
        /\ e = "refused" => m \notin hooked}

Ended(r, e) ==
    CASE e \in {"queued", "started"} -> Accepted(r, e)
      [] e = "void" -> IF r.status = "dispatching" THEN [r EXCEPT !.status = "accepted"] ELSE r
      [] e = "refused" -> [r EXCEPT !.status = "rejected"]
      [] e = "unknown" -> IF r.status = "accepted" THEN r ELSE [r EXCEPT !.status = "unknown"]

\* dispatch, last part.
DispatchEnds(e) ==
    /\ stage = "executing"
    /\ LET m == Next1.of
       IN  /\ e \in Ends(m)
           /\ receipts' = [receipts EXCEPT ![m] = Ended(receipts[m], e)]
           /\ IF broken
              THEN writes' = writes /\ EndTick
              ELSE LET last == <<[notes |-> receipts', follow |-> "final", of |-> m]>>
                       note == <<[notes |-> receipts', follow |-> "note", of |-> m]>>
                   IN  /\ writes' = writes \o (IF e \in {"queued", "started"} THEN note \o last ELSE last)
                       /\ stage' = "finishing" /\ UNCHANGED <<todo, polled>>
    /\ UNCHANGED <<mailbox, role, uplink, disk, broken, agent, account>>

-----------------------------------------------------------------------------
(* Mishaps.                                                                *)

\* The uplink is replaced: requests and answers on the old one are lost.
ConnectionLost ==
    /\ mishaps < MaxMishaps /\ (wire # <<>> \/ reply # "none")
    /\ mishaps' = mishaps + 1
    /\ wire' = <<>>
    /\ reply' = IF stage \in {"claiming", "settling"} THEN "no" ELSE "none"
    /\ UNCHANGED <<mailbox, role, receipts, saved, tick, agent, consumed, resolved, archives>>

\* teamRequest gives up after 15 s; the Relay may still serve what was sent.
RequestTimesOut ==
    /\ mishaps < MaxMishaps /\ stage \in {"claiming", "settling"} /\ reply = "none"
    /\ mishaps' = mishaps + 1
    /\ wire' = [i \in DOMAIN wire |-> [wire[i] EXCEPT !.awaited = FALSE]]
    /\ reply' = "no"
    /\ UNCHANGED <<mailbox, role, receipts, saved, tick, agent, consumed, resolved, archives>>

\* Mutant: a dispatch that was under way is reported as not delivered.
RestoredRefused(notes) ==
    [m \in Messages |-> IF notes[m].status = "dispatching"
                        THEN [notes[m] EXCEPT !.status = "rejected"] ELSE notes[m]]

\* restore: a dispatch that was under way is uncertain.  The native session may
\* outlive the Controller, which no longer hears of it.
Restored(notes) ==
    [m \in Messages |-> IF notes[m].status = "dispatching"
                        THEN [notes[m] EXCEPT !.status = "unknown"] ELSE notes[m]]

ControllerCrashes ==
    /\ mishaps < MaxMishaps
    /\ mishaps' = mishaps + 1
    /\ receipts' = Restored(disk)
    /\ writes' = <<>> /\ broken' = FALSE
    /\ wire' = <<>> /\ reply' = "none"
    /\ EndTick
    /\ hooked' = {}
    /\ UNCHANGED <<mailbox, role, disk, input, consumed, resolved, archives>>

-----------------------------------------------------------------------------
RelayServes == HostClaim \/ HostSettle
TickSteps ==
    \/ Poll \/ ReportKnown \/ PassOver \/ Interrupted
    \/ \E idle \in BOOLEAN : Presence(idle)
    \/ SettleAnswered \/ ClaimAnswered
DispatchStep == \E e \in {"queued", "started", "void", "refused", "unknown"} : DispatchEnds(e)

DeliveryNext ==
    \/ \E m \in Messages :
          \/ SendMessage(m) \/ AcknowledgeMessage(m)
          \/ \E o \in {"accepted", "rejected"} : ResolveMessage(m, o)
          \/ NativeStarts(m) \/ NativeQueued(m) \/ NativeWithdraws(m)
    \/ ArchiveTeam \/ RestoreTeam
    \/ Freeze \/ Move \/ Unfreeze
    \/ RelayServes \/ TickSteps \/ ClaimNext
    \/ DiskWrites \/ DiskFails
    \/ NativeTakes \/ DispatchStep
    \/ ConnectionLost \/ RequestTimesOut \/ ControllerCrashes

\* The Controller ticks for ever, a native operation answers, the Relay and the
\* disk work, and a recipient is ready again and again.
DeliverySpec ==
    /\ DeliveryInit /\ [][DeliveryNext]_deliveryVars
    /\ WF_deliveryVars(TickSteps) /\ SF_deliveryVars(ClaimNext)
    /\ WF_deliveryVars(RelayServes)
    /\ WF_deliveryVars(DiskWrites)
    /\ WF_deliveryVars(DispatchStep)

-----------------------------------------------------------------------------
(* Properties.                                                             *)

Statuses == {"none", "dispatching", "accepted", "rejected", "unknown"}
Acceptances == {"none", "queued", "started", "handled"}

Letter == [status : Statuses \cup {"queued", "canceled"}, acceptance : Acceptances]
Receipt == [status : Statuses, acceptance : Acceptances]
Stages ==
    {"off", "loop", "claiming", "writing", "executing", "finishing", "settling", "reconciling"}

\* The queue is the pending messages, each in a place of its own.
MailboxTypeOK ==
    /\ team \in {"active", "archiving", "archived"} /\ idleSeen \in BOOLEAN
    /\ mail \in [Messages -> Letter]
    /\ sends \in Nat /\ inbox \in [Messages -> 0..sends]
    /\ \A m \in Messages : inbox[m] > 0 <=> Pending(mail[m])
    /\ \A m, n \in Messages : inbox[m] > 0 /\ inbox[m] = inbox[n] => m = n

\* The tick awaits an answer only where it stops for one.
ControllerTypeOK ==
    /\ receipts \in [Messages -> Receipt] /\ disk \in [Messages -> Receipt]
    /\ stage \in Stages /\ broken \in BOOLEAN
    /\ reply # "none" => stage \in {"claiming", "settling"}
    /\ stage \notin {"off", "loop", "reconciling"} => todo # {}
    /\ input \in [Messages -> {"none", "held", "waits", "ran", "gone"}]
    /\ addressee \in Nat /\ holder \in Nat /\ frozen \in BOOLEAN

\* The states of the Relay, the Controller and the native session.
DeliveryTypeOK == MailboxTypeOK /\ ControllerTypeOK

\* A message reaches its recipient at most once, as native input or by being
\* read and acknowledged, whatever is lost, repeated or restarted.
ConsumedOnce == \A m \in Messages : consumed[m] <= 1

\* The sender is never told that a message did not arrive when it did, or still
\* may: only a user who resolves it can say so.
DenialsAreTrue ==
    \A m \in Messages :
        mail[m].status \in {"rejected", "canceled"} /\ m \notin resolved
            => input[m] \in {"none", "gone"} /\ consumed[m] = (IF input[m] = "gone" THEN 1 ELSE 0)

\* Input the native session still holds is unresolved at the Relay, so the Team
\* is not archived and the member does not move over it, unless the user said so.
HeldIsUnresolved ==
    \A m \in Messages :
        input[m] \in Held /\ m \notin resolved => Unresolved(mail[m]) /\ team # "archived"

\* Mailbox, receipts and native session agree about every message.
DeliveryInv == DeliveryTypeOK /\ ConsumedOnce /\ DenialsAreTrue /\ HeldIsUnresolved

\* A verdict stands: late, repeated and reordered settlements change neither a
\* refusal nor an acceptance that is known to have started.
VerdictsStand ==
    [][\A m \in Messages : mail[m] # Blank /\ ~Pending(mail[m]) => mail'[m] = mail[m]]_deliveryVars

\* The role never moves over input that the session still holds, unless the user
\* resolved its message: either side may have forgotten it, never both.
MoveFindsSettled ==
    [][holder' # holder => \A m \in Messages \ resolved : input[m] \notin Held]_deliveryVars

\* The Relay refuses what the Controller knows of a message and keeps asking.
Stuck ==
    \E m \in Messages : /\ inbox[m] > 0
                        /\ receipts[m].status \notin {"none", "dispatching"}
                        /\ ~Settleable(m, receipts[m].status)

\* No message waits for ever, claimed or not: a queued one is delivered,
\* canceled or reported and a claimed one gets an outcome, unless a handoff holds
\* the member or a refused settlement stops the tick (Stuck).
MessagesMove ==
    \A m \in Messages : []<>(mail[m].status \notin {"queued", "dispatching"} \/ frozen \/ Stuck)
=============================================================================
