------------------------- MODULE ControllersProofs --------------------------
(***************************************************************************)
(* Proofs about two parts of Controllers that share no state: the          *)
(* ownership of native sessions, for every number of attempts and          *)
(* processes, and the delivery of Team messages, for any messages and      *)
(* bounds.                                                                 *)
(***************************************************************************)
EXTENDS NativeOwnership, TeamDelivery, SequenceTheorems, NaturalsInduction, WellFoundedInduction, TLAPS

-----------------------------------------------------------------------------
\* The ownership of native sessions.

\* A step of one attempt.
AttemptStep(g) ==
    \/ Begin(g) \/ ClaimStep(g) \/ ReserveStep(g) \/ AskStep(g) \/ WithdrawStep(g)
    \/ Use(g) \/ TakeoverRequest(g) \/ TransferStep(g) \/ ReleaseStep(g)

Fenced == {"fenced", "releasing", "unlinking", "stuck", "released", "dead"}
Early == {"new", "claim", "claiming", "reserve", "reserving"}

\* An attempt ends when its process stops.
PhaseAlive == \A g \in Attempts : phase[g] # "new" => (Alive(g) <=> phase[g] # "dead")

\* A transfer fenced its lease; the native session is over before the record
\* changes hands.
TransferPhase ==
    \A g \in Attempts :
        /\ transfer[g] # "none" => phase[g] \in Fenced
        /\ phase[g] \in {"unlinking", "stuck", "released"} => transfer[g] \notin Transferring
        /\ runtime[g] = "running" =>
              /\ phase[g] \in {"leased", "active", "fenced"}
              /\ transfer[g] \in {"none", "stopping", "failed"}

\* What an owner believes is what the record says.
OwnerRecorded ==
    \A g \in Attempts :
        /\ Owns(g) => record = g
        /\ transfer[g] \in {"done", "lost"} => record # g

\* Where an attempt can be whose record or reservation is there.
Waiting == {"asked", "withdraw", "withdrawing", "stranded", "dead"}
FilesHeld ==
    \A g \in Attempts :
        /\ record = g => phase[g] \in Waiting \cup Leased
        /\ g \in reserved => phase[g] \in Waiting /\ record # g

\* Nobody answers an attempt that has not asked.
NotAsked ==
    /\ \A g \in Attempts : phase[g] \in Early =>
          /\ g \notin requests /\ answer[g] = "none"
          /\ \A k \in Attempts : successor[k] # g
    /\ \A g \in Attempts :
          g \in requests \/ phase[g] \in {"reserve", "reserving"} => takeOver[g] # NoOne

OwnershipInv ==
    /\ OwnershipTypeOK /\ PhaseAlive /\ TransferPhase /\ OwnerRecorded
    /\ FilesHeld /\ NotAsked /\ ConfirmedHolds

-----------------------------------------------------------------------------
\* A step of an attempt keeps the types, and at most one attempt is in the gate.
LEMMA OwnershipTypes ==
    ASSUME OwnershipTypeOK, TransferPhase, NEW g \in Attempts, AttemptStep(g)
    PROVE  OwnershipTypeOK'
<1>. USE OwnershipAssumption DEF OwnershipAssumption, OwnershipTypeOK, Acquiring, Leased, Over, Transferring, files, owner, Become
<1>1. CASE Begin(g)
  BY <1>1 DEF Begin
<1>2. CASE Gated(g, "claim", "claiming")
  BY <1>2 DEF Gated, Enter
<1>3. CASE GateBusy(g, "claim", "withdraw")
  BY <1>3 DEF GateBusy
<1>4. CASE Claim(g)
  BY <1>4 DEF Claim, Leave, FreeToClaim, TransferPhase, Fenced
<1>5. CASE Gated(g, "reserve", "reserving")
  BY <1>5 DEF Gated, Enter
<1>6. CASE GateBusy(g, "reserve", "withdraw")
  BY <1>6 DEF GateBusy
<1>7. CASE Reserve(g)
  BY <1>7 DEF Reserve, Leave, TransferPhase, Fenced
<1>8. CASE AskFails(g)
  BY <1>8 DEF AskFails
<1>9. CASE AskSucceeds(g)
  BY <1>9 DEF AskSucceeds
<1>10. CASE Gated(g, "withdraw", "withdrawing")
  BY <1>10 DEF Gated, Enter
<1>11. CASE GateBusy(g, "withdraw", "stranded")
  BY <1>11 DEF GateBusy
<1>12. CASE Withdraw(g)
  BY <1>12 DEF Withdraw, Leave, TransferPhase, Fenced
<1>13. CASE StartNative(g)
  BY <1>13 DEF StartNative
<1>14. CASE NativeEnds(g)
  BY <1>14 DEF NativeEnds
<1>15. CASE Activate(g)
  BY <1>15 DEF Activate
<1>16. CASE TakeoverRequest(g)
  BY <1>16 DEF TakeoverRequest
<1>17. CASE Stopped(g)
  BY <1>17 DEF Stopped
<1>18. CASE StopFails(g)
  BY <1>18 DEF StopFails, Fails
<1>19. CASE EnterCommit(g)
  BY <1>19 DEF EnterCommit, Enter
<1>20. CASE CommitBusy(g)
  BY <1>20 DEF CommitBusy, Fails
<1>21. CASE Commit(g)
  BY <1>21 DEF Commit, Leave, Fails, Candidate, TransferPhase, Fenced
<1>22. CASE Release(g)
  BY <1>22 DEF Release
<1>23. CASE ReleaseGated(g)
  BY <1>23 DEF ReleaseGated, Enter, Owns
<1>24. CASE Unlink(g)
  BY <1>24 DEF Unlink, Leave, TransferPhase, Fenced
<1>. QED
  BY <1>1, <1>2, <1>3, <1>4, <1>5, <1>6, <1>7, <1>8, <1>9, <1>10, <1>11, <1>12, <1>13, <1>14, <1>15, <1>16, <1>17, <1>18, <1>19, <1>20, <1>21, <1>22, <1>23, <1>24 DEF AttemptStep, ClaimStep, ReserveStep, AskStep, WithdrawStep, Use, TransferStep, ReleaseStep

\* A step of an attempt keeps the order of a transfer, and acts for a process that runs.
LEMMA TransferSteps ==
    ASSUME OwnershipTypeOK, TransferPhase, PhaseAlive, NotAsked, NEW g \in Attempts, AttemptStep(g)
    PROVE  TransferPhase' /\ PhaseAlive'
<1>. USE OwnershipAssumption DEF OwnershipAssumption, OwnershipTypeOK, Acquiring, Leased, Over, Transferring, files, owner, Become, TransferPhase, PhaseAlive, NotAsked, Fenced, Early, Alive
<1>1. CASE Begin(g)
  BY <1>1 DEF Begin
<1>2. CASE Gated(g, "claim", "claiming")
  BY <1>2 DEF Gated, Enter
<1>3. CASE GateBusy(g, "claim", "withdraw")
  BY <1>3 DEF GateBusy
<1>4. CASE Claim(g)
  BY <1>4 DEF Claim, Leave, FreeToClaim
<1>5. CASE Gated(g, "reserve", "reserving")
  BY <1>5 DEF Gated, Enter
<1>6. CASE GateBusy(g, "reserve", "withdraw")
  BY <1>6 DEF GateBusy
<1>7. CASE Reserve(g)
  BY <1>7 DEF Reserve, Leave
<1>8. CASE AskFails(g)
  BY <1>8 DEF AskFails
<1>9. CASE AskSucceeds(g)
  BY <1>9 DEF AskSucceeds
<1>10. CASE Gated(g, "withdraw", "withdrawing")
  BY <1>10 DEF Gated, Enter
<1>11. CASE GateBusy(g, "withdraw", "stranded")
  BY <1>11 DEF GateBusy
<1>12. CASE Withdraw(g)
  BY <1>12 DEF Withdraw, Leave
<1>13. CASE StartNative(g)
  BY <1>13 DEF StartNative
<1>14. CASE NativeEnds(g)
  BY <1>14 DEF NativeEnds
<1>15. CASE Activate(g)
  BY <1>15 DEF Activate
<1>16. CASE TakeoverRequest(g)
  BY <1>16 DEF TakeoverRequest
<1>17. CASE Stopped(g)
  BY <1>17 DEF Stopped
<1>18. CASE StopFails(g)
  BY <1>18 DEF StopFails, Fails
<1>19. CASE EnterCommit(g)
  BY <1>19 DEF EnterCommit, Enter
<1>20. CASE CommitBusy(g)
  BY <1>20 DEF CommitBusy, Fails
<1>21. CASE Commit(g)
  BY <1>21 DEF Commit, Leave, Fails, Candidate
<1>22. CASE Release(g)
  BY <1>22 DEF Release
<1>23. CASE ReleaseGated(g)
  BY <1>23 DEF ReleaseGated, Enter, Owns
<1>24. CASE Unlink(g)
  BY <1>24 DEF Unlink, Leave
<1>. QED
  BY <1>1, <1>2, <1>3, <1>4, <1>5, <1>6, <1>7, <1>8, <1>9, <1>10, <1>11, <1>12, <1>13, <1>14, <1>15, <1>16, <1>17, <1>18, <1>19, <1>20, <1>21, <1>22, <1>23, <1>24 DEF AttemptStep, ClaimStep, ReserveStep, AskStep, WithdrawStep, Use, TransferStep, ReleaseStep

\* A step of an attempt keeps the record of a living owner.
LEMMA RecordSteps ==
    ASSUME OwnershipInv, NEW g \in Attempts, AttemptStep(g)
    PROVE  OwnerRecorded' /\ FilesHeld'
<1>. USE OwnershipAssumption DEF OwnershipAssumption, OwnershipTypeOK, Acquiring, Leased, Over, Transferring, files, owner, Become, OwnershipInv, TransferPhase, PhaseAlive, OwnerRecorded, FilesHeld, Waiting, Fenced, Owns, Alive
<1>1. CASE Begin(g)
  BY <1>1 DEF Begin
<1>2. CASE Gated(g, "claim", "claiming")
  BY <1>2 DEF Gated, Enter
<1>3. CASE GateBusy(g, "claim", "withdraw")
  BY <1>3 DEF GateBusy
<1>4. CASE Claim(g)
  BY <1>4 DEF Claim, Leave, FreeToClaim
<1>5. CASE Gated(g, "reserve", "reserving")
  BY <1>5 DEF Gated, Enter
<1>6. CASE GateBusy(g, "reserve", "withdraw")
  BY <1>6 DEF GateBusy
<1>7. CASE Reserve(g)
  BY <1>7 DEF Reserve, Leave
<1>8. CASE AskFails(g)
  BY <1>8 DEF AskFails
<1>9. CASE AskSucceeds(g)
  BY <1>9 DEF AskSucceeds
<1>10. CASE Gated(g, "withdraw", "withdrawing")
  BY <1>10 DEF Gated, Enter
<1>11. CASE GateBusy(g, "withdraw", "stranded")
  BY <1>11 DEF GateBusy
<1>12. CASE Withdraw(g)
  BY <1>12 DEF Withdraw, Leave
<1>13. CASE StartNative(g)
  BY <1>13 DEF StartNative
<1>14. CASE NativeEnds(g)
  BY <1>14 DEF NativeEnds
<1>15. CASE Activate(g)
  BY <1>15 DEF Activate
<1>16. CASE TakeoverRequest(g)
  BY <1>16 DEF TakeoverRequest
<1>17. CASE Stopped(g)
  BY <1>17 DEF Stopped
<1>18. CASE StopFails(g)
  BY <1>18 DEF StopFails, Fails
<1>19. CASE EnterCommit(g)
  BY <1>19 DEF EnterCommit, Enter
<1>20. CASE CommitBusy(g)
  BY <1>20 DEF CommitBusy, Fails
<1>21. CASE Commit(g)
  BY <1>21 DEF Commit, Leave, Fails, Candidate
<1>22. CASE Release(g)
  BY <1>22 DEF Release
<1>23. CASE ReleaseGated(g)
  BY <1>23 DEF ReleaseGated, Enter, Owns
<1>24. CASE Unlink(g)
  BY <1>24 DEF Unlink, Leave
<1>. QED
  BY <1>1, <1>2, <1>3, <1>4, <1>5, <1>6, <1>7, <1>8, <1>9, <1>10, <1>11, <1>12, <1>13, <1>14, <1>15, <1>16, <1>17, <1>18, <1>19, <1>20, <1>21, <1>22, <1>23, <1>24 DEF AttemptStep, ClaimStep, ReserveStep, AskStep, WithdrawStep, Use, TransferStep, ReleaseStep

\* A step of an attempt confirms a takeover only to the attempt it records.
LEMMA AnswerSteps ==
    ASSUME OwnershipInv, NEW g \in Attempts, AttemptStep(g)
    PROVE  NotAsked' /\ ConfirmedHolds'
<1>. USE OwnershipAssumption DEF OwnershipAssumption, OwnershipTypeOK, Acquiring, Leased, Over, Transferring, files, owner, Become, OwnershipInv, TransferPhase, PhaseAlive, NotAsked, ConfirmedHolds, Fenced, Early, Alive
<1>1. CASE Begin(g)
  BY <1>1 DEF Begin
<1>2. CASE Gated(g, "claim", "claiming")
  BY <1>2 DEF Gated, Enter
<1>3. CASE GateBusy(g, "claim", "withdraw")
  BY <1>3 DEF GateBusy
<1>4. CASE Claim(g)
  BY <1>4 DEF Claim, Leave, FreeToClaim
<1>5. CASE Gated(g, "reserve", "reserving")
  BY <1>5 DEF Gated, Enter
<1>6. CASE GateBusy(g, "reserve", "withdraw")
  BY <1>6 DEF GateBusy
<1>7. CASE Reserve(g)
  BY <1>7 DEF Reserve, Leave
<1>8. CASE AskFails(g)
  BY <1>8 DEF AskFails
<1>9. CASE AskSucceeds(g)
  BY <1>9 DEF AskSucceeds
<1>10. CASE Gated(g, "withdraw", "withdrawing")
  BY <1>10 DEF Gated, Enter
<1>11. CASE GateBusy(g, "withdraw", "stranded")
  BY <1>11 DEF GateBusy
<1>12. CASE Withdraw(g)
  BY <1>12 DEF Withdraw, Leave
<1>13. CASE StartNative(g)
  BY <1>13 DEF StartNative
<1>14. CASE NativeEnds(g)
  BY <1>14 DEF NativeEnds
<1>15. CASE Activate(g)
  BY <1>15 DEF Activate
<1>16. CASE TakeoverRequest(g)
  BY <1>16 DEF TakeoverRequest
<1>17. CASE Stopped(g)
  BY <1>17 DEF Stopped
<1>18. CASE StopFails(g)
  BY <1>18 DEF StopFails, Fails
<1>19. CASE EnterCommit(g)
  BY <1>19 DEF EnterCommit, Enter
<1>20. CASE CommitBusy(g)
  BY <1>20 DEF CommitBusy, Fails
<1>21. CASE Commit(g)
  BY <1>21 DEF Commit, Leave, Fails, Candidate
<1>22. CASE Release(g)
  BY <1>22 DEF Release
<1>23. CASE ReleaseGated(g)
  BY <1>23 DEF ReleaseGated, Enter, Owns
<1>24. CASE Unlink(g)
  BY <1>24 DEF Unlink, Leave
<1>. QED
  BY <1>1, <1>2, <1>3, <1>4, <1>5, <1>6, <1>7, <1>8, <1>9, <1>10, <1>11, <1>12, <1>13, <1>14, <1>15, <1>16, <1>17, <1>18, <1>19, <1>20, <1>21, <1>22, <1>23, <1>24 DEF AttemptStep, ClaimStep, ReserveStep, AskStep, WithdrawStep, Use, TransferStep, ReleaseStep

\* A process that stops takes nothing from the attempts of others.
LEMMA CrashKeepsInv ==
    ASSUME OwnershipInv, NEW p \in Processes, Crash(p)
    PROVE  OwnershipInv'
<1>. USE OwnershipAssumption DEF OwnershipAssumption, Crash, files, Acquiring, Leased, Over, Transferring
<1>1. OwnershipTypeOK' /\ PhaseAlive'
  BY DEF OwnershipInv, OwnershipTypeOK, PhaseAlive, TransferPhase, Alive
<1>2. TransferPhase'
  BY DEF OwnershipInv, OwnershipTypeOK, TransferPhase, Fenced
<1>3. OwnerRecorded' /\ FilesHeld'
  BY DEF OwnershipInv, OwnershipTypeOK, OwnerRecorded, FilesHeld, Waiting, Owns
<1>4. NotAsked' /\ ConfirmedHolds'
  BY DEF OwnershipInv, OwnershipTypeOK, NotAsked, ConfirmedHolds, Early
<1>. QED
  BY <1>1, <1>2, <1>3, <1>4 DEF OwnershipInv

\* The invariant holds at first and is kept by every step.
LEMMA OwnershipInvariant == OwnershipSpec => []OwnershipInv
<1>1. OwnershipInit => OwnershipInv
  BY OwnershipAssumption DEF OwnershipAssumption, OwnershipInit, OwnershipInv, OwnershipTypeOK,
     PhaseAlive, TransferPhase, OwnerRecorded, FilesHeld, NotAsked, ConfirmedHolds, Owns, Alive,
     Early, Fenced, Waiting, Acquiring, Leased, Over, Transferring
<1>2. OwnershipInv /\ [OwnershipNext]_ownershipVars => OwnershipInv'
  <2>. SUFFICES ASSUME OwnershipInv, [OwnershipNext]_ownershipVars PROVE OwnershipInv'
    OBVIOUS
  <2>1. ASSUME NEW g \in Attempts, AttemptStep(g) PROVE OwnershipInv'
    BY <2>1, OwnershipTypes, TransferSteps, RecordSteps, AnswerSteps DEF OwnershipInv
  <2>2. ASSUME NEW p \in Processes, Crash(p) PROVE OwnershipInv'
    BY <2>2, CrashKeepsInv
  <2>3. CASE UNCHANGED ownershipVars
    BY <2>3 DEF ownershipVars, OwnershipInv, OwnershipTypeOK, PhaseAlive, TransferPhase,
       OwnerRecorded, FilesHeld, NotAsked, ConfirmedHolds, Owns, Alive
  <2>. QED
    BY <2>1, <2>2, <2>3 DEF OwnershipNext, AttemptStep
<1>. QED
  BY <1>1, <1>2, PTL DEF OwnershipSpec

-----------------------------------------------------------------------------
(* Results.                                                                *)

\* Types and the mutual exclusion of the locked sections (locked,
\* native-session-owner.ts:37).
THEOREM OwnershipTyped == OwnershipSpec => []OwnershipTypeOK
<1>1. OwnershipInv => OwnershipTypeOK
  BY DEF OwnershipInv
<1>. QED
  BY <1>1, OwnershipInvariant, PTL

\* At most one native session writes: a running one's lease owns, and the record
\* names one owner.
THEOREM OneWriterAlways == OwnershipSpec => []OneWriter
<1>1. OwnershipInv => OneWriter
  BY DEF OwnershipInv, OneWriter, TransferPhase, OwnerRecorded, Owns, Leased
<1>. QED
  BY <1>1, OwnershipInvariant, PTL

\* Late releases and late withdrawals strand no record.
THEOREM NoStrandedRecordAlways == OwnershipSpec => []NoStrandedRecord
<1>1. OwnershipInv => NoStrandedRecord
  BY DEF OwnershipInv, OwnershipTypeOK, NoStrandedRecord, FilesHeld, Waiting, Leased
<1>. QED
  BY <1>1, OwnershipInvariant, PTL

\* Who reads the owner's confirmation is recorded.
THEOREM ConfirmedHoldsAlways == OwnershipSpec => []ConfirmedHolds
<1>1. OwnershipInv => ConfirmedHolds
  BY DEF OwnershipInv
<1>. QED
  BY <1>1, OwnershipInvariant, PTL

-----------------------------------------------------------------------------
(* The delivery of Team messages: DeliverySpec keeps DeliveryInv, a        *)
(* verdict stands and the role moves over settled messages only.           *)
(*                                                                         *)
(* What the invariant needs is what a denial or a start means wherever it  *)
(* is written (Evidence): in the mailbox, in a receipt in memory or on     *)
(* disk, in a save that is pending or in a settlement on its way.  It was  *)
(* true when it was written and stays true, as what it says of a message   *)
(* (Denied, InputOver) is stable once the message is claimed.              *)

\* The Relay gave the message away, or closed it.
Claimed(m) == mail[m].status \notin {"none", "queued"}

\* The tick holds the claim of the message and may still give its input.
Taking(m) ==
    /\ todo # {} /\ Next1.of = m /\ m \notin hooked
    /\ \/ stage \in {"writing", "executing"}
       \/ stage = "claiming" /\ reply = "ok"

\* The message did not arrive and will not.
Denied(m) ==
    \/ m \in resolved
    \/ /\ Claimed(m) /\ ~Taking(m) /\ input[m] \in {"none", "gone"}
       /\ consumed[m] = IF input[m] = "gone" THEN 1 ELSE 0

\* The message does not wait in the native session and will not.
InputOver(m) == m \in resolved \/ (Claimed(m) /\ ~Taking(m) /\ input[m] \notin Held)

\* What a receipt, a letter or a settlement says of a message is so.
Says(m, r) ==
    /\ r.status \in {"rejected", "canceled"} => Denied(m)
    /\ r.acceptance \in Final => InputOver(m)

\* What travels to the Relay, what waits to be saved and what the poll brought.
Request ==
    [call : {"claim", "settle"}, of : Messages, status : Statuses, acceptance : Acceptances,
     to : Nat, awaited : BOOLEAN]
Write ==
    [notes : [Messages -> Receipt], follow : {"reconciled", "boundary", "final", "note"},
     of : Messages \cup {NoMessage}]
Entry == [of : Messages, at : Nat, status : Statuses \cup {"queued", "canceled"}]

\* A settlement names an outcome; the one request the tick awaits is what its
\* stage waits for.
WireOK ==
    /\ wire \in Seq(Request)
    /\ \A i \in 1..Len(wire) : wire[i].call = "settle" => wire[i].status # "none"
    /\ \A i \in 1..Len(wire) : wire[i].awaited =>
          /\ reply = "none"
          /\ wire[i].call = "claim" => stage = "claiming" /\ wire[i].of = Next1.of
          /\ wire[i].call = "settle" => stage = "settling"
    /\ \A i, j \in 1..Len(wire) : wire[i].awaited /\ wire[j].awaited => i = j

\* A pending save that lets the tick go on is the one its stage waits for; a save
\* that is reported has an outcome to report.
WritesFit(ws, at, notes) ==
    /\ ws \in Seq(Write)
    /\ \A i \in 1..Len(ws) :
          /\ ws[i].follow = "reconciled" => at = "reconciling"
          /\ ws[i].follow = "boundary" => at = "writing"
          /\ ws[i].follow = "final" => at = "finishing"
    /\ \A i, j \in 1..Len(ws) : ws[i].follow # "note" /\ ws[j].follow # "note" => i = j
    /\ \A i \in 1..Len(ws) : ws[i].follow \in {"note", "final"} =>
          ws[i].of \in Messages /\ notes[ws[i].of].status # "none"

\* The pending saves fit the stage and the receipts of the Controller.
WritesOK == WritesFit(writes, stage, receipts)

\* The tick works on polled messages, with a receipt from the claim on.
TickOK ==
    /\ todo \subseteq Entry
    /\ reply \in {"none", "ok", "no"}
    /\ stage \in {"writing", "executing", "finishing"} => receipts[Next1.of].status # "none"

\* How far each message got: nothing happens to it before its claim, its input is
\* given once.
Fates ==
    /\ consumed \in [Messages -> 0..1] /\ hooked \subseteq Messages /\ resolved \subseteq Messages
    /\ \A m \in Messages :
          /\ Taking(m) \/ m \in resolved \/ consumed[m] = 1 => Claimed(m)
          /\ Taking(m) => consumed[m] = 0
          /\ input[m] # "none" => consumed[m] = 1
          /\ m \in hooked => input[m] # "none"

\* What is written of a message, wherever it is, is so.
Evidence ==
    \A m \in Messages :
       /\ Says(m, mail[m]) /\ Says(m, receipts[m]) /\ Says(m, disk[m])
       /\ \A i \in 1..Len(writes) : Says(m, writes[i].notes[m])
       /\ \A i \in 1..Len(wire) : wire[i].call = "settle" /\ wire[i].of = m => Says(m, wire[i])

\* What may still reach the native session, or waits in it, is unresolved.
Live ==
    \A m \in Messages : (Taking(m) \/ input[m] \in Held) /\ m \notin resolved
        => Unresolved(mail[m]) /\ team # "archived"

\* The inductive invariant.
Shape == MailboxTypeOK /\ ControllerTypeOK /\ WireOK /\ WritesOK /\ TickOK
DeliveryIInv == Shape /\ Fates /\ Evidence /\ Live
-----------------------------------------------------------------------------
(* The queue of the tick.                                                  *)

\* A set of numbers has a least one.
LEMMA LeastOf ==
    ASSUME NEW T \in SUBSET Nat, T # {}
    PROVE  \E n \in T : \A m \in T : n <= m
<1>. DEFINE Less == {pair \in Nat \X Nat : pair[1] < pair[2]}
<1>1. IsWellFoundedOn(Less, Nat)
  BY NatLessThanWellFounded DEF OpToRel
<1>2. PICK n \in T : \A m \in T : ~(<<m, n>> \in Less)
  <2>. HIDE DEF Less
  <2>. QED
    BY <1>1, WFMin
<1>3. ASSUME NEW m \in T PROVE n <= m
  <2>1. <<m, n>> \in Nat \X Nat /\ <<m, n>>[1] = m /\ <<m, n>>[2] = n
    OBVIOUS
  <2>2. m < n => <<m, n>> \in Less
    BY <2>1
  <2>. QED
    BY <1>2, <2>2
<1>. QED
  BY <1>3

\* The tick looks at a polled message while there is one.
LEMMA NextIsPolled ==
    ASSUME todo \subseteq Entry, todo # {}
    PROVE  Next1 \in todo /\ Next1.of \in Messages
<1>1. {e.at : e \in todo} \in SUBSET Nat /\ {e.at : e \in todo} # {}
  BY DEF Entry
<1>2. PICK n \in {e.at : e \in todo} : \A k \in {e.at : e \in todo} : n <= k
  BY <1>1, LeastOf
<1>3. \E e \in todo : \A f \in todo : e.at <= f.at
  BY <1>2
<1>4. Next1 \in todo
  BY <1>3 DEF Next1
<1>. QED
  BY <1>4 DEF Entry

-----------------------------------------------------------------------------
(* The mailbox, the wire, the pending saves and the tick keep their shape. *)

\* A change that makes nothing pending keeps the queue.
LEMMA KeepTyped ==
    ASSUME MailboxTypeOK, NEW letters \in [Messages -> Letter], Keep(letters),
           \A m \in Messages : Pending(letters[m]) => Pending(mail[m]),
           team' \in {"active", "archiving", "archived"}, idleSeen' \in BOOLEAN
    PROVE  MailboxTypeOK'
<1>1. mail' \in [Messages -> Letter] /\ sends' \in Nat /\ inbox' \in [Messages -> 0..sends']
  BY DEF MailboxTypeOK, Keep
<1>2. \A m \in Messages : inbox'[m] > 0 <=> Pending(mail'[m])
  BY DEF MailboxTypeOK, Keep
<1>3. \A m, n \in Messages : inbox'[m] > 0 /\ inbox'[m] = inbox'[n] => m = n
  BY DEF MailboxTypeOK, Keep
<1>. QED
  BY <1>1, <1>2, <1>3 DEF MailboxTypeOK

\* What another member, the user and a handoff do.
MailSteps ==
    \/ \E m \in Messages :
          \/ SendMessage(m) \/ AcknowledgeMessage(m)
          \/ \E o \in {"accepted", "rejected"} : ResolveMessage(m, o)
    \/ ArchiveTeam \/ RestoreTeam
    \/ Freeze \/ Move \/ Unfreeze

\* A settlement makes a letter of a claimed message and nothing pending.
LEMMA SettleTyped ==
    ASSUME MailboxTypeOK, WireOK, wire # <<>>, Head(wire).call = "settle",
           Settleable(Head(wire).of, Head(wire).status)
    PROVE  /\ SettledBy(Head(wire).of, Head(wire)) \in Letter
           /\ Pending(SettledBy(Head(wire).of, Head(wire))) => Pending(mail[Head(wire).of])
           /\ Claimed(Head(wire).of)
           /\ SettledBy(Head(wire).of, Head(wire)).status \notin {"none", "queued"}
<1>. DEFINE c == Head(wire)
<1>1. c \in Request /\ c.status # "none"
  <2>1. c = wire[1] /\ 1 \in 1..Len(wire)
    BY DEF WireOK
  <2>. QED
    BY <2>1 DEF WireOK
<1>2. c.of \in Messages /\ c.status \in Statuses \ {"none"} /\ c.acceptance \in Acceptances
  BY <1>1 DEF Request
<1>3. mail[c.of] \in Letter /\ (inbox[c.of] = 0 => ~Pending(mail[c.of])) /\ (inbox[c.of] # 0 => Pending(mail[c.of]))
  BY <1>2 DEF MailboxTypeOK
<1>4. Claimed(c.of)
  BY <1>2, <1>3 DEF Settleable, Claimed, Statuses
<1>. HIDE DEF c
<1>5. SettledBy(c.of, c) \in Letter
  BY <1>2, <1>3 DEF SettledBy, Letter
<1>6. SettledBy(c.of, c).status \notin {"none", "queued"}
  BY <1>2, <1>3, <1>4 DEF SettledBy, Claimed, Statuses
<1>. QED
  BY <1>3, <1>4, <1>5, <1>6 DEF c, SettledBy

\* It leaves the Controller alone.
LEMMA MailStepsTyped ==
    ASSUME Shape, MailSteps
    PROVE  Shape'
<1>1. /\ UNCHANGED <<wire, reply, receipts, disk, writes, broken, stage, todo, polled, input, hooked>>
      /\ Next1' = Next1
  BY DEF MailSteps, SendMessage, AcknowledgeMessage, ResolveMessage, ArchiveTeam, RestoreTeam,
         Freeze, Move, Unfreeze, uplink, saved, tick, agent, Next1
<1>2. WireOK' /\ WritesOK' /\ TickOK'
  BY <1>1 DEF Shape, WireOK, WritesOK, TickOK
<1>3. ControllerTypeOK'
  <2>1. CASE Freeze \/ Move \/ Unfreeze
    <3>1. addressee' \in {addressee, holder} /\ holder' \in {holder, holder + 1} /\ frozen' \in BOOLEAN
      BY <2>1 DEF Freeze, Move, Unfreeze, Shape, ControllerTypeOK
    <3>. QED
      BY <1>1, <3>1 DEF Shape, ControllerTypeOK
  <2>2. CASE UNCHANGED role
    BY <1>1, <2>2 DEF role, Shape, ControllerTypeOK
  <2>. QED
    BY <2>1, <2>2 DEF MailSteps, SendMessage, AcknowledgeMessage, ResolveMessage, ArchiveTeam, RestoreTeam
<1>4. MailboxTypeOK'
  <2>1. CASE \E m \in Messages : SendMessage(m)
    <3>1. PICK m \in Messages : SendMessage(m)
      BY <2>1
    <3>2. /\ mail' = [mail EXCEPT ![m].status = "queued"] /\ sends' = sends + 1
          /\ inbox' = [inbox EXCEPT ![m] = sends'] /\ mail[m] = Blank
          /\ UNCHANGED <<team, idleSeen>>
      BY <3>1 DEF SendMessage
    <3>3. mail' \in [Messages -> Letter] /\ sends' \in Nat
      BY <3>2 DEF Shape, MailboxTypeOK, Letter, Blank
    <3>4. inbox' \in [Messages -> 0..sends']
      BY <3>2 DEF Shape, MailboxTypeOK
    <3>5. \A n \in Messages : inbox'[n] > 0 <=> Pending(mail'[n])
      BY <3>2 DEF Shape, MailboxTypeOK, Letter, Pending
    <3>6. \A k, n \in Messages : inbox'[k] > 0 /\ inbox'[k] = inbox'[n] => k = n
      BY <3>2 DEF Shape, MailboxTypeOK
    <3>. QED
      BY <3>2, <3>3, <3>4, <3>5, <3>6 DEF Shape, MailboxTypeOK
  <2>2. CASE \E m \in Messages : AcknowledgeMessage(m)
    <3>1. PICK m \in Messages : AcknowledgeMessage(m)
      BY <2>2
    <3>. DEFINE letters == [mail EXCEPT ![m] = [status |-> "accepted", acceptance |-> "handled"]]
    <3>2. Keep(letters) /\ UNCHANGED <<team, idleSeen>>
      BY <3>1 DEF AcknowledgeMessage
    <3>3. letters \in [Messages -> Letter]
      BY DEF Shape, MailboxTypeOK, Letter, Statuses, Acceptances
    <3>4. \A n \in Messages : Pending(letters[n]) => Pending(mail[n])
      BY DEF Shape, MailboxTypeOK, Pending, Unresolved, Final
    <3>. HIDE DEF letters
    <3>. QED
      BY <3>2, <3>3, <3>4, KeepTyped DEF Shape, MailboxTypeOK
  <2>3. CASE \E m \in Messages, o \in {"accepted", "rejected"} : ResolveMessage(m, o)
    <3>1. PICK m \in Messages, o \in {"accepted", "rejected"} : ResolveMessage(m, o)
      BY <2>3
    <3>. DEFINE acceptance == IF o = "accepted" THEN "handled" ELSE "none"
    <3>. DEFINE letters == [mail EXCEPT ![m] = [status |-> o, acceptance |-> acceptance]]
    <3>2. Keep(letters) /\ idleSeen' = idleSeen /\ SettleArchive(idleSeen)
      BY <3>1 DEF ResolveMessage
    <3>3. letters \in [Messages -> Letter]
      BY DEF Shape, MailboxTypeOK, Letter, Statuses, Acceptances
    <3>4. \A n \in Messages : Pending(letters[n]) => Pending(mail[n])
      BY DEF Shape, MailboxTypeOK, Pending, Unresolved, Final
    <3>5. team' \in {"active", "archiving", "archived"} /\ idleSeen' \in BOOLEAN
      BY <3>2 DEF Shape, MailboxTypeOK, SettleArchive
    <3>. HIDE DEF letters
    <3>. QED
      BY <3>2, <3>3, <3>4, <3>5, KeepTyped DEF Shape
  <2>4. CASE ArchiveTeam
    <3>. DEFINE letters == [m \in Messages |-> IF mail[m].status = "queued"
                                THEN [mail[m] EXCEPT !.status = "canceled"] ELSE mail[m]]
    <3>1. Keep(letters) /\ team' = "archiving" /\ idleSeen' = FALSE
      BY <2>4 DEF ArchiveTeam
    <3>2. letters \in [Messages -> Letter]
      BY DEF Shape, MailboxTypeOK, Letter
    <3>3. \A n \in Messages : Pending(letters[n]) => Pending(mail[n])
      BY DEF Shape, MailboxTypeOK, Pending, Unresolved
    <3>. HIDE DEF letters
    <3>. QED
      BY <3>1, <3>2, <3>3, KeepTyped DEF Shape
  <2>5. CASE RestoreTeam \/ Freeze \/ Move \/ Unfreeze
    <3>1. UNCHANGED <<inbox, sends, mail, idleSeen>> /\ team' \in {team, "active"}
      BY <2>5 DEF RestoreTeam, Freeze, Move, Unfreeze, mailbox
    <3>. QED
      BY <3>1 DEF Shape, MailboxTypeOK
  <2>. QED
    BY <2>1, <2>2, <2>3, <2>4, <2>5 DEF MailSteps
<1>. QED
  BY <1>2, <1>3, <1>4 DEF Shape
-----------------------------------------------------------------------------
(* Requests and saves come and go.                                         *)

\* The tick awaits a request only where it stops for one.
LEMMA NoneAwaited ==
    ASSUME WireOK, reply # "none" \/ stage \notin {"claiming", "settling"}
    PROVE  \A i \in 1..Len(wire) : ~wire[i].awaited
<1>1. \A i \in 1..Len(wire) : wire[i] \in Request
  BY DEF WireOK
<1>2. \A i \in 1..Len(wire) : wire[i].call \in {"claim", "settle"}
  BY <1>1 DEF Request
<1>. QED
  BY <1>2 DEF WireOK

\* While nothing is awaited the tick may go anywhere.
LEMMA WireRests ==
    ASSUME WireOK, wire' = wire, \A i \in 1..Len(wire) : ~wire[i].awaited
    PROVE  WireOK'
BY DEF WireOK

\* A step that leaves the tick where it is keeps its request.
LEMMA WireStays ==
    ASSUME WireOK, UNCHANGED <<wire, reply, stage, todo>>
    PROVE  WireOK'
BY DEF WireOK, Next1

\* A request is sent.
LEMMA RequestSent ==
    ASSUME WireOK, NEW c \in Request, wire' = Append(wire, c),
           c.call = "settle" => c.status # "none",
           \/ ~c.awaited /\ UNCHANGED <<reply, stage, todo>>
           \/ /\ \A i \in 1..Len(wire) : ~wire[i].awaited
              /\ c.awaited => /\ reply' = "none"
                              /\ c.call = "claim" => stage' = "claiming" /\ c.of = (Next1.of)'
                              /\ c.call = "settle" => stage' = "settling"
    PROVE  WireOK'
<1>1. /\ Len(wire') = Len(wire) + 1 /\ wire' \in Seq(Request) /\ Len(wire) \in Nat
      /\ \A i \in 1..Len(wire) : wire'[i] = wire[i]
      /\ wire'[Len(wire) + 1] = c
  BY DEF WireOK
<1>2. \A i \in 1..Len(wire') : wire'[i].call = "settle" => wire'[i].status # "none"
  BY <1>1 DEF WireOK
<1>3. \A i, j \in 1..Len(wire') : wire'[i].awaited /\ wire'[j].awaited => i = j
  BY <1>1 DEF WireOK
<1>4. ASSUME NEW i \in 1..Len(wire'), wire'[i].awaited
      PROVE  /\ reply' = "none"
             /\ wire'[i].call = "claim" => stage' = "claiming" /\ wire'[i].of = (Next1.of)'
             /\ wire'[i].call = "settle" => stage' = "settling"
  <2>1. CASE i = Len(wire) + 1
    BY <1>1, <1>4, <2>1
  <2>2. CASE i \in 1..Len(wire)
    <3>1. wire'[i] = wire[i] /\ wire[i].awaited
      BY <1>1, <1>4, <2>2
    <3>2. UNCHANGED <<reply, stage, todo>>
      BY <2>2, <3>1
    <3>3. (Next1.of)' = Next1.of
      BY <3>2 DEF Next1
    <3>. QED
      BY <2>2, <3>1, <3>2, <3>3 DEF WireOK
  <2>. QED
    BY <1>1, <2>1, <2>2
<1>. QED
  BY <1>1, <1>2, <1>3, <1>4 DEF WireOK

\* The Relay answers the first request; what it answers was awaited.
LEMMA RequestServed ==
    ASSUME WireOK, wire # <<>>, NEW v \in {"ok", "no"}, Answer(Head(wire), v),
           UNCHANGED <<stage, todo>>
    PROVE  /\ WireOK'
           /\ reply' # "none" => reply # "none" \/ stage \in {"claiming", "settling"}
           /\ Head(wire) \in Request /\ Head(wire) = wire[1] /\ 1 \in 1..Len(wire)
           /\ \A i \in 1..Len(wire') : i + 1 \in 1..Len(wire) /\ wire'[i] = wire[i + 1]
<1>1. Head(wire) \in Request /\ Head(wire) = wire[1] /\ 1 \in 1..Len(wire) /\ Len(wire) \in Nat
  BY DEF WireOK
<1>2. /\ wire' \in Seq(Request) /\ Len(wire') = Len(wire) - 1
      /\ \A i \in 1..Len(wire') : i + 1 \in 1..Len(wire) /\ wire'[i] = wire[i + 1]
  BY <1>1 DEF WireOK, Answer
<1>3. (Next1.of)' = Next1.of
  BY DEF Next1
<1>4. wire[1].awaited => \A i \in 1..Len(wire') : ~wire'[i].awaited
  BY <1>1, <1>2 DEF WireOK
<1>5. ~wire[1].awaited => reply' = reply
  BY <1>1 DEF Answer
<1>6. \A i \in 1..Len(wire') : wire'[i].call = "settle" => wire'[i].status # "none"
  BY <1>2 DEF WireOK
<1>7. \A i, j \in 1..Len(wire') : wire'[i].awaited /\ wire'[j].awaited => i = j
  BY <1>2 DEF WireOK
<1>8. ASSUME NEW i \in 1..Len(wire'), wire'[i].awaited
      PROVE  /\ reply' = "none"
             /\ wire'[i].call = "claim" => stage' = "claiming" /\ wire'[i].of = (Next1.of)'
             /\ wire'[i].call = "settle" => stage' = "settling"
  <2>1. reply' = reply /\ i + 1 \in 1..Len(wire) /\ wire'[i] = wire[i + 1]
    BY <1>2, <1>4, <1>5, <1>8
  <2>. QED
    BY <1>3, <1>8, <2>1 DEF WireOK
<1>9. wire[1].awaited => stage \in {"claiming", "settling"}
  BY <1>1, NoneAwaited
<1>. QED
  BY <1>1, <1>2, <1>5, <1>6, <1>7, <1>8, <1>9 DEF WireOK

\* The tick waits for a save in three stages only.
LEMMA OnlyNotes ==
    ASSUME NEW ws, NEW at, NEW notes, WritesFit(ws, at, notes),
           at \notin {"reconciling", "writing", "finishing"}
    PROVE  \A i \in 1..Len(ws) : ws[i].follow = "note"
<1>1. \A i \in 1..Len(ws) : ws[i] \in Write
  BY DEF WritesFit
<1>2. \A i \in 1..Len(ws) : ws[i].follow \in {"reconciled", "boundary", "final", "note"}
  BY <1>1 DEF Write
<1>. QED
  BY <1>2 DEF WritesFit

\* While no save is waited for, the tick may go anywhere.
LEMMA WritesRest ==
    ASSUME NEW ws, NEW at, NEW notes, WritesFit(ws, at, notes), NEW at2, NEW notes2,
           at2 = at \/ \A i \in 1..Len(ws) : ws[i].follow = "note",
           \A m \in Messages : notes[m].status # "none" => notes2[m].status # "none"
    PROVE  WritesFit(ws, at2, notes2)
BY DEF WritesFit

\* A save joins the queue.
LEMMA WriteQueued ==
    ASSUME NEW ws, NEW at, NEW notes, WritesFit(ws, at, notes), NEW w \in Write,
           w.follow # "note" => \A i \in 1..Len(ws) : ws[i].follow = "note",
           w.follow = "reconciled" => at = "reconciling",
           w.follow = "boundary" => at = "writing",
           w.follow = "final" => at = "finishing",
           w.follow \in {"note", "final"} => w.of \in Messages /\ notes[w.of].status # "none"
    PROVE  WritesFit(Append(ws, w), at, notes)
<1>. DEFINE new == Append(ws, w)
<1>1. /\ new \in Seq(Write) /\ Len(new) = Len(ws) + 1 /\ Len(ws) \in Nat
      /\ \A i \in 1..Len(ws) : new[i] = ws[i]
      /\ new[Len(ws) + 1] = w
  BY DEF WritesFit
<1>. HIDE DEF new
<1>2. \A i \in 1..Len(new) : (i \in 1..Len(ws) /\ new[i] = ws[i]) \/ (i = Len(ws) + 1 /\ new[i] = w)
  BY <1>1
<1>3. \A i \in 1..Len(new) :
          /\ new[i].follow = "reconciled" => at = "reconciling"
          /\ new[i].follow = "boundary" => at = "writing"
          /\ new[i].follow = "final" => at = "finishing"
  BY <1>2 DEF WritesFit
<1>4. \A i, j \in 1..Len(new) : new[i].follow # "note" /\ new[j].follow # "note" => i = j
  BY <1>2 DEF WritesFit
<1>5. \A i \in 1..Len(new) : new[i].follow \in {"note", "final"} =>
          new[i].of \in Messages /\ notes[new[i].of].status # "none"
  BY <1>2 DEF WritesFit
<1>. QED
  BY <1>1, <1>3, <1>4, <1>5 DEF WritesFit, new

\* The first save is done.
LEMMA WriteDone ==
    ASSUME NEW ws, NEW at, NEW notes, WritesFit(ws, at, notes), ws # <<>>
    PROVE  /\ Head(ws) \in Write /\ Head(ws) = ws[1] /\ 1 \in 1..Len(ws)
           /\ \A i \in 1..Len(Tail(ws)) : i + 1 \in 1..Len(ws) /\ Tail(ws)[i] = ws[i + 1]
           /\ WritesFit(Tail(ws), at, notes)
           /\ Head(ws).follow # "note" => \A i \in 1..Len(Tail(ws)) : Tail(ws)[i].follow = "note"
<1>. DEFINE rest == Tail(ws)
<1>1. /\ Head(ws) \in Write /\ Head(ws) = ws[1] /\ 1 \in 1..Len(ws) /\ Len(ws) \in Nat
      /\ rest \in Seq(Write)
      /\ \A i \in 1..Len(rest) : i + 1 \in 1..Len(ws) /\ rest[i] = ws[i + 1]
  BY DEF WritesFit
<1>. HIDE DEF rest
<1>2. WritesFit(rest, at, notes)
  <2>1. \A i \in 1..Len(rest) :
            /\ rest[i].follow = "reconciled" => at = "reconciling"
            /\ rest[i].follow = "boundary" => at = "writing"
            /\ rest[i].follow = "final" => at = "finishing"
    BY <1>1 DEF WritesFit
  <2>2. \A i, j \in 1..Len(rest) : rest[i].follow # "note" /\ rest[j].follow # "note" => i = j
    BY <1>1 DEF WritesFit
  <2>3. \A i \in 1..Len(rest) : rest[i].follow \in {"note", "final"} =>
            rest[i].of \in Messages /\ notes[rest[i].of].status # "none"
    BY <1>1 DEF WritesFit
  <2>. QED
    BY <1>1, <2>1, <2>2, <2>3 DEF WritesFit
<1>3. Head(ws).follow # "note" => \A i \in 1..Len(rest) : rest[i].follow = "note"
  BY <1>1 DEF WritesFit
<1>. QED
  BY <1>1, <1>2, <1>3 DEF rest
-----------------------------------------------------------------------------
(* Every step keeps the shape.                                             *)

\* The Relay serves a claim or a settlement.
LEMMA ServesTyped ==
    ASSUME Shape, HostClaim \/ HostSettle
    PROVE  Shape'
<1>. DEFINE c == Head(wire)
<1>1. UNCHANGED <<team, idleSeen, role, receipts, saved, tick, agent>> /\ wire # <<>>
  BY DEF HostClaim, HostSettle
<1>2. PICK v \in {"ok", "no"} : Answer(c, v)
  BY DEF HostClaim, HostSettle
<1>3. /\ WireOK' /\ c \in Request
      /\ reply' # "none" => reply # "none" \/ stage \in {"claiming", "settling"}
  BY <1>1, <1>2, RequestServed DEF Shape, tick
<1>4. reply' \in {"none", "ok", "no"}
  BY <1>2 DEF Answer, Shape, TickOK
<1>5. Next1' = Next1 /\ UNCHANGED <<receipts, disk, writes, broken, stage, todo, input, addressee, holder, frozen>>
  BY <1>1 DEF Next1, role, saved, tick, agent
<1>6. ControllerTypeOK' /\ WritesOK' /\ TickOK'
  BY <1>3, <1>4, <1>5 DEF Shape, ControllerTypeOK, WritesOK, TickOK
<1>7. MailboxTypeOK'
  <2>1. CASE UNCHANGED <<mail, inbox, sends>>
    BY <1>1, <2>1 DEF Shape, MailboxTypeOK
  <2>2. CASE HostClaim /\ Claimable(c) /\ Keep([mail EXCEPT ![c.of].status = "dispatching"])
    <3>. DEFINE letters == [mail EXCEPT ![c.of].status = "dispatching"]
    <3>1. letters \in [Messages -> Letter]
      BY DEF Shape, MailboxTypeOK, Letter, Statuses
    <3>2. \A n \in Messages : Pending(letters[n]) => Pending(mail[n])
      BY <2>2 DEF Shape, MailboxTypeOK, Pending, Claimable
    <3>3. Keep(letters)
      BY <2>2
    <3>. HIDE DEF letters
    <3>. QED
      BY <1>1, <3>1, <3>2, <3>3, KeepTyped DEF Shape, MailboxTypeOK
  <2>3. CASE /\ HostSettle /\ Settleable(c.of, c.status) /\ c.call = "settle"
             /\ Keep([mail EXCEPT ![c.of] = SettledBy(c.of, c)])
    <3>. DEFINE letters == [mail EXCEPT ![c.of] = SettledBy(c.of, c)]
    <3>1. /\ SettledBy(c.of, c) \in Letter
          /\ Pending(SettledBy(c.of, c)) => Pending(mail[c.of])
      BY <1>1, <2>3, SettleTyped DEF Shape
    <3>2. letters \in [Messages -> Letter]
      BY <3>1 DEF Shape, MailboxTypeOK
    <3>3. \A n \in Messages : Pending(letters[n]) => Pending(mail[n])
      BY <3>1 DEF Shape, MailboxTypeOK
    <3>4. Keep(letters)
      BY <2>3
    <3>. HIDE DEF letters
    <3>. QED
      BY <1>1, <3>2, <3>3, <3>4, KeepTyped DEF Shape, MailboxTypeOK
  <2>. QED
    BY <2>1, <2>2, <2>3 DEF HostClaim, HostSettle
<1>. QED
  BY <1>3, <1>6, <1>7 DEF Shape

\* A poll, and the verdicts it brings.
LEMMA PollTyped ==
    ASSUME Shape, Poll
    PROVE  Shape'
<1>. DEFINE decided == {m \in Messages : Unresolved(receipts[m]) /\ Verdict(mail[m]) /\ inbox[m] = 0}
<1>1. /\ stage = "off" /\ UNCHANGED <<mailbox, role, uplink, disk, broken, agent>>
      /\ receipts' = [m \in Messages |-> IF m \in decided THEN mail[m] ELSE receipts[m]]
      /\ IF decided = {} THEN writes' = writes ELSE Save(receipts', "reconciled", NoMessage)
      /\ stage' = IF decided = {} \/ broken THEN "loop" ELSE "reconciling"
      /\ todo' = IF team = "archived" \/ holder # addressee THEN {}
                 ELSE {[of |-> m, at |-> inbox[m], status |-> mail[m].status] :
                          m \in {n \in Messages : inbox[n] > 0}}
  BY DEF Poll
<1>2. MailboxTypeOK'
  BY <1>1 DEF mailbox, Shape, MailboxTypeOK
<1>3. \A m \in decided : mail[m] \in Receipt /\ mail[m].status # "none"
  BY DEF Shape, MailboxTypeOK, Letter, Receipt, Verdict, Statuses
<1>4. receipts' \in [Messages -> Receipt]
  BY <1>1, <1>3 DEF Shape, ControllerTypeOK
<1>5. \A m \in Messages : receipts[m].status # "none" => receipts'[m].status # "none"
  BY <1>1, <1>3
<1>6. reply = "none"
  BY <1>1 DEF Shape, ControllerTypeOK
<1>7. UNCHANGED <<reply, wire, disk, broken, input, addressee, holder, frozen>> /\ stage' \in {"loop", "reconciling"}
  BY <1>1 DEF uplink, role, agent
<1>8. ControllerTypeOK'
  BY <1>4, <1>6, <1>7 DEF Shape, ControllerTypeOK, Stages
<1>9. WireOK'
  BY <1>1, <1>7, NoneAwaited, WireRests DEF Shape
<1>10. todo' \subseteq Entry
  BY <1>1 DEF Shape, MailboxTypeOK, Entry, Letter
<1>11. TickOK'
  BY <1>7, <1>10 DEF Shape, TickOK
<1>12. WritesOK'
  <2>1. \A i \in 1..Len(writes) : writes[i].follow = "note"
    BY <1>1, OnlyNotes DEF Shape, WritesOK
  <2>2. WritesFit(writes, stage', receipts')
    BY <1>5, <2>1, WritesRest DEF Shape, WritesOK
  <2>3. CASE writes' = writes
    BY <2>2, <2>3 DEF WritesOK
  <2>4. CASE /\ ~broken /\ stage' = "reconciling"
             /\ writes' = Append(writes, [notes |-> receipts', follow |-> "reconciled", of |-> NoMessage])
    <3>. DEFINE w == [notes |-> receipts', follow |-> "reconciled", of |-> NoMessage]
    <3>1. w \in Write /\ w.follow = "reconciled"
      BY <1>4 DEF Write
    <3>. HIDE DEF w
    <3>2. WritesFit(Append(writes, w), stage', receipts')
      BY <2>1, <2>2, <2>4, <3>1, WriteQueued
    <3>. QED
      BY <2>4, <3>2 DEF WritesOK, w
  <2>. QED
    BY <1>1, <2>3, <2>4 DEF Save
<1>. QED
  BY <1>2, <1>8, <1>9, <1>11, <1>12 DEF Shape

\* The tick reports, or claims: a request it awaits.
LEMMA AsksTyped ==
    ASSUME Shape, ReportKnown \/ ClaimNext
    PROVE  Shape'
<1>1. /\ Looping /\ UNCHANGED <<mailbox, role, reply, receipts, saved, todo, agent>>
      /\ stage' \in {"claiming", "settling"}
  BY DEF ReportKnown, ClaimNext
<1>2. /\ stage = "loop" /\ todo # {} /\ Next1.of \in Messages /\ reply = "none" /\ (Next1.of)' = Next1.of
      /\ UNCHANGED <<receipts, disk, writes, broken, input, addressee, holder, frozen>>
  BY <1>1, NextIsPolled DEF Looping, Shape, TickOK, ControllerTypeOK, Next1, role, saved, agent
<1>3. \A i \in 1..Len(wire) : ~wire[i].awaited
  BY <1>2, NoneAwaited DEF Shape
<1>4. MailboxTypeOK' /\ ControllerTypeOK' /\ TickOK'
  BY <1>1, <1>2 DEF mailbox, Shape, MailboxTypeOK, ControllerTypeOK, TickOK, Stages
<1>5. WritesOK'
  <2>1. \A i \in 1..Len(writes) : writes[i].follow = "note"
    BY <1>2, OnlyNotes DEF Shape, WritesOK
  <2>2. WritesFit(writes, stage', receipts)
    BY <2>1, WritesRest DEF Shape, WritesOK
  <2>. QED
    BY <1>2, <2>2 DEF WritesOK
<1>6. WireOK'
  <2>1. CASE ReportKnown
    <3>. DEFINE m == Next1.of
    <3>1. PICK r \in {receipts[m], [Blank EXCEPT !.status = "unknown"]} :
             r.status # "none" /\ wire' = Append(wire, SettleCall(m, r, TRUE)) /\ stage' = "settling"
      BY <2>1 DEF ReportKnown, Blank
    <3>2. r \in Receipt
      BY <1>2, <3>1 DEF Shape, ControllerTypeOK, Receipt, Blank, Statuses, Acceptances
    <3>. DEFINE c == SettleCall(m, r, TRUE)
    <3>3. /\ c \in Request /\ c.call = "settle" /\ c.status = r.status /\ c.awaited
      BY <1>2, <3>2 DEF SettleCall, Request, Receipt, Shape, ControllerTypeOK
    <3>. HIDE DEF c
    <3>4. wire' = Append(wire, c)
      BY <3>1 DEF c
    <3>. QED
      BY <1>1, <1>2, <1>3, <3>1, <3>3, <3>4, RequestSent DEF Shape
  <2>2. CASE ClaimNext
    <3>. DEFINE c == ClaimCall(Next1.of)
    <3>1. /\ c \in Request /\ c.call = "claim" /\ c.of = Next1.of /\ c.awaited
      BY <1>2 DEF ClaimCall, Request, Shape, ControllerTypeOK, Statuses, Acceptances
    <3>2. wire' = Append(wire, c) /\ stage' = "claiming"
      BY <2>2 DEF ClaimNext
    <3>. HIDE DEF c
    <3>. QED
      BY <1>1, <1>2, <1>3, <3>1, <3>2, RequestSent DEF Shape
  <2>. QED
    BY <2>1, <2>2
<1>. QED
  BY <1>4, <1>5, <1>6 DEF Shape

\* The tick passes over a message, is interrupted, ends or reads an answer to a
\* settlement.
LEMMA TickGoesOn ==
    ASSUME Shape, PassOver \/ Interrupted \/ (\E idle \in BOOLEAN : Presence(idle)) \/ SettleAnswered
    PROVE  Shape'
<1>1. /\ stage \in {"loop", "settling"} /\ (stage = "settling" => reply # "none")
      /\ stage' \in {"loop", "off"} /\ todo' \subseteq todo /\ reply' \in {reply, "none"}
      /\ stage = "settling" => reply' = "none"
  BY DEF PassOver, Interrupted, Presence, SettleAnswered, Looping, EndTick, uplink, tick
<1>2. /\ UNCHANGED <<wire, receipts, saved, agent, role>>
  BY DEF PassOver, Interrupted, Presence, SettleAnswered, uplink
<1>3. \A i \in 1..Len(wire) : ~wire[i].awaited
  BY <1>1, NoneAwaited DEF Shape
<1>4. WireOK'
  BY <1>2, <1>3, WireRests DEF Shape
<1>5. WritesOK'
  <2>1. \A i \in 1..Len(writes) : writes[i].follow = "note"
    BY <1>1, OnlyNotes DEF Shape, WritesOK
  <2>2. WritesFit(writes, stage', receipts)
    BY <2>1, WritesRest DEF Shape, WritesOK
  <2>. QED
    BY <1>2, <2>2 DEF WritesOK, saved
<1>6. TickOK'
  BY <1>1, <1>2 DEF Shape, TickOK
<1>7. ControllerTypeOK'
  <2>1. reply' = "none"
    BY <1>1 DEF Shape, ControllerTypeOK
  <2>. QED
    BY <1>1, <1>2, <2>1 DEF Shape, ControllerTypeOK, saved, agent, role, Stages
<1>8. MailboxTypeOK'
  <2>1. UNCHANGED <<inbox, sends, mail>>
    BY DEF PassOver, Interrupted, Presence, SettleAnswered, mailbox
  <2>2. team' \in {team, "archived"} /\ idleSeen' \in BOOLEAN
    BY DEF PassOver, Interrupted, Presence, SettleArchive, SettleAnswered, mailbox, Shape, MailboxTypeOK
  <2>. QED
    BY <2>1, <2>2 DEF Shape, MailboxTypeOK
<1>. QED
  BY <1>4, <1>5, <1>6, <1>7, <1>8 DEF Shape

\* An answer to a claim: the receipt first.
LEMMA ClaimAnsweredTyped ==
    ASSUME Shape, ClaimAnswered
    PROVE  Shape'
<1>. DEFINE m == Next1.of
<1>1. /\ stage = "claiming" /\ reply # "none" /\ reply' = "none"
      /\ UNCHANGED <<mailbox, role, wire, disk, broken, agent>>
  BY DEF ClaimAnswered
<1>2. todo # {} /\ m \in Messages
  BY <1>1, NextIsPolled DEF Shape, ControllerTypeOK, TickOK
<1>3. MailboxTypeOK'
  BY <1>1 DEF mailbox, Shape, MailboxTypeOK
<1>4. WireOK'
  BY <1>1, NoneAwaited, WireRests DEF Shape
<1>5. \A i \in 1..Len(writes) : writes[i].follow = "note"
  BY <1>1, OnlyNotes DEF Shape, WritesOK
<1>6. CASE UNCHANGED <<receipts, writes>> /\ stage' = "loop" /\ todo' = todo \ {Next1}
  <2>1. WritesFit(writes, stage', receipts')
    BY <1>5, <1>6, WritesRest DEF Shape, WritesOK
  <2>2. WritesOK' /\ TickOK' /\ ControllerTypeOK'
    BY <1>1, <1>6, <2>1 DEF Shape, WritesOK, TickOK, ControllerTypeOK, role, agent, Stages
  <2>. QED
    BY <1>3, <1>4, <2>2 DEF Shape
<1>7. CASE /\ receipts' = [receipts EXCEPT ![m].status = "unknown"] /\ writes' = writes
           /\ stage' = "off" /\ todo' = {}
  <2>1. /\ receipts' \in [Messages -> Receipt]
        /\ \A n \in Messages : receipts[n].status # "none" => receipts'[n].status # "none"
    BY <1>2, <1>7 DEF Shape, ControllerTypeOK, Receipt, Statuses
  <2>2. WritesFit(writes, stage', receipts')
    BY <1>5, <2>1, WritesRest DEF Shape, WritesOK
  <2>3. WritesOK' /\ TickOK' /\ ControllerTypeOK'
    BY <1>1, <1>7, <2>1, <2>2 DEF Shape, WritesOK, TickOK, ControllerTypeOK, role, agent, Stages
  <2>. QED
    BY <1>3, <1>4, <2>3 DEF Shape
<1>8. CASE /\ receipts' = [receipts EXCEPT ![m].status = "dispatching"] /\ ~broken
           /\ Save(receipts', "boundary", m)
           /\ stage' = "writing" /\ todo' = todo
  <2>1. /\ receipts' \in [Messages -> Receipt]
        /\ \A n \in Messages : receipts[n].status # "none" => receipts'[n].status # "none"
        /\ receipts'[m].status # "none"
    BY <1>2, <1>8 DEF Shape, ControllerTypeOK, Receipt, Statuses
  <2>2. WritesFit(writes, stage', receipts')
    BY <1>5, <2>1, WritesRest DEF Shape, WritesOK
  <2>. DEFINE w == [notes |-> receipts', follow |-> "boundary", of |-> m]
  <2>3. w \in Write /\ w.follow = "boundary"
    BY <1>2, <2>1 DEF Write
  <2>4. writes' = Append(writes, w)
    BY <1>8 DEF Save
  <2>. HIDE DEF w
  <2>5. WritesFit(Append(writes, w), stage', receipts')
    BY <1>5, <1>8, <2>2, <2>3, WriteQueued
  <2>6. Next1' = Next1
    BY <1>8 DEF Next1
  <2>7. WritesOK' /\ TickOK' /\ ControllerTypeOK'
    BY <1>1, <1>2, <1>8, <2>1, <2>4, <2>5, <2>6 DEF Shape, WritesOK, TickOK, ControllerTypeOK, role, agent, Stages
  <2>. QED
    BY <1>3, <1>4, <2>7 DEF Shape
<1>9. reply \in {"ok", "no"}
  BY <1>1 DEF Shape, TickOK
<1>. QED
  BY <1>6, <1>7, <1>8, <1>9 DEF ClaimAnswered, EndTick

\* A save completes, and its settlement is sent.
LEMMA DiskWritesTyped ==
    ASSUME Shape, DiskWrites
    PROVE  Shape'
<1>. DEFINE w == Head(writes)
<1>1. /\ writes # <<>> /\ disk' = w.notes /\ writes' = Tail(writes)
      /\ stage' = CASE w.follow = "reconciled" -> "loop"
                    [] w.follow = "boundary" -> "executing"
                    [] w.follow = "final" -> "settling"
                    [] OTHER -> stage
      /\ wire' = IF w.follow \in {"note", "final"}
                 THEN Append(wire, SettleCall(w.of, receipts[w.of], w.follow = "final")) ELSE wire
      /\ UNCHANGED <<mailbox, role, reply, receipts, broken, todo, polled, agent>>
  BY DEF DiskWrites
<1>2. /\ w \in Write /\ w = writes[1] /\ 1 \in 1..Len(writes)
      /\ WritesFit(Tail(writes), stage, receipts)
      /\ w.follow # "note" => \A i \in 1..Len(Tail(writes)) : Tail(writes)[i].follow = "note"
  BY <1>1, WriteDone DEF Shape, WritesOK
<1>3. /\ w.follow \in {"reconciled", "boundary", "final", "note"} /\ w.notes \in [Messages -> Receipt]
      /\ w.follow = "reconciled" => stage = "reconciling"
      /\ w.follow = "boundary" => stage = "writing"
      /\ w.follow = "final" => stage = "finishing"
      /\ w.follow \in {"note", "final"} => w.of \in Messages /\ receipts[w.of].status # "none"
  <2>1. w.follow \in {"reconciled", "boundary", "final", "note"} /\ w.notes \in [Messages -> Receipt]
    BY <1>2 DEF Write
  <2>. QED
    BY <1>2, <2>1 DEF Shape, WritesOK, WritesFit
<1>. HIDE DEF w
<1>4. MailboxTypeOK'
  BY <1>1 DEF mailbox, Shape, MailboxTypeOK
<1>5. /\ Next1' = Next1
      /\ UNCHANGED <<addressee, holder, frozen, reply, receipts, broken, todo, input>>
  BY <1>1 DEF Next1, role, agent
<1>6. /\ w.follow = "note" => stage' = stage
      /\ w.follow # "note" => reply = "none" /\ stage \in {"reconciling", "writing", "finishing"}
      /\ stage' \in Stages /\ (stage' \in {"writing", "executing", "finishing"} =>
                                 stage \in {"writing", "executing", "finishing"})
      /\ stage' \in {stage, "loop", "executing", "settling"}
      /\ stage' \notin {"off", "loop", "reconciling"} => stage \notin {"off", "loop", "reconciling"}
      /\ w.follow = "final" => stage' = "settling"
  BY <1>1, <1>3 DEF Shape, ControllerTypeOK, Stages
<1>7. ControllerTypeOK'
  BY <1>1, <1>3, <1>5, <1>6 DEF Shape, ControllerTypeOK
<1>8. TickOK'
  BY <1>5, <1>6 DEF Shape, TickOK
<1>9. WritesOK'
  <2>1. WritesFit(Tail(writes), stage', receipts)
    BY <1>2, <1>6, WritesRest
  <2>. QED
    BY <1>1, <1>5, <2>1 DEF WritesOK
<1>10. WireOK'
  <2>1. CASE w.follow \in {"note", "final"}
    <3>. DEFINE c == SettleCall(w.of, receipts[w.of], w.follow = "final")
    <3>1. w.of \in Messages /\ receipts[w.of] \in Receipt /\ receipts[w.of].status # "none" /\ holder \in Nat
      BY <1>3, <2>1 DEF Shape, ControllerTypeOK
    <3>2. /\ c \in Request /\ c.call = "settle" /\ c.status # "none"
          /\ c.awaited = (w.follow = "final")
      BY <3>1 DEF SettleCall, Request, Receipt
    <3>3. wire' = Append(wire, c)
      BY <1>1, <2>1
    <3>. HIDE DEF c
    <3>4. CASE w.follow = "note"
      BY <1>5, <1>6, <3>2, <3>3, <3>4, RequestSent DEF Shape
    <3>5. CASE w.follow = "final"
      <4>1. \A i \in 1..Len(wire) : ~wire[i].awaited
        BY <1>6, <3>5, NoneAwaited DEF Shape
      <4>. QED
        BY <1>5, <1>6, <3>2, <3>3, <3>5, <4>1, RequestSent DEF Shape
    <3>. QED
      BY <2>1, <3>4, <3>5
  <2>2. CASE w.follow \in {"reconciled", "boundary"}
    <3>1. \A i \in 1..Len(wire) : ~wire[i].awaited
      BY <1>6, <2>2, NoneAwaited DEF Shape
    <3>. QED
      BY <1>1, <2>2, <3>1, WireRests DEF Shape
  <2>. QED
    BY <1>3, <2>1, <2>2
<1>. QED
  BY <1>4, <1>7, <1>8, <1>9, <1>10 DEF Shape

\* It fails.
LEMMA DiskFailsTyped ==
    ASSUME Shape, DiskFails
    PROVE  Shape'
<1>1. /\ broken' = TRUE /\ writes' = <<>>
      /\ UNCHANGED <<mailbox, role, uplink, disk, agent>>
      /\ \/ /\ stage = "writing"
            /\ receipts' = [receipts EXCEPT ![Next1.of].status = "unknown"]
            /\ stage' = "off" /\ todo' = {}
         \/ stage = "finishing" /\ receipts' = receipts /\ stage' = "off" /\ todo' = {}
         \/ stage = "reconciling" /\ stage' = "loop" /\ UNCHANGED <<receipts, todo>>
         \/ stage \notin {"writing", "finishing", "reconciling"} /\ UNCHANGED <<receipts, stage, todo>>
  BY DEF DiskFails, EndTick, tick
<1>2. MailboxTypeOK'
  BY <1>1 DEF mailbox, Shape, MailboxTypeOK
<1>3. WritesOK'
  BY <1>1 DEF WritesOK, WritesFit
<1>4. receipts' \in [Messages -> Receipt]
  BY <1>1 DEF Shape, ControllerTypeOK, Receipt, Statuses
<1>5. UNCHANGED <<reply, wire, disk, input, addressee, holder, frozen>>
  BY <1>1 DEF uplink, agent, role
<1>6. CASE UNCHANGED <<stage, todo, receipts>>
  <2>1. Next1' = Next1
    BY <1>6 DEF Next1
  <2>. QED
    BY <1>1, <1>2, <1>3, <1>4, <1>5, <1>6, <2>1, WireStays DEF Shape, ControllerTypeOK, TickOK
<1>7. CASE stage \in {"writing", "finishing", "reconciling"} /\ stage' \in {"off", "loop"} /\ todo' \subseteq todo
  <2>1. ControllerTypeOK' /\ TickOK'
    BY <1>1, <1>4, <1>5, <1>7 DEF Shape, ControllerTypeOK, TickOK, Stages
  <2>2. WireOK'
    BY <1>5, <1>7, NoneAwaited, WireRests DEF Shape
  <2>. QED
    BY <1>2, <1>3, <2>1, <2>2 DEF Shape
<1>. QED
  BY <1>1, <1>6, <1>7

\* The native session tells what became of input.
NativeTells ==
    \E m \in Messages : NativeStarts(m) \/ NativeQueued(m) \/ NativeWithdraws(m)

LEMMA NativeTellsTyped ==
    ASSUME Shape, NativeTells
    PROVE  Shape'
<1>1. PICK m \in Messages : NativeStarts(m) \/ NativeQueued(m) \/ NativeWithdraws(m)
  BY DEF NativeTells
<1>2. PICK r \in {Accepted(receipts[m], "started"), Accepted(receipts[m], "queued"),
                  [status |-> "rejected", acceptance |-> "none"]} : Callback(m, r)
  BY <1>1 DEF NativeStarts, NativeQueued, NativeWithdraws
<1>3. r \in Receipt /\ r.status # "none"
  BY <1>2 DEF Shape, ControllerTypeOK, Receipt, Statuses, Acceptances, Accepted, Final
<1>4. PICK i \in {"ran", "waits", "gone"} : input' = [input EXCEPT ![m] = i]
  BY <1>1 DEF NativeStarts, NativeQueued, NativeWithdraws
<1>5. UNCHANGED <<mailbox, role, uplink, disk, broken, tick>>
  BY <1>1 DEF NativeStarts, NativeQueued, NativeWithdraws
<1>6. MailboxTypeOK'
  BY <1>5 DEF mailbox, Shape, MailboxTypeOK
<1>7. WireOK'
  BY <1>5, WireStays DEF Shape, uplink, tick
<1>8. receipts' \in [Messages -> Receipt] /\ \A n \in Messages : receipts[n].status # "none" => receipts'[n].status # "none"
  BY <1>2, <1>3 DEF Callback, Shape, ControllerTypeOK
<1>9. ControllerTypeOK'
  BY <1>4, <1>5, <1>8 DEF Shape, ControllerTypeOK, role, uplink, tick
<1>10. TickOK'
  <2>1. Next1' = Next1
    BY <1>5 DEF Next1, tick
  <2>2. todo # {} => Next1.of \in Messages
    BY NextIsPolled DEF Shape, TickOK
  <2>. QED
    BY <1>5, <1>8, <2>1, <2>2 DEF Shape, TickOK, ControllerTypeOK, uplink, tick
<1>11. WritesOK'
  <2>1. WritesFit(writes, stage', receipts')
    BY <1>5, <1>8, WritesRest DEF Shape, WritesOK, tick
  <2>2. CASE writes' = writes
    BY <2>1, <2>2 DEF WritesOK
  <2>3. CASE receipts' = [receipts EXCEPT ![m] = r]
             /\ writes' = Append(writes, [notes |-> receipts', follow |-> "note", of |-> m])
    <3>. DEFINE w == [notes |-> receipts', follow |-> "note", of |-> m]
    <3>1. w \in Write /\ w.follow = "note" /\ w.of = m
      BY <1>8 DEF Write
    <3>2. receipts'[m].status # "none"
      BY <1>3, <2>3 DEF Shape, ControllerTypeOK
    <3>3. writes' = Append(writes, w)
      BY <2>3
    <3>. HIDE DEF w
    <3>4. WritesFit(Append(writes, w), stage', receipts')
      BY <2>1, <3>1, <3>2, WriteQueued
    <3>. QED
      BY <3>3, <3>4 DEF WritesOK
  <2>. QED
    BY <1>2, <2>2, <2>3 DEF Callback, Save
<1>. QED
  BY <1>6, <1>7, <1>9, <1>10, <1>11 DEF Shape

\* The native session takes the checked input.
LEMMA NativeTakesTyped ==
    ASSUME Shape, NativeTakes
    PROVE  Shape'
<1>1. /\ UNCHANGED <<mailbox, role, uplink, receipts, saved, tick>>
      /\ input' = [input EXCEPT ![Next1.of] = "held"]
  BY DEF NativeTakes
<1>2. Next1' = Next1
  BY <1>1 DEF Next1, tick
<1>3. MailboxTypeOK' /\ ControllerTypeOK'
  BY <1>1 DEF mailbox, role, uplink, saved, tick, Shape, MailboxTypeOK, ControllerTypeOK
<1>4. WireOK'
  BY <1>1, WireStays DEF Shape, uplink, tick
<1>5. WritesOK' /\ TickOK'
  BY <1>1, <1>2 DEF Shape, WritesOK, TickOK, uplink, saved, tick
<1>. QED
  BY <1>3, <1>4, <1>5 DEF Shape

\* What the end of an operation makes of a receipt is a receipt with an outcome.
LEMMA EndedTyped ==
    ASSUME NEW r \in Receipt, r.status # "none", NEW e \in {"queued", "started", "void", "refused", "unknown"}
    PROVE  Ended(r, e) \in Receipt /\ Ended(r, e).status # "none"
<1>1. r.status \in Statuses /\ r.acceptance \in Acceptances
  BY DEF Receipt
<1>2. CASE e \in {"queued", "started"}
  BY <1>1, <1>2 DEF Ended, Accepted, Receipt, Statuses, Acceptances, Final
<1>3. CASE e = "void"
  BY <1>1, <1>3 DEF Ended, Receipt, Statuses, Acceptances
<1>4. CASE e = "refused"
  BY <1>1, <1>4 DEF Ended, Receipt, Statuses, Acceptances
<1>5. CASE e = "unknown"
  BY <1>1, <1>5 DEF Ended, Receipt, Statuses, Acceptances
<1>. QED
  BY <1>2, <1>3, <1>4, <1>5

\* The dispatch ends and saves what it learned.
LEMMA DispatchEndsTyped ==
    ASSUME Shape, NEW e \in {"queued", "started", "void", "refused", "unknown"}, DispatchEnds(e)
    PROVE  Shape'
<1>. DEFINE m == Next1.of
<1>1. /\ stage = "executing" /\ receipts' = [receipts EXCEPT ![m] = Ended(receipts[m], e)]
      /\ UNCHANGED <<mailbox, role, uplink, disk, broken, agent>>
  BY DEF DispatchEnds
<1>2. todo # {} /\ m \in Messages /\ reply = "none" /\ receipts[m].status # "none"
  BY <1>1, NextIsPolled DEF Shape, ControllerTypeOK, TickOK
<1>3. /\ receipts' \in [Messages -> Receipt] /\ receipts'[m].status # "none"
      /\ \A n \in Messages : receipts[n].status # "none" => receipts'[n].status # "none"
  BY <1>1, <1>2, EndedTyped DEF Shape, ControllerTypeOK
<1>4. MailboxTypeOK'
  BY <1>1 DEF mailbox, Shape, MailboxTypeOK
<1>5. WireOK'
  BY <1>1, NoneAwaited, WireRests DEF Shape, uplink
<1>6. \A i \in 1..Len(writes) : writes[i].follow = "note"
  BY <1>1, OnlyNotes DEF Shape, WritesOK
<1>7. WritesFit(writes, stage', receipts')
  BY <1>3, <1>6, WritesRest DEF Shape, WritesOK
<1>8. CASE broken /\ writes' = writes /\ stage' = "off" /\ todo' = {}
  BY <1>1, <1>2, <1>3, <1>4, <1>5, <1>7, <1>8
     DEF Shape, WritesOK, TickOK, ControllerTypeOK, role, uplink, agent, Stages
<1>. DEFINE last == [notes |-> receipts', follow |-> "final", of |-> m]
<1>. DEFINE note == [notes |-> receipts', follow |-> "note", of |-> m]
<1>9. CASE /\ ~broken /\ stage' = "finishing" /\ todo' = todo
           /\ writes' = writes \o (IF e \in {"queued", "started"} THEN <<note>> \o <<last>> ELSE <<last>>)
  <2>1. /\ last \in Write /\ last.follow = "final" /\ last.of = m
        /\ note \in Write /\ note.follow = "note" /\ note.of = m
    BY <1>2, <1>3 DEF Write
  <2>2. writes \in Seq(Write)
    BY DEF Shape, WritesOK, WritesFit
  <2>. HIDE DEF last, note
  <2>3. writes' \in {Append(writes, last), Append(Append(writes, note), last)}
    <3>1. writes \o <<last>> = Append(writes, last)
      BY <2>1, <2>2
    <3>2. writes \o (<<note>> \o <<last>>) = Append(Append(writes, note), last)
      <4>1. <<note>> \in Seq(Write) /\ <<last>> \in Seq(Write)
        BY <2>1
      <4>2. writes \o (<<note>> \o <<last>>) = (writes \o <<note>>) \o <<last>>
        BY <2>2, <4>1, ConcatAssociative
      <4>3. writes \o <<note>> = Append(writes, note) /\ Append(writes, note) \in Seq(Write)
        BY <2>1, <2>2
      <4>4. Append(writes, note) \o <<last>> = Append(Append(writes, note), last)
        BY <2>1, <4>3
      <4>. QED
        BY <4>2, <4>3, <4>4
    <3>. QED
      BY <1>9, <3>1, <3>2
  <2>4. WritesFit(Append(writes, note), stage', receipts')
    BY <1>2, <1>3, <1>7, <1>9, <2>1, WriteQueued
  <2>5. \A i \in 1..Len(Append(writes, note)) : Append(writes, note)[i].follow = "note"
    BY <1>6, <2>1, <2>2
  <2>6. WritesFit(Append(writes, last), stage', receipts')
    BY <1>2, <1>3, <1>6, <1>7, <1>9, <2>1, WriteQueued
  <2>7. WritesFit(Append(Append(writes, note), last), stage', receipts')
    BY <1>2, <1>3, <1>9, <2>1, <2>4, <2>5, WriteQueued
  <2>8. WritesOK'
    BY <2>3, <2>6, <2>7 DEF WritesOK
  <2>9. Next1' = Next1
    BY <1>9 DEF Next1
  <2>10. TickOK' /\ ControllerTypeOK'
    BY <1>1, <1>2, <1>3, <1>9, <2>9 DEF Shape, TickOK, ControllerTypeOK, role, uplink, agent, Stages
  <2>. QED
    BY <1>4, <1>5, <2>8, <2>10 DEF Shape
<1>10. DispatchEnds(e) => \/ broken /\ writes' = writes /\ stage' = "off" /\ todo' = {}
                          \/ /\ ~broken /\ stage' = "finishing" /\ todo' = todo
                             /\ writes' = writes \o (IF e \in {"queued", "started"} THEN <<note>> \o <<last>> ELSE <<last>>)
  BY DEF DispatchEnds, EndTick
<1>. QED
  BY <1>8, <1>9, <1>10

\* Requests are lost or given up, the Controller stops.
LEMMA MishapsTyped ==
    ASSUME Shape, ConnectionLost \/ RequestTimesOut \/ ControllerCrashes
    PROVE  Shape'
<1>1. CASE ConnectionLost
  <2>1. /\ wire' = <<>> /\ reply' = IF stage \in {"claiming", "settling"} THEN "no" ELSE "none"
        /\ UNCHANGED <<mailbox, role, receipts, saved, tick, agent>>
    BY <1>1 DEF ConnectionLost
  <2>2. Next1' = Next1
    BY <2>1 DEF Next1, tick
  <2>3. WireOK'
    BY <2>1 DEF WireOK
  <2>. QED
    BY <2>1, <2>2, <2>3 DEF Shape, MailboxTypeOK, ControllerTypeOK, WritesOK, TickOK,
                            mailbox, role, saved, tick, agent
<1>2. CASE RequestTimesOut
  <2>1. /\ wire' = [i \in DOMAIN wire |-> [wire[i] EXCEPT !.awaited = FALSE]]
        /\ reply' = "no" /\ stage \in {"claiming", "settling"}
        /\ UNCHANGED <<mailbox, role, receipts, saved, tick, agent>>
    BY <1>2 DEF RequestTimesOut
  <2>2. Next1' = Next1
    BY <2>1 DEF Next1, tick
  <2>3. /\ wire \in Seq(Request) /\ DOMAIN wire = 1..Len(wire) /\ Len(wire) \in Nat
        /\ \A i \in 1..Len(wire) : wire[i] \in Request
    BY DEF Shape, WireOK
  <2>4. \A i \in 1..Len(wire) : /\ wire'[i] \in Request /\ ~wire'[i].awaited
                                /\ wire'[i].call = wire[i].call /\ wire'[i].status = wire[i].status
    BY <2>1, <2>3 DEF Request
  <2>5. wire' \in Seq(Request) /\ Len(wire') = Len(wire)
    BY <2>1, <2>3, <2>4
  <2>6. WireOK'
    BY <2>4, <2>5 DEF Shape, WireOK
  <2>. QED
    BY <2>1, <2>2, <2>6 DEF Shape, MailboxTypeOK, ControllerTypeOK, WritesOK, TickOK,
                            mailbox, role, saved, tick, agent
<1>3. CASE ControllerCrashes
  <2>1. /\ receipts' = Restored(disk) /\ writes' = <<>> /\ broken' = FALSE
        /\ wire' = <<>> /\ reply' = "none" /\ stage' = "off" /\ todo' = {}
        /\ UNCHANGED <<mailbox, role, disk, input>>
    BY <1>3 DEF ControllerCrashes, EndTick
  <2>2. receipts' \in [Messages -> Receipt]
    BY <2>1 DEF Restored, Shape, ControllerTypeOK, Receipt, Statuses
  <2>3. WireOK' /\ WritesOK' /\ TickOK'
    BY <2>1 DEF WireOK, WritesOK, WritesFit, TickOK
  <2>. QED
    BY <2>1, <2>2, <2>3 DEF Shape, MailboxTypeOK, ControllerTypeOK, mailbox, role, Stages
<1>. QED
  BY <1>1, <1>2, <1>3

\* The steps of the specification, grouped as the lemmas are.
LEMMA DeliverySteps ==
    DeliveryNext => \/ MailSteps \/ HostClaim \/ HostSettle \/ Poll \/ ReportKnown \/ ClaimNext
                    \/ PassOver \/ Interrupted \/ (\E idle \in BOOLEAN : Presence(idle)) \/ SettleAnswered
                    \/ ClaimAnswered \/ DiskWrites \/ DiskFails \/ NativeTells \/ NativeTakes
                    \/ (\E e \in {"queued", "started", "void", "refused", "unknown"} : DispatchEnds(e))
                    \/ ConnectionLost \/ RequestTimesOut \/ ControllerCrashes
BY DEF DeliveryNext, MailSteps, RelayServes, TickSteps, NativeTells, DispatchStep

\* No step breaks the shape.
LEMMA ShapeStep ==
    ASSUME Shape, DeliveryNext
    PROVE  Shape'
BY DeliverySteps, MailStepsTyped, ServesTyped, PollTyped, AsksTyped, TickGoesOn, ClaimAnsweredTyped,
   DiskWritesTyped, DiskFailsTyped, NativeTellsTyped, NativeTakesTyped, DispatchEndsTyped, MishapsTyped

-----------------------------------------------------------------------------
(* What a step does to one message.                                        *)

\* A letter changes as one handler of the Relay changes it.
LetterSteps(m) ==
    \/ mail'[m] = mail[m]
    \/ mail[m] = Blank /\ mail'[m] = [Blank EXCEPT !.status = "queued"] /\ SendMessage(m)
    \/ /\ mail[m].status = "queued" /\ AcknowledgeMessage(m)
       /\ mail'[m] = [status |-> "accepted", acceptance |-> "handled"]
    \/ /\ Unresolved(mail[m]) /\ m \in resolved'
       /\ mail'[m] \in [status : {"accepted", "rejected"}, acceptance : {"handled", "none"}]
       /\ ~Pending(mail'[m])
    \/ /\ mail[m].status = "queued" /\ ArchiveTeam
       /\ mail'[m] = [mail[m] EXCEPT !.status = "canceled"]
    \/ /\ mail[m].status = "queued" /\ HostClaim /\ Head(wire).of = m /\ team = "active"
       /\ mail'[m] = [mail[m] EXCEPT !.status = "dispatching"]
    \/ /\ HostSettle /\ Head(wire).of = m /\ Settleable(m, Head(wire).status) /\ inbox[m] # 0
       /\ mail'[m] = SettledBy(m, Head(wire))

LEMMA LetterChanges ==
    ASSUME Shape, DeliveryNext, NEW m \in Messages
    PROVE  LetterSteps(m)
<1>. USE DEF Shape, MailboxTypeOK
<1>1. CASE \E n \in Messages : SendMessage(n)
  <2>1. PICK n \in Messages : SendMessage(n)
    BY <1>1
  <2>2. mail' = [mail EXCEPT ![n].status = "queued"] /\ mail[n] = Blank
    BY <2>1 DEF SendMessage
  <2>. QED
    BY <2>1, <2>2 DEF LetterSteps
<1>2. CASE \E n \in Messages : AcknowledgeMessage(n)
  <2>1. PICK n \in Messages : AcknowledgeMessage(n)
    BY <1>2
  <2>2. mail' = [mail EXCEPT ![n] = [status |-> "accepted", acceptance |-> "handled"]] /\ mail[n].status = "queued"
    BY <2>1 DEF AcknowledgeMessage, Keep
  <2>. QED
    BY <2>1, <2>2 DEF LetterSteps
<1>3. CASE \E n \in Messages, o \in {"accepted", "rejected"} : ResolveMessage(n, o)
  <2>1. PICK n \in Messages, o \in {"accepted", "rejected"} : ResolveMessage(n, o)
    BY <1>3
  <2>. DEFINE acceptance == IF o = "accepted" THEN "handled" ELSE "none"
  <2>2. /\ mail' = [mail EXCEPT ![n] = [status |-> o, acceptance |-> acceptance]]
        /\ Unresolved(mail[n]) /\ resolved' = resolved \cup {n}
    BY <2>1 DEF ResolveMessage, Keep
  <2>3. CASE n = m
    <3>1. mail'[m] = [status |-> o, acceptance |-> acceptance]
      BY <2>2, <2>3
    <3>2. mail'[m] \in [status : {"accepted", "rejected"}, acceptance : {"handled", "none"}] /\ ~Pending(mail'[m])
      BY <3>1 DEF Pending, Unresolved, Final
    <3>. QED
      BY <2>2, <2>3, <3>2 DEF LetterSteps
  <2>. QED
    BY <2>2, <2>3 DEF LetterSteps
<1>4. CASE ArchiveTeam
  <2>1. mail' = [n \in Messages |-> IF mail[n].status = "queued"
                                THEN [mail[n] EXCEPT !.status = "canceled"] ELSE mail[n]]
    BY <1>4 DEF ArchiveTeam, Keep
  <2>. QED
    BY <1>4, <2>1 DEF LetterSteps
<1>5. CASE HostClaim
  <2>1. CASE Claimable(Head(wire)) /\ Keep([mail EXCEPT ![Head(wire).of].status = "dispatching"])
    <3>1. mail' = [mail EXCEPT ![Head(wire).of].status = "dispatching"]
      BY <2>1 DEF Keep
    <3>2. mail[Head(wire).of].status = "queued" /\ team = "active"
      BY <2>1 DEF Claimable
    <3>. QED
      BY <1>5, <3>1, <3>2 DEF LetterSteps
  <2>2. CASE mail' = mail
    BY <2>2 DEF LetterSteps
  <2>. QED
    BY <1>5, <2>1, <2>2 DEF HostClaim
<1>6. CASE HostSettle
  <2>1. CASE /\ Settleable(Head(wire).of, Head(wire).status)
             /\ Keep([mail EXCEPT ![Head(wire).of] = SettledBy(Head(wire).of, Head(wire))])
    <3>1. mail' = [mail EXCEPT ![Head(wire).of] = SettledBy(Head(wire).of, Head(wire))]
      BY <2>1 DEF Keep
    <3>2. inbox[m] = 0 => SettledBy(m, Head(wire)) = mail[m]
      BY DEF SettledBy
    <3>. QED
      BY <1>6, <2>1, <3>1, <3>2 DEF LetterSteps
  <2>2. CASE mail' = mail
    BY <2>2 DEF LetterSteps
  <2>. QED
    BY <1>6, <2>1, <2>2 DEF HostSettle
<1>7. CASE mail' = mail
  BY <1>7 DEF LetterSteps
<1>8. mail' = mail \/ HostClaim \/ HostSettle \/ MailSteps
  BY DeliverySteps DEF Poll, ReportKnown, ClaimNext, PassOver, Interrupted, Presence, SettleAnswered,
     ClaimAnswered, DiskWrites, DiskFails, NativeTells, NativeStarts, NativeQueued, NativeWithdraws,
     NativeTakes, DispatchEnds, ConnectionLost, RequestTimesOut, ControllerCrashes, mailbox
<1>9. MailSteps => \/ mail' = mail \/ ArchiveTeam \/ \E n \in Messages : SendMessage(n) \/ AcknowledgeMessage(n)
                   \/ \E n \in Messages, o \in {"accepted", "rejected"} : ResolveMessage(n, o)
  BY DEF MailSteps, RestoreTeam, Freeze, Move, Unfreeze, mailbox
<1>. QED
  BY <1>1, <1>2, <1>3, <1>4, <1>5, <1>6, <1>7, <1>8, <1>9

\* What the native session has of a message changes as it takes or tells; a
\* message is read or given once more only by an acknowledgement or a take.
InputSteps(m) ==
    \/ /\ input'[m] = input[m] /\ consumed'[m] = consumed[m] /\ (m \in hooked' => m \in hooked)
    \/ /\ AcknowledgeMessage(m) /\ UNCHANGED <<input, hooked>> /\ consumed'[m] = consumed[m] + 1
    \/ /\ NativeTakes /\ Next1.of = m /\ m \notin hooked /\ stage = "executing"
       /\ input'[m] = "held" /\ consumed'[m] = consumed[m] + 1 /\ m \in hooked'
    \/ /\ input[m] \in Held /\ consumed'[m] = consumed[m] /\ hooked' = hooked
       /\ \/ NativeStarts(m) /\ input'[m] = "ran"
          \/ NativeQueued(m) /\ input'[m] = "waits"
          \/ NativeWithdraws(m) /\ input'[m] = "gone"

LEMMA InputChanges ==
    ASSUME Shape, Fates, DeliveryNext, NEW m \in Messages
    PROVE  InputSteps(m)
<1>0. input \in [Messages -> {"none", "held", "waits", "ran", "gone"}] /\ consumed \in [Messages -> 0..1]
  BY DEF Shape, ControllerTypeOK, Fates
<1>1. CASE \E n \in Messages : AcknowledgeMessage(n)
  <2>1. PICK n \in Messages : AcknowledgeMessage(n)
    BY <1>1
  <2>2. consumed' = [consumed EXCEPT ![n] = @ + 1] /\ UNCHANGED <<input, hooked>>
    BY <2>1 DEF AcknowledgeMessage, agent
  <2>. QED
    BY <1>0, <2>1, <2>2 DEF InputSteps
<1>2. CASE NativeTakes
  <2>1. /\ stage = "executing" /\ Next1.of \notin hooked
        /\ input' = [input EXCEPT ![Next1.of] = "held"]
        /\ hooked' = hooked \cup {Next1.of}
        /\ consumed' = [consumed EXCEPT ![Next1.of] = @ + 1]
    BY <1>2 DEF NativeTakes
  <2>. QED
    BY <1>0, <1>2, <2>1 DEF InputSteps
<1>3. CASE NativeTells
  <2>1. PICK n \in Messages : NativeStarts(n) \/ NativeQueued(n) \/ NativeWithdraws(n)
    BY <1>3 DEF NativeTells
  <2>2. hooked' = hooked /\ consumed' = consumed /\ input[n] \in Held
    BY <2>1 DEF NativeStarts, NativeQueued, NativeWithdraws, account, Held
  <2>3. \/ NativeStarts(n) /\ input' = [input EXCEPT ![n] = "ran"]
        \/ NativeQueued(n) /\ input' = [input EXCEPT ![n] = "waits"]
        \/ NativeWithdraws(n) /\ input' = [input EXCEPT ![n] = "gone"]
    BY <2>1 DEF NativeStarts, NativeQueued, NativeWithdraws
  <2>. QED
    BY <1>0, <2>2, <2>3 DEF InputSteps
<1>4. CASE input' = input /\ consumed' = consumed /\ hooked' \in {hooked, {}}
  BY <1>4 DEF InputSteps
<1>5. \/ input' = input /\ consumed' = consumed /\ hooked' \in {hooked, {}}
      \/ NativeTells \/ NativeTakes \/ MailSteps
  BY DeliverySteps DEF HostClaim, HostSettle, Poll, ReportKnown, ClaimNext, PassOver, Interrupted, Presence,
     SettleAnswered, ClaimAnswered, DiskWrites, DiskFails, DispatchEnds, ConnectionLost, RequestTimesOut,
     ControllerCrashes, agent, account
<1>6. MailSteps => \/ input' = input /\ consumed' = consumed /\ hooked' = hooked
                   \/ \E n \in Messages : AcknowledgeMessage(n)
  BY DEF MailSteps, SendMessage, ResolveMessage, ArchiveTeam, RestoreTeam, Freeze, Move, Unfreeze, agent, account
<1>. QED
  BY <1>1, <1>2, <1>3, <1>4, <1>5, <1>6

\* The tick takes up a message only by a claim that the Relay grants.
LEMMA TakingBegins ==
    ASSUME Shape, DeliveryNext, NEW m \in Messages, Taking(m)'
    PROVE  Taking(m) \/ (mail[m].status = "queued" /\ mail'[m].status = "dispatching")
<1>0. /\ todo' # {} /\ (Next1.of)' = m /\ m \notin hooked'
      /\ stage' \in {"writing", "executing"} \/ (stage' = "claiming" /\ reply' = "ok")
  BY DEF Taking
<1>1. CASE UNCHANGED <<reply, stage, todo>> /\ hooked \subseteq hooked'
  BY <1>0, <1>1 DEF Taking, Next1
<1>2. MailSteps \/ NativeTells \/ NativeTakes => UNCHANGED <<reply, stage, todo>> /\ hooked \subseteq hooked'
  BY DEF MailSteps, SendMessage, AcknowledgeMessage, ResolveMessage, ArchiveTeam, RestoreTeam,
         Freeze, Move, Unfreeze, NativeTells, NativeStarts, NativeQueued, NativeWithdraws, NativeTakes,
         uplink, tick, agent
<1>3. CASE HostClaim \/ HostSettle
  <2>1. /\ wire # <<>> /\ UNCHANGED <<stage, todo, hooked>>
    BY <1>3 DEF HostClaim, HostSettle, tick, agent
  <2>2. CASE reply' = reply
    BY <1>1, <2>1, <2>2
  <2>3. CASE reply' # reply
    <3>1. PICK v \in {"ok", "no"} : Answer(Head(wire), v)
      BY <1>3 DEF HostClaim, HostSettle
    <3>2. Head(wire).awaited /\ reply' = v /\ Head(wire) = wire[1] /\ 1 \in 1..Len(wire)
      BY <2>1, <2>3, <3>1, RequestServed DEF Answer, Shape
    <3>3. stage \in {"claiming", "settling"}
      BY <3>2, NoneAwaited DEF Shape
    <3>4. stage = "claiming" /\ reply' = "ok"
      BY <1>0, <2>1, <3>3
    <3>5. Head(wire).call = "claim" /\ Head(wire).of = m
      <4>1. Head(wire).call \in {"claim", "settle"}
        BY <1>3 DEF HostClaim, HostSettle
      <4>2. Next1' = Next1
        BY <2>1 DEF Next1
      <4>. QED
        BY <1>0, <3>2, <3>4, <4>1, <4>2 DEF Shape, WireOK
    <3>6. HostClaim /\ Claimable(Head(wire)) /\ Keep([mail EXCEPT ![m].status = "dispatching"])
      BY <1>3, <2>3, <3>2, <3>4, <3>5 DEF HostClaim, HostSettle, Answer
    <3>. QED
      BY <3>5, <3>6 DEF Claimable, Keep, Shape, MailboxTypeOK
  <2>. QED
    BY <2>2, <2>3
<1>4. CASE Poll \/ ReportKnown \/ ClaimNext
  <2>1. stage \in {"off", "loop"} /\ reply' = reply /\ stage' \in {"loop", "reconciling", "settling", "claiming"}
    BY <1>4 DEF Poll, ReportKnown, ClaimNext, Looping, uplink
  <2>. QED
    BY <1>0, <2>1 DEF Shape, ControllerTypeOK
<1>5. CASE PassOver \/ Interrupted \/ (\E idle \in BOOLEAN : Presence(idle)) \/ SettleAnswered \/ ControllerCrashes
  <2>1. stage' \in {"loop", "off"}
    BY <1>5 DEF PassOver, Interrupted, Presence, SettleAnswered, ControllerCrashes, Looping, EndTick, tick
  <2>. QED
    BY <1>0, <2>1
<1>6. CASE ClaimAnswered
  <2>1. stage = "claiming" /\ reply = "ok" /\ todo' = todo /\ hooked' = hooked
    BY <1>0, <1>6 DEF ClaimAnswered, EndTick, agent, Shape, TickOK
  <2>. QED
    BY <1>0, <2>1 DEF Taking, Next1
<1>7. CASE DiskWrites
  <2>1. UNCHANGED <<reply, todo, hooked>> /\ writes # <<>> /\ (stage' = stage \/ Head(writes).follow # "note")
    BY <1>7 DEF DiskWrites, agent
  <2>2. /\ stage' \in {"writing", "executing"} /\ stage' # stage => Head(writes).follow = "boundary"
    BY <1>7 DEF DiskWrites
  <2>3. Head(writes).follow = "boundary" => stage = "writing"
    BY <2>1, WriteDone DEF Shape, WritesOK, WritesFit
  <2>4. stage' = "claiming" => stage' = stage
    BY <1>7 DEF DiskWrites
  <2>. QED
    BY <1>0, <2>1, <2>2, <2>3, <2>4 DEF Taking, Next1
<1>8. CASE DiskFails
  <2>1. UNCHANGED <<reply, todo, hooked, stage>>
    BY <1>0, <1>8 DEF DiskFails, EndTick, uplink, tick, agent
  <2>. QED
    BY <1>1, <2>1
<1>9. CASE \E e \in {"queued", "started", "void", "refused", "unknown"} : DispatchEnds(e)
  BY <1>0, <1>9 DEF DispatchEnds, EndTick
<1>10. CASE ConnectionLost \/ RequestTimesOut
  <2>1. reply' # "ok" /\ UNCHANGED <<stage, todo, hooked>>
    BY <1>10 DEF ConnectionLost, RequestTimesOut, tick, agent
  <2>. QED
    BY <1>0, <2>1 DEF Taking, Next1
<1>. QED
  BY <1>1, <1>2, <1>3, <1>4, <1>5, <1>6, <1>7, <1>8, <1>9, <1>10, DeliverySteps

\* The settlement the Relay serves is one it may write.
LEMMA SettlementServed ==
    ASSUME Shape, HostSettle, NEW m \in Messages, Head(wire).of = m, Settleable(m, Head(wire).status)
    PROVE  /\ Claimed(m) /\ SettledBy(m, Head(wire)).status \notin {"none", "queued"}
           /\ 1 \in 1..Len(wire) /\ wire[1] = Head(wire) /\ wire[1].call = "settle"
           /\ wire[1].of = m /\ wire[1].status \in Statuses \ {"none"} /\ wire[1].acceptance \in Acceptances
<1>1. wire # <<>> /\ Head(wire).call = "settle"
  BY DEF HostSettle
<1>2. 1 \in 1..Len(wire) /\ wire[1] = Head(wire) /\ wire[1] \in Request
  BY <1>1 DEF Shape, WireOK
<1>3. wire[1].status \in Statuses /\ wire[1].acceptance \in Acceptances
  BY <1>2 DEF Request
<1>4. wire[1].status # "none"
  BY <1>1, <1>2 DEF Shape, WireOK
<1>. QED
  BY <1>1, <1>2, <1>3, <1>4, SettleTyped DEF Shape

\* A claim is for good.
LEMMA ClaimedStays ==
    ASSUME Shape, DeliveryNext, NEW m \in Messages, Claimed(m)
    PROVE  Claimed(m)'
<1>1. mail[m] \in Letter /\ mail[m].status \notin {"none", "queued"}
  BY DEF Shape, MailboxTypeOK, Claimed
<1>2. CASE mail'[m] = mail[m]
  BY <1>2 DEF Claimed
<1>3. CASE mail'[m] \in [status : {"accepted", "rejected"}, acceptance : {"handled", "none"}]
  BY <1>3 DEF Claimed
<1>4. CASE HostSettle /\ Head(wire).of = m /\ Settleable(m, Head(wire).status) /\ mail'[m] = SettledBy(m, Head(wire))
  BY <1>4, SettlementServed DEF Claimed
<1>5. mail[m] # Blank /\ mail[m].status # "queued"
  BY <1>1 DEF Blank
<1>6. LetterSteps(m)
  BY LetterChanges
<1>7. \/ mail'[m] = mail[m]
      \/ mail'[m] \in [status : {"accepted", "rejected"}, acceptance : {"handled", "none"}]
      \/ HostSettle /\ Head(wire).of = m /\ Settleable(m, Head(wire).status) /\ mail'[m] = SettledBy(m, Head(wire))
  BY <1>5, <1>6 DEF LetterSteps
<1>. QED
  BY <1>2, <1>3, <1>4, <1>7

\* Only the user adds to what the user decided, and only what is unresolved.
LEMMA ResolvedStays ==
    ASSUME Fates, DeliveryNext
    PROVE  resolved' = resolved \/ \E m \in Messages : resolved' = resolved \cup {m} /\ m \in resolved' /\ Unresolved(mail[m])
<1>1. \/ resolved' = resolved \/ MailSteps
  BY DeliverySteps DEF HostClaim, HostSettle, Poll, ReportKnown, ClaimNext, PassOver, Interrupted, Presence,
     SettleAnswered, ClaimAnswered, DiskWrites, DiskFails, DispatchEnds, ConnectionLost, RequestTimesOut,
     ControllerCrashes, NativeTells, NativeStarts, NativeQueued, NativeWithdraws, NativeTakes, account
<1>2. CASE MailSteps
  BY <1>2 DEF MailSteps, SendMessage, AcknowledgeMessage, ResolveMessage, ArchiveTeam, RestoreTeam,
              Freeze, Move, Unfreeze, account
<1>. QED
  BY <1>1, <1>2

\* No step gives a message twice or before its claim.
LEMMA FatesStep ==
    ASSUME Shape, Fates, DeliveryNext
    PROVE  Fates'
<1>1. Shape'
  BY ShapeStep
<1>2. ASSUME NEW m \in Messages
      PROVE  /\ Taking(m)' \/ m \in resolved' \/ consumed'[m] = 1 => Claimed(m)'
             /\ Taking(m)' => consumed'[m] = 0
             /\ input'[m] # "none" => consumed'[m] = 1
             /\ m \in hooked' => input'[m] # "none"
             /\ consumed'[m] \in 0..1
  <2>1. /\ Taking(m) \/ m \in resolved \/ consumed[m] = 1 => Claimed(m)
        /\ Taking(m) => consumed[m] = 0
        /\ input[m] # "none" => consumed[m] = 1
        /\ m \in hooked => input[m] # "none"
        /\ consumed[m] \in 0..1
    BY DEF Fates
  <2>2. Claimed(m) => Claimed(m)'
    BY ClaimedStays
  <2>3. Taking(m)' => Taking(m) \/ (~Claimed(m) /\ Claimed(m)')
    BY TakingBegins DEF Claimed
  <2>4. m \in resolved' => Claimed(m)'
    <3>1. m \in resolved' => m \in resolved \/ Unresolved(mail[m])
      BY ResolvedStays
    <3>2. Unresolved(mail[m]) => Claimed(m)
      BY DEF Unresolved, Claimed
    <3>. QED
      BY <2>1, <2>2, <3>1, <3>2
  <2>5. CASE input'[m] = input[m] /\ consumed'[m] = consumed[m] /\ (m \in hooked' => m \in hooked)
    BY <2>1, <2>2, <2>3, <2>4, <2>5
  <2>6. CASE AcknowledgeMessage(m) /\ UNCHANGED <<input, hooked>> /\ consumed'[m] = consumed[m] + 1
    <3>1. mail[m].status = "queued" /\ mail' = [mail EXCEPT ![m] = [status |-> "accepted", acceptance |-> "handled"]]
      BY <2>6 DEF AcknowledgeMessage, Keep
    <3>2. ~Claimed(m) /\ Claimed(m)' /\ mail'[m].status # "dispatching"
      BY <3>1 DEF Claimed, Shape, MailboxTypeOK
    <3>3. ~Taking(m)'
      BY <2>1, <3>2, TakingBegins
    <3>. QED
      BY <2>1, <2>4, <2>6, <3>2, <3>3
  <2>7. CASE /\ NativeTakes /\ Next1.of = m /\ m \notin hooked /\ stage = "executing"
             /\ input'[m] = "held" /\ consumed'[m] = consumed[m] + 1 /\ m \in hooked'
    <3>1. Taking(m)
      BY <2>7 DEF Taking, Shape, ControllerTypeOK
    <3>2. ~Taking(m)'
      BY <2>7 DEF Taking
    <3>. QED
      BY <2>1, <2>2, <2>4, <2>7, <3>1, <3>2
  <2>8. CASE input[m] \in Held /\ consumed'[m] = consumed[m] /\ hooked' = hooked /\ input'[m] \in {"ran", "waits", "gone"}
    BY <2>1, <2>2, <2>3, <2>4, <2>8 DEF Held
  <2>. QED
    BY <2>5, <2>6, <2>7, <2>8, InputChanges DEF InputSteps
<1>3. resolved' \subseteq Messages
  BY ResolvedStays DEF Fates
<1>4. hooked' \subseteq Messages
  <2>1. \/ hooked' \subseteq hooked \/ NativeTakes
    BY DeliverySteps DEF MailSteps, SendMessage, AcknowledgeMessage, ResolveMessage, ArchiveTeam, RestoreTeam,
       Freeze, Move, Unfreeze, HostClaim, HostSettle, Poll, ReportKnown, ClaimNext, PassOver, Interrupted, Presence,
       SettleAnswered, ClaimAnswered, DiskWrites, DiskFails, DispatchEnds, ConnectionLost, RequestTimesOut,
       ControllerCrashes, NativeTells, NativeStarts, NativeQueued, NativeWithdraws, agent
  <2>2. CASE NativeTakes
    <3>1. hooked' = hooked \cup {Next1.of} /\ stage = "executing"
      BY <2>2 DEF NativeTakes
    <3>. QED
      BY <3>1, NextIsPolled DEF Shape, ControllerTypeOK, TickOK, Fates
  <2>. QED
    BY <2>1, <2>2 DEF Fates
<1>5. consumed' \in [Messages -> 0..1]
  <2>1. \/ consumed' = consumed \/ NativeTakes \/ \E m \in Messages : AcknowledgeMessage(m)
    BY DeliverySteps DEF MailSteps, SendMessage, ResolveMessage, ArchiveTeam, RestoreTeam,
       Freeze, Move, Unfreeze, HostClaim, HostSettle, Poll, ReportKnown, ClaimNext, PassOver, Interrupted, Presence,
       SettleAnswered, ClaimAnswered, DiskWrites, DiskFails, DispatchEnds, ConnectionLost, RequestTimesOut,
       ControllerCrashes, NativeTells, NativeStarts, NativeQueued, NativeWithdraws, account
  <2>2. \E n : consumed' = [consumed EXCEPT ![n] = @ + 1] \/ consumed' = consumed
    BY <2>1 DEF NativeTakes, AcknowledgeMessage
  <2>3. DOMAIN consumed' = Messages /\ consumed' = [n \in Messages |-> consumed'[n]]
    BY <2>2 DEF Fates
  <2>4. \A m \in Messages : consumed'[m] \in 0..1
    BY <1>2
  <2>. QED
    BY <2>3, <2>4
<1>. QED
  BY <1>2, <1>3, <1>4, <1>5 DEF Fates

\* What a denial or a start says of a message stays so.
LEMMA DeniedStays ==
    ASSUME Shape, Fates, DeliveryNext, NEW m \in Messages
    PROVE  (Denied(m) => Denied(m)') /\ (InputOver(m) => InputOver(m)')
<1>1. m \in resolved => m \in resolved'
  BY ResolvedStays
<1>2. Claimed(m) /\ ~Taking(m) => Claimed(m)' /\ ~Taking(m)'
  BY ClaimedStays, TakingBegins DEF Claimed
<1>3. ASSUME Claimed(m), ~Taking(m), input[m] \notin Held
      PROVE  input'[m] = input[m] /\ consumed'[m] = consumed[m]
  <2>1. ~AcknowledgeMessage(m)
    BY <1>3 DEF AcknowledgeMessage, Claimed
  <2>2. ~(NativeTakes /\ Next1.of = m /\ m \notin hooked /\ stage = "executing")
    BY <1>3 DEF Taking, Shape, ControllerTypeOK
  <2>. QED
    BY <1>3, <2>1, <2>2, InputChanges DEF InputSteps
<1>4. InputOver(m) => InputOver(m)'
  BY <1>1, <1>2, <1>3 DEF InputOver
<1>5. Denied(m) => Denied(m)'
  BY <1>1, <1>2, <1>3 DEF Denied, Held
<1>. QED
  BY <1>4, <1>5

\* What r says of m is so after the step.
SaysNext(m, r) ==
    /\ r.status \in {"rejected", "canceled"} => Denied(m)'
    /\ r.acceptance \in Final => InputOver(m)'

\* What was true of a message when it was written stays true.
LEMMA SaysStays ==
    ASSUME Shape, Fates, DeliveryNext
    PROVE  \A m \in Messages : \A r : Says(m, r) => SaysNext(m, r)
BY DeniedStays DEF Says, SaysNext

\* What may reach the native session, or waits in it, was already unresolved or is
\* claimed just now.
LEMMA LiveStep ==
    ASSUME Shape, Fates, Evidence, Live, DeliveryNext
    PROVE  Live'
<1>1. SUFFICES ASSUME NEW m \in Messages, Taking(m)' \/ input'[m] \in Held, m \notin resolved'
               PROVE  Unresolved(mail[m])' /\ team' # "archived"
  BY DEF Live
<1>2. m \notin resolved
  BY <1>1, ResolvedStays
<1>3. ~Denied(m)' /\ ~InputOver(m)'
  BY <1>1 DEF Denied, InputOver, Held
<1>4. ~Denied(m) /\ ~InputOver(m)
  BY <1>3, DeniedStays
<1>5. Taking(m) \/ input[m] \in Held \/ (mail[m].status = "queued" /\ mail'[m].status = "dispatching")
  <2>1. CASE Taking(m)'
    BY <2>1, TakingBegins
  <2>2. CASE input'[m] \in Held
    <3>1. CASE NativeTakes /\ Next1.of = m /\ m \notin hooked /\ stage = "executing"
      BY <3>1 DEF Taking, Shape, ControllerTypeOK
    <3>2. CASE input'[m] = input[m]
      BY <2>2, <3>2
    <3>3. CASE input[m] \in Held
      BY <3>3
    <3>. QED
      BY <3>1, <3>2, <3>3, InputChanges DEF InputSteps
  <2>. QED
    BY <1>1, <2>1, <2>2
<1>6. Unresolved(mail'[m])
  <2>1. CASE mail[m].status = "queued" /\ mail'[m].status = "dispatching"
    BY <2>1 DEF Unresolved
  <2>2. CASE Taking(m) \/ input[m] \in Held
    <3>1. Unresolved(mail[m])
      BY <1>2, <2>2 DEF Live
    <3>2. CASE mail'[m] = mail[m]
      BY <3>1, <3>2
    <3>3. CASE /\ HostSettle /\ Head(wire).of = m /\ Settleable(m, Head(wire).status) /\ inbox[m] # 0
               /\ mail'[m] = SettledBy(m, Head(wire))
      <4>. DEFINE c == wire[1]
      <4>1. /\ 1 \in 1..Len(wire) /\ c = Head(wire) /\ c.call = "settle" /\ c.of = m
            /\ c.status \in Statuses \ {"none"}
        BY <3>3, SettlementServed
      <4>2. Says(m, c) /\ Says(m, mail[m])
        BY <4>1 DEF Evidence
      <4>3. c.status # "rejected" /\ c.acceptance \notin Final /\ mail[m].acceptance \notin Final
        BY <1>4, <4>2 DEF Says
      <4>4. mail'[m].status = c.status /\ mail'[m].acceptance = c.acceptance
        BY <3>3, <4>1, <4>3 DEF SettledBy
      <4>. QED
        BY <4>1, <4>3, <4>4 DEF Unresolved, Statuses
    <3>4. mail[m] # Blank /\ mail[m].status # "queued"
      BY <3>1 DEF Unresolved, Blank
    <3>. QED
      BY <1>1, <3>2, <3>3, <3>4, LetterChanges DEF LetterSteps
  <2>. QED
    BY <1>5, <2>1, <2>2
<1>7. team' # "archived"
  <2>1. CASE team' = "archived" /\ team' # team
    <3>1. ~\E n \in Messages : Unresolved(mail'[n])
      <4>1. SettleArchive(idleSeen) \/ \E idle \in BOOLEAN : SettleArchive(idle)
        <5>1. team' = team \/ MailSteps \/ \E idle \in BOOLEAN : Presence(idle)
          BY DeliverySteps DEF HostClaim, HostSettle, Poll, ReportKnown, ClaimNext, PassOver, Interrupted,
             SettleAnswered, ClaimAnswered, DiskWrites, DiskFails, DispatchEnds, ConnectionLost, RequestTimesOut,
             ControllerCrashes, NativeTells, NativeStarts, NativeQueued, NativeWithdraws, NativeTakes, mailbox
        <5>2. CASE MailSteps
          BY <2>1, <5>2 DEF MailSteps, SendMessage, AcknowledgeMessage, ResolveMessage, ArchiveTeam, RestoreTeam,
             Freeze, Move, Unfreeze, mailbox
        <5>3. CASE \E idle \in BOOLEAN : Presence(idle)
          BY <2>1, <5>3 DEF Presence
        <5>. QED
          BY <2>1, <5>1, <5>2, <5>3
      <4>. QED
        BY <2>1, <4>1 DEF SettleArchive
    <3>. QED
      BY <1>6, <3>1
  <2>2. CASE team' = team
    <3>1. CASE Taking(m) \/ input[m] \in Held
      BY <1>2, <2>2, <3>1 DEF Live
    <3>2. CASE mail[m].status = "queued" /\ mail'[m].status = "dispatching"
      <4>1. HostSettle /\ Head(wire).of = m => ~Settleable(m, Head(wire).status)
        BY <3>2, SettlementServed DEF Claimed
      <4>2. team = "active"
        <5>1. mail[m] \in Letter /\ mail[m] # Blank /\ mail'[m] # mail[m] /\ ~Unresolved(mail[m])
          BY <3>2 DEF Unresolved, Blank, Shape, MailboxTypeOK
        <5>2. mail'[m] # [mail[m] EXCEPT !.status = "canceled"]
          BY <3>2, <5>1 DEF Letter
        <5>3. mail'[m] # [status |-> "accepted", acceptance |-> "handled"]
          BY <3>2
        <5>4. LetterSteps(m)
          BY LetterChanges
        <5>. QED
          BY <4>1, <5>1, <5>2, <5>3, <5>4 DEF LetterSteps
      <4>. QED
        BY <2>2, <4>2
    <3>. QED
      BY <1>5, <3>1, <3>2
  <2>. QED
    BY <2>1, <2>2
<1>. QED
  BY <1>6, <1>7

-----------------------------------------------------------------------------
(* Whatever is written of a message is so.                                 *)

\* What is known of a claimed message whose input is out of the tick's hands.
LEMMA Known ==
    ASSUME Shape, Fates, DeliveryNext, NEW m \in Messages
    PROVE  /\ m \in resolved' => Denied(m)' /\ InputOver(m)'
           /\ (m \in hooked /\ input[m] # "none" /\ hooked' = hooked /\ input'[m] = "ran") => InputOver(m)'
           /\ (m \in hooked /\ input[m] # "none" /\ hooked' = hooked /\ input'[m] = "gone" /\ consumed'[m] = consumed[m])
                 => InputOver(m)' /\ Denied(m)'
<1>1. m \in resolved' => Denied(m)' /\ InputOver(m)'
  BY DEF Denied, InputOver
<1>2. ASSUME m \in hooked, input[m] # "none", hooked' = hooked
      PROVE  Claimed(m)' /\ ~Taking(m)' /\ consumed[m] = 1
  <2>1. Claimed(m) /\ consumed[m] = 1
    BY <1>2 DEF Fates
  <2>. QED
    BY <1>2, <2>1, ClaimedStays DEF Taking
<1>. QED
  BY <1>1, <1>2 DEF Denied, InputOver, Held

\* What the mailbox says of a message is so.
LEMMA LetterSays ==
    ASSUME Shape, Fates, Evidence, DeliveryNext, NEW m \in Messages
    PROVE  Says(m, mail[m])'
<1>1. Says(m, mail[m]) /\ mail[m] \in Letter
  BY DEF Evidence, Shape, MailboxTypeOK
<1>2. Says(m, mail[m])' <=> SaysNext(m, mail'[m])
  BY DEF Says, SaysNext
<1>3. SaysNext(m, mail[m])
  BY <1>1, SaysStays
<1>4. CASE mail'[m] = mail[m]
  BY <1>2, <1>3, <1>4
<1>5. CASE mail'[m] = [Blank EXCEPT !.status = "queued"]
  BY <1>2, <1>5 DEF SaysNext, Blank, Final
<1>6. ASSUME mail[m].status = "queued" PROVE ~Taking(m) /\ input[m] = "none" /\ consumed[m] = 0
  BY <1>6 DEF Fates, Claimed, Shape, ControllerTypeOK
<1>7. CASE /\ mail[m].status = "queued" /\ AcknowledgeMessage(m)
           /\ mail'[m] = [status |-> "accepted", acceptance |-> "handled"]
  <2>1. ~Taking(m)' /\ Claimed(m)' /\ input'[m] = "none"
    BY <1>6, <1>7, TakingBegins DEF AcknowledgeMessage, agent, Claimed
  <2>. QED
    BY <1>2, <1>7, <2>1 DEF SaysNext, InputOver, Held
<1>8. CASE m \in resolved'
  BY <1>2, <1>8, Known DEF SaysNext
<1>9. CASE /\ mail[m].status = "queued" /\ ArchiveTeam /\ mail'[m] = [mail[m] EXCEPT !.status = "canceled"]
  <2>1. mail'[m].status = "canceled" /\ mail'[m].acceptance = mail[m].acceptance
    BY <1>1, <1>9 DEF Letter
  <2>2. ~Taking(m)' /\ Claimed(m)' /\ input'[m] = "none" /\ consumed'[m] = 0
    BY <1>6, <1>9, <2>1, TakingBegins DEF ArchiveTeam, agent, Claimed
  <2>. QED
    BY <1>2, <1>3, <2>1, <2>2 DEF SaysNext, Denied
<1>10. CASE mail'[m] = [mail[m] EXCEPT !.status = "dispatching"]
  <2>1. mail'[m].status = "dispatching" /\ mail'[m].acceptance = mail[m].acceptance
    BY <1>1, <1>10 DEF Letter
  <2>. QED
    BY <1>2, <1>3, <2>1 DEF SaysNext
<1>11. CASE /\ HostSettle /\ Head(wire).of = m /\ Settleable(m, Head(wire).status) /\ inbox[m] # 0
            /\ mail'[m] = SettledBy(m, Head(wire))
  <2>. DEFINE c == wire[1]
  <2>1. /\ 1 \in 1..Len(wire) /\ c = Head(wire) /\ c.call = "settle" /\ c.of = m
        /\ c.status \in Statuses \ {"none"}
    BY <1>11, SettlementServed
  <2>2. Says(m, c)
    BY <2>1 DEF Evidence
  <2>3. SaysNext(m, c)
    BY <2>2, SaysStays
  <2>4. mail'[m].status = c.status /\ mail'[m].acceptance \in {mail[m].acceptance, c.acceptance}
    BY <1>11, <2>1 DEF SettledBy
  <2>. QED
    BY <1>2, <1>3, <2>3, <2>4 DEF SaysNext
<1>12. LetterSteps(m)
  BY LetterChanges
<1>. QED
  BY <1>4, <1>5, <1>7, <1>8, <1>9, <1>10, <1>11, <1>12 DEF LetterSteps

\* A receipt says what became of the message.
LEMMA ReceiptSays ==
    ASSUME Shape, Fates, Evidence, DeliveryNext, NEW m \in Messages
    PROVE  SaysNext(m, receipts'[m])
<1>1. Says(m, receipts[m]) /\ receipts \in [Messages -> Receipt] /\ receipts[m] \in Receipt
  BY DEF Evidence, Shape, ControllerTypeOK
<1>2. SaysNext(m, receipts[m])
  BY <1>1, SaysStays
<1>3. CASE receipts'[m] = receipts[m]
  BY <1>2, <1>3
<1>4. CASE Poll
  <2>1. receipts'[m] \in {mail[m], receipts[m]}
    BY <1>4 DEF Poll
  <2>2. SaysNext(m, mail[m])
    BY SaysStays DEF Evidence
  <2>. QED
    BY <1>2, <2>1, <2>2
<1>5. CASE ClaimAnswered \/ DiskFails
  <2>1. receipts' = receipts \/ \E s \in {"dispatching", "unknown"} : receipts' = [receipts EXCEPT ![Next1.of].status = s]
    BY <1>5 DEF ClaimAnswered, DiskFails
  <2>2. receipts'[m] = receipts[m] \/ \E s \in {"dispatching", "unknown"} : receipts'[m] = [receipts[m] EXCEPT !.status = s]
    BY <1>1, <2>1
  <2>3. receipts'[m] = receipts[m] \/ (receipts'[m].status \notin {"rejected", "canceled"} /\ receipts'[m].acceptance = receipts[m].acceptance)
    BY <1>1, <2>2 DEF Receipt
  <2>. QED
    BY <1>2, <2>3 DEF SaysNext
<1>6. CASE NativeTells
  <2>1. PICK n \in Messages : NativeStarts(n) \/ NativeQueued(n) \/ NativeWithdraws(n)
    BY <1>6 DEF NativeTells
  <2>2. CASE receipts' = receipts
    BY <1>2, <2>2
  <2>3. CASE receipts' # receipts
    <3>1. /\ hooked' = hooked /\ consumed' = consumed
          /\ input' \in {[input EXCEPT ![n] = "ran"], [input EXCEPT ![n] = "waits"], [input EXCEPT ![n] = "gone"]}
      BY <2>1 DEF NativeStarts, NativeQueued, NativeWithdraws, account
    <3>2. n \in hooked /\ input[n] # "none"
      BY <2>1, <2>3 DEF NativeStarts, NativeQueued, NativeWithdraws, Callback, Held
    <3>3. CASE n # m
      <4>1. \E r : receipts' = [receipts EXCEPT ![n] = r]
        BY <2>1, <2>3 DEF NativeStarts, NativeQueued, NativeWithdraws, Callback
      <4>. QED
        BY <1>1, <1>2, <3>3, <4>1
    <3>4. CASE n = m /\ NativeStarts(m)
      <4>1. receipts'[m] = Accepted(receipts[m], "started") /\ input'[m] = "ran"
        BY <1>1, <2>3, <3>4 DEF NativeStarts, Callback, Shape, ControllerTypeOK
      <4>2. InputOver(m)'
        BY <3>1, <3>2, <3>4, <4>1, Known
      <4>. QED
        BY <4>1, <4>2 DEF SaysNext, Accepted
    <3>5. CASE n = m /\ NativeQueued(m)
      <4>1. receipts'[m] = Accepted(receipts[m], "queued")
        BY <1>1, <2>3, <3>5 DEF NativeQueued, Callback
      <4>. QED
        BY <1>2, <4>1 DEF SaysNext, Accepted, Final
    <3>6. CASE n = m /\ NativeWithdraws(m)
      <4>1. receipts'[m] = [status |-> "rejected", acceptance |-> "none"] /\ input'[m] = "gone"
        BY <1>1, <2>3, <3>6 DEF NativeWithdraws, Callback, Shape, ControllerTypeOK
      <4>2. Denied(m)'
        BY <3>1, <3>2, <3>6, <4>1, Known
      <4>. QED
        BY <4>1, <4>2 DEF SaysNext, Final
    <3>. QED
      BY <2>1, <3>3, <3>4, <3>5, <3>6
  <2>. QED
    BY <2>2, <2>3
<1>7. CASE \E e \in {"queued", "started", "void", "refused", "unknown"} : DispatchEnds(e)
  <2>1. PICK e \in {"queued", "started", "void", "refused", "unknown"} : DispatchEnds(e)
    BY <1>7
  <2>2. /\ receipts' = [receipts EXCEPT ![Next1.of] = Ended(receipts[Next1.of], e)] /\ stage = "executing"
        /\ e \in Ends(Next1.of) /\ UNCHANGED <<input, hooked, consumed, mail, resolved>>
        /\ stage' \in {"off", "finishing"}
    BY <2>1 DEF DispatchEnds, EndTick, agent, account, mailbox
  <2>3. CASE Next1.of # m
    BY <1>1, <1>2, <2>2, <2>3
  <2>4. CASE Next1.of = m
    <3>1. receipts'[m] = Ended(receipts[m], e)
      BY <1>1, <2>2, <2>4
    <3>2. todo # {} /\ ~Taking(m)'
      BY <2>2 DEF Taking, Shape, ControllerTypeOK
    <3>3. CASE e = "queued"
      BY <1>2, <3>1, <3>3 DEF SaysNext, Ended, Accepted, Final
    <3>4. CASE e = "started"
      <4>1. input[m] = "ran" /\ Claimed(m)
        BY <2>2, <2>4, <3>4 DEF Ends, Fates
      <4>2. InputOver(m)'
        BY <2>2, <3>2, <4>1, ClaimedStays DEF InputOver, Held
      <4>. QED
        BY <3>1, <3>4, <4>2 DEF SaysNext, Ended, Accepted
    <3>5. CASE e = "void"
      <4>1. receipts'[m].status \in {receipts[m].status, "accepted"} /\ receipts'[m].acceptance = receipts[m].acceptance
        BY <1>1, <3>1, <3>5 DEF Ended, Receipt
      <4>. QED
        BY <1>2, <4>1 DEF SaysNext
    <3>6. CASE e = "refused"
      <4>1. m \notin hooked /\ Taking(m)
        BY <2>2, <2>4, <3>2, <3>6 DEF Ends, Taking
      <4>2. Claimed(m)' /\ input[m] = "none" /\ consumed[m] = 0
        BY <4>1, ClaimedStays DEF Fates, Shape, ControllerTypeOK
      <4>3. Denied(m)' /\ InputOver(m)'
        BY <2>2, <3>2, <4>2 DEF Denied, InputOver, Held
      <4>. QED
        BY <4>3 DEF SaysNext
    <3>7. CASE e = "unknown"
      <4>1. receipts'[m] = receipts[m] \/ (receipts'[m].status = "unknown" /\ receipts'[m].acceptance = receipts[m].acceptance)
        BY <1>1, <3>1, <3>7 DEF Ended, Receipt
      <4>. QED
        BY <1>2, <4>1 DEF SaysNext
    <3>. QED
      BY <3>3, <3>4, <3>5, <3>6, <3>7
  <2>. QED
    BY <2>3, <2>4
<1>8. CASE ControllerCrashes
  <2>1. receipts'[m] = IF disk[m].status = "dispatching" THEN [disk[m] EXCEPT !.status = "unknown"] ELSE disk[m]
    BY <1>8 DEF ControllerCrashes, Restored
  <2>2. disk[m] \in Receipt /\ SaysNext(m, disk[m])
    BY SaysStays DEF Evidence, Shape, ControllerTypeOK
  <2>3. receipts'[m] = disk[m] \/ (receipts'[m].status = "unknown" /\ receipts'[m].acceptance = disk[m].acceptance)
    BY <2>1, <2>2 DEF Receipt
  <2>. QED
    BY <2>2, <2>3 DEF SaysNext
<1>9. receipts' = receipts \/ ControllerCrashes \/ Poll \/ ClaimAnswered \/ DiskFails \/ NativeTells
      \/ \E e \in {"queued", "started", "void", "refused", "unknown"} : DispatchEnds(e)
  BY DeliverySteps DEF MailSteps, SendMessage, AcknowledgeMessage, ResolveMessage, ArchiveTeam, RestoreTeam,
     Freeze, Move, Unfreeze, HostClaim, HostSettle, ReportKnown, ClaimNext, PassOver, Interrupted, Presence,
     SettleAnswered, DiskWrites, ConnectionLost, RequestTimesOut, NativeTakes
<1>. QED
  BY <1>3, <1>4, <1>5, <1>6, <1>7, <1>8, <1>9

\* A save takes what the receipts say, and keeps it until it is written.
LEMMA WriteSays ==
    ASSUME Shape, Fates, Evidence, DeliveryNext, NEW i \in 1..Len(writes')
    PROVE  writes'[i].notes = receipts' \/ \E j \in 1..Len(writes) : writes'[i] = writes[j]
<1>1. writes \in Seq(Write)
  BY DEF Shape, WritesOK, WritesFit
<1>2. CASE writes' = writes
  BY <1>2
<1>3. CASE writes' = <<>>
  BY <1>3
<1>4. CASE DiskWrites
  <2>1. writes # <<>> /\ writes' = Tail(writes)
    BY <1>4 DEF DiskWrites
  <2>. QED
    BY <2>1, WriteDone DEF Shape, WritesOK
<1>5. CASE \E f, m : Save(receipts', f, m)
  <2>1. PICK f, m : Save(receipts', f, m)
    BY <1>5
  <2>2. writes' = writes \/ writes' = Append(writes, [notes |-> receipts', follow |-> f, of |-> m])
    BY <2>1 DEF Save
  <2>. QED
    BY <1>1, <2>2
<1>6. CASE \E e \in {"queued", "started", "void", "refused", "unknown"} : DispatchEnds(e)
  <2>1. PICK e \in {"queued", "started", "void", "refused", "unknown"} : DispatchEnds(e)
    BY <1>6
  <2>. DEFINE last == [notes |-> receipts', follow |-> "final", of |-> Next1.of]
  <2>. DEFINE note == [notes |-> receipts', follow |-> "note", of |-> Next1.of]
  <2>2. \/ writes' = writes \/ writes' = writes \o (<<note>> \o <<last>>) \/ writes' = writes \o <<last>>
    BY <2>1 DEF DispatchEnds
  <2>3. last.notes = receipts' /\ note.notes = receipts'
    OBVIOUS
  <2>. HIDE DEF last, note
  <2>4. CASE writes' = writes \o <<last>>
    BY <1>1, <2>3, <2>4
  <2>5. CASE writes' = writes \o (<<note>> \o <<last>>)
    BY <1>1, <2>3, <2>5
  <2>. QED
    BY <1>2, <2>2, <2>4, <2>5
<1>7. \/ writes' = writes \/ writes' = <<>> \/ DiskWrites \/ (\E f, m : Save(receipts', f, m))
      \/ \E e \in {"queued", "started", "void", "refused", "unknown"} : DispatchEnds(e)
  <2>1. Poll => writes' = writes \/ \E f, m : Save(receipts', f, m)
    BY DEF Poll
  <2>2. ClaimAnswered => writes' = writes \/ \E f, m : Save(receipts', f, m)
    BY DEF ClaimAnswered, Shape, TickOK
  <2>3. NativeTells => writes' = writes \/ \E f, m : Save(receipts', f, m)
    BY DEF NativeTells, NativeStarts, NativeQueued, NativeWithdraws, Callback
  <2>4. DiskFails \/ ControllerCrashes => writes' = <<>>
    BY DEF DiskFails, ControllerCrashes
  <2>. QED
    BY <2>1, <2>2, <2>3, <2>4, DeliverySteps DEF MailSteps, SendMessage, AcknowledgeMessage, ResolveMessage,
       ArchiveTeam, RestoreTeam, Freeze, Move, Unfreeze, HostClaim, HostSettle, ReportKnown, ClaimNext, PassOver,
       Interrupted, Presence, SettleAnswered, ConnectionLost, RequestTimesOut, NativeTakes, saved
<1>. QED
  BY <1>2, <1>3, <1>4, <1>5, <1>6, <1>7

\* A settlement tells what a receipt says, or nothing.
LEMMA WireSays ==
    ASSUME Shape, Fates, Evidence, DeliveryNext,
           NEW m \in Messages, NEW i \in 1..Len(wire'), wire'[i].call = "settle", wire'[i].of = m
    PROVE  SaysNext(m, wire'[i])
<1>. DEFINE Same(c, d) == c.call = d.call /\ c.of = d.of /\ c.status = d.status /\ c.acceptance = d.acceptance
<1>. DEFINE Fresh(c) == \/ c.status = "unknown" /\ c.acceptance = "none"
                       \/ /\ c.of \in Messages
                          /\ c.status = receipts[c.of].status /\ c.acceptance = receipts[c.of].acceptance
<1>1. wire \in Seq(Request) /\ Len(wire) \in Nat
  BY DEF Shape, WireOK
<1>2. CASE \E j \in 1..Len(wire) : Same(wire'[i], wire[j])
  <2>1. PICK j \in 1..Len(wire) : Same(wire'[i], wire[j])
    BY <1>2
  <2>2. Says(m, wire[j])
    BY <2>1 DEF Evidence
  <2>3. SaysNext(m, wire[j])
    BY <2>2, SaysStays
  <2>. QED
    BY <2>1, <2>3 DEF SaysNext
<1>3. CASE Fresh(wire'[i])
  <2>1. CASE wire'[i].status = "unknown" /\ wire'[i].acceptance = "none"
    BY <2>1 DEF SaysNext, Final
  <2>2. CASE wire'[i].status = receipts[m].status /\ wire'[i].acceptance = receipts[m].acceptance
    <3>1. SaysNext(m, receipts[m])
      BY SaysStays DEF Evidence
    <3>. QED
      BY <2>2, <3>1 DEF SaysNext
  <2>. QED
    BY <1>3, <2>1, <2>2
<1>4. CASE wire' \in {wire, <<>>}
  BY <1>2, <1>4
<1>5. CASE HostClaim \/ HostSettle
  <2>1. wire # <<>> /\ wire' = Tail(wire)
    BY <1>5 DEF HostClaim, HostSettle, Answer
  <2>2. i + 1 \in 1..Len(wire) /\ wire'[i] = wire[i + 1]
    BY <1>1, <2>1
  <2>. QED
    BY <1>2, <2>2
<1>6. CASE RequestTimesOut
  <2>1. wire' = [k \in DOMAIN wire |-> [wire[k] EXCEPT !.awaited = FALSE]] /\ DOMAIN wire = 1..Len(wire)
    BY <1>1, <1>6 DEF RequestTimesOut
  <2>2. Len(wire') = Len(wire)
    <3>1. \A k \in 1..Len(wire) : wire[k] \in Request /\ wire'[k] = [wire[k] EXCEPT !.awaited = FALSE]
      BY <1>1, <2>1
    <3>2. \A k \in 1..Len(wire) : wire'[k] \in Request
      BY <3>1 DEF Request
    <3>. QED
      BY <1>1, <2>1, <3>2
  <2>3. i \in 1..Len(wire) /\ wire'[i] = [wire[i] EXCEPT !.awaited = FALSE] /\ wire[i] \in Request
    BY <1>1, <2>1, <2>2
  <2>4. Same(wire'[i], wire[i])
    BY <2>3 DEF Request
  <2>. QED
    BY <1>2, <2>3, <2>4
<1>7. ASSUME NEW c, wire' = Append(wire, c), c.call = "settle" => Fresh(c)
      PROVE  Fresh(wire'[i]) \/ \E j \in 1..Len(wire) : Same(wire'[i], wire[j])
  <2>1. wire'[i] = c \/ (i \in 1..Len(wire) /\ wire'[i] = wire[i])
    BY <1>1, <1>7
  <2>. QED
    BY <1>7, <2>1
<1>8. CASE ReportKnown
  <2>. DEFINE n == Next1.of
  <2>1. n \in Messages
    BY <1>8, NextIsPolled DEF ReportKnown, Looping, Shape, TickOK
  <2>2. PICK r \in {receipts[n], [Blank EXCEPT !.status = "unknown"]} : wire' = Append(wire, SettleCall(n, r, TRUE))
    BY <1>8 DEF ReportKnown
  <2>3. Fresh(SettleCall(n, r, TRUE))
    BY <2>1, <2>2 DEF SettleCall, Blank
  <2>. QED
    BY <1>2, <1>3, <1>7, <2>2, <2>3
<1>9. CASE ClaimNext
  <2>1. wire' = Append(wire, ClaimCall(Next1.of)) /\ ClaimCall(Next1.of).call = "claim"
    BY <1>9 DEF ClaimNext, ClaimCall
  <2>. QED
    BY <1>2, <1>3, <1>7, <2>1
<1>10. CASE DiskWrites
  <2>. DEFINE w == Head(writes)
  <2>1. \/ wire' = wire
        \/ /\ writes # <<>> /\ w.follow \in {"note", "final"}
           /\ wire' = Append(wire, SettleCall(w.of, receipts[w.of], w.follow = "final"))
    BY <1>10 DEF DiskWrites
  <2>2. writes # <<>> /\ w.follow \in {"note", "final"} => w.of \in Messages
    BY WriteDone DEF Shape, WritesOK, WritesFit
  <2>3. w.of \in Messages => Fresh(SettleCall(w.of, receipts[w.of], w.follow = "final"))
    BY DEF SettleCall
  <2>. QED
    BY <1>2, <1>3, <1>4, <1>7, <2>1, <2>2, <2>3
<1>11. wire' \in {wire, <<>>} \/ HostClaim \/ HostSettle \/ RequestTimesOut \/ ReportKnown \/ ClaimNext \/ DiskWrites
  BY DeliverySteps DEF MailSteps, SendMessage, AcknowledgeMessage, ResolveMessage, ArchiveTeam, RestoreTeam,
     Freeze, Move, Unfreeze, Poll, PassOver, Interrupted, Presence, SettleAnswered, ClaimAnswered, DiskFails,
     NativeTells, NativeStarts, NativeQueued, NativeWithdraws, NativeTakes, DispatchEnds, ConnectionLost,
     ControllerCrashes, uplink
<1>. QED
  BY <1>4, <1>5, <1>6, <1>8, <1>9, <1>10, <1>11

\* No step writes what is not so, wherever it writes.
LEMMA EvidenceStep ==
    ASSUME Shape, Fates, Evidence, DeliveryNext
    PROVE  Evidence'
<1>1. ASSUME NEW m \in Messages PROVE Says(m, mail[m])'
  BY LetterSays
<1>2. ASSUME NEW m \in Messages PROVE SaysNext(m, receipts'[m])
  BY ReceiptSays
<1>3. ASSUME NEW m \in Messages, NEW i \in 1..Len(writes) PROVE SaysNext(m, writes[i].notes[m])
  BY SaysStays DEF Evidence
<1>4. ASSUME NEW m \in Messages, NEW i \in 1..Len(writes') PROVE SaysNext(m, writes'[i].notes[m])
  BY <1>2, <1>3, WriteSays
<1>5. ASSUME NEW m \in Messages PROVE SaysNext(m, disk'[m])
  <2>1. disk' = disk \/ (writes # <<>> /\ disk' = Head(writes).notes)
    BY DeliverySteps DEF MailSteps, SendMessage, AcknowledgeMessage, ResolveMessage, ArchiveTeam, RestoreTeam,
       Freeze, Move, Unfreeze, HostClaim, HostSettle, Poll, ReportKnown, ClaimNext, PassOver, Interrupted, Presence,
       SettleAnswered, ClaimAnswered, DiskWrites, DiskFails, NativeTells, NativeStarts, NativeQueued,
       NativeWithdraws, NativeTakes, DispatchEnds, ConnectionLost, RequestTimesOut, ControllerCrashes, saved
  <2>2. SaysNext(m, disk[m])
    BY SaysStays DEF Evidence
  <2>3. writes # <<>> => Head(writes) = writes[1] /\ 1 \in 1..Len(writes)
    BY WriteDone DEF Shape, WritesOK
  <2>. QED
    BY <1>3, <2>1, <2>2, <2>3
<1>6. ASSUME NEW m \in Messages, NEW i \in 1..Len(wire'), wire'[i].call = "settle", wire'[i].of = m
      PROVE  SaysNext(m, wire'[i])
  BY <1>6, WireSays
<1>7. ASSUME NEW m \in Messages
      PROVE  /\ Says(m, receipts[m])' /\ Says(m, disk[m])'
             /\ (\A i \in 1..Len(writes) : Says(m, writes[i].notes[m]))'
             /\ (\A i \in 1..Len(wire) : wire[i].call = "settle" /\ wire[i].of = m => Says(m, wire[i]))'
  BY <1>2, <1>4, <1>5, <1>6 DEF Says, SaysNext
<1>. QED
  BY <1>1, <1>7 DEF Evidence

-----------------------------------------------------------------------------
(* The theorems.                                                           *)

\* Nothing was sent, so nothing is claimed.
LEMMA DeliveryInitial == DeliveryInit => DeliveryIInv
<1>. SUFFICES ASSUME DeliveryInit PROVE DeliveryIInv
  OBVIOUS
<1>. USE DEF DeliveryInit
<1>1. MailboxTypeOK
  <2>1. Blank \in Letter /\ ~Pending(Blank)
    BY DEF Blank, Letter, Statuses, Acceptances, Pending, Unresolved
  <2>2. mail \in [Messages -> Letter] /\ \A m \in Messages : ~Pending(mail[m])
    BY <2>1
  <2>3. inbox \in [Messages -> 0..sends] /\ \A m \in Messages : inbox[m] = 0
    OBVIOUS
  <2>4. ASSUME NEW m \in Messages PROVE inbox[m] > 0 <=> Pending(mail[m])
    <3>1. inbox[m] = 0 /\ mail[m] = Blank
      OBVIOUS
    <3>2. ~(inbox[m] > 0)
      BY <3>1
    <3>3. mail[m].status = "none"
      BY <3>1 DEF Blank
    <3>. QED
      BY <3>2, <3>3 DEF Pending, Unresolved
  <2>5. \A m, n \in Messages : inbox[m] > 0 /\ inbox[m] = inbox[n] => m = n
    BY <2>3
  <2>6. team \in {"active", "archiving", "archived"} /\ idleSeen \in BOOLEAN /\ sends \in Nat
    OBVIOUS
  <2>. QED
    BY <2>2, <2>3, <2>4, <2>5, <2>6 DEF MailboxTypeOK
<1>2. ControllerTypeOK
  BY DEF ControllerTypeOK, Blank, Receipt, Statuses, Acceptances, Stages
<1>3. WireOK /\ WritesOK /\ TickOK
  BY DEF WireOK, WritesOK, WritesFit, TickOK
<1>4. Fates /\ Live
  BY DEF Fates, Live, Taking, Held
<1>5. Evidence
  <2>1. \A m \in Messages : Says(m, Blank)
    BY DEF Says, Blank, Final
  <2>2. Len(writes) = 0 /\ Len(wire) = 0
    OBVIOUS
  <2>3. \A m \in Messages : mail[m] = Blank /\ receipts[m] = Blank /\ disk[m] = Blank
    OBVIOUS
  <2>4. ASSUME NEW m \in Messages PROVE Says(m, mail[m]) /\ Says(m, receipts[m]) /\ Says(m, disk[m])
    BY <2>1, <2>3
  <2>5. 1..Len(writes) = {} /\ 1..Len(wire) = {}
    BY <2>2
  <2>. QED
    BY <2>4, <2>5 DEF Evidence
<1>. QED
  BY <1>1, <1>2, <1>3, <1>4, <1>5 DEF DeliveryIInv, Shape

\* The parts of the invariant are kept together.
LEMMA DeliveryStep == DeliveryIInv /\ DeliveryNext => DeliveryIInv'
BY ShapeStep, FatesStep, EvidenceStep, LiveStep DEF DeliveryIInv

\* A step of others keeps the invariant.
LEMMA DeliveryStutter == DeliveryIInv /\ UNCHANGED deliveryVars => DeliveryIInv'
<1>. SUFFICES ASSUME DeliveryIInv, UNCHANGED deliveryVars PROVE DeliveryIInv'
  OBVIOUS
<1>1. UNCHANGED <<team, inbox, sends, mail, idleSeen, addressee, frozen, holder, wire, reply, receipts, disk,
                  writes, broken, stage, todo, polled, input, hooked, consumed, resolved>>
  BY DEF deliveryVars, mailbox, role, uplink, saved, tick, agent, account
<1>2. Next1' = Next1
  BY <1>1 DEF Next1
<1>3. Shape'
  BY <1>1, <1>2 DEF DeliveryIInv, Shape, MailboxTypeOK, ControllerTypeOK, WireOK, WritesOK, TickOK
<1>4. \A m \in Messages : (Taking(m)' <=> Taking(m)) /\ (Claimed(m)' <=> Claimed(m))
  BY <1>1, <1>2 DEF Taking, Claimed
<1>5. Fates' /\ Live'
  BY <1>1, <1>4 DEF DeliveryIInv, Fates, Live
<1>6. \A m \in Messages : (Denied(m)' <=> Denied(m)) /\ (InputOver(m)' <=> InputOver(m))
  BY <1>1, <1>4 DEF Denied, InputOver
<1>7. Evidence'
  BY <1>1, <1>6 DEF DeliveryIInv, Evidence, Says
<1>. QED
  BY <1>3, <1>5, <1>7 DEF DeliveryIInv

\* The invariant the three results rest on.
THEOREM DeliveryInvariant == DeliverySpec => []DeliveryIInv
<1>1. DeliveryIInv /\ [DeliveryNext]_deliveryVars => DeliveryIInv'
  BY DeliveryStep, DeliveryStutter
<1>. QED
  BY <1>1, DeliveryInitial, PTL DEF DeliverySpec

\* Whatever is lost, repeated, timed out, crashed, archived, resolved or moved, a
\* message reaches its recipient at most once, a denial is true, and input the
\* session holds is unresolved at the Relay.
THEOREM DeliveryAgrees == DeliverySpec => []DeliveryInv
<1>1. DeliveryIInv => DeliveryInv
  <2>. SUFFICES ASSUME DeliveryIInv PROVE DeliveryInv
    OBVIOUS
  <2>1. DeliveryTypeOK
    BY DEF DeliveryIInv, Shape, DeliveryTypeOK
  <2>2. ConsumedOnce
    <3>1. ASSUME NEW m \in Messages PROVE consumed[m] <= 1
      <4>1. consumed[m] \in 0..1
        BY DEF DeliveryIInv, Fates
      <4>. QED
        BY <4>1
    <3>. QED
      BY <3>1 DEF ConsumedOnce
  <2>3. DenialsAreTrue
    BY DEF DeliveryIInv, Evidence, Says, Denied, DenialsAreTrue
  <2>4. HeldIsUnresolved
    BY DEF DeliveryIInv, Live, HeldIsUnresolved
  <2>. QED
    BY <2>1, <2>2, <2>3, <2>4 DEF DeliveryInv
<1>. QED
  BY <1>1, DeliveryInvariant, PTL

\* Late, repeated and reordered settlements change no verdict of the Relay.
THEOREM VerdictsHold == DeliverySpec => VerdictsStand
<1>1. DeliveryIInv /\ [DeliveryNext]_deliveryVars
        => [\A m \in Messages : mail[m] # Blank /\ ~Pending(mail[m]) => mail'[m] = mail[m]]_deliveryVars
  <2>. SUFFICES ASSUME DeliveryIInv, DeliveryNext, NEW m \in Messages, mail[m] # Blank, ~Pending(mail[m])
                PROVE  mail'[m] = mail[m]
    OBVIOUS
  <2>1. inbox[m] = 0 /\ mail[m].status # "queued" /\ ~Unresolved(mail[m])
    BY DEF DeliveryIInv, Shape, MailboxTypeOK, Pending
  <2>2. LetterSteps(m)
    BY LetterChanges DEF DeliveryIInv
  <2>. QED
    BY <2>1, <2>2 DEF LetterSteps
<1>. QED
  BY <1>1, DeliveryInvariant, PTL DEF DeliverySpec, VerdictsStand

\* A handoff commits over no input that the session holds and the user left open.
THEOREM MovesAreSettled == DeliverySpec => MoveFindsSettled
<1>1. DeliveryIInv /\ [DeliveryNext]_deliveryVars
        => [holder' # holder => \A m \in Messages \ resolved : input[m] \notin Held]_deliveryVars
  <2>. SUFFICES ASSUME DeliveryIInv, DeliveryNext, holder' # holder, NEW m \in Messages \ resolved
                PROVE  input[m] \notin Held
    OBVIOUS
  <2>1. Move \/ holder' = holder
    BY DeliverySteps DEF MailSteps, SendMessage, AcknowledgeMessage, ResolveMessage, ArchiveTeam, RestoreTeam,
       Freeze, Unfreeze, HostClaim, HostSettle, Poll, ReportKnown, ClaimNext, PassOver, Interrupted, Presence,
       SettleAnswered, ClaimAnswered, DiskWrites, DiskFails, NativeTells, NativeStarts, NativeQueued,
       NativeWithdraws, NativeTakes, DispatchEnds, ConnectionLost, RequestTimesOut, ControllerCrashes, role
  <2>2. ~Unresolved(mail[m])
    BY <2>1 DEF Move, RelayUnsettled
  <2>. QED
    BY <2>2 DEF DeliveryIInv, Live
<1>. QED
  BY <1>1, DeliveryInvariant, PTL DEF DeliverySpec, MoveFindsSettled
=============================================================================
