---------------------------- MODULE NativeOwnership ----------------------------
(***************************************************************************)
(* Which process writes to one native session:                             *)
(* packages/agent-host/src/native-session-owner.ts, with the way           *)
(* stdio-directory.ts and stdio-command.ts use a lease.                    *)
(*                                                                         *)
(* Every call of acquireNativeSession is an attempt with a generation and  *)
(* a loopback endpoint of its own.  Attempts share one directory: the      *)
(* owner's record, the reservations of the attempts that ask the owner to  *)
(* leave, and the gate, a lock that nobody waits for.  Processes stop at   *)
(* any time; a native session ends with the process that runs it.          *)
(***************************************************************************)
EXTENDS Naturals, FiniteSets

CONSTANTS
    Attempts,      \* the calls of acquireNativeSession: their generations
    Processes,
    ProcessOf,     \* the process of each attempt
    NoOne          \* no attempt

ASSUME OwnershipAssumption ==
    /\ ProcessOf \in [Attempts -> Processes]
    /\ NoOne \notin Attempts

VARIABLES
    record,        \* the record at path: the generation that owns the session
    reserved,      \* the reservation files
    gate,          \* path.gate: the attempt that holds it
    dead,          \* the processes that stopped
    phase,         \* how far each attempt is, as acquirer and then as owner
    takeOver,      \* the owner that each attempt was told to take over from
    requests,      \* attempts whose request is on its way to that owner
    answer,        \* what the owner answered: "none", "ok" or "refused"
    transfer,      \* the owner's transfer, and whether its process still owns
    successor,     \* the attempt that the transfer is for
    runtime        \* the native session that each lease runs

files == <<record, reserved>>
ownershipVars ==
    <<record, reserved, gate, dead, phase, takeOver, requests, answer, transfer, successor, runtime>>
owner == <<transfer, successor, runtime>>

Acquiring == {"claim", "claiming", "reserve", "reserving", "asked", "withdraw", "withdrawing"}
Leased == {"leased", "active", "fenced", "releasing", "unlinking", "stuck"}
Over == {"withdrawn", "stranded", "released", "dead"}
Transferring == {"stopping", "commit", "committing"}

OwnershipInit ==
    /\ record = NoOne /\ reserved = {} /\ gate = NoOne
    /\ dead = {}
    /\ phase = [g \in Attempts |-> "new"]
    /\ takeOver = [g \in Attempts |-> NoOne]
    /\ requests = {}
    /\ answer = [g \in Attempts |-> "none"]
    /\ transfer = [g \in Attempts |-> "none"]
    /\ successor = [g \in Attempts |-> NoOne]
    /\ runtime = [g \in Attempts |-> "unstarted"]

\* alive: asked of the process, not of the attempt.
Alive(g) == ProcessOf[g] \notin dead

\* owned: what the owner's process believes.
Owns(g) == phase[g] \in Leased /\ transfer[g] \notin {"done", "lost"}

Become(g, p) == phase' = [phase EXCEPT ![g] = p]

-----------------------------------------------------------------------------
(* The gate.  What happens inside it is synchronous: an attempt of the same *)
(* process cannot meet it.                                                 *)

Enter(g) == gate = NoOne /\ gate' = g
Leave(g) == gate = g /\ Alive(g) /\ gate' = NoOne
Busy(g) == gate # NoOne /\ ProcessOf[gate] # ProcessOf[g]

Gated(g, from, to) ==
    /\ phase[g] = from /\ Enter(g)
    /\ Become(g, to)
    /\ UNCHANGED <<files, dead, takeOver, requests, answer, owner>>

GateBusy(g, from, to) ==
    /\ phase[g] = from /\ Busy(g)
    /\ Become(g, to)
    /\ UNCHANGED <<files, gate, dead, takeOver, requests, answer, owner>>

-----------------------------------------------------------------------------
(* Acquiring.                                                              *)

\* Mutant: a record whose owner did not answer is replaced like that of a
\* process that stopped.
FreeUnlessActive == record \notin {g \in Attempts : Alive(g) /\ phase[g] = "active"}

\* Nobody owns the session, or the owner's process stopped.
FreeToClaim == record \notin {g \in Attempts : Alive(g)}

\* The caller may have been told to take over from an owner it saw
\* (inspectNativeOwner), which can change before the attempt is made.
Begin(g) ==
    /\ phase[g] = "new" /\ Alive(g)
    /\ Become(g, "claim")
    /\ \E from \in {NoOne} \cup (IF FreeToClaim THEN {} ELSE {record}) :
          takeOver' = [takeOver EXCEPT ![g] = from]
    /\ UNCHANGED <<files, gate, dead, requests, answer, owner>>

\* The first locked section: takes a free session, keeps a living owner's.
Claim(g) ==
    /\ phase[g] = "claiming" /\ Leave(g)
    /\ \/ /\ FreeToClaim /\ (record = NoOne \/ takeOver[g] \in {NoOne, record})
          /\ record' = g
          /\ Become(g, "leased")
       \/ /\ FreeToClaim /\ record # NoOne /\ takeOver[g] \notin {NoOne, record}
          /\ UNCHANGED record
          /\ Become(g, "withdraw")
       \/ /\ ~FreeToClaim
          /\ UNCHANGED record
          /\ Become(g, IF takeOver[g] = record THEN "reserve" ELSE "withdraw")
    /\ UNCHANGED <<reserved, dead, takeOver, requests, answer, owner>>

\* The second locked section; the request follows.
Reserve(g) ==
    /\ phase[g] = "reserving" /\ Leave(g)
    /\ IF record = takeOver[g]
       THEN /\ reserved' = reserved \cup {g}
            /\ requests' = requests \cup {g}
            /\ Become(g, "asked")
       ELSE /\ UNCHANGED <<reserved, requests>>
            /\ Become(g, "withdraw")
    /\ UNCHANGED <<record, dead, takeOver, answer, owner>>

\* Mutant: the request has no deadline of its own.
AskFailsWhenTold(g) ==
    /\ phase[g] = "asked" /\ answer[g] = "refused"
    /\ Become(g, "withdraw")
    /\ UNCHANGED <<files, gate, dead, takeOver, requests, answer, owner>>

\* The owner refused, cannot be reached, or did not answer in 12 s; what it does
\* later it does without its requester.
AskFails(g) ==
    /\ phase[g] = "asked"
    /\ Become(g, "withdraw")
    /\ UNCHANGED <<files, gate, dead, takeOver, requests, answer, owner>>

\* The owner confirmed and the record says so.
AskSucceeds(g) ==
    /\ phase[g] = "asked" /\ answer[g] = "ok"
    /\ Become(g, IF record = g THEN "leased" ELSE "withdraw")
    /\ UNCHANGED <<files, gate, dead, takeOver, requests, answer, owner>>

\* The locked section of the error path; when the gate is busy its files stay.
Withdraw(g) ==
    /\ phase[g] = "withdrawing" /\ Leave(g)
    /\ reserved' = reserved \ {g}
    /\ record' = IF record = g THEN NoOne ELSE record
    /\ Become(g, "withdrawn")
    /\ UNCHANGED <<dead, takeOver, requests, answer, owner>>

-----------------------------------------------------------------------------
(* Owning.                                                                 *)

\* The lease's holder starts its native session, which then ends by itself or
\* is ended by its holder.
StartNative(g) ==
    /\ phase[g] = "leased" /\ runtime[g] = "unstarted"
    /\ runtime' = [runtime EXCEPT ![g] = "running"]
    /\ UNCHANGED <<files, gate, dead, phase, takeOver, requests, answer, transfer, successor>>

NativeEnds(g) ==
    /\ runtime[g] = "running"
    /\ runtime' = [runtime EXCEPT ![g] = "over"]
    /\ UNCHANGED <<files, gate, dead, phase, takeOver, requests, answer, transfer, successor>>

\* activate: from now on the session can be taken over.
Activate(g) ==
    /\ phase[g] = "leased" /\ runtime[g] # "unstarted"
    /\ Become(g, "active")
    /\ UNCHANGED <<files, gate, dead, takeOver, requests, answer, owner>>

\* POST /takeover: an active lease serves one successor; it is fenced and its
\* native session is stopped.  Any other request, and any that the admission
\* does not grant, is refused; a closed endpoint cannot be reached.
TakeoverRequest(h) ==
    LET g == takeOver[h]
    IN  /\ h \in requests
        /\ requests' = requests \ {h}
        /\ \/ /\ phase[g] = "active"
              /\ Become(g, "fenced")
              /\ successor' = [successor EXCEPT ![g] = h]
              /\ transfer' = [transfer EXCEPT ![g] = "stopping"]
              /\ UNCHANGED answer
           \/ /\ answer' = [answer EXCEPT ![h] = "refused"]
              /\ UNCHANGED <<phase, successor, transfer>>
        /\ UNCHANGED <<files, gate, dead, takeOver, runtime>>

\* stop() resolved: the native session is confirmed to be over.
Stopped(g) ==
    /\ transfer[g] = "stopping" /\ Alive(g)
    /\ runtime' = [runtime EXCEPT ![g] = "over"]
    /\ transfer' = [transfer EXCEPT ![g] = "commit"]
    /\ UNCHANGED <<files, gate, dead, phase, takeOver, requests, answer, successor>>

Fails(g, how) ==
    /\ transfer' = [transfer EXCEPT ![g] = how]
    /\ answer' = [answer EXCEPT ![successor[g]] = "refused"]

\* stop() rejected, whatever became of the native session: the lease stays.
StopFails(g) ==
    /\ transfer[g] = "stopping" /\ Alive(g)
    /\ Fails(g, "failed")
    /\ UNCHANGED <<files, gate, dead, phase, takeOver, requests, successor, runtime>>

EnterCommit(g) ==
    /\ transfer[g] = "commit" /\ Alive(g)
    /\ Enter(g)
    /\ transfer' = [transfer EXCEPT ![g] = "committing"]
    /\ UNCHANGED <<files, dead, phase, takeOver, requests, answer, successor, runtime>>

CommitBusy(g) ==
    /\ transfer[g] = "commit" /\ Alive(g)
    /\ Busy(g)
    /\ Fails(g, "failed")
    /\ UNCHANGED <<files, gate, dead, phase, takeOver, requests, successor, runtime>>

\* Mutant: the requester's process is all that has to be there.
CandidateAlive(h) == Alive(h)

\* The reservation is there and its process runs.
Candidate(h) == h \in reserved /\ Alive(h)

\* The locked section that hands the record to the successor, or drops it when
\* the successor left.
Commit(g) ==
    LET h == successor[g]
    IN  /\ transfer[g] = "committing" /\ Leave(g)
        /\ \/ /\ record # g
              /\ Fails(g, "failed")
              /\ UNCHANGED files
           \/ /\ record = g /\ ~Candidate(h)
              /\ record' = NoOne
              /\ Fails(g, "lost")
              /\ UNCHANGED reserved
           \/ /\ record = g /\ Candidate(h)
              /\ record' = h /\ reserved' = reserved \ {h}
              /\ transfer' = [transfer EXCEPT ![g] = "done"]
              /\ answer' = [answer EXCEPT ![h] = "ok"]
        /\ UNCHANGED <<dead, phase, takeOver, requests, successor, runtime>>

\* release: when the native session is over, and waits for the transfer.
Release(g) ==
    /\ phase[g] \in {"leased", "active", "fenced"} /\ runtime[g] # "running"
    /\ Become(g, "releasing")
    /\ UNCHANGED <<files, gate, dead, takeOver, requests, answer, owner>>

ReleaseGated(g) ==
    /\ phase[g] = "releasing" /\ transfer[g] \notin Transferring
    /\ \/ ~Owns(g) /\ Become(g, "released") /\ UNCHANGED gate
       \/ Owns(g) /\ Enter(g) /\ Become(g, "unlinking")
       \/ Owns(g) /\ Busy(g) /\ Become(g, "stuck") /\ UNCHANGED gate
    /\ UNCHANGED <<files, dead, takeOver, requests, answer, owner>>

Unlink(g) ==
    /\ phase[g] = "unlinking" /\ Leave(g)
    /\ record' = IF record = g THEN NoOne ELSE record
    /\ Become(g, "released")
    /\ UNCHANGED <<reserved, dead, takeOver, requests, answer, owner>>

\* The process stops; inside the gate it leaves the gate behind.
Crash(p) ==
    /\ p \notin dead
    /\ dead' = dead \cup {p}
    /\ phase' = [g \in Attempts |->
          IF ProcessOf[g] = p /\ phase[g] # "new" THEN "dead" ELSE phase[g]]
    /\ runtime' = [g \in Attempts |->
          IF ProcessOf[g] = p /\ runtime[g] = "running" THEN "over" ELSE runtime[g]]
    /\ UNCHANGED <<files, gate, takeOver, requests, answer, transfer, successor>>

-----------------------------------------------------------------------------
ClaimStep(g) ==
    \/ Gated(g, "claim", "claiming") \/ GateBusy(g, "claim", "withdraw") \/ Claim(g)
ReserveStep(g) ==
    \/ Gated(g, "reserve", "reserving") \/ GateBusy(g, "reserve", "withdraw") \/ Reserve(g)
WithdrawStep(g) ==
    \/ Gated(g, "withdraw", "withdrawing") \/ GateBusy(g, "withdraw", "stranded") \/ Withdraw(g)
AskStep(g) == AskFails(g) \/ AskSucceeds(g)
Use(g) == StartNative(g) \/ NativeEnds(g) \/ Activate(g)
TransferStep(g) == Stopped(g) \/ StopFails(g) \/ EnterCommit(g) \/ CommitBusy(g) \/ Commit(g)
ReleaseStep(g) == Release(g) \/ ReleaseGated(g) \/ Unlink(g)

OwnershipNext ==
    \/ \E g \in Attempts :
          \/ Begin(g) \/ ClaimStep(g) \/ ReserveStep(g) \/ AskStep(g) \/ WithdrawStep(g)
          \/ Use(g) \/ TakeoverRequest(g) \/ TransferStep(g) \/ ReleaseStep(g)
    \/ \E p \in Processes : Crash(p)

\* What an attempt's own code does next, as acquirer or inside a locked section.
GoesOn(g) ==
    ClaimStep(g) \/ ReserveStep(g) \/ AskStep(g) \/ WithdrawStep(g) \/ Commit(g) \/ Unlink(g)

\* The code of an acquisition goes on and its deadline passes; owners, native
\* sessions and the network owe nothing.
OwnershipSpec ==
    /\ OwnershipInit /\ [][OwnershipNext]_ownershipVars
    /\ \A g \in Attempts : WF_ownershipVars(GoesOn(g))

-----------------------------------------------------------------------------
(* Properties.                                                             *)

\* Every variable has its type; who is inside a locked section holds the gate.
OwnershipTypeOK ==
    /\ record \in Attempts \cup {NoOne} /\ gate \in Attempts \cup {NoOne}
    /\ reserved \subseteq Attempts /\ requests \subseteq Attempts
    /\ dead \subseteq Processes
    /\ phase \in [Attempts -> {"new"} \cup Acquiring \cup Leased \cup Over]
    /\ takeOver \in [Attempts -> Attempts \cup {NoOne}]
    /\ answer \in [Attempts -> {"none", "ok", "refused"}]
    /\ transfer \in [Attempts -> {"none", "done", "failed", "lost"} \cup Transferring]
    /\ successor \in [Attempts -> Attempts \cup {NoOne}]
    /\ runtime \in [Attempts -> {"unstarted", "running", "over"}]
    /\ \A g \in Attempts :
          /\ phase[g] \in {"claiming", "reserving", "withdrawing", "unlinking"} => gate = g
          /\ transfer[g] = "committing" /\ phase[g] # "dead" => gate = g

\* Two native sessions never write to one session at once, whatever processes
\* stop, deadlines pass and owners compete (native-session-owner.test.ts:11, "fences the
\* former writer before closing, transferring only after release confirmation").
OneWriter ==
    \A g, h \in Attempts : runtime[g] = "running" /\ runtime[h] = "running" => g = h

\* "A late release cannot assign ownership to an endpoint that already abandoned
\* its request" (native-session-owner.ts:125), nor does an owner that left keep
\* it: unless the gate was busy, an endpoint that is gone owns nothing.
NoStrandedRecord == record # NoOne => phase[record] \notin {"withdrawn", "released"}

\* An attempt that reads the owner's confirmation is the recorded owner, so no
\* competitor was served and nobody replaced it meanwhile
\* (native-session-owner.ts:120).
ConfirmedHolds ==
    \A h \in Attempts : phase[h] = "asked" /\ answer[h] = "ok" => record = h

\* Every acquisition ends, though its owner hangs in its release, its process
\* stops or the gate was left behind: an attempt acquires once, so in the end
\* none is at it.
AcquireEnds == <>[](\A g \in Attempts : phase[g] \notin Acquiring)
=============================================================================
