------------------------- MODULE SessionAttachments -------------------------
(* The native sessions a Controller is attached to (agent-host/src/host.ts:  *)
(* attach, acquireSession, project, watch, session release, native handoff,  *)
(* close), the identity they are published under (session-bindings.ts), the  *)
(* Relay's agents (relay.ts) and the idle detachment (idle-sessions.ts).     *)
(*                                                                           *)
(* A session is attached by one job at a time, which everybody who asks for  *)
(* it joins.  A lease keeps a session and its ancestors attached: it retains *)
(* all of them at once and then, from the topmost down, waits for a          *)
(* detachment under way and has the session attached again.  A sweep         *)
(* detaches what nobody needs.                                               *)
(*                                                                           *)
(* Time is left out: the grace period and the intervals between checks may   *)
(* have passed at any sweep.  What a native session reports of itself (turn, *)
(* interactions, connection) may be quiet at any time; an operation of a     *)
(* client is modelled because it retains its session.                        *)
EXTENDS Naturals, FiniteSets

CONSTANTS Clients,     \* who asks for leases: streams, requests, coordinators
          Sessions,    \* native sessions
          Parent,      \* of a native child
          Ancestors,   \* all of a session's, the parent included
          Agents,      \* public identities
          Proposals,   \* <<session, agent>>: the identities attach requests propose
          MaxMischances,  \* a bound (see Mischance)
          NoSession, NoAgent

ASSUME AttachmentAssumption ==
    /\ NoSession \notin Sessions /\ NoAgent \notin Agents
    /\ Clients \cap Sessions = {}
    /\ Parent \in [Sessions -> Sessions \cup {NoSession}]
    /\ Ancestors \in [Sessions -> SUBSET Sessions]
    /\ \A s \in Sessions : Ancestors[s] = IF Parent[s] = NoSession THEN {}
                                         ELSE {Parent[s]} \cup Ancestors[Parent[s]]
    /\ Proposals \subseteq Sessions \X Agents /\ MaxMischances \in Nat

\* A child is created after its parent.
ASSUME FamilyAssumption ==
    /\ IsFiniteSet(Clients) /\ IsFiniteSet(Sessions)
    /\ \A S \in SUBSET Sessions : S # {} => \E s \in S : Ancestors[s] \cap S = {}

VARIABLES binding,     \* the published identity of each session
          job,         \* the attachment under way of each session
          lease,       \* of each client, and of a child's job on its parent
          live,        \* the sessions whose agent the Relay has
          severed,     \* live children whose parent's connection was closed
          users,       \* per idle entry
          releasing,   \* sessions whose idle detachment is under way
          uncertain,   \* uncertainAgents
          check,       \* the one reconciliation under way
          operation,   \* the operation of a client on each session
          doubt,       \* unknown outcomes no later check has confirmed (history)
          nativeOwner, \* sessions a native client has taken over
          handing,     \* the handoff to a native client under way
          connected,   \* to the hosted Relay
          host,        \* open, closing or shut
          mischances      \* so far (see MaxMischances)

heldVars == <<lease, users, check>>
idleVars == <<releasing, uncertain, doubt>>
hostState == <<nativeOwner, handing, connected, host>>
hostVars == <<hostState, mischances>>
attachmentVars == <<binding, job, heldVars, live, severed, idleVars, operation, hostVars>>

NoJob == [stage |-> "none", agent |-> NoAgent]
NoLease == [stage |-> "none", kept |-> {}, left |-> {}, intact |-> TRUE]
NoCheck == [of |-> NoSession, current |-> FALSE, covers |-> FALSE]

Bound(s) == binding[s] # NoAgent
Children(s) == {c \in Sessions : Parent[c] = s}
Family(s) == {x \in Sessions : Bound(x) /\ (x = s \/ s \in Ancestors[x])}

AttachmentInit ==
    /\ binding = [s \in Sessions |-> NoAgent]
    /\ job = [s \in Sessions |-> NoJob]
    /\ lease = [u \in Clients \cup Sessions |-> NoLease]
    /\ live = {} /\ severed = {}
    /\ users = [s \in Sessions |-> 0]
    /\ releasing = {} /\ uncertain = {} /\ doubt = {}
    /\ check = NoCheck
    /\ operation = [s \in Sessions |-> "none"]
    /\ nativeOwner = {} /\ handing = [todo |-> {}, busy |-> NoSession]
    /\ connected = TRUE /\ host = "open" /\ mischances = 0

\* A bound: what may go wrong, or be commanded, in a behavior.  Two unknown outcomes,
\* checks that native activity causes or fails, lost connections or shutdowns; or one
\* failure, command or handoff.
Mischance(weight) == mischances + weight <= MaxMischances /\ mischances' = mischances + weight

-----------------------------------------------------------------------------
(* Idle entries.  Every retain, release and touch starts a new grace period  *)
(* and makes a check of the session that is under way worthless.             *)

Reset(S) == IF check.of \in S THEN [check EXCEPT !.current = FALSE] ELSE check

\* Mutant: a lease that was not acquired to its end gives back what it has attached
\* only.
UnusedByAttached(L) == [s \in Sessions |->
    users[s] - Cardinality({u \in L : s \in lease[u].kept \ lease[u].left})]

\* One user more of each session of S; one user less for each lease of L.
UsedBy(S) == [s \in Sessions |-> IF s \in S THEN users[s] + 1 ELSE users[s]]
UnusedBy(L) ==
    [s \in Sessions |-> users[s] - Cardinality({u \in L : s \in lease[u].kept})]
KeptBy(L) == UNION {lease[u].kept : u \in L}

\* Mutant: an attachment does not hear that the lease on its parent has failed.
FailedSilently(u) == NoLease

\* A client that fails has nothing; a job has to fail too.
Failed(u) == IF u \in Clients THEN NoLease ELSE [NoLease EXCEPT !.stage = "failed"]

\* The session a lease that is being acquired is at: ancestors first.
At(u) == CHOOSE s \in lease[u].left : Ancestors[s] \cap lease[u].left = {}
WaitingAt(s) == {u \in DOMAIN lease : lease[u].stage = "wait" /\ At(u) = s}
JoinedAt(s) == {u \in DOMAIN lease : lease[u].stage = "join" /\ At(u) = s}

\* What a lease on s keeps: s and its bound ancestors.
Kept(s) ==
    {s} \cup {a \in Ancestors[s] :
                 \A b \in Ancestors[s] : (b = a \/ a \in Ancestors[b]) => Bound(b)}

\* u retains s and its ancestors, which nothing has attached yet.
Acquires(u, s) ==
    /\ lease' = [lease EXCEPT ![u] =
          [stage |-> "wait", kept |-> Kept(s), left |-> Kept(s), intact |-> TRUE]]
    /\ users' = UsedBy(Kept(s))
    /\ check' = Reset(Kept(s))

AcquireSession(u, s) ==
    /\ lease[u].stage = "none" /\ host = "open" /\ Bound(s)
    /\ Acquires(u, s)
    /\ UNCHANGED <<binding, job, live, severed, idleVars, operation, hostVars>>

\* No detachment is under way (any more): join the session's job, starting it if
\* there is none.
AcquireProjects(u) ==
    /\ lease[u].stage = "wait" /\ At(u) \notin releasing /\ host # "shut"
    /\ lease' = [lease EXCEPT ![u].stage = "join"]
    /\ job' = IF job[At(u)].stage = "none"
              THEN [job EXCEPT ![At(u)] = [stage |-> "waiting", agent |-> binding[At(u)]]]
              ELSE job
    /\ UNCHANGED <<binding, users, check, live, severed, idleVars, operation, hostVars>>

\* The bindings are closed.
AcquireRefused(u) ==
    /\ lease[u].stage = "wait" /\ At(u) \notin releasing /\ host = "shut"
    /\ lease' = [lease EXCEPT ![u] = Failed(u)]
    /\ users' = UnusedBy({u}) /\ check' = Reset(lease[u].kept)
    /\ UNCHANGED <<binding, job, live, severed, idleVars, operation, hostVars>>

ReleaseLease(u) ==
    /\ u \in Clients /\ lease[u].stage = "held"
    /\ lease' = [lease EXCEPT ![u] = NoLease]
    /\ users' = UnusedBy({u}) /\ check' = Reset(lease[u].kept)
    /\ UNCHANGED <<binding, job, live, severed, idleVars, operation, hostVars>>

-----------------------------------------------------------------------------
(* The job that attaches a session.                                          *)

Taken(a) == \E s \in Sessions : binding[s] = a \/ job[s].agent = a

\* An attach request or a created session.  A session that is bound keeps its
\* identity whatever the request proposes; a new one is refused an identity in
\* use.  A child is attached from the view of its parent (a provider may also open
\* one whose parent is not bound).
Attach(s, a) ==
    /\ <<s, a>> \in Proposals /\ host # "shut" /\ job[s].stage = "none"
    /\ Parent[s] # NoSession => Bound(Parent[s])
    /\ \/ Bound(s) /\ job' = [job EXCEPT ![s] = [stage |-> "waiting", agent |-> binding[s]]]
       \/ ~Bound(s) /\ ~Taken(a) /\ job' = [job EXCEPT ![s] = [stage |-> "parent", agent |-> a]]
    /\ UNCHANGED <<binding, heldVars, live, severed, idleVars, operation, hostVars>>

\* The job of s ends: whoever joined it goes on or fails, and the lease on the
\* parent is given back.
EndsJob(s, joined, succeeds) ==
    LET served == IF succeeds /\ host = "open" THEN joined ELSE {}
        over   == (joined \ served) \cup {s}
        left(u) == lease[u].left \ {s}
    IN  /\ job' = [job EXCEPT ![s] = NoJob]
        /\ lease' = [u \in DOMAIN lease |->
              IF u = s THEN NoLease
              ELSE IF u \in served
              THEN [lease[u] EXCEPT !.left = left(u),
                                    !.stage = IF left(u) = {} THEN "held" ELSE "wait"]
              ELSE IF u \in joined THEN Failed(u) ELSE lease[u]]
        /\ users' = UnusedBy(over)
        /\ check' = Reset(KeptBy(over) \cup (IF succeeds THEN {s} ELSE {}))

JobEnds(s, succeeds) == EndsJob(s, JoinedAt(s), succeeds)

JobFails(s) == JobEnds(s, FALSE) /\ UNCHANGED <<binding, live, severed, idleVars, operation, hostState>>

\* The detachment of a bound session is over: it is attached by now or its agent
\* is gone.
JobFindsAgent(s) ==
    /\ job[s].stage = "waiting" /\ s \notin releasing /\ s \in live
    /\ JobEnds(s, TRUE)
    /\ UNCHANGED <<binding, live, severed, idleVars, operation, hostVars>>

JobReattaches(s) ==
    /\ job[s].stage = "waiting" /\ s \notin releasing /\ s \notin live
    /\ job' = [job EXCEPT ![s].stage = "parent"]
    /\ UNCHANGED <<binding, heldVars, live, severed, idleVars, operation, hostVars>>

JobLeasesParent(s) ==
    /\ job[s].stage = "parent"
    /\ \/ /\ Parent[s] = NoSession
          /\ job' = [job EXCEPT ![s].stage = "opening"]
          /\ UNCHANGED <<binding, heldVars, live, severed, idleVars, operation, hostVars>>
       \/ /\ Parent[s] # NoSession /\ host = "open"
          /\ job' = [job EXCEPT ![s].stage = "leasing"]
          /\ Acquires(s, Parent[s])
          /\ UNCHANGED <<binding, live, severed, idleVars, operation, hostVars>>
       \/ Parent[s] # NoSession /\ host # "open" /\ JobFails(s) /\ UNCHANGED mischances

JobHoldsParent(s) ==
    /\ job[s].stage = "leasing" /\ lease[s].stage = "held"
    /\ job' = [job EXCEPT ![s].stage = "opening"]
    /\ UNCHANGED <<binding, heldVars, live, severed, idleVars, operation, hostVars>>

JobLosesParent(s) ==
    job[s].stage = "leasing" /\ lease[s].stage = "failed" /\ JobFails(s) /\ UNCHANGED mischances

\* The native session is open; the Relay makes an agent of it unless the Host is
\* closing or the parent is gone.
JobOpens(s) ==
    /\ job[s].stage = "opening"
    /\ \/ /\ host = "open"
          /\ Parent[s] # NoSession => Parent[s] \in live
          /\ job' = [job EXCEPT ![s].stage = "creating"]
          /\ UNCHANGED <<binding, heldVars, live, severed, idleVars, operation, hostVars>>
       \/ /\ host # "open" \/ (Parent[s] # NoSession /\ Parent[s] \notin live)
          /\ JobFails(s) /\ UNCHANGED mischances

\* The native session cannot be opened, or its agent fails to become ready.
JobMeetsFailure(s) == job[s].stage \in {"opening", "creating"} /\ JobFails(s) /\ Mischance(2)

\* The agent is ready.  Its session is watched and published, and is the Host's
\* again, whoever had taken it over.  A handoff or a command may have closed the
\* parent since the native session was opened.
JobAttaches(s) ==
    /\ job[s].stage = "creating" /\ host # "shut"
    /\ live' = live \cup {s}
    /\ severed' = IF Parent[s] # NoSession /\ ~lease[s].intact THEN severed \cup {s} ELSE severed \ {s}
    /\ binding' = [binding EXCEPT ![s] = job[s].agent]
    /\ nativeOwner' = nativeOwner \ (Family(s) \cup {s})
    /\ JobEnds(s, TRUE)
    /\ UNCHANGED <<idleVars, operation, handing, connected, host, mischances>>

\* The Relay was closed meanwhile.
JobFindsShut(s) ==
    job[s].stage = "creating" /\ host = "shut" /\ JobFails(s) /\ UNCHANGED mischances

-----------------------------------------------------------------------------
(* What detaches a session.                                                  *)

\* The agents of S are closed: an operation ends without an agent.
CloseAgents(S) ==
    /\ live' = live \ S
    /\ operation' = [s \in Sessions |->
          IF s \in S \cap live /\ operation[s] = "running" THEN "orphan" ELSE operation[s]]

\* Their attached children lose the connection they share.
Severs(S) == severed' = (severed \cup {c \in live : Parent[c] \in S \cap live}) \ S

\* Leases that have them attached are worth nothing.
TakesFromLeases(S) == lease' = [u \in DOMAIN lease |->
    [lease[u] EXCEPT !.intact = @ /\ (lease[u].kept \ lease[u].left) \cap S \cap live = {}]]

\* Mutant: only leases of children are looked at.
ChildWanted(s) == \E c \in Children(s) : Bound(c) /\ users[c] > 0

\* A child that is attached or wanted keeps the connection of its parent.
ChildNeeds(s) == \E c \in Children(s) : Bound(c) /\ (c \in live \/ users[c] > 0)

\* A native session whose connection is gone is never quiet.
Quiet(s) == s \in live /\ s \notin severed

Safe(s) ==
    /\ host = "open" /\ s \notin uncertain /\ job[s].stage = "none"
    /\ Quiet(s) /\ ~ChildNeeds(s)

\* The sweep considers s.
Swept(s) ==
    /\ host # "shut" /\ connected /\ s \notin releasing /\ check.of # s
    /\ Bound(s) /\ users[s] = 0

SweepReleases(s) ==
    /\ Swept(s) /\ Safe(s)
    /\ CloseAgents({s}) /\ releasing' = releasing \cup {s}
    /\ UNCHANGED <<binding, job, heldVars, severed, uncertain, doubt, hostVars>>

ReleaseEnds(s) ==
    /\ s \in releasing
    /\ releasing' = releasing \ {s}
    /\ UNCHANGED <<binding, job, heldVars, live, severed, uncertain, doubt, operation, hostVars>>

\* The native connection could not be closed: whoever waited for that fails.
ReleaseFails(s) ==
    LET waiting == WaitingAt(s)
    IN  /\ s \in releasing
        /\ releasing' = releasing \ {s}
        /\ lease' = [u \in DOMAIN lease |-> IF u \in waiting THEN Failed(u) ELSE lease[u]]
        /\ users' = UnusedBy(waiting) /\ check' = Reset(KeptBy(waiting))
        /\ job[s].stage # "waiting" /\ Mischance(2)
        /\ UNCHANGED <<binding, job, live, severed, uncertain, doubt, operation, hostState>>

\* The same with an attachment waiting, and with whoever joined it.
ReleaseFailsJob(s) ==
    /\ s \in releasing /\ job[s].stage = "waiting"
    /\ EndsJob(s, WaitingAt(s) \cup JoinedAt(s), FALSE) /\ releasing' = releasing \ {s} /\ Mischance(2)
    /\ UNCHANGED <<binding, live, severed, uncertain, doubt, operation, hostState>>

\* The session command "release".
CommandReleases(s) ==
    /\ Bound(s) /\ users[s] = 0 /\ Quiet(s) /\ host # "shut"
    /\ CloseAgents({s}) /\ Severs({s}) /\ Mischance(2)
    /\ UNCHANGED <<binding, job, heldVars, idleVars, hostState>>

\* A native client takes s over: its family is closed one after the other, children
\* first.
Handoff(s) ==
    /\ handing.todo = {} /\ handing.busy = NoSession /\ Family(s) # {} /\ host # "shut"
    /\ nativeOwner' = nativeOwner \cup Family(s)
    /\ handing' = [handing EXCEPT !.todo = Family(s)] /\ Mischance(2)
    /\ UNCHANGED <<binding, job, heldVars, live, severed, idleVars, operation, connected, host>>

HandoffCloses(s) ==
    /\ s \in handing.todo /\ handing.busy = NoSession
    /\ \A x \in handing.todo : s \notin Ancestors[x]
    /\ CloseAgents({s}) /\ Severs({s}) /\ TakesFromLeases({s})
    /\ handing' = [todo |-> handing.todo \ {s}, busy |-> IF s \in live THEN s ELSE NoSession]
    /\ UNCHANGED <<binding, job, users, check, idleVars, nativeOwner, connected, host, mischances>>

HandoffGoesOn ==
    /\ handing.busy # NoSession
    /\ handing' = [handing EXCEPT !.busy = NoSession]
    /\ UNCHANGED <<binding, job, heldVars, live, severed, idleVars, operation, nativeOwner, connected, host, mischances>>

-----------------------------------------------------------------------------
(* Operations, reconciliation of unknown outcomes, the uplink and the end.   *)

\* A client submits an operation over its lease; a native owner leaves it no
\* control.  One at a time is modelled.
BeginOperation(u, s) ==
    /\ u \in Clients /\ lease[u].stage = "held" /\ lease[u].intact
    /\ \A x \in lease[u].kept : s = x \/ x \in Ancestors[s]
    /\ s \in lease[u].kept /\ s \notin nativeOwner /\ \A x \in Sessions : operation[x] = "none"
    /\ operation' = [operation EXCEPT ![s] = "running"]
    /\ users' = UsedBy({s}) /\ check' = Reset({s})
    /\ UNCHANGED <<binding, job, lease, live, severed, idleVars, hostVars>>

\* An unknown outcome protects the session, if its agent still is the one that got
\* the operation.
OperationEnds(s, unknown) ==
    LET doubtful == unknown /\ operation[s] = "running"
    IN  /\ operation[s] # "none"
        /\ operation' = [operation EXCEPT ![s] = "none"]
        /\ users' = [users EXCEPT ![s] = @ - 1]
        /\ uncertain' = IF doubtful THEN uncertain \cup {s} ELSE uncertain
        /\ doubt' = IF doubtful THEN doubt \cup {s} ELSE doubt
        /\ check' = [Reset({s}) EXCEPT !.covers = @ /\ ~(doubtful /\ check.of = s)]
        /\ IF unknown THEN Mischance(1) ELSE UNCHANGED mischances
        /\ UNCHANGED <<binding, job, lease, live, severed, releasing, hostState>>

\* A session that nobody uses and that is not safe is checked: what the check finds
\* out on the way stays protected until it succeeds as a whole.
CheckStarts(s) ==
    /\ check.of = NoSession /\ Swept(s) /\ host = "open"
    /\ Quiet(s) /\ ~ChildNeeds(s)
    /\ check' = [of |-> s, current |-> TRUE, covers |-> TRUE]
    /\ uncertain' = uncertain \cup {s}
    /\ IF s \in uncertain THEN UNCHANGED mischances ELSE Mischance(1)
    /\ UNCHANGED <<binding, job, lease, users, live, severed, releasing, doubt, operation, hostState>>

\* Mutant: whoever used the session in between does not matter.
CheckCurrentUnversioned == host # "shut" /\ connected /\ users[check.of] = 0

\* Nobody has used the session since the check began.
CheckCurrent == check.current /\ host # "shut" /\ connected /\ users[check.of] = 0

\* The native family answers that it is idle.
CheckConfirms(s) ==
    /\ check.of = s
    /\ IF CheckCurrent /\ Quiet(s)
       THEN /\ uncertain' = uncertain \ {s}
            /\ doubt' = IF check.covers THEN doubt \ {s} ELSE doubt
       ELSE UNCHANGED <<uncertain, doubt>>
    /\ check' = NoCheck
    /\ UNCHANGED <<binding, job, lease, users, live, severed, releasing, operation, hostVars>>

\* It is active, or does not answer.
CheckFails(s) ==
    /\ check.of = s /\ check' = NoCheck /\ Mischance(1)
    /\ UNCHANGED <<binding, job, lease, users, live, severed, idleVars, operation, hostState>>

SetConnected(value) ==
    /\ connected # value /\ host # "shut"
    /\ connected' = value /\ check' = Reset(Sessions)
    /\ IF value THEN UNCHANGED mischances ELSE Mischance(1)
    /\ UNCHANGED <<binding, job, lease, users, live, severed, idleVars, operation, nativeOwner, handing, host>>

BeginShutdown ==
    /\ host = "open" /\ host' = "closing" /\ Mischance(1)
    /\ UNCHANGED <<binding, job, heldVars, live, severed, idleVars, operation, nativeOwner, handing, connected>>

\* Bindings, sweeps and the Relay close; the Relay closes every agent and every
\* native session it has been given.
Shut ==
    /\ host = "closing" /\ host' = "shut"
    /\ CloseAgents(Sessions) /\ Severs(Sessions) /\ TakesFromLeases(Sessions)
    /\ UNCHANGED <<binding, job, users, check, idleVars, nativeOwner, handing, connected, mischances>>

-----------------------------------------------------------------------------

AcquireGoes(u) == AcquireProjects(u) \/ AcquireRefused(u)

JobGoes(s) ==
    \/ JobFindsAgent(s) \/ JobReattaches(s) \/ JobLeasesParent(s) \/ JobHoldsParent(s)
    \/ JobLosesParent(s) \/ JobOpens(s) \/ JobAttaches(s) \/ JobFindsShut(s)

\* Never more than one of them is possible.
SessionGoes(s) == AcquireGoes(s) \/ JobGoes(s) \/ ReleaseEnds(s)

AttachmentNext ==
    \/ \E u \in Clients : ReleaseLease(u)
          \/ \E s \in Sessions : AcquireSession(u, s) \/ BeginOperation(u, s)
    \/ \E u \in Clients \cup Sessions : AcquireGoes(u)
    \/ \E s \in Sessions :
          \/ JobGoes(s) \/ JobMeetsFailure(s)
          \/ ReleaseEnds(s) \/ ReleaseFails(s) \/ ReleaseFailsJob(s)
          \/ SweepReleases(s) \/ CommandReleases(s) \/ Handoff(s) \/ HandoffCloses(s)
          \/ CheckStarts(s) \/ CheckConfirms(s) \/ CheckFails(s)
          \/ \E a \in Agents : Attach(s, a)
          \/ \E unknown \in BOOLEAN : OperationEnds(s, unknown)
    \/ HandoffGoesOn \/ BeginShutdown \/ Shut
    \/ \E value \in BOOLEAN : SetConnected(value)

\* Native opens, disposals and checks answer, the Host's own steps are taken and the
\* sweep runs.  The one check at a time gets round to every session, whatever the
\* others are used for: each failed or outdated check postpones the next of its session.
AttachmentFairness ==
    /\ \A u \in Clients : WF_attachmentVars(AcquireGoes(u))
    /\ \A s \in Sessions :
          /\ WF_attachmentVars(SessionGoes(s))
          /\ WF_attachmentVars(SweepReleases(s))
          /\ SF_attachmentVars(CheckStarts(s)) /\ WF_attachmentVars(CheckConfirms(s))

AttachmentSpec == AttachmentInit /\ [][AttachmentNext]_attachmentVars /\ AttachmentFairness

-----------------------------------------------------------------------------

AttachmentTypeOK ==
    /\ binding \in [Sessions -> Agents \cup {NoAgent}]
    /\ job \in [Sessions -> [stage : {"none", "waiting", "parent", "leasing", "opening", "creating"},
                             agent : Agents \cup {NoAgent}]]
    /\ lease \in [Clients \cup Sessions ->
                    [stage : {"none", "wait", "join", "held", "failed"}, kept : SUBSET Sessions,
                     left : SUBSET Sessions, intact : BOOLEAN]]
    /\ live \subseteq Sessions /\ severed \subseteq live
    /\ users \in [Sessions -> Nat]
    /\ releasing \subseteq Sessions /\ uncertain \subseteq Sessions
    /\ check \in [of : Sessions \cup {NoSession}, current : BOOLEAN, covers : BOOLEAN]
    /\ operation \in [Sessions -> {"none", "running", "orphan"}]
    /\ nativeOwner \subseteq Sessions /\ host \in {"open", "closing", "shut"}
    /\ handing \in [todo : SUBSET Sessions, busy : Sessions \cup {NoSession}]
    /\ mischances \in 0..MaxMischances

\* The public identity of a session is its own and nobody waits for another one.
OneIdentity ==
    \A s, x \in Sessions : s # x =>
        /\ Bound(s) => binding[s] # binding[x] /\ binding[s] # job[x].agent
        /\ job[s].stage # "none" => job[s].agent # job[x].agent

\* A lease has its session and the ancestors it got to attached until it is given
\* back, whatever other leases, failures, sweeps and commands do meanwhile; only a
\* handoff to a native client or the end of the Host takes them away.
LeaseServed == \A u \in DOMAIN lease :
    lease[u].stage # "none" /\ lease[u].intact => lease[u].kept \ lease[u].left \subseteq live

\* A child stays attached only as long as the parent whose connection it shares,
\* unless a handoff or a release command closed the parent under it.
FamilyTogether == \A s \in live \ severed :
    Parent[s] # NoSession /\ Bound(Parent[s]) => Parent[s] \in live

\* While a session is being detached nobody attaches it again.
OneGeneration == \A s \in releasing :
    s \notin live /\ job[s].stage \in {"none", "waiting"}

\* A closed Host leaves no agent behind.
NothingLeftOpen == host = "shut" => live = {}

AttachmentInv ==
    AttachmentTypeOK /\ OneIdentity /\ LeaseServed /\ FamilyTogether /\ OneGeneration /\ NothingLeftOpen

\* An operation with an unknown outcome protects its session from being detached
\* until a check of the native session that began after it confirms it idle.
DoubtProtected == doubt \subseteq uncertain

\* Everybody who asks for a session gets an answer (a client that waits does not wait
\* for ever).
AcquiresEnd == \A u \in Clients : []<>(lease[u].stage \notin {"wait", "join"})

\* A session that nobody needs any more is detached: no lease and no operation, nor
\* of a child, no attachment under way, no attached child.
Unneeded(s) ==
    /\ host = "open" /\ connected /\ job[s].stage = "none"
    /\ \A x \in Children(s) \cup {s} :
          operation[x] = "none" /\ \A u \in DOMAIN lease : x \notin lease[u].kept
    /\ Children(s) \cap live = {} /\ s \notin severed /\ s \notin handing.todo
UnneededDetached == \A s \in Sessions : <>[]Unneeded(s) => <>[](s \notin live)
=============================================================================
