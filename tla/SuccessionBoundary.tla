------------------------- MODULE SuccessionBoundary -------------------------
(***************************************************************************)
(* The handoff of a primary session (agent-host, session-succession-*.ts)  *)
(* against the mutations everybody else sends to it.                       *)
(*                                                                         *)
(* A mutation is admitted for its targets, leaves a durable mark on each   *)
(* before any work, calls the native runtime at one of them and ends when  *)
(* its evidence settles; settled targets are unmarked again.  A handoff    *)
(* reserves its source, durably begins, learns its candidate, becomes      *)
(* ready and commits: the candidate becomes the role's current session and *)
(* the source is superseded.  Reservations, admissions and evidence are in *)
(* memory.  Marks, handoff records and first-input deliveries are files.   *)
(* A restarted Controller does not know what became of the marked work: it *)
(* fences marked sessions for a while ("the restart settles").             *)
(***************************************************************************)
EXTENDS Naturals, FiniteSets

CONSTANTS
    Mutations,    \* mutation entries of the operation cache, each used once
    FirstInputs,  \* those that deliver a successor's prepared first input
    Handoffs,     \* succession operations of one role
    Sessions,     \* native sessions
    Existing,     \* those that exist at the start
    First,        \* the role's session at the start, a successor itself
    None,         \* "no session", "no mutation"
    MaxRestarts   \* bounds the restarts of the Controller

ASSUME BoundaryAssumption ==
    /\ FirstInputs \subseteq Mutations
    /\ Existing \subseteq Sessions
    /\ First \in Existing
    /\ None \notin Sessions \cup Mutations
    /\ MaxRestarts \in Nat

VARIABLES
    \* The operation cache, the admissions and the native calls they lead to.
    stage,         \* how far the Controller is with the mutation
    targets,       \* entry.targets
    todo,          \* targets still to be marked by run
    site,          \* the session the native call or first input goes to
    native,        \* external: where the native work is
    delivery,      \* durable: the delivery record of a prepared first input
    \* The context store's mutation coverage.
    coverage,      \* durable: the marker of each session
    lost,          \* lostCoverage
    window,        \* the restart window and its timer: "running", or "unarmed"
                   \* with no timer, then "elapsed" until the timer has "fired"
    queued,        \* targets with a clearMutation under way
    \* The coordinator and its store.
    phase, from, to,  \* durable: the succession record
    reservations,     \* reservations of the boundary, {} where there is none
    current,          \* durable: role.current
    life,             \* "up", "closing" (closePromise), "retired" (coverageRetired)
    restarts

workVars == <<stage, targets, todo, site, native, delivery>>
coverVars == <<coverage, lost, window, queued>>
handoffVars == <<phase, from, to, reservations, current>>
vars == <<workVars, coverVars, handoffVars, life, restarts>>

\* "open" and "forgotten" calls are unsettled: the cache still knows of the first.
Stages == {"idle", "admitted", "ready", "native", "open", "forgotten", "over", "lost"}
InFlight == {"admitted", "ready", "native"}
NoMarker == [op |-> None, prepared |-> FALSE, set |-> FALSE]
Marker == [op : Mutations \cup {None}, prepared : BOOLEAN, set : BOOLEAN]
\* Phases of a durable record that is not terminal.  Until "known" the record
\* does not name its candidate; "uncertain" is a creation of unknown outcome.
Named == {"known", "busy", "ready", "unknown"}
Active == {"begun", "creating", "uncertain"} \cup Named
Phases == Active \cup {"idle", "checked", "reserved", "committed", "cancelled", "rejected"}

-----------------------------------------------------------------------------
(* What the checks read.                                                   *)

Marked(t) == coverage[t].set

\* hasUnsettledMutation, and pending: an admission lives as long as its record
\* is in flight.
UnsettledBy(ms, t) ==
    \E m \in ms : \/ stage[m] \in InFlight /\ t \in targets[m]
                  \/ stage[m] = "open" /\ t = site[m]

Unsettled(t) == UnsettledBy(Mutations, t)

FirstInputUnresolved(t) == \E m \in Mutations : delivery[m] = "open" /\ site[m] = t

\* settleRestart: time lifts the fence, unless a first input is unresolved.
FenceLifts(t) == window \notin {"running", "unarmed"} /\ ~FirstInputUnresolved(t)

\* coverageAvailable is ~Fenced.  Asking also lifts the fence for good.
Fenced(t) == t \in lost /\ ~FenceLifts(t)
StillLost(asked) == {t \in lost : t \in asked => ~FenceLifts(t)}

Reserved(t) == \E h \in Handoffs : t \in reservations[h]

\* Mutant: only unfinished handoffs block.
BlockedWhileActive(t) == \E h \in Handoffs : phase[h] \in Active /\ t \in {from[h], to[h]}

\* refreshAdmission: what the durable records block.
Blocked(t) ==
    \E h \in Handoffs :
        \/ phase[h] \in Active /\ t = from[h]
        \/ phase[h] \in Named /\ t = to[h]
        \/ phase[h] = "committed" /\ t = from[h] /\ t # current

\* validate.
Admissible(t) == life = "up" /\ ~Reserved(t) /\ ~Blocked(t)

\* assertHostState: the attached agent is synchronized and shows no turn.
HostIdle(t) == life # "retired" /\ \A m \in Mutations : site[m] = t => native[m] # "running"

\* assertQuiescent.
Quiescent(t) == ~Fenced(t) /\ ~Unsettled(t) /\ HostIdle(t)

\* LocalSuccessionPreparation also wants the first input resolved.
Idle(t) == Quiescent(t) /\ ~FirstInputUnresolved(t)

Exists(t) == t \in Existing \cup {to[h] : h \in Handoffs}

-----------------------------------------------------------------------------
Init ==
    /\ stage = [m \in Mutations |-> "idle"]
    /\ targets = [m \in Mutations |-> {}]
    /\ todo = [m \in Mutations |-> {}]
    /\ site = [m \in Mutations |-> None]
    /\ native = [m \in Mutations |-> "none"]
    /\ delivery = [m \in Mutations |-> "none"]
    /\ coverage = [t \in Sessions |-> NoMarker]
    /\ lost = {}
    /\ window = "fired"
    /\ queued = {}
    /\ phase = [h \in Handoffs |-> "idle"]
    /\ from = [h \in Handoffs |-> None]
    /\ to = [h \in Handoffs |-> None]
    /\ reservations = [h \in Handoffs |-> {}]
    /\ current = First
    /\ life = "up"
    /\ restarts = 0

-----------------------------------------------------------------------------
(* A mutation.                                                             *)

\* execute, admit: all targets are validated, then recorded.
Admit(m, T) ==
    /\ stage[m] = "idle"
    /\ \A t \in T : Exists(t) /\ Admissible(t)
    /\ stage' = [stage EXCEPT ![m] = "admitted"]
    /\ targets' = [targets EXCEPT ![m] = T]
    /\ todo' = [todo EXCEPT ![m] = T]
    /\ UNCHANGED <<site, native, delivery, coverVars, handoffVars, life, restarts>>

\* A marker of another operation, unless it is lost coverage, becomes anonymous.
MarkedBy(m, t) ==
    IF ~Marked(t) THEN [op |-> m, prepared |-> FALSE, set |-> TRUE]
    ELSE IF t \notin StillLost({t}) /\ coverage[t].op # m
         THEN [op |-> None, prepared |-> FALSE, set |-> TRUE]
         ELSE coverage[t]

\* run: markMutation for each target, before any work.
Mark(m, t) ==
    /\ stage[m] = "admitted"
    /\ t \in todo[m]
    /\ todo' = [todo EXCEPT ![m] = @ \ {t}]
    /\ coverage' = [coverage EXCEPT ![t] = MarkedBy(m, t)]
    /\ lost' = StillLost({t})
    /\ UNCHANGED <<stage, targets, site, native, delivery, window, queued, handoffVars, life, restarts>>

\* subscribeMutationSettlement: the boundary listens until it closes.
Notify(ts) == queued' = IF life = "up" THEN queued \cup ts ELSE queued

\* Mutant: nobody hears that a mutation ended.
EndSilently(m) ==
    /\ stage' = [stage EXCEPT ![m] = "over"]
    /\ queued' = queued

\* The record settles and holds no evidence: the boundary hears of every target
\* that is settled now and reconciles its coverage.
End(m) ==
    /\ stage' = [stage EXCEPT ![m] = "over"]
    /\ Notify({t \in targets[m] : ~UnsettledBy(Mutations \ {m}, t)})

\* A write failed, validation or the check before dispatch refused.
Refuse(m) ==
    /\ \/ stage[m] = "admitted" /\ delivery[m] = "none"
       \/ stage[m] \in {"admitted", "ready"} /\ delivery[m] = "open"
    /\ End(m)
    /\ delivery' = [delivery EXCEPT ![m] = IF @ = "open" THEN "settled" ELSE @]
    /\ UNCHANGED <<targets, todo, site, native, coverage, lost, window, handoffVars, life, restarts>>

\* Mutant: dispatches while marks are still being written.
MarksWrittenSkipped(m) == stage[m] = "admitted"

MarksWritten(m) == stage[m] = "admitted" /\ todo[m] = {}

\* begin: only the role's current session takes a first input.  Its delivery is
\* durable before it is dispatched, and refused while another is unresolved.
BeginFirstInput(m, t) ==
    /\ m \in FirstInputs
    /\ MarksWritten(m)
    /\ t \in targets[m]
    /\ t = current
    /\ delivery[m] = "none"
    /\ ~FirstInputUnresolved(t)
    /\ delivery' = [delivery EXCEPT ![m] = "open"]
    /\ site' = [site EXCEPT ![m] = t]
    /\ UNCHANGED <<stage, targets, todo, native, coverVars, handoffVars, life, restarts>>

\* preparedEffect: validate, markPreparedMutation.
PrepareFirstInput(m) ==
    /\ stage[m] = "admitted"
    /\ delivery[m] = "open"
    /\ Admissible(site[m])
    /\ stage' = [stage EXCEPT ![m] = "ready"]
    /\ coverage' = [coverage EXCEPT ![site[m]] =
          IF @.set /\ @.op = m THEN [@ EXCEPT !.prepared = TRUE] ELSE @]
    /\ UNCHANGED <<targets, todo, site, native, delivery, lost, window, queued, handoffVars, life, restarts>>

\* startNativeEffect and the native call.
Call(m, t) ==
    /\ \/ m \notin FirstInputs /\ MarksWritten(m) /\ t \in targets[m] /\ Admissible(t)
       \/ m \in FirstInputs /\ stage[m] = "ready" /\ t = site[m]
    /\ stage' = [stage EXCEPT ![m] = "native"]
    /\ site' = [site EXCEPT ![m] = t]
    /\ native' = [native EXCEPT ![m] = "transit"]
    /\ UNCHANGED <<targets, todo, delivery, coverVars, handoffVars, life, restarts>>

\* External: the call reaches the runtime, where it shows; its work ends; or it
\* is dropped on the way.
NativeArrives(m) ==
    /\ native[m] = "transit"
    /\ native' = [native EXCEPT ![m] = "running"]
    /\ UNCHANGED <<stage, targets, todo, site, delivery, coverVars, handoffVars, life, restarts>>

NativeEnds(m) ==
    /\ native[m] \in {"transit", "running"}
    /\ native' = [native EXCEPT ![m] = "done"]
    /\ UNCHANGED <<stage, targets, todo, site, delivery, coverVars, handoffVars, life, restarts>>

\* Mutant: an ambiguous failure settles the evidence too.
CallSettlesAnyway(m) ==
    /\ stage[m] = "native"
    /\ m \notin FirstInputs
    /\ End(m)
    /\ UNCHANGED <<targets, todo, site, native, delivery, coverage, lost, window, handoffVars, life, restarts>>

\* The call returns with an outcome that settles its evidence: accepted and
\* started, handled, or rejected without effect.
CallSettles(m) ==
    /\ stage[m] = "native"
    /\ m \notin FirstInputs
    /\ native[m] # "transit"
    /\ End(m)
    /\ UNCHANGED <<targets, todo, site, native, delivery, coverage, lost, window, handoffVars, life, restarts>>

\* The call fails or is merely queued: the evidence stays.  The record settles,
\* so the other targets are settled.
CallUnresolved(m) ==
    /\ stage[m] = "native"
    /\ stage' = [stage EXCEPT ![m] = "open"]
    /\ Notify({t \in targets[m] \ {site[m]} : ~UnsettledBy(Mutations \ {m}, t)})
    /\ UNCHANGED <<targets, todo, site, native, delivery, coverage, lost, window, handoffVars, life, restarts>>

\* Later evidence settles the effect (onAcceptance, a correlated observation).  A
\* first input's is settled by the boundary, which listens to deliveries until it
\* closes: "started" or "handled" settles it before the delivery is resolved.
EvidenceSettles(m) ==
    /\ stage[m] = "open"
    /\ m \in FirstInputs => life = "up"
    /\ native[m] # "transit"
    /\ End(m)
    /\ UNCHANGED <<targets, todo, site, native, delivery, coverage, lost, window, handoffVars, life, restarts>>

\* A first input's delivery is resolved durably: reconcile finds its native input
\* started or handled.  The process that dispatched it settles its evidence, if
\* it has not.
DeliverySettles(m) ==
    /\ delivery[m] = "open"
    /\ stage[m] \in {"open", "forgotten", "over", "lost"}
    /\ native[m] \in {"running", "done"}
    /\ delivery' = [delivery EXCEPT ![m] = "settled"]
    /\ IF stage[m] = "open" /\ life = "up"
       THEN End(m)
       ELSE UNCHANGED <<stage, queued>>
    /\ UNCHANGED <<targets, todo, site, native, coverage, lost, window, handoffVars, life, restarts>>

-----------------------------------------------------------------------------
(* Coverage.                                                               *)

\* Mutant: an emptied cache certifies that nothing is unsettled.
CleanUnretired(t) == ~Unsettled(t)

\* Mutant: does not ask whether work is unsettled.
CleanAlways(t) == life # "retired"

Clean(t) == life # "retired" /\ ~Unsettled(t)

\* Mutant: any settled first input at the session clears it.
ResolvedByAny(t) == \E m \in Mutations : delivery[m] = "settled" /\ site[m] = t

\* Lost coverage is cleared only by the resolved delivery of the prepared
\* first input it names.
Resolved(t) ==
    /\ coverage[t].prepared
    /\ delivery[coverage[t].op] = "settled"
    /\ site[coverage[t].op] = t

Clears(t) == Marked(t) /\ Clean(t) /\ (Fenced(t) => Resolved(t))
CoverageWithout(T) == [t \in Sessions |-> IF t \in T /\ Clears(t) THEN NoMarker ELSE coverage[t]]

\* clearMutation, reached from a settlement, the restart timer or a readiness
\* check.
Clear(t) ==
    /\ t \in queued \/ life = "up"
    /\ coverage' = CoverageWithout({t})
    /\ lost' = IF Clears(t) \/ ~Marked(t) THEN lost \ {t}
               ELSE IF Clean(t) THEN StillLost({t}) ELSE lost
    /\ queued' = queued \ {t}
    /\ UNCHANGED <<workVars, window, handoffVars, life, restarts>>

\* External: RESTART_SETTLE_MS pass.  The length is chosen so that nothing the
\* previous process sent is still on its way.
RestartSettles ==
    /\ window \in {"running", "unarmed"}
    /\ \A m \in Mutations : stage[m] = "lost" => native[m] # "transit"
    /\ window' = IF window = "running" THEN "elapsed" ELSE "fired"
    /\ UNCHANGED <<workVars, coverage, lost, queued, handoffVars, life, restarts>>

\* scheduleRestartSettlement: the timer fires a second later, once.
RestartTimer ==
    /\ window = "elapsed"
    /\ window' = "fired"
    /\ Notify({t \in lost : Marked(t) /\ ~FirstInputUnresolved(t)})
    /\ UNCHANGED <<workVars, coverage, lost, handoffVars, life, restarts>>

-----------------------------------------------------------------------------
(* A handoff.                                                              *)

NoneActive == \A h \in Handoffs : phase[h] \notin Active

\* releaseReservation.
Release(h) == reservations' = [reservations EXCEPT ![h] = {}]

\* check, inspectSuccession: reconcileCoverage clears the mark of each session
\* that is settled, then nothing may be fenced, unsettled or running.
Inspect(T) ==
    /\ life = "up"
    /\ \A t \in T : (Fenced(t) => Clears(t)) /\ ~Unsettled(t) /\ HostIdle(t) /\ ~FirstInputUnresolved(t)
    /\ coverage' = CoverageWithout(T)
    /\ lost' = lost \ T

\* beginPreparation: checkSource, then the native readiness check.
CheckSource(h) ==
    /\ phase[h] = "idle"
    /\ Quiescent(current)
    /\ Inspect({current})
    /\ phase' = [phase EXCEPT ![h] = "checked"]
    /\ from' = [from EXCEPT ![h] = current]
    /\ UNCHANGED <<workVars, window, queued, to, reservations, current, life, restarts>>

\* A failed check, or a provider without support, leaves a begun record without
\* reservation, to be rejected.
CheckFails(h) ==
    /\ phase[h] = "idle"
    /\ NoneActive
    /\ phase' = [phase EXCEPT ![h] = "begun"]
    /\ from' = [from EXCEPT ![h] = current]
    /\ lost' = StillLost({current})
    /\ UNCHANGED <<workVars, coverage, window, queued, to, reservations, current, life, restarts>>

\* reserve.
Reserve(h) ==
    /\ phase[h] = "checked"
    /\ Admissible(from[h])
    /\ Quiescent(from[h])
    /\ phase' = [phase EXCEPT ![h] = "reserved"]
    /\ reservations' = [reservations EXCEPT ![h] = {from[h]}]
    /\ lost' = StillLost({from[h]})
    /\ UNCHANGED <<workVars, coverage, window, queued, from, to, current, life, restarts>>

\* Nothing is recorded yet: the caller gets the error and may try again.
ReserveFails(h) ==
    /\ phase[h] = "checked"
    /\ ~(Admissible(from[h]) /\ Quiescent(from[h]))
    /\ phase' = [phase EXCEPT ![h] = "idle"]
    /\ from' = [from EXCEPT ![h] = None]
    /\ UNCHANGED <<workVars, coverVars, to, reservations, current, life, restarts>>

\* store.begin: one handoff of the role at a time, from its current session.
Begin(h) ==
    /\ phase[h] = "reserved"
    /\ IF from[h] = current /\ NoneActive
       THEN /\ phase' = [phase EXCEPT ![h] = "begun"]
            /\ UNCHANGED <<from, reservations>>
       ELSE /\ phase' = [phase EXCEPT ![h] = "idle"]
            /\ from' = [from EXCEPT ![h] = None]
            /\ Release(h)
    /\ UNCHANGED <<workVars, coverVars, to, current, life, restarts>>

\* startCreation is durable, then the provider creates a session.  It exists,
\* and may get work, before this Controller hears of it.
Create(h, t) ==
    /\ phase[h] = "begun"
    /\ reservations[h] # {}
    /\ Inspect({from[h]})
    /\ ~Exists(t)
    /\ phase' = [phase EXCEPT ![h] = "creating"]
    /\ to' = [to EXCEPT ![h] = t]
    /\ UNCHANGED <<workVars, window, queued, from, reservations, current, life, restarts>>

\* The creation fails ambiguously: the record is unknown, the source stays held.
CreateUnknown(h) ==
    /\ phase[h] = "creating"
    /\ phase' = [phase EXCEPT ![h] = "uncertain"]
    /\ UNCHANGED <<workVars, coverVars, from, to, reservations, current, life, restarts>>

\* Mutant: a busy candidate is not noticed.
ConflictUnseen(h, t) == FALSE

\* registerCandidate's conflict.
Conflict(h, t) ==
    \/ Unsettled(t)
    \/ \E other \in Handoffs \ {h} : t \in reservations[other]

\* registerCandidate and saveCandidate.  A session that is busy already is
\* reserved and recorded too, and the preparation fails next.
Candidate(h) ==
    /\ phase[h] = "creating"
    /\ phase' = [phase EXCEPT ![h] = IF reservations[h] # {} /\ Conflict(h, to[h]) THEN "busy" ELSE "known"]
    /\ reservations' = [reservations EXCEPT ![h] = IF @ = {} THEN @ ELSE @ \cup {to[h]}]
    /\ UNCHANGED <<workVars, coverVars, from, to, current, life, restarts>>

\* finishCandidate: the candidate and both ends are verified.
Ready(h) ==
    /\ phase[h] = "known"
    /\ reservations[h] # {}
    /\ Inspect({from[h], to[h]})
    /\ phase' = [phase EXCEPT ![h] = "ready"]
    /\ UNCHANGED <<workVars, window, queued, from, to, reservations, current, life, restarts>>

\* commit: verify (whose reconciliations are steps of Clear), assertCommit, the
\* durable decision, the release.
Commit(h) ==
    /\ phase[h] = "ready"
    /\ from[h] = current
    /\ reservations[h] # {}
    /\ \A other \in Handoffs \ {h} : reservations[other] \cap reservations[h] = {}
    /\ \A t \in reservations[h] : Idle(t)
    /\ phase' = [phase EXCEPT ![h] = "committed"]
    /\ current' = to[h]
    /\ Release(h)
    /\ lost' = StillLost(reservations[h])
    /\ UNCHANGED <<workVars, coverage, window, queued, from, to, life, restarts>>

\* failPreparation of what is safe to reject: any step may fail.  A creation may
\* be rejected for certain, with or without a session left over.
Fail(h) ==
    /\ phase[h] \in {"begun", "creating", "known", "busy"}
    /\ phase' = [phase EXCEPT ![h] = "rejected"]
    /\ Release(h)
    /\ UNCHANGED <<workVars, coverVars, from, to, current, life, restarts>>

Cancel(h) ==
    /\ phase[h] \in Active
    /\ phase' = [phase EXCEPT ![h] = "cancelled"]
    /\ Release(h)
    /\ UNCHANGED <<workVars, coverVars, from, to, current, life, restarts>>

\* reconcileReady after a restart: without a candidate the handoff is rejected,
\* otherwise its record is revalidated.
Reconcile(h) ==
    /\ phase[h] = "unknown"
    /\ phase' = [phase EXCEPT ![h] = IF to[h] = None THEN "rejected" ELSE "known"]
    /\ UNCHANGED <<workVars, coverVars, from, to, reservations, current, life, restarts>>

\* reserve(restored) and registerCandidate.  The record still blocks its own
\* sessions, so the restored reservation is not validated.
ReserveAgain(h) ==
    /\ phase[h] = "known"
    /\ reservations[h] = {}
    /\ Inspect({from[h]})
    /\ ~Reserved(from[h])
    /\ ~Conflict(h, to[h])
    /\ reservations' = [reservations EXCEPT ![h] = {from[h], to[h]}]
    /\ UNCHANGED <<workVars, window, queued, phase, from, to, current, life, restarts>>

-----------------------------------------------------------------------------
(* The Controller's life.                                                  *)

\* close: admission and settlement subscriptions end.
Close ==
    /\ life = "up"
    /\ life' = "closing"
    /\ UNCHANGED <<workVars, coverVars, handoffVars, restarts>>

\* Coverage writes are drained or timed out: coverageRetired, reservations go.
Retire ==
    /\ life = "closing"
    /\ life' = "retired"
    /\ reservations' = [h \in Handoffs |-> {}]
    /\ UNCHANGED <<workVars, coverVars, phase, from, to, current, restarts>>

\* The cache closes with the Relay, waits for what is in flight and is emptied.
\* Coverage that is still being cleared must not believe it.
Forget ==
    /\ life = "retired"
    /\ \A m \in Mutations : stage[m] \notin InFlight
    /\ \E m \in Mutations : stage[m] = "open"
    /\ stage' = [m \in Mutations |-> IF stage[m] = "open" THEN "forgotten" ELSE stage[m]]
    /\ UNCHANGED <<targets, todo, site, native, delivery, coverVars, handoffVars, life, restarts>>

\* The process ends, by close or by crash, and the next one restores its files.
Restart ==
    /\ restarts < MaxRestarts
    /\ restarts' = restarts + 1
    /\ life' = "up"
    /\ stage' = [m \in Mutations |-> IF stage[m] \in InFlight \cup {"open", "forgotten"} THEN "lost" ELSE stage[m]]
    /\ todo' = [m \in Mutations |-> {}]
    /\ lost' = {t \in Sessions : Marked(t)}
    /\ window' = IF \E t \in Sessions : Marked(t) /\ ~FirstInputUnresolved(t)
                 THEN "running" ELSE "unarmed"
    /\ queued' = {}
    /\ phase' = [h \in Handoffs |-> IF phase[h] \in {"creating", "uncertain"} THEN "uncertain"
                                    ELSE IF phase[h] \in Active THEN "unknown"
                                    ELSE IF phase[h] \in {"checked", "reserved"} THEN "idle" ELSE phase[h]]
    /\ from' = [h \in Handoffs |-> IF phase[h] \in {"checked", "reserved"} THEN None ELSE from[h]]
    /\ reservations' = [h \in Handoffs |-> {}]
    /\ UNCHANGED <<targets, site, native, delivery, coverage, to, current>>

-----------------------------------------------------------------------------
MutationStep(m) ==
    \/ \E T \in SUBSET Sessions \ {{}} : Admit(m, T)
    \/ \E t \in Sessions : Mark(m, t) \/ BeginFirstInput(m, t) \/ Call(m, t)
    \/ PrepareFirstInput(m) \/ Refuse(m)
    \/ CallSettles(m) \/ CallUnresolved(m) \/ EvidenceSettles(m) \/ DeliverySettles(m)
    \/ NativeArrives(m) \/ NativeEnds(m)

HandoffStep(h) ==
    \/ CheckSource(h) \/ CheckFails(h) \/ Reserve(h) \/ ReserveFails(h) \/ Begin(h)
    \/ \E t \in Sessions : Create(h, t)
    \/ CreateUnknown(h) \/ Candidate(h)
    \/ Ready(h) \/ Commit(h) \/ Fail(h) \/ Cancel(h) \/ Reconcile(h) \/ ReserveAgain(h)

Next ==
    \/ \E m \in Mutations : MutationStep(m)
    \/ \E h \in Handoffs : HandoffStep(h)
    \/ \E t \in Sessions : Clear(t)
    \/ RestartSettles \/ RestartTimer \/ Close \/ Retire \/ Forget \/ Restart

Spec == Init /\ [][Next]_vars

\* Queued writes are carried out, timers fire, native work ends.
Fairness ==
    /\ \A t \in Sessions : WF_vars(t \in queued /\ Clear(t))
    /\ WF_vars(RestartSettles)
    /\ WF_vars(RestartTimer)
    /\ \A m \in Mutations : WF_vars(NativeEnds(m))

FairSpec == Spec /\ Fairness

-----------------------------------------------------------------------------
(* Properties.                                                             *)

\* Type: every variable stays in its range.
TypeOK ==
    /\ stage \in [Mutations -> Stages]
    /\ targets \in [Mutations -> SUBSET Sessions]
    /\ todo \in [Mutations -> SUBSET Sessions]
    /\ site \in [Mutations -> Sessions \cup {None}]
    /\ native \in [Mutations -> {"none", "transit", "running", "done"}]
    /\ delivery \in [Mutations -> {"none", "open", "settled"}]
    /\ coverage \in [Sessions -> Marker]
    /\ lost \subseteq Sessions
    /\ window \in {"running", "unarmed", "elapsed", "fired"}
    /\ queued \subseteq Sessions
    /\ phase \in [Handoffs -> Phases]
    /\ from \in [Handoffs -> Sessions \cup {None}]
    /\ to \in [Handoffs -> Sessions \cup {None}]
    /\ reservations \in [Handoffs -> SUBSET Sessions]
    /\ current \in Sessions
    /\ life \in {"up", "closing", "retired"}
    /\ restarts \in 0..MaxRestarts

\* While a handoff holds a session, nothing the Controller dispatched there is
\* unsettled, except where the candidate was found busy and the handoff is
\* about to be rejected.  Admission, reservation and candidate registration
\* each look at the other's state between awaits.
ReservedQuiet ==
    \A h \in Handoffs : phase[h] # "busy" =>
        \A t \in reservations[h] : ~Unsettled(t)

\* A superseded session gets no work of this Controller any more.
SupersededQuiet ==
    \A h \in Handoffs : phase[h] = "committed" => ~Unsettled(from[h])

\* A committed handoff leaves no native work at its source, neither of this
\* process nor of one that crashed: what the successor was told is all there is.
NoWorkLeftBehind ==
    \A h \in Handoffs, m \in Mutations :
        phase[h] = "committed" /\ site[m] = from[h] => native[m] \notin {"transit", "running"}

\* Every call that may still take effect has a durable mark on its session, so
\* that the next process would know of it, also when the cache was emptied at
\* shutdown and this one no longer does.
Covered ==
    \A m \in Mutations : stage[m] \in {"native", "open", "forgotten"} => Marked(site[m])

\* What a dead process may still have on its way to a session is fenced: "A
\* marker restored from the previous process [...] fences succession while that
\* work could still reach the native session".
FenceHolds ==
    \A m \in Mutations : stage[m] = "lost" /\ native[m] = "transit" => Fenced(site[m])

\* The role moves only from a source and to a candidate without native work.
CommitFindsQuiet ==
    [][\A h \in Handoffs : phase[h] # "committed" /\ phase'[h] = "committed" =>
           \A m \in Mutations : site[m] \in {from[h], to[h]} => native[m] \in {"none", "done"}]_vars

\* If the Controller stays up and all work settles, every mark goes, including
\* those a crash left on sessions nobody opens again: none is fenced again on a
\* later start.
MarkersEnd ==
    <>[](life = "up" /\ \A t \in Sessions : ~Unsettled(t)) => <>[](\A t \in Sessions : ~Marked(t))

\* The fence of a restart does not last, whatever is done meanwhile.
FenceEnds ==
    \A t \in Sessions : t \in lost ~> ~Fenced(t)

\* What is written down for a crash does not outlive its use.
MarksEnd == MarkersEnd /\ FenceEnds
=============================================================================
