---------------------- MODULE SuccessionBoundaryProofs ----------------------
(***************************************************************************)
(* Proofs about handoffs and mutations for every number of mutations,      *)
(* handoffs, sessions and restarts.                                        *)
(***************************************************************************)
EXTENDS SuccessionBoundary, TLAPS

\* Inductive part of TypeOK: a handoff under way has its two ends.
Ends ==
    \A h \in Handoffs :
        /\ phase[h] # "idle" => from[h] # None
        /\ phase[h] \in {"creating", "known", "busy", "ready", "committed"} => to[h] # None

\* Candidates are new, and a handoff leaves from what existed at the start or a
\* committed candidate, so no handoff leads back to a session once left.
Handed == Existing \cup {to[h] : h \in {g \in Handoffs : phase[g] = "committed"}}

Lineage ==
    /\ current \in Handed
    /\ \A h \in Handoffs :
          /\ phase[h] # "idle" => from[h] \in Handed
          /\ to[h] \notin Existing
          /\ phase[h] = "committed" => from[h] # current
          /\ \A g \in Handoffs \ {h} : to[h] = to[g] => to[h] = None

\* Work goes where it was admitted for, with all marks in place.
Dispatched ==
    \A m \in Mutations :
        /\ stage[m] = "idle" => delivery[m] = "none"
        /\ \/ stage[m] \in {"ready", "native", "open", "forgotten"}
           \/ stage[m] = "admitted" /\ delivery[m] = "open"
           => site[m] \in targets[m] /\ todo[m] = {}

\* A mark stays until all the work it covers has settled.
MarksKept ==
    \A m \in Mutations, t \in Sessions :
        \/ stage[m] \in InFlight /\ t \in targets[m] \ todo[m]
        \/ stage[m] \in {"open", "forgotten"} /\ t = site[m]
        => Marked(t)

\* Evidence is forgotten only once nobody clears marks on its word.
RetiredFirst == \A m \in Mutations : stage[m] = "forgotten" => life = "retired"

\* A reservation is held for an unfinished handoff, on its source at least.
SourceHeld ==
    \A h \in Handoffs : reservations[h] # {} =>
        phase[h] \in ({"reserved"} \cup Active) \ {"unknown"} /\ from[h] \in reservations[h]

\* The next three hold where no mutation is a prepared first input.
\* Nothing is prepared.
NoPrepared ==
    /\ \A m \in Mutations : delivery[m] = "none"
    /\ \A t \in Sessions : ~coverage[t].prepared

\* The Controller settles no call that is still on its way.
Afoot == \A m \in Mutations : native[m] = "transit" => stage[m] \in {"native", "open", "forgotten", "lost"}

\* What a dead process left on its way is marked, and feared while the window
\* runs.
Feared ==
    \A m \in Mutations : stage[m] = "lost" /\ native[m] = "transit" =>
        /\ site[m] \in lost /\ Marked(site[m])
        /\ window \in {"running", "unarmed"}

-----------------------------------------------------------------------------
(* Types.                                                                  *)

\* Marks are markers, whatever is marked or cleared.
LEMMA MarkType ==
    ASSUME TypeOK, NEW m \in Mutations, NEW t \in Sessions
    PROVE  /\ NoMarker \in Marker
           /\ MarkedBy(m, t) \in Marker
<1>1. NoMarker \in Marker
  BY DEF NoMarker, Marker
<1>2. \A n \in Mutations \cup {None} : [op |-> n, prepared |-> FALSE, set |-> TRUE] \in Marker
  BY DEF Marker
<1>. QED
  BY <1>1, <1>2 DEF TypeOK, MarkedBy

\* Clearing and asking keep the types of the coverage.
LEMMA CoverType ==
    ASSUME TypeOK, NEW T
    PROVE  /\ CoverageWithout(T) \in [Sessions -> Marker]
           /\ StillLost(T) \subseteq Sessions
           /\ Inspect(T) => coverage' \in [Sessions -> Marker] /\ lost' \subseteq Sessions
<1>1. NoMarker \in Marker
  BY DEF NoMarker, Marker
<1>. QED
  BY <1>1 DEF TypeOK, CoverageWithout, StillLost, Inspect

\* What subscribers hear of are sessions.
LEMMA EndType ==
    ASSUME TypeOK, NEW m \in Mutations
    PROVE  /\ \A ts \in SUBSET Sessions : Notify(ts) => queued' \subseteq Sessions
           /\ End(m) => stage' \in [Mutations -> Stages] /\ queued' \subseteq Sessions
<1>1. \A ts \in SUBSET Sessions : Notify(ts) => queued' \subseteq Sessions
  BY DEF TypeOK, Notify
<1>2. {t \in targets[m] : ~UnsettledBy(Mutations \ {m}, t)} \in SUBSET Sessions
  BY DEF TypeOK
<1>3. "over" \in Stages
  BY DEF Stages
<1>. QED
  BY <1>1, <1>2, <1>3 DEF TypeOK, End

\* A step of a mutation keeps the types and leaves the handoffs alone.
LEMMA MutationTypes ==
    ASSUME TypeOK, NEW m \in Mutations, MutationStep(m)
    PROVE  TypeOK' /\ UNCHANGED <<handoffVars, life, restarts>>
<1>. USE DEF TypeOK, Stages, workVars, coverVars, handoffVars
<1>1. ASSUME NEW T \in SUBSET Sessions \ {{}}, Admit(m, T)
      PROVE  TypeOK' /\ UNCHANGED <<handoffVars, life, restarts>>
  BY <1>1 DEF Admit
<1>2. ASSUME NEW t \in Sessions, Mark(m, t)
      PROVE  TypeOK' /\ UNCHANGED <<handoffVars, life, restarts>>
  BY <1>2, MarkType, CoverType DEF Mark
<1>3. ASSUME NEW t \in Sessions, BeginFirstInput(m, t)
      PROVE  TypeOK' /\ UNCHANGED <<handoffVars, life, restarts>>
  BY <1>3 DEF BeginFirstInput
<1>4. ASSUME NEW t \in Sessions, Call(m, t)
      PROVE  TypeOK' /\ UNCHANGED <<handoffVars, life, restarts>>
  BY <1>4 DEF Call
<1>5. CASE PrepareFirstInput(m)
  <2>1. \A k \in Marker : [k EXCEPT !.prepared = TRUE] \in Marker
    BY DEF Marker
  <2>. QED
    BY <1>5, <2>1 DEF PrepareFirstInput
<1>6. CASE Refuse(m)
  BY <1>6, EndType DEF Refuse
<1>7. CASE CallSettles(m)
  BY <1>7, EndType DEF CallSettles
<1>8. CASE CallUnresolved(m)
  <2>1. {t \in targets[m] \ {site[m]} : ~UnsettledBy(Mutations \ {m}, t)} \in SUBSET Sessions
    OBVIOUS
  <2>. QED
    BY <1>8, <2>1, EndType DEF CallUnresolved
<1>9. CASE EvidenceSettles(m)
  BY <1>9, EndType DEF EvidenceSettles
<1>10. CASE DeliverySettles(m)
  BY <1>10, EndType DEF DeliverySettles
<1>11. CASE NativeArrives(m)
  BY <1>11 DEF NativeArrives
<1>12. CASE NativeEnds(m)
  BY <1>12 DEF NativeEnds
<1>. QED
  BY <1>1, <1>2, <1>3, <1>4, <1>5, <1>6, <1>7, <1>8, <1>9, <1>10, <1>11, <1>12 DEF MutationStep

\* A step of a handoff keeps the types and the ends, and leaves the work alone.
LEMMA HandoffTypes ==
    ASSUME TypeOK, Ends, NEW h \in Handoffs, HandoffStep(h)
    PROVE  TypeOK' /\ Ends' /\ UNCHANGED workVars
<1>. USE BoundaryAssumption DEF BoundaryAssumption, TypeOK, Ends, Phases, Active, Named, workVars, coverVars, Release
<1>1. ASSUME NEW t \in Sessions, Create(h, t)
      PROVE  TypeOK' /\ Ends' /\ UNCHANGED workVars
  BY <1>1, CoverType DEF Create
<1>2. CASE CheckSource(h)
  BY <1>2, CoverType DEF CheckSource
<1>3. CASE CheckFails(h)
  BY <1>3, CoverType DEF CheckFails
<1>4. CASE Reserve(h)
  BY <1>4, CoverType DEF Reserve
<1>5. CASE ReserveFails(h)
  BY <1>5, CoverType DEF ReserveFails
<1>6. CASE Begin(h)
  BY <1>6, CoverType DEF Begin
<1>7. CASE CreateUnknown(h)
  BY <1>7, CoverType DEF CreateUnknown
<1>8. CASE Candidate(h)
  BY <1>8, CoverType DEF Candidate
<1>9. CASE Ready(h)
  BY <1>9, CoverType DEF Ready
<1>10. CASE Commit(h)
  BY <1>10, CoverType DEF Commit
<1>11. CASE Fail(h)
  BY <1>11, CoverType DEF Fail
<1>12. CASE Cancel(h)
  BY <1>12, CoverType DEF Cancel
<1>13. CASE Reconcile(h)
  BY <1>13, CoverType DEF Reconcile
<1>14. CASE ReserveAgain(h)
  BY <1>14, CoverType DEF ReserveAgain
<1>. QED
  BY <1>1, <1>2, <1>3, <1>4, <1>5, <1>6, <1>7, <1>8, <1>9, <1>10, <1>11, <1>12, <1>13, <1>14 DEF HandoffStep

\* Every variable keeps its type, and a handoff under way its two ends.
THEOREM TypeCorrect == Spec => [](TypeOK /\ Ends)
<1>1. Init => TypeOK /\ Ends
  BY BoundaryAssumption DEF BoundaryAssumption, Init, TypeOK, Ends, NoMarker, Marker, Stages, Phases, Active, Named
<1>2. TypeOK /\ Ends /\ [Next]_vars => (TypeOK /\ Ends)'
  <2>. SUFFICES ASSUME TypeOK, Ends, [Next]_vars
                PROVE  (TypeOK /\ Ends)'
    OBVIOUS
  <2>1. ASSUME NEW m \in Mutations, MutationStep(m)
        PROVE  (TypeOK /\ Ends)'
    BY <2>1, MutationTypes DEF Ends, handoffVars
  <2>2. ASSUME NEW h \in Handoffs, HandoffStep(h)
        PROVE  (TypeOK /\ Ends)'
    BY <2>2, HandoffTypes
  <2>3. ASSUME NEW t \in Sessions, Clear(t)
        PROVE  (TypeOK /\ Ends)'
    BY <2>3, CoverType DEF Clear, TypeOK, Ends, workVars, handoffVars
  <2>4. CASE RestartSettles
    BY <2>4 DEF RestartSettles, TypeOK, Ends, workVars, handoffVars
  <2>5. CASE RestartTimer
    <3>1. {t \in lost : Marked(t) /\ ~FirstInputUnresolved(t)} \in SUBSET Sessions
      BY DEF TypeOK
    <3>2. queued' \subseteq Sessions
      BY <2>5, <3>1 DEF RestartTimer, Notify, TypeOK
    <3>. QED
      BY <2>5, <3>2 DEF RestartTimer, TypeOK, Ends, workVars, handoffVars
  <2>6. CASE Close
    BY <2>6 DEF Close, TypeOK, Ends, workVars, coverVars, handoffVars
  <2>7. CASE Retire
    BY <2>7 DEF Retire, TypeOK, Ends, workVars, coverVars
  <2>8. CASE Restart
    BY <2>8, BoundaryAssumption DEF BoundaryAssumption, Restart, TypeOK, Ends, Stages, Phases, Active, Named
  <2>9. CASE Forget
    BY <2>9 DEF Forget, TypeOK, Ends, Stages, coverVars, handoffVars
  <2>10. CASE UNCHANGED vars
    BY <2>10 DEF vars, TypeOK, Ends, workVars, coverVars, handoffVars
  <2>. QED
    BY <2>1, <2>2, <2>3, <2>4, <2>5, <2>6, <2>7, <2>8, <2>9, <2>10 DEF Next
<1>. QED
  BY <1>1, <1>2, PTL DEF Spec

-----------------------------------------------------------------------------
(* Every call that may take effect is marked.                              *)

\* Work goes where it was admitted for.
LEMMA DispatchedStep ==
    ASSUME TypeOK, Dispatched, NEW m \in Mutations, MutationStep(m)
    PROVE  Dispatched'
<1>. USE DEF TypeOK, Dispatched
<1>1. ASSUME NEW T \in SUBSET Sessions \ {{}}, Admit(m, T)
      PROVE  Dispatched'
  BY <1>1 DEF Admit
<1>2. ASSUME NEW t \in Sessions, Mark(m, t)
      PROVE  Dispatched'
  BY <1>2 DEF Mark
<1>3. ASSUME NEW t \in Sessions, BeginFirstInput(m, t)
      PROVE  Dispatched'
  BY <1>3 DEF BeginFirstInput, MarksWritten
<1>4. ASSUME NEW t \in Sessions, Call(m, t)
      PROVE  Dispatched'
  BY <1>4 DEF Call, MarksWritten
<1>5. CASE PrepareFirstInput(m)
  BY <1>5 DEF PrepareFirstInput
<1>6. CASE Refuse(m)
  BY <1>6 DEF Refuse, End
<1>7. CASE CallSettles(m)
  BY <1>7 DEF CallSettles, End
<1>8. CASE CallUnresolved(m)
  BY <1>8 DEF CallUnresolved
<1>9. CASE EvidenceSettles(m)
  BY <1>9 DEF EvidenceSettles, End
<1>10. CASE DeliverySettles(m)
  BY <1>10 DEF DeliverySettles, End
<1>11. CASE NativeArrives(m)
  BY <1>11 DEF NativeArrives
<1>12. CASE NativeEnds(m)
  BY <1>12 DEF NativeEnds
<1>. QED
  BY <1>1, <1>2, <1>3, <1>4, <1>5, <1>6, <1>7, <1>8, <1>9, <1>10, <1>11, <1>12 DEF MutationStep

\* A step of a mutation writes marks and takes none away.
LEMMA MarksStay ==
    ASSUME TypeOK, NEW m \in Mutations, MutationStep(m), NEW t \in Sessions, Marked(t)
    PROVE  Marked(t)'
<1>1. ASSUME NEW u \in Sessions, Mark(m, u)
      PROVE  Marked(t)'
  BY <1>1 DEF Mark, MarkedBy, Marked, TypeOK
<1>2. CASE PrepareFirstInput(m)
  BY <1>2 DEF PrepareFirstInput, Marked, TypeOK, Marker
<1>3. CASE UNCHANGED coverage
  BY <1>3 DEF Marked
<1>4. \/ \E u \in Sessions : Mark(m, u)
      \/ PrepareFirstInput(m)
      \/ UNCHANGED coverage
  BY DEF MutationStep, Admit, BeginFirstInput, Call, Refuse, CallSettles, CallUnresolved, EvidenceSettles,
         DeliverySettles, NativeArrives, NativeEnds, coverVars
<1>. QED
  BY <1>1, <1>2, <1>3, <1>4

\* So marks still cover what they covered, and what the step adds.
LEMMA MarksKeptMutation ==
    ASSUME TypeOK, Dispatched, MarksKept, NEW m \in Mutations, MutationStep(m)
    PROVE  MarksKept'
<1>. USE MarksStay DEF TypeOK, Dispatched, MarksKept, InFlight
<1>1. ASSUME NEW T \in SUBSET Sessions \ {{}}, Admit(m, T)
      PROVE  MarksKept'
  BY <1>1 DEF Admit
<1>2. ASSUME NEW t \in Sessions, Mark(m, t)
      PROVE  MarksKept'
  <2>1. Marked(t)'
    BY <1>2 DEF Mark, MarkedBy, Marked
  <2>2. \A u \in Sessions : Marked(u) => Marked(u)'
    BY <1>2, MarksStay DEF MutationStep
  <2>3. UNCHANGED <<stage, targets, site>> /\ todo' = [todo EXCEPT ![m] = @ \ {t}]
    BY <1>2 DEF Mark
  <2>. QED
    BY <2>1, <2>2, <2>3
<1>3. ASSUME NEW t \in Sessions, BeginFirstInput(m, t)
      PROVE  MarksKept'
  BY <1>3 DEF BeginFirstInput, MarksWritten
<1>4. ASSUME NEW t \in Sessions, Call(m, t)
      PROVE  MarksKept'
  BY <1>4 DEF Call, MarksWritten
<1>5. CASE PrepareFirstInput(m)
  BY <1>5 DEF PrepareFirstInput
<1>6. CASE Refuse(m)
  BY <1>6 DEF Refuse, End
<1>7. CASE CallSettles(m)
  BY <1>7 DEF CallSettles, End
<1>8. CASE CallUnresolved(m)
  BY <1>8 DEF CallUnresolved
<1>9. CASE EvidenceSettles(m)
  BY <1>9 DEF EvidenceSettles, End
<1>10. CASE DeliverySettles(m)
  BY <1>10 DEF DeliverySettles, End
<1>11. CASE NativeArrives(m)
  BY <1>11 DEF NativeArrives
<1>12. CASE NativeEnds(m)
  BY <1>12 DEF NativeEnds
<1>. QED
  BY <1>1, <1>2, <1>3, <1>4, <1>5, <1>6, <1>7, <1>8, <1>9, <1>10, <1>11, <1>12 DEF MutationStep

\* Clearing leaves the marks of unsettled work.
LEMMA ClearedSettled ==
    ASSUME TypeOK, MarksKept, RetiredFirst, UNCHANGED workVars,
           \/ \E T : coverage' = CoverageWithout(T)
           \/ UNCHANGED coverage
    PROVE  MarksKept'
<1>. SUFFICES ASSUME NEW m \in Mutations, NEW t \in Sessions,
                     \/ stage[m] \in InFlight /\ t \in targets[m] \ todo[m]
                     \/ stage[m] \in {"open", "forgotten"} /\ t = site[m]
              PROVE  Marked(t)'
  BY DEF MarksKept, workVars
<1>1. Marked(t)
  BY DEF MarksKept
<1>2. ~Clears(t)
  BY DEF Clears, Clean, Unsettled, UnsettledBy, RetiredFirst
<1>. QED
  BY <1>1, <1>2 DEF Marked, CoverageWithout, TypeOK

\* A step of a handoff clears what it inspects, and no more.
LEMMA HandoffCoverage ==
    ASSUME NEW h \in Handoffs, HandoffStep(h)
    PROVE  /\ \/ \E T : coverage' = CoverageWithout(T)
              \/ UNCHANGED coverage
           /\ UNCHANGED life
BY DEF HandoffStep, CheckSource, CheckFails, Reserve, ReserveFails, Begin, Create, CreateUnknown, Candidate,
       Ready, Commit, Fail, Cancel, Reconcile, ReserveAgain, Inspect, coverVars

\* No mutation's step forgets.
LEMMA RetiredFirstMutation ==
    ASSUME TypeOK, RetiredFirst, NEW m \in Mutations, MutationStep(m)
    PROVE  RetiredFirst'
<1>1. \A n \in Mutations : stage'[n] = "forgotten" => stage[n] = "forgotten"
  BY DEF TypeOK, MutationStep, Admit, Mark, BeginFirstInput, Call, PrepareFirstInput, Refuse, CallSettles,
         CallUnresolved, EvidenceSettles, DeliverySettles, NativeArrives, NativeEnds, End
<1>. QED
  BY <1>1, MutationTypes DEF RetiredFirst

\* The invariants of marks hold together.
LEMMA MarksInvariant == Spec => [](Dispatched /\ MarksKept /\ RetiredFirst)
<1>. DEFINE Inv == Dispatched /\ MarksKept /\ RetiredFirst
<1>1. Init => Inv
  BY DEF Init, Dispatched, MarksKept, RetiredFirst, InFlight
<1>2. TypeOK /\ Ends /\ Inv /\ [Next]_vars => Inv'
  <2>. SUFFICES ASSUME TypeOK, Ends, Inv, [Next]_vars
                PROVE  Inv'
    OBVIOUS
  <2>1. ASSUME NEW m \in Mutations, MutationStep(m)
        PROVE  Inv'
    BY <2>1, DispatchedStep, MarksKeptMutation, RetiredFirstMutation
  <2>2. ASSUME NEW h \in Handoffs, HandoffStep(h)
        PROVE  Inv'
    <3>1. UNCHANGED workVars
      BY <2>2, HandoffTypes
    <3>. QED
      BY <2>2, <3>1, HandoffCoverage, ClearedSettled DEF Dispatched, RetiredFirst, workVars
  <2>3. ASSUME NEW t \in Sessions, Clear(t)
        PROVE  Inv'
    BY <2>3, ClearedSettled DEF Clear, Dispatched, RetiredFirst, workVars
  <2>4. CASE UNCHANGED <<workVars, coverage>> /\ (life = "retired" => life' = "retired")
    BY <2>4, ClearedSettled DEF Dispatched, RetiredFirst, workVars
  <2>5. CASE Forget
    BY <2>5 DEF Forget, TypeOK, Dispatched, MarksKept, RetiredFirst, InFlight, Marked, coverVars
  <2>6. CASE Restart
    BY <2>6 DEF Restart, TypeOK, Stages, Dispatched, MarksKept, RetiredFirst, InFlight
  <2>7. RestartSettles \/ RestartTimer \/ Close \/ Retire \/ UNCHANGED vars
        => UNCHANGED <<workVars, coverage>> /\ (life = "retired" => life' = "retired")
    BY DEF RestartSettles, RestartTimer, Close, Retire, vars, workVars, coverVars
  <2>. QED
    BY <2>1, <2>2, <2>3, <2>4, <2>5, <2>6, <2>7 DEF Next
<1>. QED
  BY <1>1, <1>2, TypeCorrect, PTL DEF Spec

\* Every call that may still take effect has a durable mark (run marks all
\* targets before any work, reconcileCoverage clears only what is settled).
THEOREM MarksCover == Spec => []Covered
<1>1. TypeOK /\ Dispatched /\ MarksKept => Covered
  BY DEF TypeOK, Dispatched, MarksKept, Covered, InFlight
<1>. QED
  BY <1>1, MarksInvariant, TypeCorrect, PTL

-----------------------------------------------------------------------------
(* What a handoff holds, and what it left, is quiet.                       *)

\* A role never returns to a session it left.
LEMMA LineageStep ==
    ASSUME TypeOK, Ends, Lineage, NEW h \in Handoffs, HandoffStep(h)
    PROVE  Lineage'
<1>. USE BoundaryAssumption DEF BoundaryAssumption, TypeOK, Ends, Lineage, Handed
<1>1. ASSUME NEW t \in Sessions, Create(h, t)
      PROVE  Lineage'
  BY <1>1 DEF Create, Exists
<1>2. CASE CheckSource(h)
  BY <1>2 DEF CheckSource
<1>3. CASE CheckFails(h)
  BY <1>3 DEF CheckFails
<1>4. CASE Reserve(h)
  BY <1>4 DEF Reserve
<1>5. CASE ReserveFails(h)
  BY <1>5 DEF ReserveFails
<1>6. CASE Begin(h)
  BY <1>6 DEF Begin
<1>7. CASE CreateUnknown(h)
  BY <1>7 DEF CreateUnknown
<1>8. CASE Candidate(h)
  BY <1>8 DEF Candidate
<1>9. CASE Ready(h)
  BY <1>9 DEF Ready
<1>10. CASE Commit(h)
  BY <1>10 DEF Commit
<1>11. CASE Fail(h)
  BY <1>11 DEF Fail
<1>12. CASE Cancel(h)
  BY <1>12 DEF Cancel, Active, Named
<1>13. CASE Reconcile(h)
  BY <1>13 DEF Reconcile
<1>14. CASE ReserveAgain(h)
  BY <1>14 DEF ReserveAgain
<1>. QED
  BY <1>1, <1>2, <1>3, <1>4, <1>5, <1>6, <1>7, <1>8, <1>9, <1>10, <1>11, <1>12, <1>13, <1>14 DEF HandoffStep

\* Restoring the records changes neither which are committed nor their ends.
LEMMA LineageRestart ==
    ASSUME TypeOK, Lineage, Restart
    PROVE  Lineage'
<1>. DEFINE Done == {g \in Handoffs : phase[g] = "committed"}
<1>1. UNCHANGED <<to, current>>
  BY DEF Restart
<1>2. \A h \in Handoffs : phase'[h] = "committed" <=> phase[h] = "committed"
  BY DEF Restart, Active, Named, TypeOK
<1>3. \A h \in Handoffs : phase'[h] # "idle" => phase[h] # "idle" /\ from'[h] = from[h]
  BY DEF Restart, Active, Named, TypeOK
<1>4. Done' = Done
  BY <1>2
<1>5. Handed = Existing \cup {to[h] : h \in Done}
  BY DEF Handed
<1>6. Handed' = Existing \cup {to'[h] : h \in Done'}
  BY DEF Handed
<1>7. Handed' = Handed
  BY <1>1, <1>4, <1>5, <1>6
<1>8. \A h \in Handoffs : phase'[h] # "idle" => from'[h] \in Handed'
  BY <1>3, <1>7 DEF Lineage
<1>9. \A h \in Handoffs : phase'[h] = "committed" => from'[h] # current'
  BY <1>1, <1>2, <1>3 DEF Lineage
<1>10. /\ current' \in Handed'
       /\ \A h \in Handoffs : to'[h] \notin Existing
       /\ \A h \in Handoffs : \A g \in Handoffs \ {h} : to'[h] = to'[g] => to'[h] = None
  BY <1>1, <1>7 DEF Lineage
<1>. QED
  BY <1>8, <1>9, <1>10 DEF Lineage

\* Reservations come with their source and go with their handoff.
LEMMA HeldStep ==
    ASSUME TypeOK, SourceHeld, NEW h \in Handoffs, HandoffStep(h)
    PROVE  SourceHeld'
<1>. USE DEF TypeOK, SourceHeld, Active, Named, Release, handoffVars
<1>1. ASSUME NEW t \in Sessions, Create(h, t)
      PROVE  SourceHeld'
  BY <1>1 DEF Create, Exists
<1>2. CASE CheckSource(h)
  BY <1>2 DEF CheckSource
<1>3. CASE CheckFails(h)
  BY <1>3 DEF CheckFails
<1>4. CASE Reserve(h)
  BY <1>4 DEF Reserve
<1>5. CASE ReserveFails(h)
  BY <1>5 DEF ReserveFails
<1>6. CASE Begin(h)
  BY <1>6 DEF Begin
<1>7. CASE CreateUnknown(h)
  BY <1>7 DEF CreateUnknown
<1>8. CASE Candidate(h)
  BY <1>8 DEF Candidate
<1>9. CASE Ready(h)
  BY <1>9 DEF Ready
<1>10. CASE Commit(h)
  BY <1>10 DEF Commit
<1>11. CASE Fail(h)
  BY <1>11 DEF Fail
<1>12. CASE Cancel(h)
  BY <1>12 DEF Cancel
<1>13. CASE Reconcile(h)
  BY <1>13 DEF Reconcile
<1>14. CASE ReserveAgain(h)
  BY <1>14 DEF ReserveAgain
<1>. QED
  BY <1>1, <1>2, <1>3, <1>4, <1>5, <1>6, <1>7, <1>8, <1>9, <1>10, <1>11, <1>12, <1>13, <1>14 DEF HandoffStep

\* Only its admission makes a mutation's targets unsettled.
LEMMA OnlyAdmissionUnsettles ==
    ASSUME TypeOK, Dispatched, NEW m \in Mutations, MutationStep(m), NEW t, Unsettled(t)', ~Unsettled(t)
    PROVE  \E T \in SUBSET Sessions : t \in T /\ Admit(m, T)
<1>. USE DEF TypeOK, Unsettled, UnsettledBy, InFlight
<1>1. ASSUME NEW T \in SUBSET Sessions \ {{}}, Admit(m, T)
      PROVE  t \in T
  BY <1>1 DEF Admit
<1>2. ASSUME NEW u \in Sessions, Mark(m, u) \/ BeginFirstInput(m, u) \/ Call(m, u)
      PROVE  FALSE
  BY <1>2 DEF Mark, BeginFirstInput, Call, MarksWritten
<1>3. CASE CallUnresolved(m)
  BY <1>3 DEF CallUnresolved, Dispatched
<1>4. CASE Refuse(m) \/ CallSettles(m) \/ EvidenceSettles(m) \/ DeliverySettles(m)
  BY <1>4 DEF Refuse, CallSettles, EvidenceSettles, DeliverySettles, End
<1>5. CASE PrepareFirstInput(m) \/ NativeArrives(m) \/ NativeEnds(m)
  BY <1>5 DEF PrepareFirstInput, NativeArrives, NativeEnds
<1>. QED
  BY <1>1, <1>2, <1>3, <1>4, <1>5 DEF MutationStep

\* A mutation is not admitted for what is reserved or superseded.
LEMMA QuietMutation ==
    ASSUME TypeOK, Dispatched, Lineage, ReservedQuiet, SupersededQuiet, NEW m \in Mutations, MutationStep(m)
    PROVE  ReservedQuiet' /\ SupersededQuiet'
<1>1. UNCHANGED handoffVars
  BY MutationTypes
<1>2. ASSUME NEW t, Unsettled(t)', ~Unsettled(t)
      PROVE  ~Reserved(t) /\ ~Blocked(t)
  BY <1>2, OnlyAdmissionUnsettles DEF Admit, Admissible
<1>3. ReservedQuiet'
  <2>. SUFFICES ASSUME NEW h \in Handoffs, phase[h] # "busy", NEW t \in reservations[h], Unsettled(t)'
                PROVE  FALSE
    BY <1>1 DEF ReservedQuiet, handoffVars
  <2>. QED
    BY <1>2 DEF ReservedQuiet, Reserved
<1>4. SupersededQuiet'
  <2>. SUFFICES ASSUME NEW h \in Handoffs, phase[h] = "committed", NEW t, t = from[h], Unsettled(t)'
                PROVE  FALSE
    BY <1>1 DEF SupersededQuiet, Unsettled, UnsettledBy, handoffVars
  <2>1. ~Unsettled(t)
    BY DEF SupersededQuiet
  <2>2. Blocked(t)
    BY DEF Blocked, Lineage
  <2>. QED
    BY <1>2, <2>1, <2>2
<1>. QED
  BY <1>3, <1>4

\* A handoff takes hold of quiet sessions only.
LEMMA QuietHandoff ==
    ASSUME TypeOK, SourceHeld, ReservedQuiet, SupersededQuiet, NEW h \in Handoffs, HandoffStep(h), UNCHANGED workVars
    PROVE  ReservedQuiet' /\ SupersededQuiet'
<1>. DEFINE Quiet(t) == ~Unsettled(t)
<1>0. \A t : Unsettled(t)' <=> Unsettled(t)
  BY DEF Unsettled, UnsettledBy, workVars
<1>. SUFFICES /\ \A g \in Handoffs : phase'[g] # "busy" => \A t \in reservations'[g] : Quiet(t)
              /\ \A g \in Handoffs : phase'[g] = "committed" => Quiet(from'[g])
  BY <1>0 DEF ReservedQuiet, SupersededQuiet
<1>a. /\ \A g \in Handoffs : phase[g] # "busy" => \A t \in reservations[g] : Quiet(t)
      /\ \A g \in Handoffs : phase[g] = "committed" => Quiet(from[g])
  BY DEF ReservedQuiet, SupersededQuiet
<1>b. \A t : (Quiescent(t) => Quiet(t)) /\ (Idle(t) => Quiet(t)) /\ (~Conflict(h, t) => Quiet(t))
  BY DEF Quiescent, Idle, Conflict
<1>c. \A T : Inspect(T) => \A t \in T : Quiet(t)
  BY DEF Inspect
<1>. HIDE DEF Quiet
<1>. USE <1>a, <1>b, <1>c DEF TypeOK, Release, SourceHeld, handoffVars
<1>1. ASSUME NEW u \in Sessions, Create(h, u)
      PROVE  /\ \A g \in Handoffs : phase'[g] # "busy" => \A t \in reservations'[g] : Quiet(t)
             /\ \A g \in Handoffs : phase'[g] = "committed" => Quiet(from'[g])
  BY <1>1 DEF Create, Exists
<1>2. CASE CheckSource(h)
  BY <1>2 DEF CheckSource
<1>3. CASE CheckFails(h)
  BY <1>3 DEF CheckFails
<1>4. CASE Reserve(h)
  BY <1>4 DEF Reserve
<1>5. CASE ReserveFails(h)
  BY <1>5 DEF ReserveFails
<1>6. CASE Begin(h)
  BY <1>6 DEF Begin
<1>7. CASE CreateUnknown(h)
  BY <1>7 DEF CreateUnknown
<1>8. CASE Candidate(h)
  BY <1>8 DEF Candidate
<1>9. CASE Ready(h)
  BY <1>9 DEF Ready
<1>10. CASE Commit(h)
  BY <1>10 DEF Commit
<1>11. CASE Fail(h)
  BY <1>11 DEF Fail
<1>12. CASE Cancel(h)
  BY <1>12 DEF Cancel
<1>13. CASE Reconcile(h)
  BY <1>13 DEF Reconcile
<1>14. CASE ReserveAgain(h)
  BY <1>14 DEF ReserveAgain
<1>. QED
  BY <1>1, <1>2, <1>3, <1>4, <1>5, <1>6, <1>7, <1>8, <1>9, <1>10, <1>11, <1>12, <1>13, <1>14 DEF HandoffStep

\* The invariants of handoffs hold together.
LEMMA HandoffsQuiet == Spec => [](Dispatched /\ Lineage /\ SourceHeld /\ ReservedQuiet /\ SupersededQuiet)
<1>. DEFINE Inv == Dispatched /\ Lineage /\ SourceHeld /\ ReservedQuiet /\ SupersededQuiet
<1>1. Init => Inv
  BY BoundaryAssumption DEF BoundaryAssumption, Init, Dispatched, Lineage, Handed, SourceHeld, ReservedQuiet, SupersededQuiet
<1>2. TypeOK /\ Ends /\ Inv /\ [Next]_vars => Inv'
  <2>. SUFFICES ASSUME TypeOK, Ends, Inv, [Next]_vars
                PROVE  Inv'
    OBVIOUS
  <2>1. ASSUME NEW m \in Mutations, MutationStep(m)
        PROVE  Inv'
    <3>1. UNCHANGED handoffVars
      BY <2>1, MutationTypes
    <3>2. Lineage' /\ SourceHeld'
      BY <3>1 DEF Lineage, Handed, SourceHeld, handoffVars
    <3>. QED
      BY <2>1, <3>2, DispatchedStep, QuietMutation
  <2>2. ASSUME NEW h \in Handoffs, HandoffStep(h)
        PROVE  Inv'
    <3>1. UNCHANGED workVars
      BY <2>2, HandoffTypes
    <3>2. Dispatched'
      BY <3>1 DEF Dispatched, workVars
    <3>. QED
      BY <2>2, <3>1, <3>2, LineageStep, HeldStep, QuietHandoff
  <2>3. CASE UNCHANGED <<workVars, handoffVars>>
    BY <2>3 DEF Dispatched, Lineage, Handed, SourceHeld, ReservedQuiet, SupersededQuiet, Unsettled, UnsettledBy,
                workVars, handoffVars
  <2>4. CASE Retire
    BY <2>4 DEF Retire, Dispatched, Lineage, Handed, SourceHeld, ReservedQuiet, SupersededQuiet, Unsettled, UnsettledBy,
                workVars
  <2>5. CASE Restart
    <3>1. Dispatched'
      BY <2>5 DEF Restart, TypeOK, Dispatched, Stages
    <3>2. Lineage'
      BY <2>5, LineageRestart
    <3>3. SourceHeld' /\ ReservedQuiet'
      BY <2>5 DEF Restart, SourceHeld, ReservedQuiet
    <3>4. \A t : ~Unsettled(t)'
      BY <2>5 DEF Restart, TypeOK, Unsettled, UnsettledBy, InFlight
    <3>. QED
      BY <3>1, <3>2, <3>3, <3>4 DEF SupersededQuiet
  <2>6. CASE Forget
    <3>1. Dispatched'
      BY <2>6 DEF Forget, TypeOK, Dispatched
    <3>2. \A t : Unsettled(t)' => Unsettled(t)
      BY <2>6 DEF Forget, TypeOK, Unsettled, UnsettledBy, InFlight
    <3>. QED
      BY <2>6, <3>1, <3>2 DEF Forget, Lineage, Handed, SourceHeld, ReservedQuiet, SupersededQuiet, handoffVars
  <2>7. \/ RestartSettles \/ RestartTimer \/ Close \/ UNCHANGED vars
        \/ \E t \in Sessions : Clear(t)
        => UNCHANGED <<workVars, handoffVars>>
    BY DEF RestartSettles, RestartTimer, Close, Clear, vars
  <2>. QED
    BY <2>1, <2>2, <2>3, <2>4, <2>5, <2>6, <2>7 DEF Next
<1>. QED
  BY <1>1, <1>2, TypeCorrect, PTL DEF Spec

\* While a handoff holds a session nothing dispatched there is unsettled (admit,
\* reserve and registerCandidate each exclude the other side).
THEOREM ReservedStaysQuiet == Spec => []ReservedQuiet
<1>. QED
  BY HandoffsQuiet, PTL

\* A session that was handed over gets no more work (refreshAdmission blocks it
\* for good, as no later handoff makes it current again).
THEOREM SupersededStaysQuiet == Spec => []SupersededQuiet
<1>. QED
  BY HandoffsQuiet, PTL

-----------------------------------------------------------------------------
(* Work of dead processes, where no mutation is a prepared first input.    *)

\* What a step of m leaves at work was there, or m is called, and where it goes
\* is not changed; the fences that stand remain.
Moved(m) ==
    /\ \A n \in Mutations :
          /\ stage'[n] = "lost" /\ native'[n] = "transit" =>
                stage[n] = "lost" /\ native[n] = "transit" /\ site'[n] = site[n]
          /\ native'[n] \in {"transit", "running"} =>
                \/ native[n] \in {"transit", "running"} /\ site'[n] = site[n]
                \/ m = n /\ \E t \in Sessions : Call(m, t) /\ site'[n] = t
    /\ window' = window
    /\ window \in {"running", "unarmed"} => lost' = lost

LEMMA PlainMutation ==
    ASSUME FirstInputs = {}, TypeOK, NoPrepared, Afoot, NEW m \in Mutations, MutationStep(m)
    PROVE  NoPrepared' /\ Afoot' /\ Moved(m)
<1>. USE DEF TypeOK, NoPrepared, Afoot, Moved, NoMarker, Marker, coverVars
<1>1. ASSUME NEW T \in SUBSET Sessions \ {{}}, Admit(m, T)
      PROVE  NoPrepared' /\ Afoot' /\ Moved(m)
  BY <1>1 DEF Admit
<1>2. ASSUME NEW t \in Sessions, Mark(m, t)
      PROVE  NoPrepared' /\ Afoot' /\ Moved(m)
  BY <1>2, CoverType DEF Mark, MarkedBy, StillLost, FenceLifts
<1>3. ASSUME NEW t \in Sessions, BeginFirstInput(m, t)
      PROVE  NoPrepared' /\ Afoot' /\ Moved(m)
  BY <1>3 DEF BeginFirstInput
<1>4. ASSUME NEW t \in Sessions, Call(m, t)
      PROVE  NoPrepared' /\ Afoot' /\ Moved(m)
  BY <1>4 DEF Call
<1>5. CASE PrepareFirstInput(m)
  BY <1>5 DEF PrepareFirstInput
<1>6. CASE Refuse(m)
  BY <1>6 DEF Refuse, End
<1>7. CASE CallSettles(m)
  BY <1>7 DEF CallSettles, End
<1>8. CASE CallUnresolved(m)
  BY <1>8 DEF CallUnresolved
<1>9. CASE EvidenceSettles(m)
  BY <1>9 DEF EvidenceSettles, End
<1>10. CASE DeliverySettles(m)
  BY <1>10 DEF DeliverySettles, End
<1>11. CASE NativeArrives(m)
  BY <1>11 DEF NativeArrives
<1>12. CASE NativeEnds(m)
  BY <1>12 DEF NativeEnds
<1>. QED
  BY <1>1, <1>2, <1>3, <1>4, <1>5, <1>6, <1>7, <1>8, <1>9, <1>10, <1>11, <1>12 DEF MutationStep

\* What is feared stays so over the steps of mutations.
LEMMA FearedMutation ==
    ASSUME FirstInputs = {}, TypeOK, NoPrepared, Afoot, Feared, NEW m \in Mutations, MutationStep(m)
    PROVE  Feared'
<1>. SUFFICES ASSUME NEW n \in Mutations, stage'[n] = "lost", native'[n] = "transit"
              PROVE  /\ site'[n] \in lost' /\ coverage'[site'[n]].set
                     /\ window' \in {"running", "unarmed"}
  BY DEF Feared, Marked
<1>1. Moved(m)
  BY PlainMutation
<1>2. stage[n] = "lost" /\ native[n] = "transit" /\ site'[n] = site[n]
  BY <1>1 DEF Moved
<1>3. PICK t \in Sessions : t = site[n] /\ t \in lost /\ Marked(t) /\ window \in {"running", "unarmed"}
  BY <1>2 DEF Feared, TypeOK
<1>4. Marked(t)'
  BY <1>3, MarksStay
<1>. QED
  BY <1>1, <1>2, <1>3, <1>4 DEF Moved, Marked

\* Where nothing is prepared, no fence that stands is cleared or lifted.
LEMMA FenceStands ==
    ASSUME TypeOK, NoPrepared, NEW T, NEW t \in Sessions, t \in lost, window \in {"running", "unarmed"}
    PROVE  /\ ~Clears(t)
           /\ t \in StillLost(T)
           /\ Inspect(T) => t \notin T
<1>1. Fenced(t) /\ ~FenceLifts(t)
  BY DEF Fenced, FenceLifts
<1>2. ~Clears(t)
  BY <1>1 DEF Clears, Resolved, NoPrepared
<1>. QED
  BY <1>1, <1>2 DEF StillLost, Inspect

\* Handoffs and clearing leave what is feared.
LEMMA FearedCover ==
    ASSUME TypeOK, NoPrepared, Afoot, Feared, UNCHANGED <<workVars, window>>,
           NEW T, \/ Inspect(T)
                  \/ coverage' = CoverageWithout(T) /\ lost' \in {lost, StillLost(T), lost \ {t \in T : Clears(t) \/ ~Marked(t)}}
                  \/ UNCHANGED coverage /\ lost' \in {lost, StillLost(T)}
    PROVE  NoPrepared' /\ Afoot' /\ Feared'
<1>1. NoPrepared'
  BY DEF NoPrepared, CoverageWithout, NoMarker, Inspect, workVars, TypeOK
<1>2. Afoot'
  BY DEF Afoot, workVars
<1>3. ASSUME NEW t \in Sessions, t \in lost, Marked(t), window \in {"running", "unarmed"}
      PROVE  t \in lost' /\ Marked(t)'
  <2>1. /\ ~Clears(t)
        /\ t \in StillLost(T)
        /\ Inspect(T) => t \notin T
    BY <1>3, FenceStands
  <2>2. t \in lost'
    BY <1>3, <2>1 DEF Inspect
  <2>3. coverage'[t] = coverage[t]
    BY <2>1 DEF Inspect, CoverageWithout
  <2>. QED
    BY <1>3, <2>2, <2>3 DEF Marked
<1>4. Feared'
  <2>. SUFFICES ASSUME NEW n \in Mutations, stage[n] = "lost", native[n] = "transit"
                PROVE  site[n] \in lost' /\ Marked(site[n])' /\ window \in {"running", "unarmed"}
    BY DEF Feared, Marked, workVars
  <2>1. PICK t \in Sessions : t = site[n] /\ t \in lost /\ Marked(t) /\ window \in {"running", "unarmed"}
    BY DEF Feared, TypeOK
  <2>2. t \in lost' /\ Marked(t)'
    BY <2>1, <1>3
  <2>. QED
    BY <2>1, <2>2 DEF Marked, workVars
<1>. QED
  BY <1>1, <1>2, <1>4

LEMMA HandoffLost ==
    ASSUME NEW h \in Handoffs, HandoffStep(h)
    PROVE  /\ UNCHANGED window
           /\ \E T : \/ Inspect(T)
                     \/ UNCHANGED coverage /\ lost' \in {lost, StillLost(T)}
BY DEF HandoffStep, CheckSource, CheckFails, Reserve, ReserveFails, Begin, Create, CreateUnknown, Candidate,
       Ready, Commit, Fail, Cancel, Reconcile, ReserveAgain, coverVars

\* At its commit no session a handoff holds has work, of this process or another.
LEMMA CommitQuiet ==
    ASSUME TypeOK, Dispatched, RetiredFirst, Afoot, Feared,
           NEW h \in Handoffs, Commit(h), NEW m \in Mutations, site[m] \in reservations[h]
    PROVE  native[m] \notin {"transit", "running"}
<1>1. PICK t \in Sessions : t = site[m] /\ t \in reservations[h]
  BY DEF TypeOK
<1>2. Quiescent(t) /\ t = site[m]
  BY <1>1 DEF Commit, Idle
<1>3. native[m] # "running"
  BY <1>2 DEF Quiescent, HostIdle
<1>4. ASSUME native[m] = "transit"
      PROVE  FALSE
  <2>1. CASE stage[m] \in {"native", "open"}
    BY <1>2, <2>1 DEF Quiescent, Unsettled, UnsettledBy, InFlight, Dispatched
  <2>2. CASE stage[m] = "lost"
    BY <1>2, <1>4, <2>2 DEF Quiescent, Fenced, FenceLifts, Feared
  <2>3. CASE stage[m] = "forgotten"
    BY <1>2, <2>3 DEF Quiescent, HostIdle, RetiredFirst
  <2>. QED
    BY <1>4, <2>1, <2>2, <2>3 DEF Afoot
<1>. QED
  BY <1>3, <1>4

\* No handoff but h may become committed, and what a committed one left stays.
Decided(h) ==
    \A g \in Handoffs : phase'[g] = "committed" =>
        /\ phase[g] = "committed" \/ g = h
        /\ from'[g] = from[g]

\* Only Commit commits.
LEMMA HandoffDecides ==
    ASSUME TypeOK, NEW h \in Handoffs, HandoffStep(h)
    PROVE  Decided(h) /\ (phase'[h] = "committed" => phase[h] = "committed" \/ Commit(h))
<1>. USE DEF TypeOK, Decided
<1>1. ASSUME NEW t \in Sessions, Create(h, t)
      PROVE  Decided(h) /\ phase'[h] # "committed"
  BY <1>1 DEF Create
<1>2. ASSUME CheckSource(h)
      PROVE  Decided(h) /\ phase'[h] # "committed"
  BY <1>2 DEF CheckSource
<1>3. ASSUME CheckFails(h)
      PROVE  Decided(h) /\ phase'[h] # "committed"
  BY <1>3 DEF CheckFails
<1>4. ASSUME Reserve(h)
      PROVE  Decided(h) /\ phase'[h] # "committed"
  BY <1>4 DEF Reserve
<1>5. ASSUME ReserveFails(h)
      PROVE  Decided(h) /\ phase'[h] # "committed"
  BY <1>5 DEF ReserveFails
<1>6. ASSUME Begin(h)
      PROVE  Decided(h) /\ phase'[h] # "committed"
  BY <1>6 DEF Begin
<1>7. ASSUME CreateUnknown(h)
      PROVE  Decided(h) /\ phase'[h] # "committed"
  BY <1>7 DEF CreateUnknown
<1>8. ASSUME Candidate(h)
      PROVE  Decided(h) /\ phase'[h] # "committed"
  BY <1>8 DEF Candidate
<1>9. ASSUME Ready(h)
      PROVE  Decided(h) /\ phase'[h] # "committed"
  BY <1>9 DEF Ready
<1>10. ASSUME Commit(h)
       PROVE  Decided(h)
  BY <1>10 DEF Commit
<1>11. ASSUME Fail(h)
      PROVE  Decided(h) /\ phase'[h] # "committed"
  BY <1>11 DEF Fail
<1>12. ASSUME Cancel(h)
      PROVE  Decided(h) /\ phase'[h] # "committed"
  BY <1>12 DEF Cancel
<1>13. ASSUME Reconcile(h)
      PROVE  Decided(h) /\ phase'[h] # "committed"
  BY <1>13 DEF Reconcile
<1>14. ASSUME ReserveAgain(h)
      PROVE  Decided(h) /\ phase'[h] # "committed"
  BY <1>14 DEF ReserveAgain
<1>. QED
  BY <1>1, <1>2, <1>3, <1>4, <1>5, <1>6, <1>7, <1>8, <1>9, <1>10, <1>11, <1>12, <1>13, <1>14 DEF HandoffStep

\* The invariants of the restart fence hold together.
LEMMA FenceInvariant ==
    ASSUME FirstInputs = {}
    PROVE  Spec => [](NoPrepared /\ Afoot /\ Feared)
<1>. DEFINE Inv == NoPrepared /\ Afoot /\ Feared
<1>1. Init => Inv
  BY DEF Init, NoPrepared, Afoot, Feared, NoMarker
<1>2. TypeOK /\ Ends /\ Dispatched /\ MarksKept /\ Inv /\ [Next]_vars => Inv'
  <2>. SUFFICES ASSUME TypeOK, Ends, Dispatched, MarksKept, NoPrepared, Afoot, Feared, [Next]_vars
                PROVE  Inv'
    OBVIOUS
  <2>1. ASSUME NEW m \in Mutations, MutationStep(m)
        PROVE  Inv'
    BY <2>1, PlainMutation, FearedMutation
  <2>2. ASSUME NEW h \in Handoffs, HandoffStep(h)
        PROVE  Inv'
    BY <2>2, HandoffTypes, HandoffLost, FearedCover
  <2>3. ASSUME NEW t \in Sessions, Clear(t)
        PROVE  Inv'
    <3>1. lost' \in {lost, StillLost({t}), lost \ {u \in {t} : Clears(u) \/ ~Marked(u)}}
      BY <2>3 DEF Clear
    <3>. QED
      BY <2>3, <3>1, FearedCover DEF Clear
  <2>4. CASE RestartSettles
    BY <2>4 DEF RestartSettles, NoPrepared, Afoot, Feared, workVars
  <2>5. CASE RestartTimer
    BY <2>5 DEF RestartTimer, NoPrepared, Afoot, Feared, Marked, workVars
  <2>6. CASE Close \/ Retire \/ UNCHANGED vars
    BY <2>6 DEF Close, Retire, vars, NoPrepared, Afoot, Feared, Marked, workVars, coverVars
  <2>7. CASE Restart
    <3>1. NoPrepared' /\ Afoot'
      BY <2>7 DEF Restart, TypeOK, NoPrepared, Afoot, InFlight
    <3>2. ASSUME NEW m \in Mutations, native[m] = "transit"
          PROVE  site[m] \in Sessions /\ Marked(site[m])
      BY <3>2 DEF Afoot, Feared, Dispatched, MarksKept, TypeOK, InFlight
    <3>3. Feared'
      BY <2>7, <3>2 DEF Restart, Feared, Marked
    <3>. QED
      BY <3>1, <3>3
  <2>8. CASE Forget
    BY <2>8 DEF Forget, TypeOK, NoPrepared, Afoot, Feared, Marked, coverVars
  <2>. QED
    BY <2>1, <2>2, <2>3, <2>4, <2>5, <2>6, <2>7, <2>8 DEF Next
<1>. QED
  BY <1>1, <1>2, TypeCorrect, MarksInvariant, PTL DEF Spec

\* Without prepared first inputs the fence of a restart covers whatever any
\* earlier process may still have on its way (restore, settleRestart,
\* clearMutation), however often the Controller restarts.
THEOREM FenceCovers ==
    ASSUME FirstInputs = {}
    PROVE  Spec => []FenceHolds
<1>1. Feared => FenceHolds
  BY DEF Feared, FenceHolds, Fenced, FenceLifts
<1>. QED
  BY <1>1, FenceInvariant, PTL

\* Without prepared first inputs a committed handoff leaves no native work at
\* its source, of this process or of one that crashed.
THEOREM NothingLeftBehind ==
    ASSUME FirstInputs = {}
    PROVE  Spec => []NoWorkLeftBehind
<1>1. Init => NoWorkLeftBehind
  BY DEF Init, NoWorkLeftBehind
<1>2. ASSUME TypeOK, Ends, Dispatched, RetiredFirst, Lineage, SourceHeld, NoPrepared, Afoot, Feared,
             NoWorkLeftBehind, [Next]_vars
      PROVE  NoWorkLeftBehind'
  <2>1. ASSUME NEW n \in Mutations, MutationStep(n)
        PROVE  NoWorkLeftBehind'
    <3>. SUFFICES ASSUME NEW h \in Handoffs, NEW m \in Mutations, phase'[h] = "committed", site'[m] = from'[h],
                         native'[m] \in {"transit", "running"}
                  PROVE  FALSE
      BY DEF NoWorkLeftBehind
    <3>1. UNCHANGED handoffVars /\ Moved(n)
      BY <1>2, <2>1, MutationTypes, PlainMutation
    <3>2. native[m] \notin {"transit", "running"} \/ site'[m] # site[m]
      BY <1>2, <3>1 DEF NoWorkLeftBehind, handoffVars
    <3>3. PICK t \in Sessions : Call(n, t) /\ t = from[h]
      BY <3>1, <3>2 DEF Moved, handoffVars
    <3>4. ~Blocked(t)
      BY <3>3 DEF Call, Admissible
    <3>. QED
      BY <1>2, <3>1, <3>3, <3>4 DEF Blocked, Lineage, handoffVars
  <2>2. ASSUME NEW g \in Handoffs, HandoffStep(g)
        PROVE  NoWorkLeftBehind'
    <3>1. UNCHANGED workVars
      BY <1>2, <2>2, HandoffTypes
    <3>2. Decided(g)
      BY <1>2, <2>2, HandoffDecides
    <3>3. phase'[g] = "committed" => phase[g] = "committed" \/ Commit(g)
      BY <1>2, <2>2, HandoffDecides
    <3>. QED
      BY <1>2, <3>1, <3>2, <3>3, CommitQuiet DEF Decided, NoWorkLeftBehind, workVars, SourceHeld, Commit
  <2>3. CASE Restart
    <3>1. \A h \in Handoffs : phase'[h] = "committed" => phase[h] = "committed" /\ from'[h] = from[h]
      BY <1>2, <2>3 DEF Restart, TypeOK, Active, Named
    <3>. QED
      BY <1>2, <2>3, <3>1 DEF Restart, NoWorkLeftBehind
  <2>4. \/ RestartSettles \/ RestartTimer \/ Close \/ Retire \/ Forget \/ UNCHANGED vars
        \/ \E t \in Sessions : Clear(t)
        => UNCHANGED <<site, native, phase, from>>
    BY DEF RestartSettles, RestartTimer, Close, Retire, Forget, Clear, vars, workVars, handoffVars
  <2>5. CASE UNCHANGED <<site, native, phase, from>>
    BY <1>2, <2>5 DEF NoWorkLeftBehind
  <2>. QED
    BY <1>2, <2>1, <2>2, <2>3, <2>4, <2>5 DEF Next
<1>. QED
  BY <1>1, <1>2, TypeCorrect, MarksInvariant, HandoffsQuiet, FenceInvariant, PTL DEF Spec

\* A handoff that holds sessions holds its candidate from its registration on
\* (registerCandidate and reserve add it, everything else lets go of all).
CandidateHeld ==
    \A h \in Handoffs : phase[h] \in {"known", "busy", "ready"} /\ reservations[h] # {} =>
        to[h] \in reservations[h]

LEMMA CandidateStaysHeld == Spec => []CandidateHeld
<1>1. Init => CandidateHeld
  BY DEF Init, CandidateHeld
<1>2. ASSUME TypeOK, SourceHeld, CandidateHeld, [Next]_vars
      PROVE  CandidateHeld'
  <2>. USE <1>2 DEF TypeOK, CandidateHeld
  <2>1. ASSUME NEW m \in Mutations, MutationStep(m)
        PROVE  CandidateHeld'
    BY <2>1, MutationTypes DEF handoffVars
  <2>2. ASSUME NEW h \in Handoffs, NEW t \in Sessions, Create(h, t)
        PROVE  CandidateHeld'
    BY <2>2 DEF Create
  <2>3. ASSUME NEW h \in Handoffs, HandoffStep(h), \A t \in Sessions : ~Create(h, t)
        PROVE  CandidateHeld'
    <3>1. CASE CheckSource(h) \/ CheckFails(h) \/ Reserve(h) \/ ReserveFails(h) \/ Begin(h)
      BY <3>1 DEF CheckSource, CheckFails, Reserve, ReserveFails, Begin, Release
    <3>2. CASE CreateUnknown(h) \/ Ready(h) \/ Commit(h) \/ Fail(h) \/ Cancel(h)
      BY <3>2 DEF CreateUnknown, Ready, Commit, Fail, Cancel, Release
    <3>3. CASE Candidate(h)
      BY <3>3 DEF Candidate
    <3>4. CASE Reconcile(h)
      <4>1. SourceHeld /\ phase[h] = "unknown" => reservations[h] = {}
        BY DEF SourceHeld
      <4>. QED
        BY <1>2, <3>4, <4>1 DEF Reconcile
    <3>5. CASE ReserveAgain(h)
      BY <3>5 DEF ReserveAgain
    <3>. QED
      BY <2>3, <3>1, <3>2, <3>3, <3>4, <3>5 DEF HandoffStep
  <2>4. CASE Retire \/ Restart
    BY <2>4 DEF Retire, Restart
  <2>5. \/ RestartSettles \/ RestartTimer \/ Close \/ Forget \/ UNCHANGED vars
        \/ \E t \in Sessions : Clear(t)
        => UNCHANGED handoffVars
    BY DEF RestartSettles, RestartTimer, Close, Forget, Clear, vars, handoffVars
  <2>6. CASE UNCHANGED handoffVars
    BY <2>6 DEF handoffVars
  <2>. QED
    BY <2>1, <2>2, <2>3, <2>4, <2>5, <2>6 DEF Next
<1>. QED
  BY <1>1, <1>2, TypeCorrect, HandoffsQuiet, PTL DEF Spec

\* Without prepared first inputs the role moves only between sessions that have
\* no native work (assertQuiescent of both ends under their reservations): no
\* call of this process or of one that crashed is on its way to either.
THEOREM CommitsQuietly ==
    ASSUME FirstInputs = {}
    PROVE  Spec => CommitFindsQuiet
<1>. DEFINE Quietly ==
         \A h \in Handoffs : phase[h] # "committed" /\ phase'[h] = "committed" =>
             \A m \in Mutations : site[m] \in {from[h], to[h]} => native[m] \in {"none", "done"}
<1>1. ASSUME TypeOK, Ends, Dispatched, RetiredFirst, SourceHeld, CandidateHeld, Afoot, Feared, [Next]_vars
      PROVE  Quietly
  <2>. SUFFICES ASSUME NEW h \in Handoffs, phase[h] # "committed", phase'[h] = "committed",
                       NEW m \in Mutations, site[m] \in {from[h], to[h]}
                PROVE  native[m] \in {"none", "done"}
    OBVIOUS
  <2>1. CASE Commit(h)
    <3>1. site[m] \in reservations[h]
      BY <1>1, <2>1 DEF Commit, SourceHeld, CandidateHeld
    <3>. QED
      BY <1>1, <2>1, <3>1, CommitQuiet DEF TypeOK
  <2>2. ASSUME NEW n \in Mutations, MutationStep(n)
        PROVE  FALSE
    BY <1>1, <2>2, MutationTypes DEF handoffVars
  <2>3. ASSUME NEW g \in Handoffs, HandoffStep(g)
        PROVE  Commit(h)
    BY <1>1, <2>3, HandoffDecides DEF Decided
  <2>4. ~Restart
    BY <1>1 DEF Restart, TypeOK, Active, Named
  <2>5. \/ RestartSettles \/ RestartTimer \/ Close \/ Retire \/ Forget \/ UNCHANGED vars
        \/ \E t \in Sessions : Clear(t)
        => UNCHANGED phase
    BY DEF RestartSettles, RestartTimer, Close, Retire, Forget, Clear, vars, handoffVars
  <2>. QED
    BY <1>1, <2>1, <2>2, <2>3, <2>4, <2>5 DEF Next
<1>2. TypeOK /\ Ends /\ Dispatched /\ RetiredFirst /\ SourceHeld /\ CandidateHeld /\ Afoot /\ Feared /\ [Next]_vars => [Quietly]_vars
  BY <1>1
<1>. QED
  BY <1>2, TypeCorrect, MarksInvariant, HandoffsQuiet, CandidateStaysHeld, FenceInvariant, PTL DEF Spec, CommitFindsQuiet
=============================================================================
