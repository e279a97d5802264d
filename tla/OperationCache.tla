--------------------------- MODULE OperationCache ---------------------------
(***************************************************************************)
(* The receipt cache of agent-remote-relay (operation-cache.ts): every     *)
(* mutation a browser, the HTTP API or the Host sends to a native runtime  *)
(* carries an operation identity, and the cache makes that identity safe   *)
(* to retry.  An identity is a key (scope and operation id); the digest of *)
(* kind, target and parameters is its intent.                              *)
(*                                                                         *)
(* A record passes from "validating" (admitted, waiting for validation and *)
(* the last admission check) to "dispatching" (the native call is out) to  *)
(* one of the settled states.  Records age; a settled record older than    *)
(* Ttl is dropped by cleanup unless a pinned handle holds it.  Handles are *)
(* the evidence of native work that outlives its call.                     *)
(***************************************************************************)
EXTENDS Integers, FiniteSets, Functions

CONSTANTS
    Keys,           \* operation identities: digest(scope) with the operation id, a UUID
    Intents,        \* fingerprints of [kind, target, parameters]
    Targets,        \* native sessions a mutation may touch
    TargetsOf,      \* TargetsOf[i]: the mutationTargets of intent i
    HandleIds,      \* identities of evidence handles; bounds how many exist
    Kinds,          \* the kinds of handle the adapters take
    None,           \* "no key", "no intent", "no target"
    Ttl,            \* ttlMs, in ticks
    MaxEntries,     \* maxEntries
    MaxBytes,       \* maxBytes, in units
    PinShare,       \* pinned records may take 1/PinShare of the cache (8 in the code)
    EntryOverhead,  \* entryBytes(key, 0)
    Reservation,    \* maximumResultBytes
    HandleBytes,    \* handleBytes
    MaxEnables      \* bounds the reference count of a target in the model

ASSUME CacheAssumption ==
    /\ TargetsOf \in [Intents -> SUBSET Targets]
    /\ None \notin Keys \cup Intents \cup Targets
    /\ IsFiniteSet(Keys) /\ IsFiniteSet(HandleIds)
    /\ Kinds \subseteq {"native", "async", "reserved"}
    /\ Ttl \in Nat \ {0}
    /\ {MaxEntries, MaxBytes, PinShare} \subseteq Nat \ {0}
    /\ {EntryOverhead, Reservation, HandleBytes, MaxEnables} \subseteq Nat

VARIABLES
    entries,         \* the Map of records, total over Keys: Absent where it has none
    handles,         \* the handles of all mutations, Unused where there is none
    enabledTargets,  \* reference counts of enableMutationTarget
    retainedBytes,   \* the running total the capacity check reads
    closing,         \* "open", "closing" (close awaits the in-flight work), "closed"
    \* What the surroundings see; the cache never reads these.
    native,          \* what became of the latest native call of the key
    calls,           \* native calls of the key since its identity was last fresh
    quiet,           \* ticks since the key's last settlement, up to Ttl
    answers,         \* verdicts told to callers of the key since it was last fresh
    busy,            \* targets a settlement subscriber believes unsettled
    lapsed           \* targets whose unpinned evidence expired without notice

cacheVars == <<entries, handles, enabledTargets, retainedBytes, closing>>
worldVars == <<native, calls, quiet, answers, busy, lapsed>>
vars == <<cacheVars, worldVars>>

InFlight == {"validating", "dispatching"}
Verdicts == {"completed", "rejected", "unknown"}
Entry == [state : {"absent"} \cup InFlight \cup Verdicts,
          intent : Intents \cup {None}, age : 0..Ttl, bytes : Nat, resultBytes : Nat]
Absent == [state |-> "absent", intent |-> None, age |-> 0, bytes |-> 0, resultBytes |-> 0]

\* evidence: is the handle's mutation still the one its key retains, did its
\* receipt expire (receiptExpired), or did close clear it?
Unused == [key |-> None, target |-> None, kind |-> "native", state |-> "unused",
           pinned |-> FALSE, evidence |-> "cleared", active |-> FALSE, released |-> FALSE]
Handle == {Unused} \cup
          [key : Keys, target : Targets, kind : {"native", "async", "reserved"},
           state : {"pending", "unknown"}, pinned : BOOLEAN,
           evidence : {"retained", "expired", "cleared"}, active : BOOLEAN, released : BOOLEAN]

-----------------------------------------------------------------------------
(* Reading the records E and the handles H.                                *)

Retained(E) == {k \in Keys : E[k].state # "absent"}
HandlesOf(H, k) == {h \in HandleIds : H[h].key = k /\ H[h].evidence = "retained"}
Pinned(H, k) == \E h \in HandlesOf(H, k) : H[h].pinned

AccountedBytes(H, k, resultBytes) ==
    EntryOverhead
      + (IF Pinned(H, k) /\ resultBytes < Reservation THEN Reservation ELSE resultBytes)
      + HandleBytes * Cardinality(HandlesOf(H, k))

Unsettled(E, H, t) ==
    \E k \in Retained(E) :
        /\ t \in TargetsOf[E[k].intent]
        /\ E[k].state \in InFlight \/ \E h \in HandlesOf(H, k) : H[h].target = t

\* Mutant: drops a record one tick early.
ExpiredEarly == {k \in Keys : /\ entries[k].state \in Verdicts
                              /\ ~Pinned(handles, k)
                              /\ entries[k].age + 1 >= Ttl}

\* Mutant: drops pinned records too.
ExpiredPinned == {k \in Keys : entries[k].state \in Verdicts /\ entries[k].age >= Ttl}

\* cleanup drops a settled, unpinned record once settledAt <= now - ttlMs.
Expired == {k \in Keys : /\ entries[k].state \in Verdicts
                         /\ ~Pinned(handles, k)
                         /\ entries[k].age >= Ttl}
SweptEntries == [k \in Keys |-> IF k \in Expired THEN Absent ELSE entries[k]]
SweptHandles == [h \in HandleIds |->
    IF handles[h].key \in Expired /\ handles[h].evidence = "retained"
    THEN [handles[h] EXCEPT !.evidence = "expired"] ELSE handles[h]]

SweptBytes == retainedBytes - SumFunction([k \in Expired |-> entries[k].bytes])
SweptTargets == {handles[h].target : h \in UNION {HandlesOf(handles, k) : k \in Expired}}

\* notifySettled(changed): subscribers hear of the changed targets that are now
\* settled.  A subscriber sees work begin for itself.
Publish(changed) ==
    busy' = {t \in Targets : Unsettled(entries', handles', t)} \cup (busy \ changed)

\* account(k): store the record's accounted size and move the running total.
Account(k, record) ==
    LET bytes == AccountedBytes(handles', k, record.resultBytes)
    IN  /\ entries' = [entries EXCEPT ![k] = [record EXCEPT !.bytes = bytes]]
        /\ retainedBytes' = retainedBytes + bytes - entries[k].bytes

-----------------------------------------------------------------------------
Init ==
    /\ entries = [k \in Keys |-> Absent]
    /\ handles = [h \in HandleIds |-> Unused]
    /\ enabledTargets = [t \in Targets |-> 0]
    /\ retainedBytes = 0
    /\ closing = "open"
    /\ native = [k \in Keys |-> "idle"]
    /\ calls = [k \in Keys |-> 0]
    /\ quiet = [k \in Keys |-> Ttl]
    /\ answers = [k \in Keys |-> {}]
    /\ busy = {}
    /\ lapsed = {}

Tick ==
    /\ \/ \E k \in Keys : entries[k].state \in Verdicts /\ entries[k].age < Ttl
       \/ \E k \in Keys : entries[k].state \notin InFlight /\ quiet[k] < Ttl
    /\ entries' = [k \in Keys |->
          IF entries[k].state \in Verdicts /\ entries[k].age < Ttl
          THEN [entries[k] EXCEPT !.age = @ + 1] ELSE entries[k]]
    /\ quiet' = [k \in Keys |->
          IF entries[k].state \notin InFlight /\ quiet[k] < Ttl THEN quiet[k] + 1 ELSE quiet[k]]
    /\ UNCHANGED <<handles, enabledTargets, retainedBytes, closing,
                   native, calls, answers, busy, lapsed>>

\* The timer, and hasUnsettledMutation, which sweeps before it looks.  Nobody
\* is notified of what a sweep drops.
Sweep ==
    /\ entries' = SweptEntries
    /\ handles' = SweptHandles
    /\ retainedBytes' = SweptBytes
    /\ lapsed' = lapsed \cup SweptTargets
    /\ UNCHANGED <<enabledTargets, closing, native, calls, quiet, answers, busy>>

Cleanup ==
    /\ Expired # {}
    /\ Sweep

\* A retained identity answers from its record: a caller of a record in flight
\* joins its promise and hears the verdict when it settles.
ExecuteDuplicate(k, i) ==
    /\ closing = "open"
    /\ SweptEntries[k].state # "absent"
    /\ SweptEntries[k].intent = i
    /\ entries' = SweptEntries
    /\ handles' = SweptHandles
    /\ retainedBytes' = SweptBytes
    /\ lapsed' = lapsed \cup SweptTargets
    /\ answers' = IF entries[k].state \in InFlight THEN answers
                  ELSE [answers EXCEPT ![k] = @ \cup {<<i, entries[k].state>>}]
    /\ UNCHANGED <<enabledTargets, closing, native, calls, quiet, busy>>

CanReserve ==
    /\ Cardinality(Retained(SweptEntries)) < MaxEntries
    /\ SweptBytes + EntryOverhead + Reservation <= MaxBytes

\* operation_conflict and operation_capacity_exceeded: no verdict, no record.
ExecuteRefused(k, i) ==
    /\ closing = "open"
    /\ \/ SweptEntries[k].state # "absent" /\ SweptEntries[k].intent # i
       \/ SweptEntries[k].state = "absent" /\ ~CanReserve
    /\ Sweep

\* A fresh identity reserves its record and starts runOperation.
ExecuteFresh(k, i) ==
    /\ closing = "open"
    /\ SweptEntries[k].state = "absent"
    /\ CanReserve
    /\ entries' = [SweptEntries EXCEPT ![k] =
          [state |-> "validating", intent |-> i, age |-> 0,
           bytes |-> EntryOverhead + Reservation, resultBytes |-> Reservation]]
    /\ handles' = SweptHandles
    /\ retainedBytes' = SweptBytes + EntryOverhead + Reservation
    /\ lapsed' = lapsed \cup SweptTargets
    /\ Publish({})
    /\ native' = [native EXCEPT ![k] = IF quiet[k] >= Ttl THEN "idle" ELSE @]
    /\ calls' = [calls EXCEPT ![k] = IF quiet[k] >= Ttl THEN 0 ELSE @]
    /\ answers' = [answers EXCEPT ![k] = IF quiet[k] >= Ttl THEN {} ELSE @]
    /\ UNCHANGED <<enabledTargets, closing, quiet>>

-----------------------------------------------------------------------------
(* runOperation.                                                           *)

\* Mutant: settles without notifySettled.
SettleSilently(k, verdict, resultBytes) ==
    /\ handles' = handles
    /\ Account(k, [entries[k] EXCEPT !.state = verdict, !.age = 0, !.resultBytes = resultBytes])
    /\ Publish({})
    /\ quiet' = [quiet EXCEPT ![k] = 0]
    /\ answers' = [answers EXCEPT ![k] = @ \cup {<<entries[k].intent, verdict>>}]
    /\ UNCHANGED <<enabledTargets, closing, lapsed>>

\* settle: record the verdict, shrink the record to what it keeps, tell the
\* caller and everybody who joined, notify the targets.
Settle(k, verdict, resultBytes) ==
    /\ handles' = handles
    /\ Account(k, [entries[k] EXCEPT !.state = verdict, !.age = 0, !.resultBytes = resultBytes])
    /\ Publish(TargetsOf[entries[k].intent])
    /\ quiet' = [quiet EXCEPT ![k] = 0]
    /\ answers' = [answers EXCEPT ![k] = @ \cup {<<entries[k].intent, verdict>>}]
    /\ UNCHANGED <<enabledTargets, closing, lapsed>>

\* admit, run, validate or beforeDispatch threw: nothing reached the runtime.
RejectBeforeDispatch(k) ==
    /\ entries[k].state = "validating"
    /\ \E size \in {0, Reservation} : Settle(k, "rejected", size)   \* with or without a message
    /\ UNCHANGED <<native, calls>>

Dispatch(k) ==
    /\ entries[k].state = "validating"
    /\ entries' = [entries EXCEPT ![k].state = "dispatching"]
    /\ calls' = [calls EXCEPT ![k] = @ + 1]
    /\ native' = [native EXCEPT ![k] = "called"]
    /\ UNCHANGED <<handles, enabledTargets, retainedBytes, closing, quiet, answers, busy, lapsed>>

\* External: the native runtime applies the call, perhaps after the adapter
\* gave up on it.
NativeApplies(k) ==
    /\ native[k] = "called"
    /\ native' = [native EXCEPT ![k] = "applied"]
    /\ UNCHANGED <<cacheVars, calls, quiet, answers, busy, lapsed>>

\* The adapter reports success; a result that fits its reservation is retained,
\* a larger or unserialisable one leaves the outcome unknown.
DispatchReturns(k) ==
    /\ entries[k].state = "dispatching"
    /\ native[k] = "applied"
    /\ \/ \E size \in 0..Reservation : Settle(k, "completed", size)
       \/ Settle(k, "unknown", 0)
    /\ UNCHANGED <<native, calls>>

\* AgentOperationRejectedError: the adapter vouches that nothing was applied
\* and nothing will be.
DispatchRejected(k) ==
    /\ entries[k].state = "dispatching"
    /\ native[k] = "called"
    /\ Settle(k, "rejected", 0)
    /\ native' = [native EXCEPT ![k] = "idle"]
    /\ UNCHANGED calls

\* Mutant: reports every failed call as a rejection.
DispatchFailsAsRejection(k) ==
    /\ entries[k].state = "dispatching"
    /\ Settle(k, "rejected", 0)
    /\ UNCHANGED <<native, calls>>

\* Any other error: the call may have been applied, or may still be.
DispatchFails(k) ==
    /\ entries[k].state = "dispatching"
    /\ Settle(k, "unknown", 0)
    /\ UNCHANGED <<native, calls>>

-----------------------------------------------------------------------------
(* Evidence handles of a MutationEntry.                                    *)

PinnedKeys(E, H) == {k \in Retained(E) : Pinned(H, k)}

\* Mutant: pinned records may fill the cache.
EvidenceFitsUnquoted(H, k) ==
    retainedBytes + AccountedBytes(H, k, entries[k].resultBytes) - entries[k].bytes <= MaxBytes

EvidenceFits(H, k) ==
    LET growth == AccountedBytes(H, k, entries[k].resultBytes) - entries[k].bytes
        pins == PinnedKeys(entries, H)
    IN  /\ retainedBytes + growth <= MaxBytes
        /\ Pinned(H, k) =>
              /\ Cardinality(pins) <= MaxEntries \div PinShare
              /\ SumFunction([p \in pins |-> AccountedBytes(H, p, entries[p].resultBytes)])
                    <= MaxBytes \div PinShare

\* startNativeEffect, retainAsyncWork and reserveNativeEffect; refused without
\* a trace when closing, when the record is gone or when evidence is full.
Retain(h, k, t, kind) ==
    /\ closing = "open"
    /\ entries[k].state # "absent"
    /\ t \in TargetsOf[entries[k].intent]
    /\ handles[h].state = "unused"
    /\ handles' = [handles EXCEPT ![h] =
          [key |-> k, target |-> t, kind |-> kind, state |-> "pending",
           pinned |-> enabledTargets[t] > 0, evidence |-> "retained",
           active |-> FALSE, released |-> FALSE]]
    /\ EvidenceFits(handles', k)
    /\ Account(k, entries[k])
    /\ Publish({})
    /\ UNCHANGED <<enabledTargets, closing, native, calls, quiet, answers, lapsed>>

\* The handle's settled(): without its record it has nothing to update.
Drop(h) ==
    /\ handles' = [handles EXCEPT ![h] = Unused]
    /\ IF handles[h].evidence = "retained"
       THEN /\ Account(handles[h].key, entries[handles[h].key])
            /\ Publish({handles[h].target})
       ELSE UNCHANGED <<entries, retainedBytes, busy>>
    /\ UNCHANGED <<enabledTargets, closing, native, calls, quiet, answers, lapsed>>

HandleSettled(h) ==
    /\ handles[h].state # "unused"
    /\ handles[h].kind # "reserved"
    /\ Drop(h)

\* unresolved(): of a native effect, or of the active effect of a reservation.
HandleUnresolved(h) ==
    /\ handles[h].state = "pending"
    /\ handles[h].kind = "native" \/ handles[h].active
    /\ handles' = [handles EXCEPT ![h].state = "unknown"]
    /\ UNCHANGED <<entries, enabledTargets, retainedBytes, closing, worldVars>>

\* Mutant: an expired reservation starts on a target enabled since.
ReservationStartUnchecked(h) ==
    /\ handles[h].kind = "reserved"
    /\ handles[h].state # "unused"
    /\ ~handles[h].released /\ ~handles[h].active
    /\ closing = "open"
    /\ handles[h].evidence # "cleared"
    /\ handles' = [handles EXCEPT ![h].active = TRUE]
    /\ UNCHANGED <<entries, enabledTargets, retainedBytes, closing, worldVars>>

ReservationStart(h) ==
    /\ handles[h].kind = "reserved"
    /\ handles[h].state # "unused"
    /\ ~handles[h].released /\ ~handles[h].active
    /\ closing = "open"
    /\ \/ handles[h].evidence = "retained"
       \/ /\ handles[h].evidence = "expired"     \* accepted work outlives an ordinary receipt
          /\ ~handles[h].pinned
          /\ enabledTargets[handles[h].target] = 0
    /\ handles' = [handles EXCEPT ![h].active = TRUE]
    /\ UNCHANGED <<entries, enabledTargets, retainedBytes, closing, worldVars>>

ReservationSettled(h) ==
    /\ handles[h].active
    /\ IF handles[h].released
       THEN Drop(h)
       ELSE /\ handles' = [handles EXCEPT ![h].active = FALSE, ![h].state = "pending"]
            /\ UNCHANGED <<entries, enabledTargets, retainedBytes, closing, worldVars>>

ReservationRelease(h) ==
    /\ handles[h].kind = "reserved"
    /\ handles[h].state # "unused"
    /\ ~handles[h].released
    /\ IF handles[h].active
       THEN /\ handles' = [handles EXCEPT ![h].released = TRUE]
            /\ UNCHANGED <<entries, enabledTargets, retainedBytes, closing, worldVars>>
       ELSE Drop(h)

EnableTarget(t) ==
    /\ enabledTargets[t] < MaxEnables
    /\ enabledTargets' = [enabledTargets EXCEPT ![t] = @ + 1]
    /\ UNCHANGED <<entries, handles, retainedBytes, closing, worldVars>>

DisableTarget(t) ==
    /\ enabledTargets[t] > 0
    /\ enabledTargets' = [enabledTargets EXCEPT ![t] = @ - 1]
    /\ UNCHANGED <<entries, handles, retainedBytes, closing, worldVars>>

-----------------------------------------------------------------------------
(* close.                                                                  *)

BeginClose ==
    /\ closing = "open"
    /\ closing' = "closing"
    /\ UNCHANGED <<entries, handles, enabledTargets, retainedBytes, worldVars>>

Clear ==
    /\ closing = "closing"
    /\ closing' = "closed"
    /\ entries' = [k \in Keys |-> Absent]
    /\ handles' = [h \in HandleIds |->
          IF handles[h].evidence = "retained" THEN [handles[h] EXCEPT !.evidence = "cleared"]
          ELSE handles[h]]
    /\ enabledTargets' = [t \in Targets |-> 0]
    /\ retainedBytes' = 0
    /\ busy' = {}                                   \* settlementListeners.clear()
    /\ UNCHANGED <<native, calls, quiet, answers, lapsed>>

\* Mutant: clears the records under the operations in flight.
FinishCloseAtOnce == Clear

FinishClose ==
    /\ \A k \in Keys : entries[k].state \notin InFlight
    /\ Clear

-----------------------------------------------------------------------------
Execute(k, i) == ExecuteDuplicate(k, i) \/ ExecuteRefused(k, i) \/ ExecuteFresh(k, i)

RunOperation(k) ==
    \/ RejectBeforeDispatch(k)
    \/ Dispatch(k)
    \/ DispatchReturns(k)
    \/ DispatchRejected(k)
    \/ DispatchFails(k)

Evidence(h) ==
    \/ \E k \in Keys, t \in Targets, kind \in Kinds : Retain(h, k, t, kind)
    \/ HandleSettled(h)
    \/ HandleUnresolved(h)
    \/ ReservationStart(h)
    \/ ReservationSettled(h)
    \/ ReservationRelease(h)

Next ==
    \/ Tick
    \/ Cleanup
    \/ \E k \in Keys, i \in Intents : Execute(k, i)
    \/ \E k \in Keys : RunOperation(k) \/ NativeApplies(k)
    \/ \E h \in HandleIds : Evidence(h)
    \/ \E t \in Targets : EnableTarget(t) \/ DisableTarget(t)
    \/ BeginClose
    \/ FinishClose

Spec == Init /\ [][Next]_vars

\* The interval timer and the event loop keep running; validation and native
\* calls are assumed to return (an adapter whose call never settles holds its
\* record in flight for ever, and holds close with it).
FairSpec ==
    /\ Spec
    /\ WF_vars(Tick)
    /\ WF_vars(closing = "open" /\ Cleanup)
    /\ \A k \in Keys : WF_vars(RunOperation(k))
    /\ WF_vars(FinishClose)

-----------------------------------------------------------------------------
(* Properties.                                                             *)

\* Every variable has its type (BytesBalanced gives that of retainedBytes).
TypeOK ==
    /\ entries \in [Keys -> Entry]
    /\ handles \in [HandleIds -> Handle]
    /\ enabledTargets \in [Targets -> 0..MaxEnables]
    /\ closing \in {"open", "closing", "closed"}
    /\ native \in [Keys -> {"idle", "called", "applied"}]
    /\ calls \in [Keys -> Nat]
    /\ quiet \in [Keys -> 0..Ttl]
    /\ answers \in [Keys -> SUBSET (Intents \X Verdicts)]
    /\ busy \subseteq Targets
    /\ lapsed \subseteq Targets

\* Between two moments at which an identity is fresh, the native runtime is
\* called at most once for it, however many callers retry it, before or after
\* it settled (execute, operation-cache.ts:141).
AtMostOnce == \A k \in Keys : calls[k] <= 1

\* All callers of a retained identity hear one verdict about one intent: the
\* caller that dispatched, those that joined and those that retried later.
OneVerdict == \A k \in Keys : \A a, b \in answers[k] : a = b

\* "rejected" licenses a retry under a new identity, so nothing of the rejected
\* call may have reached or may still reach the runtime; "completed" is only
\* said of a call the runtime applied (perform, operation-cache.ts:208).
TruthfulVerdict ==
    \A k \in Keys, i \in Intents :
        /\ <<i, "rejected">> \in answers[k] => native[k] = "idle"
        /\ <<i, "completed">> \in answers[k] => native[k] = "applied"

\* What makes the three above inductive: how far the life of an identity has
\* come determines what was called, told and forgotten.  A key without a record
\* has been quiet for Ttl (until close drops records early), so that a fresh
\* record starts from a clean history; a settled record is as old as its key is
\* quiet, so that expiry waits for the whole window (execute and settle).
Coherent ==
    \A k \in Keys :
        /\ entries[k].state = "absent" /\ closing # "closed" => quiet[k] = Ttl
        /\ entries[k].state # "absent" => entries[k].intent \in Intents
        /\ entries[k].state = "validating" =>
              calls[k] = 0 /\ answers[k] = {} /\ native[k] = "idle"
        /\ entries[k].state = "dispatching" =>
              calls[k] = 1 /\ answers[k] = {} /\ native[k] # "idle"
        /\ entries[k].state \in Verdicts =>
              /\ entries[k].age = quiet[k]
              /\ answers[k] = {<<entries[k].intent, entries[k].state>>}
              /\ entries[k].state = "unknown" => native[k] # "idle"

\* Every retained record carries the size its result and its handles come to,
\* whatever changed them last (accountedBytes, operation-cache.ts:266).
RecordsAccounted ==
    \A k \in Retained(entries) :
        entries[k].bytes = AccountedBytes(handles, k, entries[k].resultBytes)

\* The running total that admission reads is the sum of what the records
\* account for, through settling, handles coming and going, and expiry; and it
\* respects maxBytes (account, operation-cache.ts:271).
BytesBalanced ==
    /\ retainedBytes = SumFunction([k \in Keys |-> entries[k].bytes])
    /\ RecordsAccounted
    /\ retainedBytes <= MaxBytes

\* Evidence taken while its target was enabled is never lost to expiry: its
\* record stays until the handle settles or the cache closes (cleanup, :122).
PinnedEvidenceKept ==
    \A h \in HandleIds : handles[h].pinned => handles[h].evidence # "expired"

\* The cache keeps what it must and counts what it keeps.
EvidenceAccounted == BytesBalanced /\ PinnedEvidenceKept

\* A settlement subscriber never waits for a target that has already settled,
\* except where unpinned evidence expired (notifySettled, :132).
SubscriberInformed ==
    \A t \in busy : Unsettled(entries, handles, t) \/ t \in lapsed

\* A native effect never starts on an enabled target without the cache showing
\* the target as unsettled, even from a reservation that outlived its receipt
\* (reserveNativeEffect.start, :305).
NoHiddenNativeWork ==
    [][\A h \in HandleIds :
          (~handles[h].active /\ handles'[h].active /\ enabledTargets[handles[h].target] > 0)
             => Unsettled(entries', handles', handles[h].target)]_vars

\* A full cache recovers: retained evidence that never settles cannot starve
\* admission for ever (maxPinnedEntries and maxPinnedBytes, :112).
RoomReturns == []<>(closing # "open" \/ CanReserve)

\* close() ends although evidence of unresolved native work remains (:344).
CloseCompletes == []<>(closing # "closing")

\* Neither admission nor close() waits for ever for native work.
CacheDrains == RoomReturns /\ CloseCompletes

-----------------------------------------------------------------------------
\* What the cache promises its callers, whatever its limits and its evidence.
Promise == INSTANCE IdempotentOperations WITH
    status <- [k \in Keys |-> entries[k].state],
    intent <- [k \in Keys |-> entries[k].intent],
    retired <- (closing = "closed")

\* The cache implements that promise.
KeepsPromise == Promise!Spec
=============================================================================
