------------------------ MODULE OperationCacheProofs ------------------------
(***************************************************************************)
(* Proofs about the operation cache for every set of identities, intents,  *)
(* targets and handles, every Ttl and every limit.                         *)
(***************************************************************************)
EXTENDS OperationCache, FiniteSetTheorems, WellFoundedInduction, TLAPS

IInv == TypeOK /\ Coherent /\ AtMostOnce /\ OneVerdict /\ TruthfulVerdict

-----------------------------------------------------------------------------
(* The accounting keeps its types.                                         *)

\* The handles of a key are finitely many, so an accounted size is a number
\* (accountedBytes).
LEMMA AccountedBytesType ==
    ASSUME NEW H, NEW k \in Keys, NEW resultBytes \in Nat
    PROVE  AccountedBytes(H, k, resultBytes) \in Nat
<1>1. HandlesOf(H, k) \subseteq HandleIds
  BY DEF HandlesOf
<1>2. Cardinality(HandlesOf(H, k)) \in Nat
  BY <1>1, CacheAssumption, FS_Subset, FS_CardinalityType DEF CacheAssumption
<1>3. {EntryOverhead, Reservation, HandleBytes} \subseteq Nat
  BY CacheAssumption DEF CacheAssumption
<1>4. HandleBytes * Cardinality(HandlesOf(H, k)) \in Nat
  BY <1>2, <1>3
<1>. QED
  BY <1>3, <1>4 DEF AccountedBytes

\* account(k) replaces one record by the same record with another size.
LEMMA AccountEntries ==
    ASSUME TypeOK, NEW k \in Keys, NEW record \in Entry, Account(k, record)
    PROVE  \E bytes \in Nat : entries' = [entries EXCEPT ![k] = [record EXCEPT !.bytes = bytes]]
<1>1. record.resultBytes \in Nat
  BY DEF Entry
<1>2. AccountedBytes(handles', k, record.resultBytes) \in Nat
  BY <1>1, AccountedBytesType
<1>. QED
  BY <1>2 DEF Account

\* A sweep keeps the types of what it sweeps.
LEMMA SweepType ==
    ASSUME TypeOK
    PROVE  /\ SweptEntries \in [Keys -> Entry]
           /\ SweptHandles \in [HandleIds -> Handle]
           /\ SweptTargets \subseteq Targets
<1>1. Absent \in Entry
  BY CacheAssumption DEF Absent, Entry, CacheAssumption
<1>2. SweptEntries \in [Keys -> Entry]
  BY <1>1 DEF TypeOK, SweptEntries
<1>3. ASSUME NEW h \in HandleIds, handles[h].evidence = "retained"
      PROVE  /\ handles[h].target \in Targets
             /\ [handles[h] EXCEPT !.evidence = "expired"] \in Handle
  BY <1>3 DEF TypeOK, Handle, Unused
<1>4. SweptHandles \in [HandleIds -> Handle]
  BY <1>3 DEF TypeOK, SweptHandles
<1>5. SweptTargets \subseteq Targets
  BY <1>3 DEF SweptTargets, HandlesOf
<1>. QED
  BY <1>2, <1>4, <1>5

\* Publish keeps the subscriber's view a set of targets.
LEMMA PublishType ==
    ASSUME TypeOK, NEW changed, Publish(changed)
    PROVE  busy' \subseteq Targets
BY DEF TypeOK, Publish

\* The record settle stores is a record.
LEMMA SettledRecord ==
    ASSUME TypeOK, NEW k \in Keys, NEW verdict \in Verdicts, NEW resultBytes \in Nat
    PROVE  [entries[k] EXCEPT !.state = verdict, !.age = 0, !.resultBytes = resultBytes] \in Entry
<1>1. 0 \in 0..Ttl
  BY CacheAssumption DEF CacheAssumption
<1>. QED
  BY <1>1 DEF TypeOK, Entry

\* A handle in use is a full record, and stays one when its flags change.
LEMMA HandleInUse ==
    ASSUME TypeOK, NEW h \in HandleIds, handles[h].state # "unused"
    PROVE  /\ [handles[h] EXCEPT !.active = TRUE] \in Handle
           /\ [handles[h] EXCEPT !.released = TRUE] \in Handle
           /\ [handles[h] EXCEPT !.active = FALSE, !.state = "pending"] \in Handle
           /\ handles[h].key \in Keys
<1>. DEFINE Used == [key : Keys, target : Targets, kind : {"native", "async", "reserved"},
                     state : {"pending", "unknown"}, pinned : BOOLEAN,
                     evidence : {"retained", "expired", "cleared"},
                     active : BOOLEAN, released : BOOLEAN]
<1>1. handles[h] \in Used
  BY DEF TypeOK, Handle, Unused
<1>2. /\ [handles[h] EXCEPT !.active = TRUE] \in Used
      /\ [handles[h] EXCEPT !.released = TRUE] \in Used
      /\ [handles[h] EXCEPT !.active = FALSE, !.state = "pending"] \in Used
      /\ handles[h].key \in Keys
  BY <1>1
<1>. QED
  BY <1>2 DEF Handle

\* Settling a record in flight keeps every type.
LEMMA SettleType ==
    ASSUME TypeOK, Coherent,
           NEW k \in Keys, NEW verdict \in Verdicts, NEW resultBytes \in Nat,
           entries[k].state # "absent", Settle(k, verdict, resultBytes)
    PROVE  /\ entries' \in [Keys -> Entry] /\ handles' \in [HandleIds -> Handle]
           /\ enabledTargets' \in [Targets -> 0..MaxEnables]
           /\ closing' \in {"open", "closing", "closed"}
           /\ quiet' \in [Keys -> 0..Ttl]
           /\ answers' \in [Keys -> SUBSET (Intents \X Verdicts)]
           /\ busy' \subseteq Targets /\ lapsed' \subseteq Targets
<1>. DEFINE record == [entries[k] EXCEPT !.state = verdict, !.age = 0, !.resultBytes = resultBytes]
<1>1. 0 \in 0..Ttl
  BY CacheAssumption DEF CacheAssumption
<1>2. record \in Entry
  BY SettledRecord
<1>3. entries[k].intent \in Intents
  BY DEF Coherent
<1>4. Account(k, record)
  BY DEF Settle
<1>5. PICK bytes \in Nat : entries' = [entries EXCEPT ![k] = [record EXCEPT !.bytes = bytes]]
  BY <1>2, <1>4, AccountEntries
<1>6. [record EXCEPT !.bytes = bytes] \in Entry
  BY <1>2, <1>5 DEF Entry
<1>7. entries' \in [Keys -> Entry]
  BY <1>5, <1>6 DEF TypeOK
<1>8. busy' \subseteq Targets
  BY PublishType DEF Settle
<1>9. <<entries[k].intent, verdict>> \in Intents \X Verdicts
  BY <1>3
<1>10. answers' \in [Keys -> SUBSET (Intents \X Verdicts)]
  BY <1>9 DEF Settle, TypeOK
<1>11. quiet' \in [Keys -> 0..Ttl]
  BY <1>1 DEF Settle, TypeOK
<1>12. UNCHANGED <<handles, enabledTargets, closing, lapsed>>
  BY DEF Settle
<1>. QED
  BY <1>7, <1>8, <1>10, <1>11, <1>12 DEF TypeOK

-----------------------------------------------------------------------------
(* The identity invariant.                                                 *)

\* The part of IInv that speaks of the life of identities.
LifeInv == Coherent /\ AtMostOnce /\ OneVerdict /\ TruthfulVerdict

\* A step that moves no identity along its life keeps LifeInv: what handles,
\* reference counts and close's announcement do.
LEMMA Bookkeeping ==
    ASSUME LifeInv,
           \A k \in Keys : /\ entries'[k].state = entries[k].state
                           /\ entries'[k].intent = entries[k].intent
                           /\ entries'[k].age = entries[k].age,
           closing = "closed" => closing' = "closed",
           UNCHANGED <<native, calls, quiet, answers>>
    PROVE  LifeInv'
BY DEF LifeInv, Coherent, AtMostOnce, OneVerdict, TruthfulVerdict, Verdicts

\* A swept record had been settled for Ttl, so its key has been quiet for Ttl.
LEMMA SweepCoherent ==
    ASSUME TypeOK, LifeInv, NEW k \in Keys
    PROVE  /\ SweptEntries[k] = Absent \/ SweptEntries[k] = entries[k]
           /\ SweptEntries[k].state = "absent" /\ closing # "closed" => quiet[k] = Ttl
           /\ SweptEntries[k].state \in Verdicts => SweptEntries[k] = entries[k]
           /\ SweptEntries[k].state # "absent" => SweptEntries[k] = entries[k]
<1>1. CASE k \in Expired
  <2>1. entries[k].state \in Verdicts /\ entries[k].age >= Ttl
    BY <1>1 DEF Expired
  <2>2. entries[k].age = quiet[k]
    BY <2>1 DEF LifeInv, Coherent
  <2>3. quiet[k] = Ttl
    BY <2>1, <2>2, CacheAssumption DEF TypeOK, CacheAssumption
  <2>. QED
    BY <1>1, <2>3 DEF SweptEntries, Absent, Verdicts
<1>2. CASE k \notin Expired
  BY <1>2 DEF SweptEntries, LifeInv, Coherent
<1>. QED
  BY <1>1, <1>2

\* A step that only sweeps, perhaps repeating a verdict that stands.
LEMMA SweepLife ==
    ASSUME TypeOK, LifeInv,
           entries' = SweptEntries,
           UNCHANGED <<closing, native, calls, quiet>>,
           \A j \in Keys : \/ answers'[j] = answers[j]
                           \/ /\ entries[j].state \in Verdicts
                              /\ answers'[j] = answers[j] \cup {<<entries[j].intent, entries[j].state>>}
    PROVE  LifeInv'
<1>1. \A j \in Keys : answers'[j] = answers[j]
  BY DEF LifeInv, Coherent
<1>2. Coherent'
  <2>. SUFFICES ASSUME NEW k \in Keys
                PROVE  Coherent!(k)'
    BY DEF Coherent
  <2>1. /\ entries'[k] = Absent \/ entries'[k] = entries[k]
        /\ entries'[k].state = "absent" /\ closing # "closed" => quiet[k] = Ttl
    BY SweepCoherent
  <2>. QED
    BY <1>1, <2>1 DEF LifeInv, Coherent, Absent, Verdicts
<1>3. AtMostOnce' /\ OneVerdict' /\ TruthfulVerdict'
  BY <1>1 DEF LifeInv, AtMostOnce, OneVerdict, TruthfulVerdict
<1>. QED
  BY <1>2, <1>3 DEF LifeInv

\* A verdict told of a record in flight is its key's first, and is true if the
\* native call bears it out.
LEMMA SettleLife ==
    ASSUME TypeOK, LifeInv,
           NEW k \in Keys, NEW verdict \in Verdicts, NEW resultBytes \in Nat,
           entries[k].state \in InFlight, Settle(k, verdict, resultBytes),
           \A j \in Keys \ {k} : native'[j] = native[j],
           UNCHANGED calls,
           verdict = "rejected" => native'[k] = "idle",
           verdict = "completed" => native'[k] = "applied",
           verdict = "unknown" => native'[k] # "idle"
    PROVE  LifeInv'
<1>. DEFINE record == [entries[k] EXCEPT !.state = verdict, !.age = 0, !.resultBytes = resultBytes]
<1>1. 0 \in 0..Ttl
  BY CacheAssumption DEF CacheAssumption
<1>2. record \in Entry
  BY SettledRecord
<1>3. Account(k, record)
  BY DEF Settle
<1>4. PICK bytes \in Nat : entries' = [entries EXCEPT ![k] = [record EXCEPT !.bytes = bytes]]
  BY <1>2, <1>3, AccountEntries
<1>5. /\ entries'[k].state = verdict /\ entries'[k].age = 0
      /\ entries'[k].intent = entries[k].intent
      /\ \A j \in Keys \ {k} : entries'[j] = entries[j]
  BY <1>2, <1>4 DEF TypeOK, Entry
<1>6. /\ quiet'[k] = 0
      /\ \A j \in Keys \ {k} : quiet'[j] = quiet[j] /\ answers'[j] = answers[j]
  BY DEF Settle, TypeOK
<1>7. answers[k] = {} /\ calls[k] <= 1
  BY DEF LifeInv, Coherent, AtMostOnce, InFlight
<1>8. answers'[k] = {<<entries[k].intent, verdict>>}
  BY <1>7 DEF Settle, TypeOK
<1>9. closing' = closing
  BY DEF Settle
<1>10. Coherent'
  <2>. SUFFICES ASSUME NEW j \in Keys
                PROVE  Coherent!(j)'
    BY DEF Coherent
  <2>1. CASE j = k
    BY <2>1, <1>5, <1>6, <1>8 DEF LifeInv, Coherent, InFlight, Verdicts
  <2>2. CASE j # k
    BY <2>2, <1>5, <1>6, <1>9 DEF LifeInv, Coherent
  <2>. QED
    BY <2>1, <2>2
<1>11. AtMostOnce'
  BY DEF LifeInv, AtMostOnce
<1>12. OneVerdict'
  BY <1>6, <1>8 DEF LifeInv, OneVerdict
<1>13. TruthfulVerdict'
  <2>. SUFFICES ASSUME NEW j \in Keys, NEW i \in Intents
                PROVE  TruthfulVerdict!(j, i)'
    BY DEF TruthfulVerdict
  <2>1. CASE j = k
    BY <2>1, <1>8
  <2>2. CASE j # k
    BY <2>2, <1>6 DEF LifeInv, TruthfulVerdict
  <2>. QED
    BY <2>1, <2>2
<1>. QED
  BY <1>10, <1>11, <1>12, <1>13 DEF LifeInv

-----------------------------------------------------------------------------
(* One lemma per group of actions.                                         *)

\* Time only ages settled records and quiet keys, in step, so expiry still waits
\* for the whole window (settledAt against ttlMs).
LEMMA TickInv == IInv /\ Tick => IInv'
<1>. SUFFICES ASSUME IInv, Tick
              PROVE  IInv'
  OBVIOUS
<1>1. Ttl \in Nat
  BY CacheAssumption DEF CacheAssumption
<1>2. entries' \in [Keys -> Entry] /\ quiet' \in [Keys -> 0..Ttl]
  <2>1. entries \in [Keys -> Entry] /\ quiet \in [Keys -> 0..Ttl]
    BY DEF IInv, TypeOK
  <2>2. \A e \in Entry : e.age < Ttl => [e EXCEPT !.age = @ + 1] \in Entry
    BY <1>1 DEF Entry
  <2>3. entries' \in [Keys -> Entry]
    BY <2>1, <2>2 DEF Tick
  <2>4. quiet' \in [Keys -> 0..Ttl]
    BY <1>1, <2>1 DEF Tick
  <2>. QED
    BY <2>3, <2>4
<1>3. TypeOK'
  BY <1>2 DEF IInv, TypeOK, Tick
<1>4. \A k \in Keys : /\ entries'[k].state = entries[k].state
                      /\ entries'[k].intent = entries[k].intent
                      /\ entries[k].state \in Verdicts => entries'[k].age = quiet'[k]
                      /\ entries[k].state = "absent" /\ quiet[k] = Ttl => quiet'[k] = Ttl
  BY <1>1 DEF IInv, TypeOK, Coherent, Tick, Entry, Verdicts, InFlight
<1>5. Coherent'
  BY <1>4 DEF IInv, Coherent, Tick, Verdicts
<1>6. AtMostOnce' /\ OneVerdict' /\ TruthfulVerdict'
  BY DEF IInv, AtMostOnce, OneVerdict, TruthfulVerdict, Tick
<1>. QED
  BY <1>3, <1>5, <1>6 DEF IInv

\* Dropping expired records keeps the invariant (cleanup): only identities that
\* have been quiet for Ttl become fresh.
LEMMA CleanupInv == IInv /\ Cleanup => IInv'
<1>. SUFFICES ASSUME IInv, Cleanup
              PROVE  IInv'
  OBVIOUS
<1>1. TypeOK'
  BY SweepType DEF IInv, TypeOK, Cleanup, Sweep
<1>2. LifeInv'
  BY SweepLife DEF IInv, LifeInv, Cleanup, Sweep
<1>. QED
  BY <1>1, <1>2 DEF IInv, LifeInv

\* Every answer of execute keeps the invariant: a duplicate hears the verdict that
\* stands, a refusal changes no record, a fresh record starts from a clean history.
LEMMA ExecuteInv ==
    ASSUME IInv, NEW k \in Keys, NEW i \in Intents, Execute(k, i)
    PROVE  IInv'
<1>0. LifeInv
  BY DEF IInv, LifeInv
<1>1. CASE ExecuteDuplicate(k, i)
  <2>1. SweptEntries[k] = entries[k]
    BY <1>0, <1>1, SweepCoherent DEF IInv, ExecuteDuplicate
  <2>2. entries[k].state \in InFlight \cup Verdicts /\ entries[k].intent = i
    BY <1>1, <2>1 DEF IInv, TypeOK, ExecuteDuplicate, Entry
  <2>3. \A j \in Keys : \/ answers'[j] = answers[j]
                        \/ /\ entries[j].state \in Verdicts
                           /\ answers'[j] = answers[j] \cup {<<entries[j].intent, entries[j].state>>}
    BY <1>1, <2>2 DEF IInv, TypeOK, ExecuteDuplicate
  <2>4. LifeInv'
    BY <1>0, <1>1, <2>3, SweepLife DEF IInv, ExecuteDuplicate
  <2>5. answers' \in [Keys -> SUBSET (Intents \X Verdicts)]
    BY <1>1, <2>2 DEF IInv, TypeOK, ExecuteDuplicate
  <2>6. TypeOK'
    BY <1>1, <2>5, SweepType DEF IInv, TypeOK, ExecuteDuplicate
  <2>. QED
    BY <2>4, <2>6 DEF IInv, LifeInv
<1>2. CASE ExecuteRefused(k, i)
  <2>1. TypeOK'
    BY <1>2, SweepType DEF IInv, TypeOK, ExecuteRefused, Sweep
  <2>2. LifeInv'
    BY <1>0, <1>2, SweepLife DEF IInv, ExecuteRefused, Sweep
  <2>. QED
    BY <2>1, <2>2 DEF IInv, LifeInv
<1>3. CASE ExecuteFresh(k, i)
  <2>. DEFINE fresh == [state |-> "validating", intent |-> i, age |-> 0,
                        bytes |-> EntryOverhead + Reservation, resultBytes |-> Reservation]
  <2>1. fresh \in Entry
    BY CacheAssumption DEF CacheAssumption, Entry, InFlight
  <2>2. entries' = [SweptEntries EXCEPT ![k] = fresh]
    BY <1>3 DEF ExecuteFresh
  <2>3. quiet[k] = Ttl
    BY <1>0, <1>3, SweepCoherent DEF IInv, ExecuteFresh
  <2>4. Ttl \in Nat
    BY CacheAssumption DEF CacheAssumption
  <2>5. /\ native'[k] = "idle" /\ calls'[k] = 0 /\ answers'[k] = {}
        /\ \A j \in Keys \ {k} : /\ native'[j] = native[j]
                                 /\ calls'[j] = calls[j]
                                 /\ answers'[j] = answers[j]
    BY <1>3, <2>3, <2>4 DEF IInv, TypeOK, ExecuteFresh
  <2>6. entries' \in [Keys -> Entry]
    BY <2>1, <2>2, SweepType DEF IInv
  <2>7. busy' \subseteq Targets
    BY <1>3, PublishType DEF IInv, ExecuteFresh
  <2>8. TypeOK'
    BY <1>3, <2>6, <2>7, SweepType DEF IInv, TypeOK, ExecuteFresh
  <2>9. Coherent'
    <3>. SUFFICES ASSUME NEW j \in Keys
                  PROVE  Coherent!(j)'
      BY DEF Coherent
    <3>1. CASE j = k
      <4>1. entries'[j] = fresh
        BY <2>2, <3>1, SweepType DEF IInv
      <4>. QED
        BY <3>1, <4>1, <2>5 DEF Verdicts
    <3>2. CASE j # k
      <4>1. entries'[j] = SweptEntries[j]
        BY <2>2, <3>2, SweepType DEF IInv
      <4>2. /\ SweptEntries[j] = Absent \/ SweptEntries[j] = entries[j]
            /\ SweptEntries[j].state = "absent" /\ closing # "closed" => quiet[j] = Ttl
        BY <1>0, SweepCoherent DEF IInv
      <4>3. quiet' = quiet /\ closing' = closing
        BY <1>3 DEF ExecuteFresh
      <4>. QED
        BY <3>2, <4>1, <4>2, <4>3, <2>5 DEF IInv, Coherent, Absent, Verdicts
    <3>. QED
      BY <3>1, <3>2
  <2>10. AtMostOnce' /\ OneVerdict' /\ TruthfulVerdict'
    BY <2>5 DEF IInv, AtMostOnce, OneVerdict, TruthfulVerdict
  <2>. QED
    BY <2>8, <2>9, <2>10 DEF IInv
<1>. QED
  BY <1>1, <1>2, <1>3 DEF Execute

\* Every step of runOperation keeps the invariant: the call is made once, and the
\* verdict recorded is true of it.
LEMMA RunOperationInv ==
    ASSUME IInv, NEW k \in Keys, RunOperation(k)
    PROVE  IInv'
<1>0. /\ LifeInv
      /\ 0 \in Nat /\ Reservation \in Nat
  BY CacheAssumption DEF IInv, LifeInv, CacheAssumption
<1>1. CASE RejectBeforeDispatch(k)
  <2>1. PICK size \in {0, Reservation} : Settle(k, "rejected", size)
    BY <1>1 DEF RejectBeforeDispatch
  <2>2. /\ entries[k].state \in InFlight /\ entries[k].state # "absent"
        /\ native[k] = "idle" /\ "rejected" \in Verdicts
        /\ UNCHANGED <<native, calls>>
    BY <1>1 DEF IInv, Coherent, RejectBeforeDispatch, InFlight, Verdicts
  <2>3. LifeInv'
    BY <1>0, <2>1, <2>2, SettleLife DEF IInv
  <2>4. TypeOK'
    BY <1>0, <2>1, <2>2, SettleType DEF IInv, TypeOK
  <2>. QED
    BY <2>3, <2>4 DEF IInv, LifeInv
<1>2. CASE Dispatch(k)
  <2>1. /\ calls'[k] = 1 /\ native'[k] = "called"
        /\ \A j \in Keys \ {k} : calls'[j] = calls[j] /\ native'[j] = native[j]
    BY <1>2 DEF IInv, TypeOK, Coherent, Dispatch
  <2>2. /\ entries'[k].state = "dispatching" /\ entries'[k].intent = entries[k].intent
        /\ \A j \in Keys \ {k} : entries'[j] = entries[j]
        /\ entries' \in [Keys -> Entry]
    BY <1>2 DEF IInv, TypeOK, Dispatch, Entry, InFlight
  <2>3. answers[k] = {} /\ entries[k].intent \in Intents
    BY <1>2 DEF IInv, Coherent, Dispatch
  <2>4. TypeOK'
    BY <1>2, <2>2 DEF IInv, TypeOK, Dispatch
  <2>5. Coherent'
    BY <1>2, <2>1, <2>2, <2>3 DEF IInv, Coherent, Dispatch, Verdicts
  <2>6. AtMostOnce' /\ OneVerdict' /\ TruthfulVerdict'
    BY <1>2, <2>1, <2>3 DEF IInv, AtMostOnce, OneVerdict, TruthfulVerdict, Dispatch
  <2>. QED
    BY <2>4, <2>5, <2>6 DEF IInv
<1>3. CASE DispatchReturns(k)
  <2>1. PICK verdict \in {"completed", "unknown"}, size \in Nat : Settle(k, verdict, size)
    BY <1>0, <1>3 DEF DispatchReturns
  <2>2. /\ entries[k].state \in InFlight /\ entries[k].state # "absent"
        /\ native[k] = "applied" /\ verdict \in Verdicts /\ verdict # "rejected"
        /\ UNCHANGED <<native, calls>>
    BY <1>3, <2>1 DEF DispatchReturns, InFlight, Verdicts
  <2>3. LifeInv'
    BY <1>0, <2>1, <2>2, SettleLife DEF IInv
  <2>4. TypeOK'
    BY <2>1, <2>2, SettleType DEF IInv, TypeOK
  <2>. QED
    BY <2>3, <2>4 DEF IInv, LifeInv
<1>4. CASE DispatchRejected(k)
  <2>1. /\ entries[k].state \in InFlight /\ entries[k].state # "absent"
        /\ "rejected" \in Verdicts /\ UNCHANGED calls
        /\ native'[k] = "idle" /\ \A j \in Keys \ {k} : native'[j] = native[j]
        /\ native' \in [Keys -> {"idle", "called", "applied"}]
        /\ Settle(k, "rejected", 0)
    BY <1>4 DEF IInv, TypeOK, DispatchRejected, InFlight, Verdicts
  <2>2. LifeInv'
    BY <1>0, <2>1, SettleLife DEF IInv
  <2>3. TypeOK'
    BY <1>0, <2>1, SettleType DEF IInv, TypeOK
  <2>. QED
    BY <2>2, <2>3 DEF IInv, LifeInv
<1>5. CASE DispatchFails(k)
  <2>1. /\ entries[k].state \in InFlight /\ entries[k].state # "absent"
        /\ native[k] # "idle" /\ "unknown" \in Verdicts
        /\ UNCHANGED <<native, calls>> /\ Settle(k, "unknown", 0)
    BY <1>5 DEF IInv, Coherent, DispatchFails, InFlight, Verdicts
  <2>2. LifeInv'
    BY <1>0, <2>1, SettleLife DEF IInv
  <2>3. TypeOK'
    BY <1>0, <2>1, SettleType DEF IInv, TypeOK
  <2>. QED
    BY <2>2, <2>3 DEF IInv, LifeInv
<1>. QED
  BY <1>1, <1>2, <1>3, <1>4, <1>5 DEF RunOperation

\* The runtime applying a call it was given keeps the invariant: no caller was told
\* that the call was rejected.
LEMMA NativeAppliesInv ==
    ASSUME IInv, NEW k \in Keys, NativeApplies(k)
    PROVE  IInv'
<1>1. /\ native[k] = "called" /\ native'[k] = "applied"
      /\ \A j \in Keys \ {k} : native'[j] = native[j]
  BY DEF IInv, TypeOK, NativeApplies
<1>2. TypeOK'
  BY DEF IInv, TypeOK, NativeApplies, cacheVars
<1>3. Coherent'
  BY <1>1 DEF IInv, Coherent, NativeApplies, cacheVars, Verdicts
<1>4. AtMostOnce' /\ OneVerdict' /\ TruthfulVerdict'
  BY <1>1 DEF IInv, AtMostOnce, OneVerdict, TruthfulVerdict, NativeApplies
<1>. QED
  BY <1>2, <1>3, <1>4 DEF IInv

\* account(k) alone leaves the life of every identity where it is.
LEMMA AccountLife ==
    ASSUME TypeOK, NEW k \in Keys, Account(k, entries[k])
    PROVE  /\ entries' \in [Keys -> Entry]
           /\ \A j \in Keys : /\ entries'[j].state = entries[j].state
                              /\ entries'[j].intent = entries[j].intent
                              /\ entries'[j].age = entries[j].age
<1>1. entries[k] \in Entry
  BY DEF TypeOK
<1>2. PICK bytes \in Nat : entries' = [entries EXCEPT ![k] = [entries[k] EXCEPT !.bytes = bytes]]
  BY <1>1, AccountEntries
<1>. QED
  BY <1>1, <1>2 DEF TypeOK, Entry

\* Dropping a handle touches the accounting only.
LEMMA DropInv ==
    ASSUME IInv, NEW h \in HandleIds, handles[h].state # "unused", Drop(h)
    PROVE  IInv'
<1>1. handles[h].key \in Keys
  BY DEF IInv, TypeOK, Handle, Unused
<1>2. handles' \in [HandleIds -> Handle]
  BY DEF IInv, TypeOK, Drop, Handle
<1>3. /\ entries' \in [Keys -> Entry]
      /\ \A j \in Keys : /\ entries'[j].state = entries[j].state
                         /\ entries'[j].intent = entries[j].intent
                         /\ entries'[j].age = entries[j].age
  <2>1. CASE handles[h].evidence = "retained"
    <3>1. Account(handles[h].key, entries[handles[h].key])
      BY <2>1 DEF Drop
    <3>. QED
      BY <1>1, <3>1, AccountLife DEF IInv
  <2>2. CASE handles[h].evidence # "retained"
    BY <2>2 DEF IInv, TypeOK, Drop
  <2>. QED
    BY <2>1, <2>2
<1>4. busy' \subseteq Targets
  <2>1. CASE handles[h].evidence = "retained"
    BY <2>1, PublishType DEF IInv, Drop
  <2>2. CASE handles[h].evidence # "retained"
    BY <2>2 DEF IInv, TypeOK, Drop
  <2>. QED
    BY <2>1, <2>2
<1>5. UNCHANGED <<enabledTargets, closing, native, calls, quiet, answers, lapsed>>
  BY DEF Drop
<1>6. TypeOK'
  BY <1>2, <1>3, <1>4, <1>5 DEF IInv, TypeOK
<1>7. LifeInv'
  BY <1>3, <1>5, Bookkeeping DEF IInv, LifeInv
<1>. QED
  BY <1>6, <1>7 DEF IInv, LifeInv

\* Handles may come and go without touching the life of an identity
\* (mutationEntry).
LEMMA EvidenceInv ==
    ASSUME IInv, NEW h \in HandleIds, Evidence(h)
    PROVE  IInv'
<1>. DEFINE HandleOnly == /\ handles' \in [HandleIds -> Handle]
                          /\ UNCHANGED <<entries, enabledTargets, retainedBytes, closing, worldVars>>
<1>1. ASSUME HandleOnly PROVE IInv'
  <2>1. TypeOK'
    BY <1>1 DEF IInv, TypeOK, worldVars
  <2>2. LifeInv'
    BY <1>1, Bookkeeping DEF IInv, LifeInv, worldVars
  <2>. QED
    BY <2>1, <2>2 DEF IInv, LifeInv
<1>2. ASSUME NEW k \in Keys, NEW t \in Targets,
             NEW kind \in {"native", "async", "reserved"}, Retain(h, k, t, kind)
      PROVE  IInv'
  <2>. DEFINE fresh == [key |-> k, target |-> t, kind |-> kind, state |-> "pending",
                        pinned |-> enabledTargets[t] > 0, evidence |-> "retained",
                        active |-> FALSE, released |-> FALSE]
  <2>1. fresh \in Handle
    BY DEF Handle
  <2>2. handles' \in [HandleIds -> Handle]
    BY <1>2, <2>1 DEF Retain, IInv, TypeOK
  <2>3. /\ entries' \in [Keys -> Entry]
        /\ \A j \in Keys : /\ entries'[j].state = entries[j].state
                           /\ entries'[j].intent = entries[j].intent
                           /\ entries'[j].age = entries[j].age
    BY <1>2, AccountLife DEF Retain, IInv
  <2>4. busy' \subseteq Targets
    BY <1>2, PublishType DEF Retain, IInv
  <2>5. UNCHANGED <<enabledTargets, closing, native, calls, quiet, answers, lapsed>>
    BY <1>2 DEF Retain
  <2>6. TypeOK'
    BY <2>2, <2>3, <2>4, <2>5 DEF IInv, TypeOK
  <2>7. LifeInv'
    BY <2>3, <2>5, Bookkeeping DEF IInv, LifeInv
  <2>. QED
    BY <2>6, <2>7 DEF IInv, LifeInv
<1>3. CASE HandleSettled(h)
  BY <1>3, DropInv DEF HandleSettled
<1>4. CASE HandleUnresolved(h)
  <2>1. HandleOnly
    BY <1>4 DEF HandleUnresolved, IInv, TypeOK, Handle, Unused
  <2>. QED
    BY <1>1, <2>1
<1>5. CASE ReservationStart(h)
  <2>1. HandleOnly
    BY <1>5, HandleInUse DEF ReservationStart, IInv, TypeOK
  <2>. QED
    BY <1>1, <2>1
<1>6. CASE ReservationSettled(h)
  <2>1. handles[h].active /\ handles[h].state # "unused"
    BY <1>6 DEF ReservationSettled, IInv, TypeOK, Handle, Unused
  <2>2. CASE handles[h].released
    BY <1>6, <2>1, <2>2, DropInv DEF ReservationSettled
  <2>3. CASE ~handles[h].released
    <3>1. HandleOnly
      BY <1>6, <2>1, <2>3, HandleInUse DEF ReservationSettled, IInv, TypeOK
    <3>. QED
      BY <1>1, <3>1
  <2>. QED
    BY <2>2, <2>3
<1>7. CASE ReservationRelease(h)
  <2>1. CASE handles[h].active
    <3>1. HandleOnly
      BY <1>7, <2>1, HandleInUse DEF ReservationRelease, IInv, TypeOK
    <3>. QED
      BY <1>1, <3>1
  <2>2. CASE ~handles[h].active
    BY <1>7, <2>2, DropInv DEF ReservationRelease
  <2>. QED
    BY <2>1, <2>2
<1>. QED
  BY CacheAssumption, <1>2, <1>3, <1>4, <1>5, <1>6, <1>7 DEF Evidence, CacheAssumption

\* Counting the users of a target keeps the invariant (enableMutationTarget).
LEMMA TargetInv ==
    ASSUME IInv, NEW t \in Targets, EnableTarget(t) \/ DisableTarget(t)
    PROVE  IInv'
<1>1. MaxEnables \in Nat
  BY CacheAssumption DEF CacheAssumption
<1>2. TypeOK'
  BY <1>1 DEF IInv, TypeOK, EnableTarget, DisableTarget, worldVars
<1>3. LifeInv'
  BY Bookkeeping DEF IInv, LifeInv, EnableTarget, DisableTarget, worldVars
<1>. QED
  BY <1>2, <1>3 DEF IInv, LifeInv

\* Closing keeps the invariant: records are cleared only when none is in flight
\* (close).
LEMMA CloseInv == IInv /\ (BeginClose \/ FinishClose) => IInv'
<1>1. ASSUME IInv, BeginClose PROVE IInv'
  <2>1. TypeOK'
    BY <1>1 DEF IInv, TypeOK, BeginClose, worldVars
  <2>2. LifeInv'
    BY <1>1, Bookkeeping DEF IInv, LifeInv, BeginClose, worldVars
  <2>. QED
    BY <2>1, <2>2 DEF IInv, LifeInv
<1>2. ASSUME IInv, FinishClose PROVE IInv'
  <2>1. Absent \in Entry
    BY CacheAssumption DEF Absent, Entry, CacheAssumption
  <2>2. \A h \in HandleIds : handles[h].evidence = "retained" =>
           [handles[h] EXCEPT !.evidence = "cleared"] \in Handle
    BY <1>2 DEF IInv, TypeOK, Handle, Unused
  <2>3. handles' \in [HandleIds -> Handle]
    BY <1>2, <2>2 DEF IInv, TypeOK, FinishClose, Clear
  <2>4. enabledTargets' \in [Targets -> 0..MaxEnables]
    BY <1>2, CacheAssumption DEF CacheAssumption, FinishClose, Clear
  <2>5. TypeOK'
    BY <1>2, <2>1, <2>3, <2>4 DEF IInv, TypeOK, FinishClose, Clear
  <2>6. Coherent'
    BY <1>2 DEF FinishClose, Clear, Coherent, Absent, Verdicts
  <2>7. AtMostOnce' /\ OneVerdict' /\ TruthfulVerdict'
    BY <1>2 DEF IInv, AtMostOnce, OneVerdict, TruthfulVerdict, FinishClose, Clear
  <2>. QED
    BY <2>5, <2>6, <2>7 DEF IInv
<1>. QED
  BY <1>1, <1>2

\* A step that changes nothing keeps the invariant.
LEMMA StutterInv == IInv /\ UNCHANGED vars => IInv'
<1>. SUFFICES ASSUME IInv, UNCHANGED vars
              PROVE  IInv'
  OBVIOUS
<1>1. TypeOK'
  BY DEF IInv, TypeOK, vars, cacheVars, worldVars
<1>2. LifeInv'
  BY Bookkeeping DEF IInv, LifeInv, vars, cacheVars, worldVars
<1>. QED
  BY <1>1, <1>2 DEF IInv, LifeInv

\* An empty cache satisfies the invariant (createOperationCache).
LEMMA InitInv == Init => IInv
<1>. SUFFICES ASSUME Init
              PROVE  IInv
  OBVIOUS
<1>1. Absent \in Entry /\ Ttl \in 0..Ttl /\ 0 \in 0..MaxEnables
  BY CacheAssumption DEF Absent, Entry, CacheAssumption
<1>2. TypeOK
  BY <1>1 DEF Init, TypeOK, Handle
<1>3. Coherent
  BY DEF Init, Coherent, Absent, Verdicts
<1>4. AtMostOnce /\ OneVerdict /\ TruthfulVerdict
  BY DEF Init, AtMostOnce, OneVerdict, TruthfulVerdict
<1>. QED
  BY <1>2, <1>3, <1>4 DEF IInv

\* Every step of the cache keeps the invariant: the action lemmas together.
LEMMA NextInv == IInv /\ [Next]_vars => IInv'
<1>. SUFFICES ASSUME IInv, [Next]_vars
              PROVE  IInv'
  OBVIOUS
<1>1. CASE Tick
  BY <1>1, TickInv
<1>2. CASE Cleanup
  BY <1>2, CleanupInv
<1>3. ASSUME NEW k \in Keys, NEW i \in Intents, Execute(k, i)
      PROVE  IInv'
  BY <1>3, ExecuteInv
<1>4. ASSUME NEW k \in Keys, RunOperation(k) \/ NativeApplies(k)
      PROVE  IInv'
  BY <1>4, RunOperationInv, NativeAppliesInv
<1>5. ASSUME NEW h \in HandleIds, Evidence(h)
      PROVE  IInv'
  BY <1>5, EvidenceInv
<1>6. ASSUME NEW t \in Targets, EnableTarget(t) \/ DisableTarget(t)
      PROVE  IInv'
  BY <1>6, TargetInv
<1>7. CASE BeginClose \/ FinishClose
  BY <1>7, CloseInv
<1>8. CASE UNCHANGED vars
  BY <1>8, StutterInv
<1>. QED
  BY <1>1, <1>2, <1>3, <1>4, <1>5, <1>6, <1>7, <1>8 DEF Next

-----------------------------------------------------------------------------
\* The invariant that carries the three promises below, and the types, hold in
\* every reachable state of the cache (operation-cache.ts).
THEOREM CacheInvariant == Spec => []IInv
BY InitInv, NextInv, PTL DEF Spec

\* Every variable keeps its type.
THEOREM CacheTypes == Spec => []TypeOK
<1>1. IInv => TypeOK
  BY DEF IInv
<1>. QED
  BY <1>1, CacheInvariant, PTL

\* A settled record is exactly as old as its key is quiet and tells what was
\* called, so expiry and retries are consistent (execute, settle, cleanup).
THEOREM RecordsCoherent == Spec => []Coherent
<1>1. IInv => Coherent
  BY DEF IInv
<1>. QED
  BY <1>1, CacheInvariant, PTL

\* No identity is carried out twice while it is remembered (execute).
THEOREM CallsAtMostOnce == Spec => []AtMostOnce
<1>1. IInv => AtMostOnce
  BY DEF IInv
<1>. QED
  BY <1>1, CacheInvariant, PTL

\* All callers of an identity hear one verdict about one intent (execute).
THEOREM AnswersOnce == Spec => []OneVerdict
<1>1. IInv => OneVerdict
  BY DEF IInv
<1>. QED
  BY <1>1, CacheInvariant, PTL

\* What a caller hears is true of the native call (perform).
THEOREM AnswersTruthfully == Spec => []TruthfulVerdict
<1>1. IInv => TruthfulVerdict
  BY DEF IInv
<1>. QED
  BY <1>1, CacheInvariant, PTL

-----------------------------------------------------------------------------
(* The cache implements its promise: status and intent of an identity are  *)
(* those of its record, and the service is retired once it closed.         *)

\* A step that leaves every identity, its call and its answers alone is a stutter of
\* the promise.
LEMMA PromiseStutter ==
    ASSUME \A k \in Keys : /\ entries'[k].state = entries[k].state
                           /\ entries'[k].intent = entries[k].intent,
           (closing' = "closed") = (closing = "closed"),
           UNCHANGED <<native, calls, quiet, answers>>
    PROVE  UNCHANGED Promise!vars
<1>1. /\ [k \in Keys |-> entries'[k].state] = [k \in Keys |-> entries[k].state]
      /\ [k \in Keys |-> entries'[k].intent] = [k \in Keys |-> entries[k].intent]
  OBVIOUS
<1>. QED
  BY <1>1 DEF Promise!vars

\* What a sweep drops may be forgotten.
LEMMA SweepForgets ==
    ASSUME IInv
    PROVE  /\ Expired \in SUBSET Promise!Forgettable
           /\ \A k \in Keys : /\ SweptEntries[k].state = IF k \in Expired THEN "absent" ELSE entries[k].state
                              /\ SweptEntries[k].intent = IF k \in Expired THEN None ELSE entries[k].intent
<1>1. ASSUME NEW k \in Expired
      PROVE  k \in Promise!Forgettable
  <2>1. k \in Keys /\ entries[k].state \in Verdicts /\ entries[k].age >= Ttl
    BY <1>1 DEF Expired
  <2>2. quiet[k] = Ttl
    BY <2>1, CacheAssumption DEF IInv, Coherent, TypeOK, CacheAssumption
  <2>. QED
    BY <2>1, <2>2 DEF Promise!Forgettable, Verdicts, Promise!Verdicts
<1>2. \A k \in Keys : /\ SweptEntries[k].state = IF k \in Expired THEN "absent" ELSE entries[k].state
                      /\ SweptEntries[k].intent = IF k \in Expired THEN None ELSE entries[k].intent
  BY DEF SweptEntries, Absent
<1>. QED
  BY <1>1, <1>2

\* A sweep forgets exactly the expired identities (cleanup).
LEMMA SweepIsForget ==
    ASSUME IInv, entries' = SweptEntries
    PROVE  Promise!Forget(Expired)
<1>1. /\ \A k \in Keys : /\ entries'[k].state = IF k \in Expired THEN "absent" ELSE entries[k].state
                         /\ entries'[k].intent = IF k \in Expired THEN None ELSE entries[k].intent
  BY SweepForgets
<1>. QED
  BY <1>1 DEF Promise!Forget

\* A sweep that changes nothing else.
LEMMA SweepRefines ==
    ASSUME IInv, entries' = SweptEntries, UNCHANGED <<closing, native, calls, quiet, answers>>
    PROVE  Promise!Lapse
<1>1. Promise!Forget(Expired) /\ Expired \in SUBSET Promise!Forgettable
  BY SweepForgets, SweepIsForget
<1>. QED
  BY <1>1 DEF Promise!Lapse, Promise!Forget

\* Time ages the promise: records and keys grow older, nothing else moves (settledAt).
LEMMA TickRefines == IInv /\ Tick => Promise!Age
<1>. SUFFICES ASSUME IInv, Tick
              PROVE  Promise!Age
  OBVIOUS
<1>. DEFINE older == {k \in Keys : entries[k].state \notin InFlight /\ quiet[k] < Ttl}
<1>1. /\ [k \in Keys |-> entries'[k].state] = [k \in Keys |-> entries[k].state]
      /\ [k \in Keys |-> entries'[k].intent] = [k \in Keys |-> entries[k].intent]
  BY DEF IInv, TypeOK, Tick, Entry
<1>2. older \in SUBSET {k \in Keys : [j \in Keys |-> entries[j].state][k] \notin Promise!Open /\ quiet[k] < Ttl}
  BY DEF InFlight, Promise!Open
<1>3. quiet' = [k \in Keys |-> IF k \in older THEN quiet[k] + 1 ELSE quiet[k]]
  BY DEF Tick
<1>4. UNCHANGED <<native, calls, answers, closing>>
  BY DEF Tick
<1>5. \E aged \in SUBSET {k \in Keys : [j \in Keys |-> entries[j].state][k] \notin Promise!Open /\ quiet[k] < Ttl} :
         quiet' = [k \in Keys |-> IF k \in aged THEN quiet[k] + 1 ELSE quiet[k]]
  <2>. HIDE DEF older
  <2>. QED
    BY <1>2, <1>3
<1>. QED
  BY <1>1, <1>4, <1>5 DEF Promise!Age

\* Every answer of execute is a step of the promise: a duplicate repeats the verdict
\* that stands, a refusal at most forgets, a fresh record accepts.
LEMMA ExecuteRefines ==
    ASSUME IInv, NEW k \in Keys, NEW i \in Intents, Execute(k, i)
    PROVE  Promise!Next
<1>1. CASE ExecuteRefused(k, i)
  <2>1. Promise!Lapse
    BY <1>1, SweepRefines DEF ExecuteRefused, Sweep
  <2>. QED
    BY <2>1 DEF Promise!Next
<1>2. CASE ExecuteDuplicate(k, i) /\ entries[k].state \in InFlight
  <2>1. Promise!Lapse
    BY <1>2, SweepRefines DEF ExecuteDuplicate
  <2>. QED
    BY <2>1 DEF Promise!Next
<1>3. CASE ExecuteDuplicate(k, i) /\ entries[k].state \notin InFlight
  <2>1. SweptEntries[k].state # "absent" /\ SweptEntries[k].intent = i
    BY <1>3 DEF ExecuteDuplicate
  <2>2. k \notin Expired /\ entries[k].intent = i /\ entries[k].state # "absent"
    BY <2>1, SweepForgets
  <2>3. entries[k].state \in Verdicts
    BY <1>3, <2>2 DEF IInv, TypeOK, Entry
  <2>4. Expired \in SUBSET (Promise!Forgettable \ {k}) /\ Promise!Forget(Expired)
    BY <1>3, <2>2, SweepForgets, SweepIsForget DEF ExecuteDuplicate
  <2>5. /\ answers' = [answers EXCEPT ![k] = @ \cup {<<entries[k].intent, entries[k].state>>}]
        /\ UNCHANGED <<native, calls, quiet, closing>>
    BY <1>3, <2>2 DEF ExecuteDuplicate
  <2>6. \E gone \in SUBSET (Promise!Forgettable \ {k}) : Promise!Forget(gone)
    BY <2>4 DEF Promise!Forget
  <2>7. /\ [j \in Keys |-> entries[j].state][k] = entries[k].state
        /\ [j \in Keys |-> entries[j].intent][k] = entries[k].intent
    OBVIOUS
  <2>8. Promise!Answer(k)
    BY <2>3, <2>5, <2>6, <2>7 DEF Promise!Answer, Verdicts, Promise!Verdicts
  <2>. QED
    BY <2>8 DEF Promise!Next
<1>4. CASE ExecuteFresh(k, i)
  <2>. DEFINE fresh == [state |-> "validating", intent |-> i, age |-> 0,
                        bytes |-> EntryOverhead + Reservation, resultBytes |-> Reservation]
  <2>1. entries' = [SweptEntries EXCEPT ![k] = fresh] /\ SweptEntries[k].state = "absent"
    BY <1>4 DEF ExecuteFresh
  <2>2. /\ \A j \in Keys : /\ entries'[j].state = IF j = k THEN "validating"
                                                 ELSE IF j \in Expired THEN "absent" ELSE entries[j].state
                           /\ entries'[j].intent = IF j = k THEN i
                                                  ELSE IF j \in Expired THEN None ELSE entries[j].intent
    BY <2>1, SweepForgets DEF SweptEntries
  <2>3. entries[k].state = "absent" \/ k \in Expired
    BY <2>1, SweepForgets
  <2>4. closing = "open" /\ closing' = closing /\ quiet' = quiet
    BY <1>4 DEF ExecuteFresh
  <2>5. quiet[k] = Ttl
    BY <2>1, <2>4, SweepCoherent DEF IInv, LifeInv
  <2>6. Ttl \in Nat
    BY CacheAssumption DEF CacheAssumption
  <2>7. /\ native' = [native EXCEPT ![k] = "idle"]
        /\ calls' = [calls EXCEPT ![k] = 0]
        /\ answers' = [answers EXCEPT ![k] = {}]
    BY <1>4, <2>5, <2>6 DEF ExecuteFresh
  <2>8. /\ [j \in Keys |-> entries'[j].state] =
              [j \in Keys |-> IF j = k THEN "validating" ELSE IF j \in Expired THEN "absent"
                              ELSE [h \in Keys |-> entries[h].state][j]]
        /\ [j \in Keys |-> entries'[j].intent] =
              [j \in Keys |-> IF j = k THEN i ELSE IF j \in Expired THEN None
                              ELSE [h \in Keys |-> entries[h].intent][j]]
    BY <2>2
  <2>9. Expired \in SUBSET Promise!Forgettable
    BY SweepForgets
  <2>10. Promise!Accept(k, i)
    BY <2>3, <2>4, <2>5, <2>7, <2>8, <2>9 DEF Promise!Accept
  <2>. QED
    BY <2>10 DEF Promise!Next
<1>. QED
  BY <1>1, <1>2, <1>3, <1>4 DEF Execute

\* Settling a record in flight concludes its identity.
LEMMA SettleRefines ==
    ASSUME IInv, NEW k \in Keys, NEW verdict \in Verdicts, NEW resultBytes \in Nat,
           entries[k].state \in InFlight, Settle(k, verdict, resultBytes),
           verdict = "completed" => entries[k].state = "dispatching" /\ native[k] = "applied",
           verdict = "unknown" => entries[k].state = "dispatching",
           verdict = "rejected" => native[k] # "applied",
           native' = IF verdict = "rejected" THEN [native EXCEPT ![k] = "idle"] ELSE native,
           UNCHANGED calls
    PROVE  Promise!Next
<1>. DEFINE record == [entries[k] EXCEPT !.state = verdict, !.age = 0, !.resultBytes = resultBytes]
<1>1. record \in Entry /\ Account(k, record)
  BY SettledRecord DEF Settle, IInv
<1>2. PICK bytes \in Nat : entries' = [entries EXCEPT ![k] = [record EXCEPT !.bytes = bytes]]
  BY <1>1, AccountEntries DEF IInv
<1>3. \A j \in Keys : /\ entries'[j].state = IF j = k THEN verdict ELSE entries[j].state
                      /\ entries'[j].intent = entries[j].intent
  BY <1>1, <1>2 DEF IInv, TypeOK, Entry
<1>4. /\ [j \in Keys |-> entries'[j].state] = [[j \in Keys |-> entries[j].state] EXCEPT ![k] = verdict]
      /\ [j \in Keys |-> entries'[j].intent] = [j \in Keys |-> entries[j].intent]
  BY <1>3
<1>5. /\ answers' = [answers EXCEPT ![k] = @ \cup {<<entries[k].intent, verdict>>}]
      /\ quiet' = [quiet EXCEPT ![k] = 0]
      /\ closing' = closing
  BY DEF Settle
<1>6. Promise!Conclude(k, verdict)
  BY <1>4, <1>5 DEF Promise!Conclude, InFlight, Promise!Open
<1>. QED
  BY <1>6 DEF Promise!Next, Verdicts, Promise!Verdicts

\* Every step of runOperation calls or concludes the identity.
LEMMA RunOperationRefines ==
    ASSUME IInv, NEW k \in Keys, RunOperation(k)
    PROVE  Promise!Next
<1>0. /\ 0 \in Nat /\ Reservation \in Nat /\ native \in [Keys -> {"idle", "called", "applied"}]
      /\ {"validating", "dispatching"} \subseteq InFlight /\ {"completed", "rejected", "unknown"} \subseteq Verdicts
  BY CacheAssumption DEF CacheAssumption, IInv, TypeOK, InFlight, Verdicts
<1>1. CASE RejectBeforeDispatch(k)
  <2>1. PICK size \in {0, Reservation} : Settle(k, "rejected", size)
    BY <1>1 DEF RejectBeforeDispatch
  <2>2. entries[k].state = "validating" /\ native[k] = "idle" /\ UNCHANGED <<native, calls>>
    BY <1>1 DEF IInv, Coherent, RejectBeforeDispatch
  <2>3. native' = [native EXCEPT ![k] = "idle"]
    BY <1>0, <2>2
  <2>. QED
    BY <1>0, <2>1, <2>2, <2>3, SettleRefines
<1>2. CASE Dispatch(k)
  <2>1. /\ [j \in Keys |-> entries'[j].state] = [[j \in Keys |-> entries[j].state] EXCEPT ![k] = "dispatching"]
        /\ [j \in Keys |-> entries'[j].intent] = [j \in Keys |-> entries[j].intent]
    BY <1>2 DEF IInv, TypeOK, Dispatch, Entry
  <2>2. entries[k].state = "validating" /\ calls[k] = 0
    BY <1>2 DEF IInv, Coherent, Dispatch
  <2>3. calls' = [calls EXCEPT ![k] = 1]
    BY <1>2, <2>2 DEF Dispatch
  <2>4. Promise!Call(k)
    BY <1>2, <2>1, <2>2, <2>3 DEF Dispatch, Promise!Call
  <2>. QED
    BY <2>4 DEF Promise!Next
<1>3. CASE DispatchReturns(k)
  <2>1. PICK verdict \in {"completed", "unknown"}, size \in Nat : Settle(k, verdict, size)
    BY <1>0, <1>3 DEF DispatchReturns
  <2>2. /\ entries[k].state = "dispatching" /\ native[k] = "applied"
        /\ verdict \in Verdicts /\ verdict # "rejected" /\ UNCHANGED <<native, calls>>
    BY <1>0, <1>3, <2>1 DEF DispatchReturns
  <2>. QED
    BY <1>0, <2>1, <2>2, SettleRefines
<1>4. CASE DispatchRejected(k)
  BY <1>0, <1>4, SettleRefines DEF DispatchRejected
<1>5. CASE DispatchFails(k)
  BY <1>0, <1>5, SettleRefines DEF DispatchFails
<1>. QED
  BY <1>1, <1>2, <1>3, <1>4, <1>5 DEF RunOperation

\* The runtime applying a call is the promise's Apply.
LEMMA ApplyRefines == ASSUME IInv, NEW k \in Keys, NativeApplies(k) PROVE Promise!Next
<1>1. entries' = entries /\ closing' = closing
  BY DEF NativeApplies, cacheVars
<1>2. Promise!Apply(k)
  BY <1>1 DEF NativeApplies, Promise!Apply
<1>. QED
  BY <1>2 DEF Promise!Next

\* A handle's settled() says nothing to callers.
LEMMA DropRefines ==
    ASSUME IInv, NEW h \in HandleIds, handles[h].state # "unused", Drop(h)
    PROVE  UNCHANGED Promise!vars
<1>1. \A j \in Keys : /\ entries'[j].state = entries[j].state
                      /\ entries'[j].intent = entries[j].intent
  <2>1. CASE handles[h].evidence = "retained"
    <3>1. handles[h].key \in Keys /\ Account(handles[h].key, entries[handles[h].key])
      BY <2>1 DEF Drop, IInv, TypeOK, Handle, Unused
    <3>. QED
      BY <3>1, AccountLife DEF IInv
  <2>2. CASE handles[h].evidence # "retained"
    BY <2>2 DEF Drop
  <2>. QED
    BY <2>1, <2>2
<1>2. UNCHANGED <<closing, native, calls, quiet, answers>>
  BY DEF Drop
<1>. QED
  BY <1>1, <1>2, PromiseStutter

\* No handle operation is visible in the promise (mutationEntry).
LEMMA EvidenceRefines ==
    ASSUME IInv, NEW h \in HandleIds, Evidence(h)
    PROVE  UNCHANGED Promise!vars
<1>1. ASSUME UNCHANGED <<entries, closing, worldVars>> PROVE UNCHANGED Promise!vars
  BY <1>1, PromiseStutter DEF worldVars
<1>2. ASSUME NEW k \in Keys, NEW t \in Targets, NEW kind, Retain(h, k, t, kind)
      PROVE  UNCHANGED Promise!vars
  BY <1>2, AccountLife, PromiseStutter DEF Retain, IInv
<1>3. CASE HandleSettled(h)
  BY <1>3, DropRefines DEF HandleSettled
<1>4. CASE HandleUnresolved(h) \/ ReservationStart(h)
  BY <1>1, <1>4 DEF HandleUnresolved, ReservationStart
<1>5. CASE ReservationSettled(h)
  <2>1. handles[h].state # "unused"
    BY <1>5 DEF ReservationSettled, IInv, TypeOK, Handle, Unused
  <2>. QED
    BY <1>1, <1>5, <2>1, DropRefines DEF ReservationSettled
<1>6. CASE ReservationRelease(h)
  BY <1>1, <1>6, DropRefines DEF ReservationRelease
<1>. QED
  BY <1>2, <1>3, <1>4, <1>5, <1>6 DEF Evidence

\* close() retires the service once nothing is in flight.
LEMMA CloseRefines == IInv /\ FinishClose => Promise!Retire
<1>. SUFFICES ASSUME IInv, FinishClose
              PROVE  Promise!Retire
  OBVIOUS
<1>1. \A k \in Keys : entries'[k].state = "absent" /\ entries'[k].intent = None
  BY DEF FinishClose, Clear, Absent
<1>2. Promise!Forget(Keys)
  BY <1>1 DEF Promise!Forget
<1>. QED
  BY <1>2 DEF FinishClose, Clear, Promise!Retire, InFlight, Promise!Open

\* Every step of the cache is a step of the promise or a stutter.
LEMMA StepRefines == IInv /\ [Next]_vars => [Promise!Next]_(Promise!vars)
<1>. SUFFICES ASSUME IInv, [Next]_vars
              PROVE  Promise!Next \/ UNCHANGED Promise!vars
  OBVIOUS
<1>1. CASE Tick
  BY <1>1, TickRefines DEF Promise!Next
<1>2. CASE Cleanup
  BY <1>2, SweepRefines DEF Cleanup, Sweep, Promise!Next
<1>3. ASSUME NEW k \in Keys, NEW i \in Intents, Execute(k, i)
      PROVE  Promise!Next
  BY <1>3, ExecuteRefines
<1>4. ASSUME NEW k \in Keys, RunOperation(k) \/ NativeApplies(k)
      PROVE  Promise!Next
  BY <1>4, RunOperationRefines, ApplyRefines
<1>5. ASSUME NEW h \in HandleIds, Evidence(h)
      PROVE  UNCHANGED Promise!vars
  BY <1>5, EvidenceRefines
<1>6. ASSUME NEW t \in Targets, EnableTarget(t) \/ DisableTarget(t)
      PROVE  UNCHANGED Promise!vars
  BY <1>6, PromiseStutter DEF EnableTarget, DisableTarget, worldVars
<1>7. CASE BeginClose
  BY <1>7, PromiseStutter DEF BeginClose, worldVars
<1>8. CASE FinishClose
  BY <1>8, CloseRefines DEF Promise!Next
<1>9. CASE UNCHANGED vars
  BY <1>9, PromiseStutter DEF vars, cacheVars, worldVars
<1>. QED
  BY <1>1, <1>2, <1>3, <1>4, <1>5, <1>6, <1>7, <1>8, <1>9 DEF Next

\* An empty cache has promised nothing (createOperationCache).
LEMMA InitRefines == Init => Promise!Init
BY DEF Init, Promise!Init, Absent

\* The operation cache implements IdempotentOperations: with its limits, its sweeps
\* and its evidence it still carries an identity out at most once while it is
\* remembered, forgets it no earlier than Ttl after it settled, and tells everybody
\* the same true verdict (execute, perform, settle, cleanup, close).
THEOREM CacheKeepsPromise == Spec => KeepsPromise
<1>1. Spec => []IInv
  BY CacheInvariant
<1>. QED
  BY <1>1, InitRefines, StepRefines, PTL DEF Spec, KeepsPromise, Promise!Spec

-----------------------------------------------------------------------------
(* Evidence: handles and the records and subscribers that depend on them.  *)

\* What retained evidence hangs on: the record of the call that took it, about a
\* target of that call; and an expired receipt was never pinned.
EvidenceHeld ==
    \A h \in HandleIds :
        /\ handles[h].evidence = "retained" =>
              /\ entries[handles[h].key].state # "absent"
              /\ handles[h].target \in TargetsOf[entries[handles[h].key].intent]
        /\ handles[h].pinned => handles[h].evidence # "expired"

\* The invariant of evidence: what PinnedEvidenceKept, SubscriberInformed and
\* NoHiddenNativeWork need to be inductive.
HandleInv == EvidenceHeld /\ RecordsAccounted /\ SubscriberInformed

(* What the parts of HandleInv need of a step.                                 *)

\* A target that was unsettled for a record and its handles stays so while the
\* record keeps its intent and is not settled, or keeps that handle.
LEMMA StaysUnsettled ==
    ASSUME NEW t, NEW k \in Keys,
           entries[k].state # "absent", t \in TargetsOf[entries[k].intent],
           entries[k].state \in InFlight \/ \E h \in HandlesOf(handles, k) : handles[h].target = t,
           entries'[k].state # "absent", entries'[k].intent = entries[k].intent,
           entries[k].state \in InFlight => entries'[k].state \in InFlight,
           \A h \in HandlesOf(handles, k) : handles[h].target = t =>
               handles'[h].key = k /\ handles'[h].evidence = "retained" /\ handles'[h].target = t
    PROVE  Unsettled(entries', handles', t)
<1>1. entries'[k].state \in InFlight \/ \E h \in HandlesOf(handles', k) : handles'[h].target = t
  BY DEF HandlesOf
<1>. QED
  BY <1>1 DEF Unsettled, Retained

\* Handles that keep their key, evidence and pin keep the size of every record.
LEMMA SameHandlesSameSize ==
    ASSUME NEW k, NEW resultBytes,
           \A h \in HandleIds :
               /\ handles'[h].key = k /\ handles'[h].evidence = "retained"
                     <=> handles[h].key = k /\ handles[h].evidence = "retained"
               /\ handles[h].key = k /\ handles[h].evidence = "retained" =>
                     handles'[h].pinned = handles[h].pinned
    PROVE  AccountedBytes(handles', k, resultBytes) = AccountedBytes(handles, k, resultBytes)
<1>1. HandlesOf(handles', k) = HandlesOf(handles, k)
  BY DEF HandlesOf
<1>2. Pinned(handles', k) = Pinned(handles, k)
  BY <1>1 DEF Pinned, HandlesOf
<1>. QED
  BY <1>1, <1>2 DEF AccountedBytes

\* The parts of HandleInv under a step that moves neither handles nor record sizes.
LEMMA EvidenceUnmoved ==
    ASSUME HandleInv,
           \A k \in Keys : /\ entries'[k].state = entries[k].state
                           /\ entries'[k].intent = entries[k].intent
                           /\ entries'[k].bytes = entries[k].bytes
                           /\ entries'[k].resultBytes = entries[k].resultBytes,
           \A h \in HandleIds : /\ handles'[h].key = handles[h].key
                                /\ handles'[h].target = handles[h].target
                                /\ handles'[h].evidence = handles[h].evidence
                                /\ handles'[h].pinned = handles[h].pinned,
           UNCHANGED <<busy, lapsed>>, TypeOK
    PROVE  HandleInv'
<1>1. EvidenceHeld'
  BY DEF HandleInv, EvidenceHeld, TypeOK, Handle, Unused
<1>2. RecordsAccounted'
  <2>. SUFFICES ASSUME NEW k \in Retained(entries')
                PROVE  entries'[k].bytes = AccountedBytes(handles', k, entries'[k].resultBytes)
    BY DEF RecordsAccounted
  <2>1. k \in Keys /\ k \in Retained(entries)
    BY DEF Retained
  <2>2. entries[k].bytes = AccountedBytes(handles, k, entries[k].resultBytes)
    BY <2>1 DEF HandleInv, RecordsAccounted
  <2>3. AccountedBytes(handles', k, entries[k].resultBytes) = AccountedBytes(handles, k, entries[k].resultBytes)
    BY SameHandlesSameSize
  <2>. QED
    BY <2>1, <2>2, <2>3
<1>3. SubscriberInformed'
  <2>. SUFFICES ASSUME NEW t \in busy, t \notin lapsed
                PROVE  Unsettled(entries', handles', t)
    BY DEF SubscriberInformed
  <2>1. PICK k \in Retained(entries) :
            /\ t \in TargetsOf[entries[k].intent]
            /\ entries[k].state \in InFlight \/ \E h \in HandlesOf(handles, k) : handles[h].target = t
    BY DEF HandleInv, SubscriberInformed, Unsettled
  <2>2. k \in Keys /\ entries[k].state # "absent"
    BY DEF Retained
  <2>. QED
    BY <2>1, <2>2, StaysUnsettled DEF HandlesOf
<1>. QED
  BY <1>1, <1>2, <1>3 DEF HandleInv

\* What a sweep does to evidence: handles of dropped records expire, none of them
\* pinned.
LEMMA SweptEvidence ==
    ASSUME TypeOK, NEW h \in HandleIds
    PROVE  /\ SweptHandles[h].key = handles[h].key
           /\ SweptHandles[h].target = handles[h].target
           /\ SweptHandles[h].pinned = handles[h].pinned
           /\ SweptHandles[h].evidence = "retained" <=>
                 handles[h].evidence = "retained" /\ handles[h].key \notin Expired
           /\ SweptHandles[h].evidence = "expired" =>
                 handles[h].evidence = "expired" \/ ~handles[h].pinned
<1>1. handles[h].key \in Expired /\ handles[h].evidence = "retained" => ~handles[h].pinned
  BY DEF Expired, Pinned, HandlesOf
<1>2. handles[h].evidence = "retained" => "evidence" \in DOMAIN handles[h] /\ handles[h] # Unused
  BY DEF TypeOK, Handle, Unused
<1>. QED
  BY <1>1, <1>2 DEF SweptHandles, TypeOK, Handle, Unused

\* A sweep, alone or with fresh records for keys it leaves absent, keeps the
\* evidence: what a subscriber loses of it has lapsed (cleanup, execute).
LEMMA SweepEvidence ==
    ASSUME TypeOK, HandleInv, NEW fresh \in SUBSET Keys,
           \A k \in Keys \ fresh : entries'[k] = SweptEntries[k],
           \A k \in fresh : /\ SweptEntries[k].state = "absent"
                            /\ entries'[k].state # "absent"
                            /\ entries'[k].resultBytes = Reservation
                            /\ entries'[k].bytes = EntryOverhead + Reservation,
           handles' = SweptHandles,
           lapsed' = lapsed \cup SweptTargets,
           \A t \in busy' : t \in busy \/ Unsettled(entries', handles', t)
    PROVE  HandleInv'
<1>1. \A k \in fresh : k \in Expired \/ entries[k].state = "absent"
  BY DEF SweptEntries
<1>2. \A h \in HandleIds : handles'[h].evidence = "retained" =>
         /\ handles'[h].key \in Keys \ fresh /\ handles'[h].key \notin Expired
         /\ entries'[handles'[h].key] = entries[handles[h].key]
  <2>. SUFFICES ASSUME NEW h \in HandleIds, handles'[h].evidence = "retained"
                PROVE  /\ handles'[h].key \in Keys \ fresh /\ handles'[h].key \notin Expired
                       /\ entries'[handles'[h].key] = entries[handles[h].key]
    OBVIOUS
  <2>1. handles'[h].key = handles[h].key /\ handles[h].evidence = "retained" /\ handles[h].key \notin Expired
    BY SweptEvidence
  <2>2. handles[h].key \in Keys /\ entries[handles[h].key].state # "absent"
    BY <2>1 DEF HandleInv, EvidenceHeld, TypeOK, Handle, Unused
  <2>. QED
    BY <1>1, <2>1, <2>2 DEF SweptEntries
<1>3. EvidenceHeld'
  BY <1>2, SweptEvidence DEF HandleInv, EvidenceHeld
<1>4. RecordsAccounted'
  <2>. SUFFICES ASSUME NEW k \in Keys, entries'[k].state # "absent"
                PROVE  entries'[k].bytes = AccountedBytes(handles', k, entries'[k].resultBytes)
    BY DEF RecordsAccounted, Retained
  <2>1. CASE k \in fresh
    <3>1. HandlesOf(handles', k) = {}
      BY <1>2, <2>1 DEF HandlesOf
    <3>2. Cardinality(HandlesOf(handles', k)) = 0 /\ ~Pinned(handles', k)
      BY <3>1, FS_EmptySet DEF Pinned
    <3>3. HandleBytes \in Nat /\ EntryOverhead \in Nat /\ Reservation \in Nat
      BY CacheAssumption DEF CacheAssumption
    <3>. QED
      BY <2>1, <3>2, <3>3 DEF AccountedBytes
  <2>2. CASE k \notin fresh
    <3>1. entries'[k] = entries[k] /\ k \notin Expired
      BY <2>2 DEF SweptEntries, Absent
    <3>2. entries[k].bytes = AccountedBytes(handles, k, entries[k].resultBytes)
      BY <3>1 DEF HandleInv, RecordsAccounted, Retained
    <3>3. AccountedBytes(handles', k, entries[k].resultBytes) = AccountedBytes(handles, k, entries[k].resultBytes)
      BY <3>1, SweptEvidence, SameHandlesSameSize
    <3>. QED
      BY <3>1, <3>2, <3>3
  <2>. QED
    BY <2>1, <2>2
<1>5. SubscriberInformed'
  <2>. SUFFICES ASSUME NEW t \in busy, t \notin lapsed, t \notin SweptTargets
                PROVE  Unsettled(entries', handles', t)
    BY DEF HandleInv, SubscriberInformed
  <2>1. PICK k \in Retained(entries) :
            /\ t \in TargetsOf[entries[k].intent]
            /\ entries[k].state \in InFlight \/ \E h \in HandlesOf(handles, k) : handles[h].target = t
    BY DEF HandleInv, SubscriberInformed, Unsettled
  <2>2. k \in Keys /\ entries[k].state # "absent"
    BY DEF Retained
  <2>3. k \notin Expired
    <3>1. k \in Expired => entries[k].state \notin InFlight
      BY DEF Expired, InFlight, Verdicts
    <3>2. \A h \in HandlesOf(handles, k) : k \in Expired => handles[h].target \in SweptTargets
      BY DEF SweptTargets
    <3>. QED
      BY <2>1, <3>1, <3>2
  <2>4. entries'[k] = entries[k]
    BY <1>1, <2>2, <2>3 DEF SweptEntries
  <2>5. \A h \in HandlesOf(handles, k) :
           handles'[h].key = k /\ handles'[h].evidence = "retained" /\ handles'[h].target = handles[h].target
    BY <2>3, SweptEvidence DEF HandlesOf
  <2>. QED
    BY <2>1, <2>2, <2>4, <2>5, StaysUnsettled
<1>. QED
  BY <1>3, <1>4, <1>5 DEF HandleInv

\* Settling a record in flight: its handles stay, and its targets are told of
\* (settle).
LEMMA SettleEvidence ==
    ASSUME TypeOK, HandleInv, NEW k \in Keys, NEW verdict \in Verdicts, NEW resultBytes \in Nat,
           entries[k].state \in InFlight, Settle(k, verdict, resultBytes)
    PROVE  HandleInv'
<1>1. /\ entries'[k].state = verdict /\ entries'[k].intent = entries[k].intent
      /\ entries'[k].resultBytes = resultBytes
      /\ entries'[k].bytes = AccountedBytes(handles', k, resultBytes)
      /\ \A j \in Keys \ {k} : entries'[j] = entries[j]
  BY DEF Settle, Account, TypeOK, Entry
<1>2. handles' = handles /\ lapsed' = lapsed /\ Publish(TargetsOf[entries[k].intent])
  BY DEF Settle
<1>3. verdict # "absent"
  BY DEF Verdicts
<1>4. EvidenceHeld'
  BY <1>1, <1>2, <1>3 DEF HandleInv, EvidenceHeld, TypeOK, Handle, Unused
<1>5. RecordsAccounted'
  BY <1>1, <1>2 DEF HandleInv, RecordsAccounted, Retained
<1>6. SubscriberInformed'
  <2>. SUFFICES ASSUME NEW t \in busy, t \notin TargetsOf[entries[k].intent], t \notin lapsed
                PROVE  Unsettled(entries', handles', t)
    BY <1>2 DEF HandleInv, SubscriberInformed, Publish
  <2>1. PICK j \in Retained(entries) :
            /\ t \in TargetsOf[entries[j].intent]
            /\ entries[j].state \in InFlight \/ \E h \in HandlesOf(handles, j) : handles[h].target = t
    BY DEF HandleInv, SubscriberInformed, Unsettled
  <2>2. j \in Keys /\ j # k /\ entries[j].state # "absent"
    BY <2>1 DEF Retained
  <2>. QED
    BY <1>1, <1>2, <2>1, <2>2, StaysUnsettled DEF HandlesOf
<1>. QED
  BY <1>4, <1>5, <1>6 DEF HandleInv

\* One handle of the mutation of k comes or goes, and k is accounted again
\* (mutationEntry's take and settled).
LEMMA HandleEvidence ==
    ASSUME TypeOK, HandleInv, NEW h \in HandleIds, NEW k \in Keys, NEW changed,
           entries[k].state # "absent", Account(k, entries[k]), Publish(changed), lapsed' = lapsed,
           \A g \in HandleIds \ {h} : handles'[g] = handles[g],
           handles[h].evidence = "retained" => handles[h].key = k /\ handles[h].target \in changed,
           handles'[h].evidence = "retained" =>
               handles'[h].key = k /\ handles'[h].target \in TargetsOf[entries[k].intent],
           handles'[h].evidence # "expired"
    PROVE  HandleInv'
<1>1. /\ \A j \in Keys : /\ entries'[j].state = entries[j].state
                         /\ entries'[j].intent = entries[j].intent
                         /\ entries'[j].resultBytes = entries[j].resultBytes
      /\ \A j \in Keys \ {k} : entries'[j] = entries[j]
      /\ entries'[k].bytes = AccountedBytes(handles', k, entries[k].resultBytes)
  BY DEF Account, TypeOK, Entry
<1>2. EvidenceHeld'
  BY <1>1 DEF HandleInv, EvidenceHeld, TypeOK, Handle, Unused
<1>3. RecordsAccounted'
  <2>. SUFFICES ASSUME NEW j \in Retained(entries')
                PROVE  entries'[j].bytes = AccountedBytes(handles', j, entries'[j].resultBytes)
    BY DEF RecordsAccounted
  <2>1. j \in Keys /\ j \in Retained(entries)
    BY <1>1 DEF Retained
  <2>2. CASE j = k
    BY <1>1, <2>1, <2>2
  <2>3. CASE j # k
    <3>1. entries[j].bytes = AccountedBytes(handles, j, entries[j].resultBytes)
      BY <2>1 DEF HandleInv, RecordsAccounted
    <3>2. AccountedBytes(handles', j, entries[j].resultBytes) = AccountedBytes(handles, j, entries[j].resultBytes)
      BY <2>3, SameHandlesSameSize
    <3>. QED
      BY <1>1, <2>1, <2>3, <3>1, <3>2
  <2>. QED
    BY <2>2, <2>3
<1>4. SubscriberInformed'
  <2>. SUFFICES ASSUME NEW t \in busy, t \notin changed, t \notin lapsed
                PROVE  Unsettled(entries', handles', t)
    BY DEF HandleInv, SubscriberInformed, Publish
  <2>1. PICK j \in Retained(entries) :
            /\ t \in TargetsOf[entries[j].intent]
            /\ entries[j].state \in InFlight \/ \E g \in HandlesOf(handles, j) : handles[g].target = t
    BY DEF HandleInv, SubscriberInformed, Unsettled
  <2>2. j \in Keys /\ entries[j].state # "absent"
    BY DEF Retained
  <2>3. \A g \in HandlesOf(handles, j) : handles[g].target = t => g \in HandleIds \ {h}
    BY DEF HandlesOf
  <2>. QED
    BY <1>1, <2>1, <2>2, <2>3, StaysUnsettled DEF HandlesOf
<1>. QED
  BY <1>2, <1>3, <1>4 DEF HandleInv

\* settled() of a handle: without a record there is nothing to account.
LEMMA DropEvidence ==
    ASSUME TypeOK, HandleInv, NEW h \in HandleIds, handles[h].state # "unused", Drop(h)
    PROVE  HandleInv'
<1>1. /\ handles'[h] = Unused /\ \A g \in HandleIds \ {h} : handles'[g] = handles[g]
      /\ lapsed' = lapsed
  BY DEF Drop, TypeOK
<1>2. handles[h].key \in Keys
  BY DEF TypeOK, Handle, Unused
<1>3. CASE handles[h].evidence = "retained"
  <2>1. entries[handles[h].key].state # "absent"
    BY <1>3 DEF HandleInv, EvidenceHeld
  <2>2. Account(handles[h].key, entries[handles[h].key]) /\ Publish({handles[h].target})
    BY <1>3 DEF Drop
  <2>3. handles'[h].evidence = "cleared"
    BY <1>1 DEF Unused
  <2>. QED
    BY <1>1, <1>2, <2>1, <2>2, <2>3, HandleEvidence
<1>4. CASE handles[h].evidence # "retained"
  <2>1. UNCHANGED <<entries, busy, lapsed>>
    BY <1>1, <1>4 DEF Drop
  <2>2. \A g \in HandleIds : handles[g].evidence = "retained" => handles'[g] = handles[g]
    BY <1>1, <1>4
  <2>3. \A g \in HandleIds : handles'[g].evidence = "retained" => handles'[g] = handles[g]
    BY <1>1, <1>4 DEF Unused
  <2>4. \A g \in HandleIds : handles'[g].pinned => handles'[g].evidence # "expired"
    BY <1>1 DEF HandleInv, EvidenceHeld, Unused
  <2>5. EvidenceHeld'
    BY <2>1, <2>3, <2>4 DEF HandleInv, EvidenceHeld
  <2>6. \A k : /\ HandlesOf(handles', k) = HandlesOf(handles, k)
               /\ \A g \in HandlesOf(handles, k) : handles'[g] = handles[g]
    BY <2>2, <2>3 DEF HandlesOf
  <2>7. \A k, bytes : AccountedBytes(handles', k, bytes) = AccountedBytes(handles, k, bytes)
    BY <2>6 DEF AccountedBytes, Pinned
  <2>8. RecordsAccounted'
    BY <2>1, <2>7 DEF HandleInv, RecordsAccounted, Retained
  <2>9. \A t : Unsettled(entries', handles', t) <=> Unsettled(entries, handles, t)
    BY <2>1, <2>6 DEF Unsettled
  <2>10. SubscriberInformed'
    BY <2>1, <2>9 DEF HandleInv, SubscriberInformed
  <2>. QED
    BY <2>5, <2>8, <2>10 DEF HandleInv
<1>. QED
  BY <1>3, <1>4

\* Handles taken, started, unresolved, released and settled (mutationEntry).
LEMMA EvidenceStep ==
    ASSUME TypeOK, HandleInv, NEW h \in HandleIds, Evidence(h)
    PROVE  HandleInv'
<1>. DEFINE FlagsOnly == /\ \A g \in HandleIds : /\ handles'[g].key = handles[g].key
                                                /\ handles'[g].target = handles[g].target
                                                /\ handles'[g].evidence = handles[g].evidence
                                                /\ handles'[g].pinned = handles[g].pinned
                         /\ UNCHANGED <<entries, enabledTargets, retainedBytes, closing, worldVars>>
<1>1. ASSUME FlagsOnly PROVE HandleInv'
  BY <1>1, EvidenceUnmoved DEF worldVars
<1>2. ASSUME NEW k \in Keys, NEW t \in Targets, NEW kind, Retain(h, k, t, kind)
      PROVE  HandleInv'
  <2>1. handles[h].evidence # "retained"
    BY <1>2 DEF Retain, TypeOK, Handle, Unused
  <2>2. /\ handles'[h].key = k /\ handles'[h].target = t /\ handles'[h].evidence = "retained"
        /\ \A g \in HandleIds \ {h} : handles'[g] = handles[g]
    BY <1>2 DEF Retain, TypeOK
  <2>3. /\ entries[k].state # "absent" /\ t \in TargetsOf[entries[k].intent]
        /\ Account(k, entries[k]) /\ Publish({}) /\ lapsed' = lapsed
    BY <1>2 DEF Retain
  <2>. QED
    BY <2>1, <2>2, <2>3, HandleEvidence
<1>3. CASE HandleSettled(h)
  BY <1>3, DropEvidence DEF HandleSettled
<1>4. CASE HandleUnresolved(h)
  <2>1. FlagsOnly
    BY <1>4 DEF HandleUnresolved, TypeOK, Handle, Unused
  <2>. QED
    BY <1>1, <2>1
<1>5. CASE ReservationStart(h)
  <2>1. FlagsOnly
    BY <1>5 DEF ReservationStart, TypeOK, Handle, Unused
  <2>. QED
    BY <1>1, <2>1
<1>6. CASE ReservationSettled(h)
  <2>1. handles[h].active /\ handles[h].state # "unused"
    BY <1>6 DEF ReservationSettled, TypeOK, Handle, Unused
  <2>2. CASE handles[h].released
    BY <1>6, <2>1, <2>2, DropEvidence DEF ReservationSettled
  <2>3. CASE ~handles[h].released
    <3>1. FlagsOnly
      BY <1>6, <2>1, <2>3 DEF ReservationSettled, TypeOK, Handle, Unused
    <3>. QED
      BY <1>1, <3>1
  <2>. QED
    BY <2>2, <2>3
<1>7. CASE ReservationRelease(h)
  <2>1. CASE handles[h].active
    <3>1. FlagsOnly
      BY <1>7, <2>1 DEF ReservationRelease, TypeOK, Handle, Unused
    <3>. QED
      BY <1>1, <3>1
  <2>2. CASE ~handles[h].active
    BY <1>7, <2>2, DropEvidence DEF ReservationRelease
  <2>. QED
    BY <2>1, <2>2
<1>. QED
  BY <1>2, <1>3, <1>4, <1>5, <1>6, <1>7 DEF Evidence

\* Every answer of execute: a fresh record starts without handles, because whatever
\* took them under this key is settled or has expired.
LEMMA ExecuteEvidence ==
    ASSUME TypeOK, HandleInv, NEW k \in Keys, NEW i \in Intents, Execute(k, i)
    PROVE  HandleInv'
<1>1. CASE ExecuteDuplicate(k, i) \/ ExecuteRefused(k, i)
  <2>1. /\ entries' = SweptEntries /\ handles' = SweptHandles
        /\ lapsed' = lapsed \cup SweptTargets /\ busy' = busy
    BY <1>1 DEF ExecuteDuplicate, ExecuteRefused, Sweep
  <2>. DEFINE none == {}
  <2>2. none \in SUBSET Keys /\ \A j \in none : FALSE
    OBVIOUS
  <2>. QED
    BY <2>1, <2>2, SweepEvidence
<1>2. CASE ExecuteFresh(k, i)
  <2>1. /\ SweptEntries[k].state = "absent"
        /\ entries'[k] = [state |-> "validating", intent |-> i, age |-> 0,
                          bytes |-> EntryOverhead + Reservation, resultBytes |-> Reservation]
        /\ \A j \in Keys \ {k} : entries'[j] = SweptEntries[j]
    BY <1>2, SweepType DEF ExecuteFresh
  <2>2. handles' = SweptHandles /\ lapsed' = lapsed \cup SweptTargets /\ Publish({})
    BY <1>2 DEF ExecuteFresh
  <2>3. \A t \in busy' : t \in busy \/ Unsettled(entries', handles', t)
    BY <2>2 DEF Publish
  <2>4. /\ {k} \in SUBSET Keys
        /\ \A j \in {k} : /\ SweptEntries[j].state = "absent"
                          /\ entries'[j].state # "absent"
                          /\ entries'[j].resultBytes = Reservation
                          /\ entries'[j].bytes = EntryOverhead + Reservation
    BY <2>1
  <2>. QED
    BY <2>1, <2>2, <2>3, <2>4, SweepEvidence
<1>. QED
  BY <1>1, <1>2 DEF Execute

\* Every step of runOperation.
LEMMA RunOperationEvidence ==
    ASSUME TypeOK, HandleInv, NEW k \in Keys, RunOperation(k)
    PROVE  HandleInv'
<1>0. /\ 0 \in Nat /\ Reservation \in Nat /\ 0..Reservation \subseteq Nat
      /\ {"validating", "dispatching"} \subseteq InFlight /\ {"completed", "rejected", "unknown"} \subseteq Verdicts
  BY CacheAssumption DEF CacheAssumption, InFlight, Verdicts
<1>1. CASE Dispatch(k)
  <2>1. /\ entries'[k].state = "dispatching" /\ entries[k].state = "validating"
        /\ entries'[k].intent = entries[k].intent
        /\ entries'[k].bytes = entries[k].bytes /\ entries'[k].resultBytes = entries[k].resultBytes
        /\ \A j \in Keys \ {k} : entries'[j] = entries[j]
    BY <1>1 DEF Dispatch, TypeOK, Entry
  <2>2. UNCHANGED <<handles, busy, lapsed>>
    BY <1>1 DEF Dispatch
  <2>3. EvidenceHeld'
    BY <2>1, <2>2 DEF HandleInv, EvidenceHeld, TypeOK, Handle, Unused
  <2>4. RecordsAccounted'
    BY <2>1, <2>2 DEF HandleInv, RecordsAccounted, Retained
  <2>5. \A t : Unsettled(entries, handles, t) => Unsettled(entries', handles', t)
    BY <2>1, <2>2 DEF Unsettled, Retained, InFlight
  <2>6. SubscriberInformed'
    BY <2>2, <2>5 DEF HandleInv, SubscriberInformed
  <2>. QED
    BY <2>3, <2>4, <2>6 DEF HandleInv
<1>2. CASE RejectBeforeDispatch(k)
  BY <1>0, <1>2, SettleEvidence DEF RejectBeforeDispatch
<1>3. CASE DispatchReturns(k)
  BY <1>0, <1>3, SettleEvidence DEF DispatchReturns
<1>4. CASE DispatchRejected(k) \/ DispatchFails(k)
  BY <1>0, <1>4, SettleEvidence DEF DispatchRejected, DispatchFails
<1>. QED
  BY <1>1, <1>2, <1>3, <1>4 DEF RunOperation

\* close() clears the evidence with the records and the subscribers.
LEMMA CloseEvidence == TypeOK /\ HandleInv /\ FinishClose => HandleInv'
<1>. SUFFICES ASSUME TypeOK, HandleInv, FinishClose
              PROVE  HandleInv'
  OBVIOUS
<1>1. \A h \in HandleIds : /\ handles'[h].evidence # "retained"
                           /\ handles'[h].pinned = handles[h].pinned
                           /\ handles'[h].evidence = "expired" => handles[h].evidence = "expired"
  BY DEF FinishClose, Clear, TypeOK, Handle, Unused
<1>2. EvidenceHeld'
  BY <1>1 DEF HandleInv, EvidenceHeld
<1>3. RecordsAccounted'
  BY DEF FinishClose, Clear, RecordsAccounted, Retained, Absent
<1>4. SubscriberInformed'
  BY DEF FinishClose, Clear, SubscriberInformed
<1>. QED
  BY <1>2, <1>3, <1>4 DEF HandleInv

\* Every step of the cache keeps HandleInv: the lemmas above together.
LEMMA HandleNext == TypeOK /\ HandleInv /\ [Next]_vars => HandleInv'
<1>. SUFFICES ASSUME TypeOK, HandleInv, [Next]_vars
              PROVE  HandleInv'
  OBVIOUS
<1>1. CASE Tick
  <2>1. \A k \in Keys : /\ entries'[k].state = entries[k].state
                        /\ entries'[k].intent = entries[k].intent
                        /\ entries'[k].bytes = entries[k].bytes
                        /\ entries'[k].resultBytes = entries[k].resultBytes
    BY <1>1 DEF Tick, TypeOK, Entry
  <2>2. UNCHANGED <<handles, busy, lapsed>>
    BY <1>1 DEF Tick
  <2>. QED
    BY <2>1, <2>2, EvidenceUnmoved
<1>2. CASE Cleanup
  <2>1. /\ entries' = SweptEntries /\ handles' = SweptHandles
        /\ lapsed' = lapsed \cup SweptTargets /\ busy' = busy
    BY <1>2 DEF Cleanup, Sweep
  <2>. DEFINE none == {}
  <2>2. none \in SUBSET Keys /\ \A j \in none : FALSE
    OBVIOUS
  <2>. QED
    BY <2>1, <2>2, SweepEvidence
<1>3. ASSUME NEW k \in Keys, NEW i \in Intents, Execute(k, i)
      PROVE  HandleInv'
  BY <1>3, ExecuteEvidence
<1>4. ASSUME NEW k \in Keys, RunOperation(k) \/ NativeApplies(k)
      PROVE  HandleInv'
  <2>1. CASE NativeApplies(k)
    BY <2>1, EvidenceUnmoved DEF NativeApplies, cacheVars
  <2>. QED
    BY <1>4, <2>1, RunOperationEvidence
<1>5. ASSUME NEW h \in HandleIds, Evidence(h)
      PROVE  HandleInv'
  BY <1>5, EvidenceStep
<1>6. ASSUME NEW t \in Targets, EnableTarget(t) \/ DisableTarget(t)
      PROVE  HandleInv'
  BY <1>6, EvidenceUnmoved DEF EnableTarget, DisableTarget, worldVars
<1>7. CASE BeginClose
  BY <1>7, EvidenceUnmoved DEF BeginClose, worldVars
<1>8. CASE FinishClose
  BY <1>8, CloseEvidence
<1>9. CASE UNCHANGED vars
  BY <1>9, EvidenceUnmoved DEF vars, cacheVars, worldVars
<1>. QED
  BY <1>1, <1>2, <1>3, <1>4, <1>5, <1>6, <1>7, <1>8, <1>9 DEF Next

\* An empty cache holds no evidence and no subscriber waits.
LEMMA HandleInit == Init => HandleInv
BY DEF Init, HandleInv, EvidenceHeld, RecordsAccounted, SubscriberInformed, Retained, Absent, Unused

\* What evidence hangs on, record sizes and subscribers' views hold together in every
\* reachable state.
THEOREM HandlesInvariant == Spec => []HandleInv
<1>1. TypeOK /\ HandleInv /\ [Next]_vars => HandleInv'
  BY HandleNext
<1>. QED
  BY <1>1, HandleInit, CacheTypes, PTL DEF Spec

\* A subscriber never waits for a target that settled, except where unpinned
\* evidence expired (notifySettled): every step that settles a target publishes it.
THEOREM SubscribersInformed == Spec => []SubscriberInformed
<1>1. HandleInv => SubscriberInformed
  BY DEF HandleInv
<1>. QED
  BY <1>1, HandlesInvariant, PTL

\* Pinned evidence never expires (cleanup).
THEOREM PinnedEvidenceSafe == Spec => []PinnedEvidenceKept
<1>1. HandleInv => PinnedEvidenceKept
  BY DEF HandleInv, EvidenceHeld, PinnedEvidenceKept
<1>. QED
  BY <1>1, HandlesInvariant, PTL

\* Every record carries the size its result and handles come to (account).
THEOREM RecordSizes == Spec => []RecordsAccounted
<1>1. HandleInv => RecordsAccounted
  BY DEF HandleInv
<1>. QED
  BY <1>1, HandlesInvariant, PTL

\* Only a reservation's start makes native work active, and on an enabled target it
\* needs retained evidence, whose record shows the target unsettled
\* (reserveNativeEffect.start).
LEMMA StartsShown ==
    ASSUME TypeOK, HandleInv, [Next]_vars, NEW h \in HandleIds,
           ~handles[h].active, handles'[h].active, enabledTargets[handles[h].target] > 0
    PROVE  Unsettled(entries', handles', handles[h].target)
<1>1. ReservationStart(h)
  <2>1. ASSUME NEW g \in HandleIds, Evidence(g), ~ReservationStart(g)
        PROVE  FALSE
    <3>1. ASSUME NEW k \in Keys, NEW t \in Targets, NEW kind \in Kinds, Retain(g, k, t, kind)
          PROVE  ~handles'[h].active
      BY <3>1 DEF Retain, TypeOK
    <3>2. ASSUME Drop(g) PROVE ~handles'[h].active
      BY <3>2 DEF Drop, TypeOK, Unused
    <3>3. ASSUME HandleUnresolved(g) PROVE ~handles'[h].active
      BY <3>3 DEF HandleUnresolved, TypeOK, Handle, Unused
    <3>4. ASSUME ReservationSettled(g), ~Drop(g) PROVE ~handles'[h].active
      BY <3>4 DEF ReservationSettled, TypeOK, Handle, Unused
    <3>5. ASSUME ReservationRelease(g), ~Drop(g) PROVE ~handles'[h].active
      BY <3>5 DEF ReservationRelease, TypeOK, Handle, Unused
    <3>. QED
      BY <2>1, <3>1, <3>2, <3>3, <3>4, <3>5 DEF Evidence, HandleSettled
  <2>2. ASSUME NEW g \in HandleIds, ReservationStart(g)
        PROVE  g = h
    BY <2>2 DEF ReservationStart, TypeOK
  <2>3. ASSUME \A g \in HandleIds : handles'[g].active = handles[g].active
        PROVE  FALSE
    BY <2>3
  <2>4. ASSUME handles' = SweptHandles PROVE FALSE
    BY <2>3, <2>4 DEF SweptHandles, TypeOK, Handle, Unused
  <2>5. ASSUME NEW k \in Keys, NEW i \in Intents, Execute(k, i) PROVE FALSE
    BY <2>4, <2>5 DEF Execute, ExecuteDuplicate, ExecuteRefused, ExecuteFresh, Sweep
  <2>6. ASSUME NEW k \in Keys, RunOperation(k) \/ NativeApplies(k) PROVE FALSE
    <3>1. handles' = handles
      BY <2>6 DEF RunOperation, NativeApplies, cacheVars, RejectBeforeDispatch, Dispatch,
                  DispatchReturns, DispatchRejected, DispatchFails, Settle
    <3>. QED
      BY <2>3, <3>1
  <2>7. CASE FinishClose
    BY <2>3, <2>7 DEF FinishClose, Clear, TypeOK, Handle, Unused
  <2>8. CASE Cleanup
    BY <2>4, <2>8 DEF Cleanup, Sweep
  <2>9. handles' # handles
    BY <2>3
  <2>. QED
    BY <2>1, <2>2, <2>5, <2>6, <2>7, <2>8, <2>9
       DEF Next, Tick, EnableTarget, DisableTarget, BeginClose, vars, cacheVars
<1>2. /\ handles[h].evidence = "retained"
      /\ handles[h].key \in Keys
      /\ entries[handles[h].key].state # "absent"
      /\ handles[h].target \in TargetsOf[entries[handles[h].key].intent]
  <2>1. handles[h].state # "unused" /\ handles[h].target \in Targets /\ handles[h].key \in Keys
    BY <1>1 DEF ReservationStart, TypeOK, Handle, Unused
  <2>2. handles[h].evidence = "retained"
    BY <1>1, <2>1 DEF ReservationStart, TypeOK
  <2>. QED
    BY <2>1, <2>2 DEF HandleInv, EvidenceHeld
<1>3. /\ entries' = entries
      /\ handles'[h].key = handles[h].key /\ handles'[h].evidence = handles[h].evidence
      /\ handles'[h].target = handles[h].target
  BY <1>1 DEF ReservationStart, TypeOK, Handle, Unused
<1>. QED
  BY <1>2, <1>3 DEF Unsettled, Retained, HandlesOf

\* Native work never starts on an enabled target behind the cache's back
\* (reserveNativeEffect.start, enableMutationTarget).
THEOREM NativeWorkShown == Spec => NoHiddenNativeWork
<1>1. TypeOK /\ HandleInv /\ [Next]_vars =>
        [\A h \in HandleIds :
           (~handles[h].active /\ handles'[h].active /\ enabledTargets[handles[h].target] > 0)
             => Unsettled(entries', handles', handles[h].target)]_vars
  BY StartsShown
<1>. QED
  BY <1>1, CacheTypes, HandlesInvariant, PTL DEF Spec, NoHiddenNativeWork

-----------------------------------------------------------------------------
(* Sums over finite sets.  The induction theorems of the library take an   *)
(* operator; the least member of a set of counterexamples needs none.      *)

\* The member of a set that the fold takes first.
Pick(s) == CHOOSE x \in s : TRUE

\* total sums f over every subset of S, one picked member at a time.
Adds(total, f, S) ==
   total = [s \in SUBSET S |-> IF s = {} THEN 0 ELSE f[Pick(s)] + total[s \ {Pick(s)}]]

\* The fold behind SumFunctionOnSet, as the recursion it stands for.
LEMMA SumIs == \A f, S : SumFunctionOnSet(f, S) = (CHOOSE total : Adds(total, f, S))[S]
BY DEF SumFunctionOnSet, FoldFunctionOnSet, MapThenFoldSet, Adds, Pick

\* A nonempty set of naturals has a least member: what the inductions below use.
LEMMA LeastNumber ==
    ASSUME NEW T, T \subseteq Nat, T # {}
    PROVE  \E n \in T : \A m \in T : n <= m
<1>. DEFINE Less == {pair \in Nat \X Nat : pair[1] < pair[2]}
<1>1. IsWellFoundedOn(Less, Nat)
  BY NatLessThanWellFounded DEF OpToRel
<1>2. PICK n \in T : \A m \in T : ~(<<m, n>> \in Less)
  <2>. HIDE DEF Less
  <2>. QED
    BY <1>1, WFMin
<1>3. ASSUME NEW m \in T PROVE n <= m
  <2>1. <<m, n>> \in Nat \X Nat /\ <<m, n>>[1] = m /\ <<m, n>>[2] = n
    OBVIOUS
  <2>2. m < n => <<m, n>> \in Less
    BY <2>1
  <2>. QED
    BY <1>2, <2>2
<1>. QED
  BY <1>3
\* Taking a member out of a finite set.
LEMMA SizeWithout ==
    ASSUME NEW S, IsFiniteSet(S), NEW e \in S
    PROVE  /\ IsFiniteSet(S \ {e})
           /\ Cardinality(S \ {e}) = Cardinality(S) - 1
           /\ Cardinality(S) - 1 \in Nat /\ Cardinality(S) \in Nat
<1>1. IsFiniteSet(S \ {e}) /\ Cardinality(S \ {e}) = Cardinality(S) - 1
  BY FS_RemoveElement
<1>2. Cardinality(S) \in Nat /\ Cardinality(S \ {e}) \in Nat
  BY <1>1, FS_CardinalityType
<1>. QED
  BY <1>1, <1>2

\* The recursion has a solution on every finite set, by induction on the size of the
\* subsets it covers.
LEMMA TotalExists ==
    ASSUME NEW S, IsFiniteSet(S), NEW f
    PROVE  \E total : Adds(total, f, S)
<1>. DEFINE Upto(n) == {s \in SUBSET S : Cardinality(s) <= n}
            Part(n, h) == h = [s \in Upto(n) |-> IF s = {} THEN 0 ELSE f[Pick(s)] + h[s \ {Pick(s)}]]
            Bad == {n \in Nat : ~\E h : Part(n, h)}
<1>1. ASSUME NEW s \in SUBSET S, s # {}
      PROVE  /\ Pick(s) \in s /\ s \ {Pick(s)} \in SUBSET S
             /\ Cardinality(s \ {Pick(s)}) = Cardinality(s) - 1
             /\ Cardinality(s) - 1 \in Nat /\ Cardinality(s) \in Nat
  <2>1. Pick(s) \in s /\ IsFiniteSet(s)
    BY <1>1, FS_Subset DEF Pick
  <2>. QED
    BY <2>1, SizeWithout
<1>2. Bad = {}
  <2>. SUFFICES ASSUME Bad # {} PROVE FALSE
    OBVIOUS
  <2>1. PICK n \in Bad : \A m \in Bad : n <= m
    <3>. HIDE DEF Bad
    <3>1. Bad \subseteq Nat
      BY DEF Bad
    <3>. QED
      BY <3>1, LeastNumber
  <2>2. CASE n = 0
    <3>. DEFINE h == [s \in Upto(0) |-> 0]
    <3>1. ASSUME NEW s \in Upto(0), s # {} PROVE FALSE
      <4>1. Cardinality(s) - 1 \in Nat /\ Cardinality(s) \in Nat /\ Cardinality(s) <= 0
        BY <1>1, <3>1
      <4>. QED
        BY <4>1
    <3>2. Part(0, h)
      BY <3>1
    <3>. QED
      BY <2>2, <3>2
  <2>3. CASE n # 0
    <3>1. n - 1 \in Nat /\ n - 1 < n /\ n - 1 \notin Bad
      <4>1. n \in Nat
        OBVIOUS
      <4>. HIDE DEF Bad
      <4>. QED
        BY <2>1, <2>3, <4>1
    <3>2. PICK h : Part(n - 1, h)
      BY <3>1
    <3>. DEFINE g == [s \in Upto(n) |-> IF s = {} THEN 0 ELSE f[Pick(s)] + h[s \ {Pick(s)}]]
    <3>3. \A s \in Upto(n - 1) : s \in Upto(n) /\ g[s] = h[s]
      <4>1. \A s \in Upto(n - 1) : s \in Upto(n)
        BY <3>1, FS_Subset, FS_CardinalityType
      <4>2. \A s \in Upto(n - 1) : h[s] = IF s = {} THEN 0 ELSE f[Pick(s)] + h[s \ {Pick(s)}]
        BY <3>2
      <4>. QED
        BY <4>1, <4>2
    <3>4. \A s \in Upto(n) : s # {} => s \ {Pick(s)} \in Upto(n - 1)
      BY <1>1
    <3>5. Part(n, g)
      BY <3>3, <3>4
    <3>. QED
      BY <2>1, <3>5
  <2>. QED
    BY <2>2, <2>3
<1>3. Cardinality(S) \in Nat /\ Upto(Cardinality(S)) = SUBSET S
  BY FS_Subset, FS_CardinalityType
<1>4. PICK h : Part(Cardinality(S), h)
  BY <1>2, <1>3
<1>5. Adds(h, f, S)
  BY <1>3, <1>4 DEF Adds
<1>. QED
  BY <1>5

\* The recursion only looks at the summands in its set.
LEMMA AddsSame ==
    ASSUME NEW S, NEW f, NEW g, NEW total, \A x \in S : f[x] = g[x], Adds(total, f, S)
    PROVE  Adds(total, g, S)
<1>1. \A s \in SUBSET S : s # {} => f[Pick(s)] = g[Pick(s)]
  BY DEF Pick
<1>. QED
  BY <1>1 DEF Adds

\* Two solutions agree where both are defined, by induction on the size of the set.
LEMMA TotalsAgree ==
    ASSUME NEW S, NEW T, NEW f, NEW u, NEW v, NEW U, IsFiniteSet(S),
           Adds(u, f, S), Adds(v, f, T), U \in SUBSET S, U \in SUBSET T
    PROVE  u[U] = v[U]
<1>. DEFINE Bad == {n \in Nat : \E s \in SUBSET U : Cardinality(s) = n /\ u[s] # v[s]}
<1>1. ASSUME NEW s \in SUBSET U
      PROVE  /\ u[s] = IF s = {} THEN 0 ELSE f[Pick(s)] + u[s \ {Pick(s)}]
             /\ v[s] = IF s = {} THEN 0 ELSE f[Pick(s)] + v[s \ {Pick(s)}]
  BY DEF Adds
<1>2. Bad = {}
  <2>. SUFFICES ASSUME Bad # {} PROVE FALSE
    OBVIOUS
  <2>1. PICK n \in Bad : \A m \in Bad : n <= m
    <3>. HIDE DEF Bad
    <3>1. Bad \subseteq Nat
      BY DEF Bad
    <3>. QED
      BY <3>1, LeastNumber
  <2>2. PICK s \in SUBSET U : Cardinality(s) = n /\ u[s] # v[s]
    BY <2>1
  <2>3. s # {} /\ Pick(s) \in s
    BY <1>1, <2>2 DEF Pick
  <2>4. IsFiniteSet(s) /\ Cardinality(s \ {Pick(s)}) = n - 1 /\ n - 1 \in Nat
    BY <2>2, <2>3, FS_Subset, SizeWithout
  <2>5. u[s \ {Pick(s)}] = v[s \ {Pick(s)}]
    BY <2>1, <2>4
  <2>. QED
    BY <1>1, <2>2, <2>3, <2>5
<1>3. Cardinality(U) \in Nat
  BY FS_Subset, FS_CardinalityType
<1>. QED
  BY <1>2, <1>3

\* A sum is the value of a solution.
LEMMA SumAdds ==
    ASSUME NEW S, IsFiniteSet(S), NEW f
    PROVE  \E total : Adds(total, f, S) /\ SumFunctionOnSet(f, S) = total[S]
BY TotalExists, SumIs

\* Equal summands, equal sums.
LEMMA SumSame ==
    ASSUME NEW S, IsFiniteSet(S), NEW f, NEW g, \A x \in S : f[x] = g[x]
    PROVE  SumFunctionOnSet(f, S) = SumFunctionOnSet(g, S)
<1>1. PICK t : Adds(t, f, S) /\ SumFunctionOnSet(f, S) = t[S]
  BY SumAdds
<1>2. PICK u : Adds(u, g, S) /\ SumFunctionOnSet(g, S) = u[S]
  BY SumAdds
<1>3. t[S] = u[S]
  <2>1. Adds(t, g, S)
    BY <1>1, AddsSame
  <2>. QED
    BY <1>2, <2>1, TotalsAgree
<1>. QED
  BY <1>1, <1>2, <1>3

\* The empty sum.
LEMMA SumEmpty == \A f : SumFunctionOnSet(f, {}) = 0
<1>. SUFFICES ASSUME NEW f PROVE SumFunctionOnSet(f, {}) = 0
  OBVIOUS
<1>1. PICK t : Adds(t, f, {}) /\ SumFunctionOnSet(f, {}) = t[{}]
  BY SumAdds, FS_EmptySet
<1>. QED
  BY <1>1 DEF Adds

\* A sum is the member it picks and the sum of the rest.
LEMMA SumRest ==
    ASSUME NEW S, NEW f, IsFiniteSet(S), S # {}
    PROVE  Pick(S) \in S /\ SumFunctionOnSet(f, S) = f[Pick(S)] + SumFunctionOnSet(f, S \ {Pick(S)})
<1>. DEFINE rest == S \ {Pick(S)}
<1>0. rest \in SUBSET S
  OBVIOUS
<1>1. PICK t : Adds(t, f, S) /\ SumFunctionOnSet(f, S) = t[S]
  BY SumAdds
<1>2. t[S] = f[Pick(S)] + t[rest]
  BY <1>1 DEF Adds
<1>3. SumFunctionOnSet(f, rest) = t[rest]
  <2>. HIDE DEF rest
  <2>1. PICK u : Adds(u, f, rest) /\ SumFunctionOnSet(f, rest) = u[rest]
    BY <1>0, SumAdds, FS_Subset
  <2>2. rest \in SUBSET rest
    OBVIOUS
  <2>3. t[rest] = u[rest]
    BY <1>0, <1>1, <2>1, <2>2, TotalsAgree
  <2>. QED
    BY <2>1, <2>3
<1>. QED
  BY <1>1, <1>2, <1>3 DEF Pick

\* Any member may be taken out first, so the order of the fold does not matter.
LEMMA SumSplits ==
    ASSUME NEW S, IsFiniteSet(S), NEW f, \A x \in S : f[x] \in Int
    PROVE  /\ SumFunctionOnSet(f, S) \in Int
           /\ \A e \in S : SumFunctionOnSet(f, S) = f[e] + SumFunctionOnSet(f, S \ {e})
<1>. DEFINE Good(s) == /\ SumFunctionOnSet(f, s) \in Int
                       /\ \A e \in s : SumFunctionOnSet(f, s) = f[e] + SumFunctionOnSet(f, s \ {e})
            Bad == {n \in Nat : \E s \in SUBSET S : Cardinality(s) = n /\ ~Good(s)}
<1>1. Bad = {}
  <2>. SUFFICES ASSUME Bad # {} PROVE FALSE
    OBVIOUS
  <2>1. PICK n \in Bad : \A m \in Bad : n <= m
    <3>. HIDE DEF Bad
    <3>1. Bad \subseteq Nat
      BY DEF Bad
    <3>. QED
      BY <3>1, LeastNumber
  <2>2. PICK s \in SUBSET S : Cardinality(s) = n /\ ~Good(s)
    BY <2>1
  <2>3. IsFiniteSet(s)
    BY FS_Subset
  <2>4. \A e \in s : Good(s \ {e})
    <3>. SUFFICES ASSUME NEW e \in s PROVE Good(s \ {e})
      OBVIOUS
    <3>1. Cardinality(s \ {e}) = n - 1 /\ n - 1 \in Nat
      BY <2>2, <2>3, SizeWithout
    <3>. HIDE DEF Good
    <3>. QED
      BY <2>1, <3>1
  <2>5. s # {}
    BY <2>2, SumEmpty
  <2>. DEFINE x == Pick(s)
  <2>6. x \in s /\ SumFunctionOnSet(f, s) = f[x] + SumFunctionOnSet(f, s \ {x})
    BY <2>3, <2>5, SumRest
  <2>. HIDE DEF x
  <2>7. SumFunctionOnSet(f, s) \in Int
    BY <2>4, <2>6
  <2>8. ASSUME NEW e \in s, e # x
        PROVE  SumFunctionOnSet(f, s) = f[e] + SumFunctionOnSet(f, s \ {e})
    <3>1. SumFunctionOnSet(f, s \ {x}) = f[e] + SumFunctionOnSet(f, (s \ {x}) \ {e})
      BY <2>4, <2>6, <2>8
    <3>2. SumFunctionOnSet(f, s \ {e}) = f[x] + SumFunctionOnSet(f, (s \ {e}) \ {x})
      BY <2>4, <2>6, <2>8
    <3>3. (s \ {e}) \ {x} = (s \ {x}) \ {e}
      OBVIOUS
    <3>4. SumFunctionOnSet(f, (s \ {x}) \ {e}) \in Int
      <4>0. e \in s \ {x} /\ IsFiniteSet(s \ {x}) /\ Cardinality(s \ {x}) = n - 1
        BY <2>2, <2>3, <2>6, <2>8, SizeWithout
      <4>1. Cardinality((s \ {x}) \ {e}) = n - 2 /\ n - 2 \in Nat
        <5>1. n \in Nat
          OBVIOUS
        <5>2. /\ Cardinality((s \ {x}) \ {e}) = Cardinality(s \ {x}) - 1
              /\ Cardinality(s \ {x}) - 1 \in Nat
          BY <4>0, SizeWithout
        <5>. QED
          BY <4>0, <5>1, <5>2
      <4>2. Good((s \ {x}) \ {e})
        <5>. HIDE DEF Good
        <5>. QED
          BY <2>1, <4>1
      <4>. QED
        BY <4>2
    <3>5. f[e] \in Int /\ f[x] \in Int
      BY <2>6
    <3>6. SumFunctionOnSet(f, s \ {e}) = f[x] + SumFunctionOnSet(f, (s \ {x}) \ {e})
      BY <3>2, <3>3
    <3>. HIDE DEF Good, Bad
    <3>. QED
      BY <2>6, <3>1, <3>4, <3>5, <3>6
  <2>. QED
    BY <2>2, <2>6, <2>7, <2>8
<1>2. Cardinality(S) \in Nat
  BY FS_CardinalityType
<1>3. Good(S)
  <2>. HIDE DEF Good
  <2>. QED
    BY <1>1, <1>2
<1>. QED
  BY <1>3
\* A sum is the sum over a part and over the rest.
LEMMA SumParts ==
    ASSUME NEW S, NEW E, NEW f, IsFiniteSet(S), E \subseteq S, \A x \in S : f[x] \in Int
    PROVE  SumFunctionOnSet(f, S) = SumFunctionOnSet(f, E) + SumFunctionOnSet(f, S \ E)
<1>. DEFINE Good(s) == SumFunctionOnSet(f, S) = SumFunctionOnSet(f, s) + SumFunctionOnSet(f, S \ s)
            Bad == {n \in Nat : \E s \in SUBSET S : Cardinality(s) = n /\ ~Good(s)}
<1>0. ASSUME NEW s \in SUBSET S
      PROVE  /\ IsFiniteSet(s) /\ SumFunctionOnSet(f, s) \in Int
             /\ \A e \in s : SumFunctionOnSet(f, s) = f[e] + SumFunctionOnSet(f, s \ {e})
  BY FS_Subset, SumSplits
<1>1. Bad = {}
  <2>. SUFFICES ASSUME Bad # {} PROVE FALSE
    OBVIOUS
  <2>1. PICK n \in Bad : \A m \in Bad : n <= m
    <3>. HIDE DEF Bad
    <3>1. Bad \subseteq Nat
      BY DEF Bad
    <3>. QED
      BY <3>1, LeastNumber
  <2>2. PICK s \in SUBSET S : Cardinality(s) = n /\ ~Good(s)
    BY <2>1
  <2>3. PICK e : e \in s
    <3>1. CASE s = {}
      <4>1. S \ s = S
        BY <3>1
      <4>. QED
        BY <2>2, <3>1, <4>1, <1>0, SumEmpty
    <3>. QED
      BY <3>1
  <2>4. Good(s \ {e})
    <3>1. Cardinality(s \ {e}) = n - 1 /\ n - 1 \in Nat
      BY <1>0, <2>2, <2>3, SizeWithout
    <3>. HIDE DEF Good
    <3>. QED
      BY <2>1, <2>2, <3>1
  <2>5. S \ (s \ {e}) \in SUBSET S /\ e \in S \ (s \ {e}) /\ (S \ (s \ {e})) \ {e} = S \ s
    BY <2>3
  <2>6. SumFunctionOnSet(f, S \ (s \ {e})) = f[e] + SumFunctionOnSet(f, S \ s)
    BY <1>0, <2>5
  <2>7. SumFunctionOnSet(f, s) = f[e] + SumFunctionOnSet(f, s \ {e})
    BY <1>0, <2>3
  <2>8. /\ SumFunctionOnSet(f, s \ {e}) \in Int /\ SumFunctionOnSet(f, S \ s) \in Int
        /\ f[e] \in Int
    BY <1>0, <2>3
  <2>. QED
    BY <2>2, <2>4, <2>6, <2>7, <2>8
<1>2. Cardinality(E) \in Nat
  BY <1>0, FS_CardinalityType
<1>3. Good(E)
  <2>. HIDE DEF Good
  <2>. QED
    BY <1>1, <1>2
<1>. QED
  BY <1>3

\* Zeros sum to zero.
LEMMA SumZero ==
    ASSUME NEW S, NEW f, IsFiniteSet(S), \A x \in S : f[x] = 0
    PROVE  SumFunctionOnSet(f, S) = 0
<1>. DEFINE none == [s \in SUBSET S |-> 0]
<1>1. \A s \in SUBSET S : s # {} => f[Pick(s)] = 0 /\ none[s \ {Pick(s)}] = 0
  BY DEF Pick
<1>2. Adds(none, f, S)
  BY <1>1 DEF Adds
<1>3. PICK t : Adds(t, f, S) /\ SumFunctionOnSet(f, S) = t[S]
  BY SumAdds
<1>4. S \in SUBSET S /\ none[S] = 0
  OBVIOUS
<1>. HIDE DEF none
<1>5. t[S] = none[S]
  BY <1>2, <1>3, <1>4, TotalsAgree
<1>. QED
  BY <1>3, <1>4, <1>5

\* Naturals sum to a natural.
LEMMA SumNat ==
    ASSUME NEW S, NEW f, IsFiniteSet(S), \A x \in S : f[x] \in Nat
    PROVE  SumFunctionOnSet(f, S) \in Nat
<1>. DEFINE Bad == {n \in Nat : \E s \in SUBSET S : Cardinality(s) = n /\ SumFunctionOnSet(f, s) \notin Nat}
<1>1. Bad = {}
  <2>. SUFFICES ASSUME Bad # {} PROVE FALSE
    OBVIOUS
  <2>1. PICK n \in Bad : \A m \in Bad : n <= m
    <3>. HIDE DEF Bad
    <3>1. Bad \subseteq Nat
      BY DEF Bad
    <3>. QED
      BY <3>1, LeastNumber
  <2>2. PICK s \in SUBSET S : Cardinality(s) = n /\ SumFunctionOnSet(f, s) \notin Nat
    BY <2>1
  <2>3. s # {} /\ IsFiniteSet(s)
    <3>1. SumFunctionOnSet(f, {}) = 0
      BY SumEmpty
    <3>2. ASSUME s = {} PROVE FALSE
      <4>1. SumFunctionOnSet(f, s) = 0
        BY <3>1, <3>2
      <4>. QED
        BY <2>2, <4>1
    <3>. QED
      BY <3>2, FS_Subset
  <2>4. Pick(s) \in s /\ SumFunctionOnSet(f, s) = f[Pick(s)] + SumFunctionOnSet(f, s \ {Pick(s)})
    BY <2>3, SumRest
  <2>5. Cardinality(s \ {Pick(s)}) = n - 1 /\ n - 1 \in Nat
    BY <2>2, <2>3, <2>4, SizeWithout
  <2>6. SumFunctionOnSet(f, s \ {Pick(s)}) \in Nat
    BY <2>1, <2>5
  <2>. QED
    BY <2>2, <2>4, <2>6
<1>2. Cardinality(S) \in Nat
  BY FS_CardinalityType
<1>. QED
  BY <1>1, <1>2

-----------------------------------------------------------------------------
(* Accounting: the running total and the sizes it adds up.                 *)

\* What bounds the size of a record: a call in flight holds the whole reservation,
\* a settled result fits it, and a dropped record weighs nothing.
SizesFit ==
    \A k \in Keys :
        /\ entries[k].state = "absent" => entries[k].bytes = 0
        /\ entries[k].state \in InFlight => entries[k].resultBytes = Reservation
        /\ entries[k].resultBytes <= Reservation

\* The invariant of the accounting.
AccountInv == SizesFit /\ BytesBalanced

\* Replacing one summand.
LEMMA SumReplaced ==
    ASSUME NEW S, NEW e, NEW f, NEW g, IsFiniteSet(S), e \in S,
           \A x \in S : f[x] \in Int /\ g[x] \in Int,
           \A x \in S : x # e => g[x] = f[x]
    PROVE  SumFunctionOnSet(g, S) = SumFunctionOnSet(f, S) - f[e] + g[e]
<1>. DEFINE rest == S \ {e}
<1>1. IsFiniteSet(rest) /\ rest \in SUBSET S
  BY FS_Subset
<1>2. SumFunctionOnSet(f, rest) = SumFunctionOnSet(g, rest)
  <2>1. \A x \in rest : g[x] = f[x]
    OBVIOUS
  <2>. HIDE DEF rest
  <2>. QED
    BY <1>1, <2>1, SumSame
<1>3. \A x \in S : f[x] \in Int
  OBVIOUS
<1>4. \A x \in S : g[x] \in Int
  OBVIOUS
<1>5. SumFunctionOnSet(f, S) = f[e] + SumFunctionOnSet(f, rest)
  BY <1>3, SumSplits
<1>6. SumFunctionOnSet(g, S) = g[e] + SumFunctionOnSet(g, rest)
  BY <1>4, SumSplits
<1>7. SumFunctionOnSet(f, rest) \in Int
  <2>1. \A x \in rest : f[x] \in Int
    OBVIOUS
  <2>. HIDE DEF rest
  <2>. QED
    BY <1>1, <2>1, SumSplits
<1>. QED
  BY <1>2, <1>3, <1>4, <1>5, <1>6, <1>7

\* The sizes of the records E, and their sum.
Weights(E) == [k \in Keys |-> E[k].bytes]
Total(E) == SumFunctionOnSet(Weights(E), Keys)

\* BytesBalanced in terms of Total.
LEMMA TotalIs == BytesBalanced <=> /\ retainedBytes = Total(entries)
                                   /\ RecordsAccounted
                                   /\ retainedBytes <= MaxBytes
BY DEF BytesBalanced, SumFunction, Total, Weights

\* Replacing one record moves the total by the difference of the two sizes.
LEMMA TotalReplaced ==
    ASSUME NEW E \in [Keys -> Entry], NEW F \in [Keys -> Entry], NEW k \in Keys,
           \A j \in Keys \ {k} : F[j].bytes = E[j].bytes
    PROVE  Total(F) = Total(E) - E[k].bytes + F[k].bytes
<1>. DEFINE w == Weights(E)
            v == Weights(F)
<1>1. \A j \in Keys : w[j] \in Int /\ v[j] \in Int
  BY DEF Weights, Entry
<1>2. \A j \in Keys : j # k => v[j] = w[j]
  BY DEF Weights
<1>3. w[k] = E[k].bytes /\ v[k] = F[k].bytes
  BY DEF Weights
<1>4. IsFiniteSet(Keys)
  BY CacheAssumption DEF CacheAssumption
<1>5. Total(E) = SumFunctionOnSet(w, Keys) /\ Total(F) = SumFunctionOnSet(v, Keys)
  BY DEF Total
<1>. HIDE DEF w, v
<1>6. SumFunctionOnSet(v, Keys) = SumFunctionOnSet(w, Keys) - w[k] + v[k]
  BY <1>1, <1>2, <1>4, SumReplaced
<1>. QED
  BY <1>3, <1>5, <1>6

\* The total is an integer, and equal sizes have equal totals.
LEMMA TotalSame ==
    ASSUME NEW E, NEW F, \A k \in Keys : F[k].bytes = E[k].bytes
    PROVE  Total(F) = Total(E)
<1>1. [k \in Keys |-> F[k].bytes] = [k \in Keys |-> E[k].bytes]
  OBVIOUS
<1>. QED
  BY <1>1 DEF Total, Weights

\* The total is an integer.
LEMMA TotalInt == ASSUME NEW E \in [Keys -> Entry] PROVE Total(E) \in Int
<1>1. IsFiniteSet(Keys) /\ \A k \in Keys : Weights(E)[k] \in Int
  BY CacheAssumption DEF CacheAssumption, Weights, Entry
<1>. QED
  BY <1>1, SumSplits DEF Total

\* A sweep takes off the total what the dropped records weighed.
LEMMA SweptTotal ==
    ASSUME TypeOK, retainedBytes = Total(entries)
    PROVE  /\ SweptBytes = Total(SweptEntries)
           /\ SweptBytes \in Int /\ SweptBytes <= retainedBytes
<1>. DEFINE w == Weights(entries)
            v == Weights(SweptEntries)
            dropped == [k \in Expired |-> entries[k].bytes]
<1>1. Expired \subseteq Keys /\ Expired \in SUBSET Keys /\ Keys \ Expired \in SUBSET Keys
  BY DEF Expired
<1>2. IsFiniteSet(Keys) /\ IsFiniteSet(Expired) /\ IsFiniteSet(Keys \ Expired)
  BY <1>1, CacheAssumption, FS_Subset DEF CacheAssumption
<1>3. /\ \A k \in Keys : w[k] = entries[k].bytes /\ w[k] \in Nat
      /\ \A k \in Keys : v[k] = SweptEntries[k].bytes /\ v[k] \in Int
      /\ \A k \in Expired : dropped[k] = w[k] /\ v[k] = 0
      /\ \A k \in Keys \ Expired : v[k] = w[k]
  BY <1>1, SweepType DEF Weights, TypeOK, Entry, SweptEntries, Absent
<1>4. SweptBytes = retainedBytes - SumFunctionOnSet(dropped, Expired)
  BY DEF SweptBytes, SumFunction
<1>. HIDE DEF w, v, dropped
<1>5. SumFunctionOnSet(dropped, Expired) = SumFunctionOnSet(w, Expired)
  BY <1>2, <1>3, SumSame
<1>6. SumFunctionOnSet(w, Expired) \in Nat
  BY <1>1, <1>2, <1>3, SumNat
<1>7. SumFunctionOnSet(w, Keys) = SumFunctionOnSet(w, Expired) + SumFunctionOnSet(w, Keys \ Expired)
  <2>1. \A k \in Keys : w[k] \in Int
    BY <1>3
  <2>. QED
    BY <1>1, <1>2, <2>1, SumParts
<1>8. SumFunctionOnSet(v, Keys) = SumFunctionOnSet(v, Expired) + SumFunctionOnSet(v, Keys \ Expired)
  <2>1. \A k \in Keys : v[k] \in Int
    BY <1>3
  <2>. QED
    BY <1>1, <1>2, <2>1, SumParts
<1>9. SumFunctionOnSet(v, Expired) = 0
  BY <1>2, <1>3, SumZero
<1>10. SumFunctionOnSet(v, Keys \ Expired) = SumFunctionOnSet(w, Keys \ Expired)
  BY <1>2, <1>3, SumSame
<1>11. SumFunctionOnSet(w, Keys \ Expired) \in Nat
  <2>1. \A k \in Keys \ Expired : w[k] \in Nat
    BY <1>3
  <2>. QED
    BY <1>2, <2>1, SumNat
<1>12. Total(entries) = SumFunctionOnSet(w, Keys) /\ Total(SweptEntries) = SumFunctionOnSet(v, Keys)
  BY DEF Total, w, v
<1>. QED
  BY <1>4, <1>5, <1>6, <1>7, <1>8, <1>9, <1>10, <1>11, <1>12

\* account(k): the running total moves with the record.
LEMMA AccountTotal ==
    ASSUME TypeOK, retainedBytes = Total(entries), NEW k \in Keys, NEW record \in Entry,
           Account(k, record)
    PROVE  /\ retainedBytes' = Total(entries')
           /\ retainedBytes' = retainedBytes + entries'[k].bytes - entries[k].bytes
           /\ entries'[k].bytes = AccountedBytes(handles', k, record.resultBytes)
           /\ entries' \in [Keys -> Entry]
<1>1. record.resultBytes \in Nat
  BY DEF Entry
<1>2. AccountedBytes(handles', k, record.resultBytes) \in Nat
  BY <1>1, AccountedBytesType
<1>3. /\ entries' \in [Keys -> Entry]
      /\ entries'[k].bytes = AccountedBytes(handles', k, record.resultBytes)
      /\ \A j \in Keys \ {k} : entries'[j].bytes = entries[j].bytes
      /\ retainedBytes' = retainedBytes + AccountedBytes(handles', k, record.resultBytes) - entries[k].bytes
  BY <1>2 DEF Account, TypeOK, Entry
<1>4. Total(entries') = Total(entries) - entries[k].bytes + entries'[k].bytes
  BY <1>3, TotalReplaced DEF TypeOK
<1>5. Total(entries) \in Int /\ entries[k].bytes \in Int /\ entries'[k].bytes \in Int
  BY <1>3, TotalInt DEF TypeOK, Entry
<1>. QED
  BY <1>3, <1>4, <1>5

\* A record holds no more with fewer handles or a smaller result.
LEMMA SizeShrinks ==
    ASSUME NEW k \in Keys, NEW H, NEW G, NEW a \in Nat, NEW b \in Nat, b <= a, b <= Reservation,
           a = Reservation \/ a = b,
           \A h \in HandlesOf(G, k) : h \in HandlesOf(H, k) /\ G[h].pinned = H[h].pinned
    PROVE  AccountedBytes(G, k, b) <= AccountedBytes(H, k, a)
<1>1. HandlesOf(G, k) \in SUBSET HandlesOf(H, k) /\ HandlesOf(H, k) \in SUBSET HandleIds
  BY DEF HandlesOf
<1>2. IsFiniteSet(HandlesOf(H, k)) /\ IsFiniteSet(HandlesOf(G, k))
  BY <1>1, CacheAssumption, FS_Subset DEF CacheAssumption
<1>3. /\ Cardinality(HandlesOf(G, k)) <= Cardinality(HandlesOf(H, k))
      /\ Cardinality(HandlesOf(G, k)) \in Nat /\ Cardinality(HandlesOf(H, k)) \in Nat
  BY <1>1, <1>2, FS_Subset, FS_CardinalityType
<1>4. Pinned(G, k) => Pinned(H, k)
  BY DEF Pinned
<1>5. HandleBytes \in Nat /\ EntryOverhead \in Nat /\ Reservation \in Nat
  BY CacheAssumption DEF CacheAssumption
<1>6. \A m, n, c \in Nat : m <= n => c * m <= c * n /\ c * m \in Nat /\ c * n \in Nat
  OBVIOUS
<1>7. /\ HandleBytes * Cardinality(HandlesOf(G, k)) <= HandleBytes * Cardinality(HandlesOf(H, k))
      /\ HandleBytes * Cardinality(HandlesOf(G, k)) \in Nat
      /\ HandleBytes * Cardinality(HandlesOf(H, k)) \in Nat
  BY <1>3, <1>5, <1>6
<1>. DEFINE gb == HandleBytes * Cardinality(HandlesOf(G, k))
            hb == HandleBytes * Cardinality(HandlesOf(H, k))
<1>8. /\ AccountedBytes(G, k, b) = EntryOverhead + (IF Pinned(G, k) /\ b < Reservation THEN Reservation ELSE b) + gb
      /\ AccountedBytes(H, k, a) = EntryOverhead + (IF Pinned(H, k) /\ a < Reservation THEN Reservation ELSE a) + hb
  BY DEF AccountedBytes
<1>. HIDE DEF gb, hb
<1>. QED
  BY <1>4, <1>5, <1>7, <1>8 DEF gb, hb

\* Settling a record in flight frees what its result leaves of the reservation.
LEMMA SettleBytes ==
    ASSUME TypeOK, AccountInv, HandleInv, NEW k \in Keys, NEW verdict \in Verdicts, NEW resultBytes \in 0..Reservation,
           entries[k].state \in InFlight, Settle(k, verdict, resultBytes)
    PROVE  AccountInv'
<1>. DEFINE record == [entries[k] EXCEPT !.state = verdict, !.age = 0, !.resultBytes = resultBytes]
<1>0. Reservation \in Nat /\ MaxBytes \in Nat /\ resultBytes \in Nat /\ resultBytes <= Reservation
  BY CacheAssumption DEF CacheAssumption
<1>1. record \in Entry /\ record.resultBytes = resultBytes
  <2>1. record \in Entry
    BY <1>0, SettledRecord
  <2>. QED
    BY <2>1 DEF TypeOK, Entry
<1>2. Account(k, record) /\ handles' = handles
  BY DEF Settle
<1>3. retainedBytes = Total(entries) /\ retainedBytes <= MaxBytes
  BY TotalIs DEF AccountInv
<1>. HIDE DEF record
<1>4. /\ retainedBytes' = Total(entries')
      /\ retainedBytes' = retainedBytes + entries'[k].bytes - entries[k].bytes
      /\ entries'[k].bytes = AccountedBytes(handles', k, resultBytes)
      /\ entries' \in [Keys -> Entry]
  BY <1>1, <1>2, <1>3, AccountTotal
<1>5. /\ entries'[k].state = verdict /\ entries'[k].resultBytes = resultBytes
      /\ \A j \in Keys \ {k} : entries'[j] = entries[j]
  BY DEF Settle, Account, TypeOK, Entry
<1>6. SizesFit'
  BY <1>0, <1>5 DEF AccountInv, SizesFit, InFlight, Verdicts
<1>7. RecordsAccounted'
  BY SettleEvidence, <1>0 DEF HandleInv
<1>8. entries[k].bytes = AccountedBytes(handles, k, Reservation) /\ entries[k].bytes \in Nat
  BY DEF AccountInv, SizesFit, BytesBalanced, RecordsAccounted, Retained, InFlight, TypeOK, Entry
<1>9. AccountedBytes(handles', k, resultBytes) <= AccountedBytes(handles, k, Reservation)
  BY <1>0, <1>2, SizeShrinks
<1>10. retainedBytes' <= MaxBytes
  <2>1. retainedBytes \in Int /\ entries'[k].bytes \in Nat
    BY <1>3, <1>4, TotalInt DEF TypeOK, Entry
  <2>. QED
    BY <1>0, <1>3, <1>4, <1>8, <1>9, <2>1
<1>11. BytesBalanced'
  BY <1>4, <1>7, <1>10, TotalIs DEF BytesBalanced, SumFunction, Total, Weights
<1>. QED
  BY <1>6, <1>11 DEF AccountInv

\* A step that leaves every size, state and handle alone.
LEMMA BytesUnmoved ==
    ASSUME TypeOK, TypeOK', AccountInv, RecordsAccounted',
           \A k \in Keys : /\ entries'[k].bytes = entries[k].bytes
                           /\ entries'[k].resultBytes = entries[k].resultBytes
                           /\ entries'[k].state \in InFlight => entries[k].state \in InFlight
                           /\ entries'[k].state = "absent" => entries[k].state = "absent",
           retainedBytes' = retainedBytes
    PROVE  AccountInv'
<1>1. SizesFit'
  BY DEF AccountInv, SizesFit
<1>2. Total(entries') = Total(entries)
  BY TotalSame DEF TypeOK
<1>3. BytesBalanced'
  BY <1>2 DEF AccountInv, BytesBalanced, SumFunction, Total, Weights
<1>. QED
  BY <1>1, <1>3 DEF AccountInv

\* One handle of k comes or goes: taking it was checked against maxBytes, dropping
\* it only shrinks the record.
LEMMA HandleBytesMove ==
    ASSUME TypeOK, AccountInv, RecordsAccounted', NEW k \in Keys, Account(k, entries[k]),
           \/ retainedBytes + AccountedBytes(handles', k, entries[k].resultBytes) - entries[k].bytes <= MaxBytes
           \/ AccountedBytes(handles', k, entries[k].resultBytes) <= entries[k].bytes,
           entries[k].state # "absent"
    PROVE  AccountInv'
<1>1. retainedBytes = Total(entries) /\ retainedBytes <= MaxBytes
  BY TotalIs DEF AccountInv
<1>2. entries[k] \in Entry
  BY DEF TypeOK
<1>3. /\ retainedBytes' = Total(entries')
      /\ retainedBytes' = retainedBytes + entries'[k].bytes - entries[k].bytes
      /\ entries'[k].bytes = AccountedBytes(handles', k, entries[k].resultBytes)
      /\ entries' \in [Keys -> Entry]
  BY <1>1, <1>2, AccountTotal
<1>4. /\ \A j \in Keys : /\ entries'[j].state = entries[j].state
                         /\ entries'[j].resultBytes = entries[j].resultBytes
      /\ \A j \in Keys \ {k} : entries'[j] = entries[j]
  BY DEF Account, TypeOK, Entry
<1>5. retainedBytes' <= MaxBytes
  <2>1. retainedBytes \in Int /\ entries'[k].bytes \in Nat /\ entries[k].bytes \in Nat /\ MaxBytes \in Nat
    BY <1>1, <1>3, TotalInt, CacheAssumption DEF TypeOK, Entry, CacheAssumption
  <2>. QED
    BY <1>1, <1>3, <2>1
<1>6. SizesFit'
  BY <1>4 DEF AccountInv, SizesFit
<1>. QED
  BY <1>3, <1>5, <1>6 DEF AccountInv, BytesBalanced, SumFunction, Total, Weights

\* Sweeping, with or without reserving a fresh record: admission counted what the
\* sweep leaves.
LEMMA SweepBytes ==
    ASSUME TypeOK, AccountInv, RecordsAccounted', entries' = SweptEntries, retainedBytes' = SweptBytes
    PROVE  AccountInv'
<1>1. retainedBytes = Total(entries) /\ retainedBytes <= MaxBytes /\ MaxBytes \in Nat /\ Reservation \in Nat
  BY TotalIs, CacheAssumption DEF AccountInv, CacheAssumption
<1>2. SweptBytes = Total(SweptEntries) /\ SweptBytes \in Int /\ SweptBytes <= retainedBytes
  BY <1>1, SweptTotal
<1>3. retainedBytes \in Int
  BY <1>1, TotalInt DEF TypeOK
<1>4. SizesFit'
  BY <1>1 DEF AccountInv, SizesFit, SweptEntries, Absent, InFlight
<1>5. retainedBytes' = Total(entries') /\ retainedBytes' <= MaxBytes
  BY <1>1, <1>2, <1>3
<1>. QED
  BY <1>4, <1>5 DEF AccountInv, BytesBalanced, SumFunction, Total, Weights

\* Admission counts what the sweep leaves, so a fresh reservation fits (execute).
LEMMA FreshBytes ==
    ASSUME TypeOK, TypeOK', AccountInv, RecordsAccounted', NEW k \in Keys, NEW i \in Intents, ExecuteFresh(k, i)
    PROVE  AccountInv'
<1>. DEFINE fresh == [state |-> "validating", intent |-> i, age |-> 0,
                      bytes |-> EntryOverhead + Reservation, resultBytes |-> Reservation]
<1>1. /\ retainedBytes = Total(entries) /\ retainedBytes <= MaxBytes
      /\ {MaxBytes, Reservation, EntryOverhead} \subseteq Nat
  BY TotalIs, CacheAssumption DEF AccountInv, CacheAssumption
<1>2. SweptBytes = Total(SweptEntries) /\ SweptBytes \in Int
  BY <1>1, SweptTotal
<1>3. /\ SweptEntries[k].state = "absent"
      /\ entries' = [SweptEntries EXCEPT ![k] = fresh]
      /\ retainedBytes' = SweptBytes + EntryOverhead + Reservation
      /\ SweptBytes + EntryOverhead + Reservation <= MaxBytes
  BY DEF ExecuteFresh, CanReserve
<1>4. /\ SweptEntries[k].bytes = 0
      /\ SweptEntries \in [Keys -> Entry] /\ entries' \in [Keys -> Entry]
      /\ entries'[k] = fresh
      /\ \A j \in Keys \ {k} : entries'[j] = SweptEntries[j]
  BY <1>3, SweepType DEF AccountInv, SizesFit, SweptEntries, Absent, TypeOK
<1>5. SizesFit'
  BY <1>1, <1>4 DEF AccountInv, SizesFit, SweptEntries, Absent, InFlight
<1>6. Total(entries') = Total(SweptEntries) - SweptEntries[k].bytes + entries'[k].bytes
  BY <1>4, TotalReplaced
<1>7. entries'[k].bytes = EntryOverhead + Reservation
  BY <1>4
<1>8. retainedBytes' = Total(entries') /\ retainedBytes' <= MaxBytes
  BY <1>1, <1>2, <1>3, <1>4, <1>6, <1>7
<1>. QED
  BY <1>5, <1>8 DEF AccountInv, BytesBalanced, SumFunction, Total, Weights

\* A settled handle gives its bytes back (mutationEntry).
LEMMA DropBytes ==
    ASSUME TypeOK, TypeOK', AccountInv, HandleInv, HandleInv', NEW h \in HandleIds, handles[h].state # "unused", Drop(h)
    PROVE  AccountInv'
<1>0. RecordsAccounted /\ RecordsAccounted'
  BY DEF HandleInv
<1>1. handles[h].key \in Keys
  BY DEF TypeOK, Handle, Unused
<1>2. CASE handles[h].evidence = "retained"
  <2>. DEFINE k == handles[h].key
  <2>1. /\ k \in Keys /\ Account(k, entries[k]) /\ entries[k].state # "absent"
        /\ entries[k].resultBytes \in Nat /\ entries[k].resultBytes <= Reservation
    BY <1>1, <1>2 DEF Drop, HandleInv, EvidenceHeld, AccountInv, SizesFit, TypeOK, Entry
  <2>2. \A g \in HandlesOf(handles', k) : g \in HandlesOf(handles, k) /\ handles'[g].pinned = handles[g].pinned
    BY DEF HandlesOf, Drop, TypeOK, Unused
  <2>3. entries[k].bytes = AccountedBytes(handles, k, entries[k].resultBytes)
    BY <1>0, <2>1 DEF RecordsAccounted, Retained
  <2>4. AccountedBytes(handles', k, entries[k].resultBytes) <= AccountedBytes(handles, k, entries[k].resultBytes)
    <3>1. entries[k].resultBytes <= entries[k].resultBytes
      BY <2>1
    <3>. HIDE DEF k
    <3>. QED
      BY <2>1, <2>2, <3>1, SizeShrinks
  <2>. HIDE DEF k
  <2>. QED
    BY <1>0, <2>1, <2>3, <2>4, HandleBytesMove
<1>3. CASE handles[h].evidence # "retained"
  <2>1. UNCHANGED <<entries, retainedBytes>>
    BY <1>3 DEF Drop
  <2>. QED
    BY <1>0, <2>1, BytesUnmoved
<1>. QED
  BY <1>2, <1>3

\* Every step of the cache keeps AccountInv: the lemmas above together.
LEMMA AccountNext == TypeOK /\ TypeOK' /\ HandleInv /\ HandleInv' /\ AccountInv /\ [Next]_vars => AccountInv'
<1>. SUFFICES ASSUME TypeOK, TypeOK', HandleInv, HandleInv', AccountInv, [Next]_vars
              PROVE  AccountInv'
  OBVIOUS
<1>0. RecordsAccounted' /\ Reservation \in Nat /\ 0 \in 0..Reservation
      /\ {0, Reservation} \subseteq 0..Reservation
      /\ {"validating", "dispatching"} \subseteq InFlight /\ {"completed", "rejected", "unknown"} \subseteq Verdicts
  BY CacheAssumption DEF HandleInv, CacheAssumption, InFlight, Verdicts
<1>1. ASSUME UNCHANGED <<entries, retainedBytes>> PROVE AccountInv'
  BY <1>0, <1>1, BytesUnmoved
<1>2. CASE Tick
  <2>1. \A k \in Keys : /\ entries'[k].state = entries[k].state
                        /\ entries'[k].bytes = entries[k].bytes
                        /\ entries'[k].resultBytes = entries[k].resultBytes
    BY <1>2 DEF Tick, TypeOK, Entry
  <2>2. retainedBytes' = retainedBytes
    BY <1>2 DEF Tick
  <2>. QED
    BY <1>0, <2>1, <2>2, BytesUnmoved
<1>3. CASE Cleanup
  BY <1>0, <1>3, SweepBytes DEF Cleanup, Sweep
<1>4. ASSUME NEW k \in Keys, NEW i \in Intents, Execute(k, i)
      PROVE  AccountInv'
  <2>1. CASE ExecuteDuplicate(k, i)
    BY <1>0, <2>1, SweepBytes DEF ExecuteDuplicate
  <2>2. CASE ExecuteRefused(k, i)
    BY <1>0, <2>2, SweepBytes DEF ExecuteRefused, Sweep
  <2>3. CASE ExecuteFresh(k, i)
    BY <1>0, <2>3, FreshBytes
  <2>. QED
    BY <1>4, <2>1, <2>2, <2>3 DEF Execute
<1>5. ASSUME NEW k \in Keys, RunOperation(k)
      PROVE  AccountInv'
  <2>1. CASE Dispatch(k)
    <3>1. \A j \in Keys : /\ entries'[j].bytes = entries[j].bytes
                          /\ entries'[j].resultBytes = entries[j].resultBytes
                          /\ entries'[j].state \in InFlight => entries[j].state \in InFlight
                          /\ entries'[j].state = "absent" => entries[j].state = "absent"
      BY <2>1 DEF Dispatch, TypeOK, Entry, InFlight
    <3>2. retainedBytes' = retainedBytes
      BY <2>1 DEF Dispatch
    <3>. QED
      BY <1>0, <3>1, <3>2, BytesUnmoved
  <2>2. CASE RejectBeforeDispatch(k)
    BY <1>0, <2>2, SettleBytes DEF RejectBeforeDispatch
  <2>3. CASE DispatchReturns(k)
    BY <1>0, <2>3, SettleBytes DEF DispatchReturns
  <2>4. CASE DispatchRejected(k) \/ DispatchFails(k)
    BY <1>0, <2>4, SettleBytes DEF DispatchRejected, DispatchFails
  <2>. QED
    BY <1>5, <2>1, <2>2, <2>3, <2>4 DEF RunOperation
<1>6. ASSUME NEW h \in HandleIds, Evidence(h)
      PROVE  AccountInv'
  <2>1. ASSUME NEW k \in Keys, NEW t \in Targets, NEW kind \in Kinds, Retain(h, k, t, kind)
        PROVE  AccountInv'
    <3>1. /\ Account(k, entries[k]) /\ entries[k].state # "absent"
          /\ retainedBytes + (AccountedBytes(handles', k, entries[k].resultBytes) - entries[k].bytes) <= MaxBytes
      BY <2>1 DEF Retain, EvidenceFits
    <3>2. /\ retainedBytes \in Int /\ entries[k].bytes \in Int
          /\ AccountedBytes(handles', k, entries[k].resultBytes) \in Int
      BY TotalIs, TotalInt, AccountedBytesType DEF AccountInv, TypeOK, Entry
    <3>3. retainedBytes + AccountedBytes(handles', k, entries[k].resultBytes) - entries[k].bytes <= MaxBytes
      BY <3>1, <3>2, CacheAssumption DEF CacheAssumption
    <3>. QED
      BY <1>0, <3>1, <3>3, HandleBytesMove
  <2>2. CASE HandleSettled(h)
    BY <2>2, DropBytes DEF HandleSettled
  <2>3. CASE HandleUnresolved(h) \/ ReservationStart(h)
    BY <1>1, <2>3 DEF HandleUnresolved, ReservationStart
  <2>4. CASE ReservationSettled(h)
    <3>1. handles[h].state # "unused"
      BY <2>4 DEF ReservationSettled, TypeOK, Handle, Unused
    <3>. QED
      BY <1>1, <2>4, <3>1, DropBytes DEF ReservationSettled
  <2>5. CASE ReservationRelease(h)
    BY <1>1, <2>5, DropBytes DEF ReservationRelease
  <2>. QED
    BY <1>6, <2>1, <2>2, <2>3, <2>4, <2>5 DEF Evidence
<1>7. CASE FinishClose
  <2>1. entries' = [k \in Keys |-> Absent] /\ retainedBytes' = 0
    BY <1>7 DEF FinishClose, Clear
  <2>2. Total(entries') = 0
    <3>. DEFINE w == Weights(entries')
    <3>1. \A k \in Keys : w[k] = 0
      BY <2>1 DEF Weights, Absent
    <3>2. IsFiniteSet(Keys)
      BY CacheAssumption DEF CacheAssumption
    <3>. HIDE DEF w
    <3>3. SumFunctionOnSet(w, Keys) = 0
      BY <3>1, <3>2, SumZero
    <3>. QED
      BY <3>3 DEF Total, w
  <2>3. SizesFit'
    BY <1>0, <2>1 DEF SizesFit, Absent, InFlight
  <2>4. 0 <= MaxBytes
    BY CacheAssumption DEF CacheAssumption
  <2>. QED
    BY <1>0, <2>1, <2>2, <2>3, <2>4 DEF AccountInv, BytesBalanced, SumFunction, Total, Weights
<1>. QED
  BY <1>1, <1>2, <1>3, <1>4, <1>5, <1>6, <1>7
     DEF Next, NativeApplies, EnableTarget, DisableTarget, BeginClose, vars, cacheVars

\* An empty cache weighs nothing.
LEMMA AccountInit == Init => AccountInv
<1>. SUFFICES ASSUME Init PROVE AccountInv
  OBVIOUS
<1>1. entries = [k \in Keys |-> Absent] /\ retainedBytes = 0
  BY DEF Init
<1>2. Total(entries) = 0
  <2>. DEFINE w == Weights(entries)
  <2>1. \A k \in Keys : w[k] = 0
    BY <1>1 DEF Weights, Absent
  <2>2. IsFiniteSet(Keys)
    BY CacheAssumption DEF CacheAssumption
  <2>. HIDE DEF w
  <2>3. SumFunctionOnSet(w, Keys) = 0
    BY <2>1, <2>2, SumZero
  <2>. QED
    BY <2>3 DEF Total, w
<1>3. SizesFit /\ RecordsAccounted
  BY <1>1, CacheAssumption DEF SizesFit, RecordsAccounted, Retained, Absent, InFlight, CacheAssumption
<1>4. 0 <= MaxBytes
  BY CacheAssumption DEF CacheAssumption
<1>. QED
  BY <1>1, <1>2, <1>3, <1>4 DEF AccountInv, BytesBalanced, SumFunction, Total, Weights

\* The running total is the sum of the record sizes and within maxBytes in every
\* reachable state.
THEOREM AccountsInvariant == Spec => []AccountInv
<1>1. TypeOK /\ TypeOK' /\ HandleInv /\ HandleInv' /\ AccountInv /\ [Next]_vars => AccountInv'
  BY AccountNext
<1>. QED
  BY <1>1, AccountInit, CacheTypes, HandlesInvariant, PTL DEF Spec

\* The total that admission reads is true and bounded through settling, handles and
\* expiry, and pinned evidence is never lost to expiry (account, cleanup).
THEOREM EvidenceIsAccounted == Spec => []EvidenceAccounted
<1>1. AccountInv /\ HandleInv => EvidenceAccounted
  BY DEF AccountInv, HandleInv, EvidenceHeld, EvidenceAccounted, PinnedEvidenceKept
<1>. QED
  BY <1>1, AccountsInvariant, HandlesInvariant, PTL
=============================================================================
