---------------------------- MODULE SettingChanges ----------------------------
(***************************************************************************)
(* The setting intents of one Agent: packages/agent-remote-relay/src/      *)
(* session-setting-changes.ts with the parts of agent-manager.ts it calls. *)
(*                                                                         *)
(* The Relay accepts an intent, submits it to the provider and waits for   *)
(* native evidence of the new value: an observation (runtime_updated) or a *)
(* readback (runtimeInfo).  Native values change when an intent takes      *)
(* effect and at the native terminal; an observation is applied as it is   *)
(* emitted, in the same process, but not every change is observed.         *)
(***************************************************************************)
EXTENDS Naturals, SequencesExt

CONSTANTS
    Settings, Values,
    Initially,     \* the native value every setting starts with
    MaxIntents,    \* bounds the requests: intents and reads of other operations
    MaxVersions,   \* bounds the native writes in the model
    NoIntent       \* no intent, no call, no read

ASSUME SettingAssumption ==
    /\ Initially \in Values
    /\ {MaxIntents, MaxVersions} \subseteq Nat \ {0}

VARIABLES
    history,       \* the native values, one function per native version
    nativeQueue,   \* changes that native code accepted and has not carried out
    intents,       \* intents: the current intent of each setting
    order,         \* the place of each setting in that map, 0 if it is not in it
    call,          \* the one native call (applying)
    seen,          \* runtime: the native version the Relay knows
    read,          \* the latest runtimeInfo read
    refreshing,    \* a readback is awaited
    poll,          \* the readback timer is set
    settingsClosed,
    issued,        \* intents accepted so far
    otherReads     \* reads of other operations so far

world == <<history, nativeQueue>>
kept == <<intents, order, call, seen>>
readback == <<read, refreshing>>
bounds == <<settingsClosed, issued, otherReads>>
settingVars == <<world, kept, readback, poll, bounds>>

Ids == 1..MaxIntents
Active == {"queued", "applying", "pending", "deferred"}

Intent ==
    [id : Ids, target : Values, phase : Active \cup {"settled"}, applied : BOOLEAN,
     differed : BOOLEAN, runtime : {NoIntent} \cup [Settings -> Values], asOf : 0..MaxVersions]
Call ==
    [id : Ids, setting : Settings, target : Values, effected : BOOLEAN, observed : BOOLEAN,
     runtime : [Settings -> Values]]
Read == [own : BOOLEAN, version : 0..MaxVersions, stale : BOOLEAN]

ASSUME NoIntentAssumption == NoIntent \notin Intent \cup Call \cup Read

UnsettledSettings(is) == {s \in Settings : is[s] # NoIntent /\ is[s].phase \in Active}

SettingInit ==
    /\ history = <<[s \in Settings |-> Initially]>>
    /\ nativeQueue = {}
    /\ intents = [s \in Settings |-> NoIntent] /\ order = [s \in Settings |-> 0]
    /\ call = NoIntent
    /\ seen = 1
    /\ read = NoIntent /\ refreshing = FALSE /\ poll = FALSE
    /\ settingsClosed = FALSE
    /\ issued = 0 /\ otherReads = 0

-----------------------------------------------------------------------------
(* Helpers take the state they read: one handler applies several in turn.  *)

\* drain: submits the first queued intent unless a native call runs.  Of an
\* intent, asOf is a history variable: the version the Relay knew at that time.
Drain(is, running, version) ==
    LET queued == {s \in Settings : is[s] # NoIntent /\ is[s].phase = "queued"}
        runtime == history'[version]
    IN  IF settingsClosed \/ running # NoIntent \/ queued = {}
        THEN intents' = is /\ call' = running
        ELSE \E s \in queued :
                /\ \A t \in queued : order'[s] <= order'[t]
                /\ intents' = [is EXCEPT ![s].phase = "applying", ![s].applied = FALSE,
                                         ![s].differed = runtime[s] # is[s].target,
                                         ![s].asOf = version]
                /\ call' = [id |-> is[s].id, setting |-> s, target |-> is[s].target,
                            effected |-> FALSE, observed |-> FALSE, runtime |-> runtime]

\* The places of the settings that stay in the map.
Places(is) == [s \in Settings |-> IF is[s] = NoIntent THEN 0 ELSE order[s]]

\* readback: one at a time.
Readback ==
    IF settingsClosed \/ refreshing THEN UNCHANGED readback
    ELSE refreshing' = TRUE /\ read' = [own |-> TRUE, version |-> 0, stale |-> FALSE]

\* Mutant: a value equal to the target is confirmation.
ConfirmsBaseline(i, actual) == i.phase = "pending" /\ actual = i.target

\* confirm, given the native value the Relay knows.
Confirms(i, actual) ==
    i.phase = "pending" /\ (i.applied \/ i.differed) /\ actual = i.target

\* Mutant: an observation queues again what native code accepted.
RequeuesAll(i, runtime, natively) ==
    i.phase \in {"deferred", "pending"} /\ (natively \/ i.runtime # runtime)

\* A deferred intent is submitted again when native state may have changed.
Requeues(i, runtime, natively) ==
    i.phase = "deferred" /\ (natively \/ i.runtime # runtime)

\* What observing `runtime` makes of the intent i of setting s.
Observed(i, s, runtime, natively) ==
    IF s \notin UnsettledSettings(intents) THEN i
    ELSE LET j == [i EXCEPT !.differed = @ \/
                       (i.phase \in {"applying", "pending"} /\ runtime[s] # i.target)]
         IN  IF Confirms(j, runtime[s]) THEN NoIntent
             ELSE IF Requeues(j, runtime, natively) THEN [j EXCEPT !.phase = "queued"]
             ELSE j

\* observe, while `running` is the native call.
Observe(version, natively, running) ==
    LET is == [s \in Settings |-> Observed(intents[s], s, history'[version], natively)]
    IN  /\ seen' = version
        /\ order' = Places(is)
        /\ Drain(is, running, version)

\* An intent that failed or timed out.
SettleIntent(i) == [i EXCEPT !.phase = "settled", !.applied = FALSE, !.differed = FALSE,
                       !.runtime = NoIntent, !.asOf = 0]

-----------------------------------------------------------------------------
(* Requests and timers.                                                    *)

\* accept: supersedes the setting's intent, submits and starts the polling.
Accept ==
    /\ ~settingsClosed /\ issued + otherReads < MaxIntents
    /\ issued' = issued + 1
    /\ poll' = TRUE
    /\ UNCHANGED <<world, seen, readback, otherReads, settingsClosed>>
    /\ \E s \in Settings, v \in Values :
          LET i == [id |-> issued', target |-> v, phase |-> "queued", applied |-> FALSE,
                    differed |-> FALSE, runtime |-> NoIntent, asOf |-> 0]
          IN  /\ order' = IF intents[s] = NoIntent THEN [order EXCEPT ![s] = issued'] ELSE order
              /\ Drain([intents EXCEPT ![s] = i], call, seen)

\* Mutant: an intent whose native call still runs does not time out.
ExpireIdle(s) ==
    /\ s \in UnsettledSettings(intents) /\ ~settingsClosed
    /\ intents[s].phase # "applying"
    /\ intents' = [intents EXCEPT ![s] = SettleIntent(@)]
    /\ Readback
    /\ UNCHANGED <<world, order, call, seen, poll, bounds>>

\* expire: 30 s after the request, whatever became of its native call.
Expire(s) ==
    /\ s \in UnsettledSettings(intents) /\ ~settingsClosed
    /\ intents' = [intents EXCEPT ![s] = SettleIntent(@)]
    /\ Readback
    /\ UNCHANGED <<world, order, call, seen, poll, bounds>>

\* The readback timer: set again while an intent is unsettled.
FirePoll ==
    /\ poll
    /\ poll' = (UnsettledSettings(intents) # {})
    /\ Readback
    /\ UNCHANGED <<world, kept, bounds>>

\* close: the timers stop, and later answers change nothing.
CloseSettings ==
    /\ ~settingsClosed
    /\ settingsClosed' = TRUE
    /\ poll' = FALSE /\ refreshing' = FALSE
    /\ UNCHANGED <<world, kept, read, otherReads, issued>>

-----------------------------------------------------------------------------
(* The end of the native call of drain.                                    *)

\* Mutant: the call settles whichever intent its setting has now.
OwnedBySetting == ~settingsClosed /\ call.setting \in UnsettledSettings(intents)

\* current: the intent that the call was made for is unsettled and has not been
\* superseded.
Owned ==
    /\ ~settingsClosed /\ call.setting \in UnsettledSettings(intents)
    /\ intents[call.setting].id = call.id

\* The intent the call was made for, if there still is one (Owned).
Submitted == intents[call.setting]

\* The call ends; its intent, if there still is one, becomes result and may be
\* confirmed by what the Relay knows already.
CallEnds(result) ==
    LET s == call.setting
        i == IF Owned THEN result ELSE intents[s]
        confirmed == Owned /\ Confirms(i, history[seen][s])
        is == [intents EXCEPT ![s] = IF confirmed THEN NoIntent ELSE i]
    IN  /\ order' = Places(is)
        /\ Readback
        /\ Drain(is, NoIntent, seen)
        /\ UNCHANGED <<history, seen, poll, bounds>>

NativeQueues ==
    nativeQueue' = nativeQueue \cup
        {[id |-> call.id, setting |-> call.setting, target |-> call.target]}

\* Applied: done when the value shows.
CallApplied ==
    /\ call # NoIntent /\ call.effected
    /\ UNCHANGED <<history, nativeQueue>>
    /\ CallEnds([Submitted EXCEPT !.phase = "pending", !.applied = TRUE])

\* {status: 'pending'}: native code accepted the change.
CallPending ==
    /\ call # NoIntent /\ ~call.effected
    /\ UNCHANGED history
    /\ NativeQueues
    /\ CallEnds([Submitted EXCEPT !.phase = "pending"])

\* {status: 'deferred'}: nothing was submitted; queued again at once when
\* something was observed meanwhile.
CallDeferred ==
    /\ call # NoIntent /\ ~call.effected
    /\ UNCHANGED <<history, nativeQueue>>
    /\ CallEnds([Submitted EXCEPT !.phase = IF call.observed THEN "queued" ELSE "deferred",
                                   !.runtime = call.runtime])

\* Rejected, or lost: the change may have been made, or may come later.
CallFails ==
    /\ call # NoIntent
    /\ UNCHANGED history
    /\ \/ UNCHANGED nativeQueue
       \/ ~call.effected /\ NativeQueues
    /\ CallEnds(SettleIntent(Submitted))

-----------------------------------------------------------------------------
(* Native code.                                                            *)

\* runtime_updated: the manager's revision moves, so a read in progress is stale.
Noticed(running) ==
    /\ read' = IF read = NoIntent THEN read ELSE [read EXCEPT !.stale = TRUE]
    /\ Observe(Len(history'), TRUE,
               IF running = NoIntent THEN running ELSE [running EXCEPT !.observed = TRUE])

\* A native write, observed or silent.
Write(s, v, running) ==
    /\ Len(history) < MaxVersions
    /\ history' = Append(history, [Last(history) EXCEPT ![s] = v])
    /\ \/ ~settingsClosed /\ Noticed(running)
       \/ call' = running /\ UNCHANGED <<read, seen, intents, order>>
    /\ UNCHANGED <<refreshing, poll, bounds>>

NativeTakesCall ==
    /\ call # NoIntent /\ ~call.effected
    /\ Write(call.setting, call.target, [call EXCEPT !.effected = TRUE])
    /\ UNCHANGED nativeQueue

NativeTakesQueued ==
    \E w \in nativeQueue :
        /\ nativeQueue' = nativeQueue \ {w}
        /\ Write(w.setting, w.target, call)

\* Changed at the native terminal.
NativeChanges ==
    /\ \E s \in Settings, v \in Values : v # Last(history)[s] /\ Write(s, v, call)
    /\ UNCHANGED nativeQueue

\* Native state was observed without a setting having changed.
NativeStirs ==
    /\ ~settingsClosed
    /\ UNCHANGED world
    /\ Noticed(call)
    /\ UNCHANGED <<refreshing, poll, bounds>>

-----------------------------------------------------------------------------
(* refreshRuntimeInfo.                                                     *)

\* Another operation (setPlanning, executeCommand) reads: the latest read counts.
OtherRead ==
    /\ ~settingsClosed /\ issued + otherReads < MaxIntents
    /\ otherReads' = otherReads + 1
    /\ read' = [own |-> FALSE, version |-> 0, stale |-> FALSE]
    /\ UNCHANGED <<world, kept, refreshing, poll, settingsClosed, issued>>

\* Native code answers; the answer is on its way.
ReadAnswered ==
    /\ read # NoIntent /\ read.version = 0
    /\ read' = [read EXCEPT !.version = Len(history)]
    /\ UNCHANGED <<world, kept, refreshing, poll, bounds>>

\* The answer is newer than what the Relay knows.
Counts == ~settingsClosed /\ ~read.stale

ReadReturns ==
    /\ read # NoIntent /\ read.version # 0
    /\ read' = NoIntent
    /\ refreshing' = (refreshing /\ ~read.own)
    /\ UNCHANGED <<world, poll, bounds>>
    /\ IF Counts THEN Observe(read.version, FALSE, call) ELSE UNCHANGED kept

ReadFails ==
    /\ read # NoIntent
    /\ read' = NoIntent
    /\ refreshing' = (refreshing /\ ~read.own)
    /\ UNCHANGED <<world, kept, poll, bounds>>

\* The readback is given up after 5 s, or its superseded read ended; a read that
\* hangs stays the latest one until another begins.
ReadbackEnds ==
    /\ refreshing
    /\ refreshing' = FALSE
    /\ UNCHANGED <<world, kept, read, poll, bounds>>

-----------------------------------------------------------------------------
Requests == Accept \/ (\E s \in Settings : Expire(s)) \/ FirePoll \/ CloseSettings
Calls == CallApplied \/ CallPending \/ CallDeferred \/ CallFails
Native == NativeTakesCall \/ NativeTakesQueued \/ NativeChanges \/ NativeStirs
Reads == OtherRead \/ ReadAnswered \/ ReadReturns \/ ReadFails \/ ReadbackEnds
SettingNext == Requests \/ Calls \/ Native \/ Reads

\* The 30 s timers run; native code and the readbacks owe no answer.
SettingSpec ==
    /\ SettingInit /\ [][SettingNext]_settingVars
    /\ \A s \in Settings : WF_settingVars(Expire(s))

-----------------------------------------------------------------------------
(* Properties.                                                             *)

\* Every variable has its type, and every setting of the map has a place of its own.
SettingTypeOK ==
    /\ history \in Seq([Settings -> Values]) /\ Len(history) \in 1..MaxVersions
    /\ nativeQueue \subseteq [id : Ids, setting : Settings, target : Values]
    /\ intents \in [Settings -> {NoIntent} \cup Intent]
    /\ order \in [Settings -> 0..issued]
    /\ \A s \in Settings : order[s] = 0 <=> intents[s] = NoIntent
    /\ \A s, t \in Settings : order[s] = order[t] /\ s # t => order[s] = 0
    /\ call \in {NoIntent} \cup Call
    /\ seen \in 1..Len(history)
    /\ read \in {NoIntent} \cup Read /\ (read # NoIntent => read.version <= Len(history))
    /\ {refreshing, poll, settingsClosed} \subseteq BOOLEAN
    /\ issued \in 0..MaxIntents /\ otherReads \in 0..MaxIntents - issued

\* "A matching baseline alone cannot acknowledge a newer intent"
\* (session-setting-changes.ts:89): the setting of a confirmed intent had its
\* target value in a native state later than the one the Relay knew when it
\* submitted the intent.
ConfirmedByEvidence ==
    [][\A s \in UnsettledSettings(intents) :
          intents'[s] = NoIntent =>
              \E n \in intents[s].asOf + 1..Len(history') :
                  history'[n][s] = intents[s].target]_settingVars

\* "Neither an unknown mutation nor a native queued mutation is resubmitted
\* automatically" (protocol.md:113): no call is made for a change that native
\* code holds already.
SubmittedOnce == call # NoIntent => \A w \in nativeQueue : w.id # call.id

\* "Old completion cannot settle the newer intent" (protocol.md:113): the end of
\* a native call settles no intent but the one it was made for.
OldCompletionSilent ==
    [][Calls => \A s \in UnsettledSettings(intents) :
          intents[s].id # call.id =>
              s \in UnsettledSettings(intents') /\ intents'[s].id = intents[s].id]_settingVars

\* "Results from superseded reads are ignored" (protocol.md:113): a read never
\* takes the Relay back behind what it observed meanwhile.
ReadsNeverRegress == [][ReadReturns => seen' >= seen]_settingVars

\* While an intent is unsettled a readback is due, so a provider that reports
\* nothing is asked (scheduleReadback, session-setting-changes.ts:178).
PolledWhileUnsettled == ~settingsClosed /\ UnsettledSettings(intents) # {} => poll

\* A state in which changes of settings are what the Relay says of them.
SettingInv == SettingTypeOK /\ SubmittedOnce /\ PolledWhileUnsettled

\* No late answer, of a call or of a read, is taken for a current one.
LateAnswersSilent == OldCompletionSilent /\ ReadsNeverRegress

\* Every intent ends, though its native call or every readback may hang, another
\* intent's call may block its own and a deferral may repeat
\* (expire, session-setting-changes.ts:153).
Open(i) == ~settingsClosed /\ \E s \in UnsettledSettings(intents) : intents[s].id = i
EveryIntentEnds == \A i \in Ids : []<>~Open(i)
=============================================================================
