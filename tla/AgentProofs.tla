----------------------------- MODULE AgentProofs -----------------------------
(***************************************************************************)
(* Proofs about two parts of an agent's life that share no state: the      *)
(* changes of its settings, for any settings and values and any number of  *)
(* requests and native writes, and the attachment of its session, for any  *)
(* number of clients and every finite family of sessions.                  *)
(***************************************************************************)
EXTENDS SettingChanges, SessionAttachments, FiniteSetTheorems, TLAPS

-----------------------------------------------------------------------------
(* The changes of settings: the inductive invariant.                       *)
(*                                                                         *)
(* What one handler does in turn - observe, settle, drain - are operators  *)
(* of the module that take the state they find.  The invariant is stated   *)
(* in the same way, of the values that such a step finds or leaves, so     *)
(* that there is one lemma per step and the actions compose them.          *)

\* The intents, the native call and the places in the map have their types.
KeptTypes(is, o, running, n) ==
    /\ is \in [Settings -> {NoIntent} \cup Intent]
    /\ running \in {NoIntent} \cup Call
    /\ o \in [Settings -> 0..n]
    /\ \A s \in Settings : o[s] = 0 <=> is[s] = NoIntent
    /\ \A s, t \in Settings : o[s] = o[t] /\ s # t => o[s] = 0

\* An identity is of one intent, and the native call of an unsettled intent is
\* what that intent asked for.
Identified(is, running, q, n) ==
    /\ \A s \in Settings : is[s] # NoIntent => is[s].id <= n
    /\ running # NoIntent => running.id <= n
    /\ \A w \in q : w.id <= n
    /\ \A s, t \in Settings :
          is[s] # NoIntent /\ is[t] # NoIntent /\ s # t => is[s].id # is[t].id
    /\ \A s \in UnsettledSettings(is) :
          running # NoIntent /\ running.id = is[s].id
             => /\ running.setting = s /\ running.target = is[s].target
                /\ is[s].phase = "applying"

\* What native code holds is neither called nor waits to be called.
HeldOnce(is, running, q) ==
    /\ running # NoIntent => \A w \in q : w.id # running.id
    /\ \A s \in UnsettledSettings(is) :
          is[s].phase \in {"queued", "deferred"} => \A w \in q : w.id # is[s].id

\* In history h some version after the one that intent i was submitted at had its target.
Shown(i, s, h) == \E v \in i.asOf + 1..Len(h) : h[v][s] = i.target

\* An intent that counts as observed different or applied has the native history
\* to show for it.
Witnessed(is, running, h, known) ==
    \A s \in UnsettledSettings(is) :
        is[s].phase \in {"applying", "pending"} =>
            /\ is[s].asOf <= known
            /\ is[s].differed => \E v \in is[s].asOf..known : v > 0 /\ h[v][s] # is[s].target
            /\ is[s].phase = "applying" => ~is[s].applied
            /\ is[s].applied => Shown(is[s], s, h)
            /\ (running # NoIntent /\ running.effected /\ running.id = is[s].id)
                  => Shown(is[s], s, h)

KeptInv(is, o, running, q, h, known, n) ==
    /\ KeptTypes(is, o, running, n)
    /\ Identified(is, running, q, n)
    /\ HeldOnce(is, running, q)
    /\ Witnessed(is, running, h, known)

\* A read that counts is not older than what the Relay knows.
ReadFresh ==
    ~settingsClosed /\ read # NoIntent /\ ~read.stale /\ read.version # 0 => read.version >= seen

\* The world, the reads and the timers have their types.
WorldTypes ==
    /\ history \in Seq([Settings -> Values]) /\ Len(history) \in 1..MaxVersions
    /\ nativeQueue \subseteq [id : Ids, setting : Settings, target : Values]
    /\ seen \in 1..Len(history)
    /\ read \in {NoIntent} \cup Read /\ (read # NoIntent => read.version <= Len(history))
    /\ refreshing \in BOOLEAN /\ poll \in BOOLEAN /\ settingsClosed \in BOOLEAN
    /\ issued \in 0..MaxIntents /\ otherReads \in 0..MaxIntents - issued

SettingIInv ==
    /\ WorldTypes
    /\ KeptInv(intents, order, call, nativeQueue, history, seen, issued)
    /\ PolledWhileUnsettled
    /\ ReadFresh

-----------------------------------------------------------------------------
(* The steps that handlers are made of.                                    *)

\* Submitting an intent keeps the invariant of what was found; nothing ends and
\* nothing becomes unsettled (drain).
LEMMA DrainKeeps ==
    ASSUME NEW is, NEW running, NEW version, NEW o, NEW n \in Nat,
           Drain(is, running, version),
           history' \in Seq([Settings -> Values]), Len(history') \in 1..MaxVersions,
           version \in 1..Len(history'),
           KeptInv(is, o, running, nativeQueue', history', version, n)
    PROVE  /\ KeptInv(intents', o, call', nativeQueue', history', version, n)
           /\ UnsettledSettings(intents') = UnsettledSettings(is)
           /\ \A s \in Settings : intents'[s] = NoIntent <=> is[s] = NoIntent
           /\ \A s \in UnsettledSettings(is) : intents'[s].id = is[s].id
<1>1. CASE intents' = is /\ call' = running
  BY <1>1
<1>2. ASSUME running = NoIntent,
             NEW s \in Settings, is[s] # NoIntent, is[s].phase = "queued",
             intents' = [is EXCEPT ![s].phase = "applying", ![s].applied = FALSE,
                             ![s].differed = history'[version][s] # is[s].target,
                             ![s].asOf = version],
             call' = [id |-> is[s].id, setting |-> s, target |-> is[s].target,
                      effected |-> FALSE, observed |-> FALSE, runtime |-> history'[version]]
      PROVE  /\ KeptInv(intents', o, call', nativeQueue', history', version, n)
             /\ UnsettledSettings(intents') = UnsettledSettings(is)
             /\ \A t \in Settings : intents'[t] = NoIntent <=> is[t] = NoIntent
             /\ \A t \in UnsettledSettings(is) : intents'[t].id = is[t].id
  <2>1. /\ is \in [Settings -> {NoIntent} \cup Intent] /\ is[s] \in Intent
        /\ history'[version] \in [Settings -> Values] /\ version \in 0..MaxVersions
    BY <1>2, SettingAssumption DEF KeptInv, KeptTypes
  <2>2. DEFINE j == [is[s] EXCEPT !.phase = "applying", !.applied = FALSE,
                         !.differed = history'[version][s] # is[s].target, !.asOf = version]
  <2>3. j \in Intent /\ j # NoIntent /\ intents' = [is EXCEPT ![s] = j]
    <3>1. (history'[version][s] # is[s].target) \in BOOLEAN
      OBVIOUS
    <3>2. j \in Intent
      BY <2>1, <3>1 DEF Intent, Active
    <3>3. intents' = [is EXCEPT ![s] = j]
      BY <1>2, <2>1
    <3> QED BY <3>2, <3>3, NoIntentAssumption
  <2>4. /\ j.id = is[s].id /\ j.target = is[s].target /\ j.phase = "applying"
        /\ j.applied = FALSE /\ j.asOf = version
        /\ j.differed = (history'[version][s] # is[s].target)
    BY <2>1 DEF Intent
  <2>5. call' \in Call /\ call' # NoIntent
    <3>1. call' \in Call
      BY <1>2, <2>1 DEF Call, Intent
    <3> QED BY <3>1, NoIntentAssumption
  <2>6. /\ call'.id = is[s].id /\ call'.setting = s /\ call'.target = is[s].target
        /\ call'.effected = FALSE
    BY <1>2
  <2> HIDE DEF j
  <2>7. /\ intents'[s] = j
        /\ \A t \in Settings : t # s => intents'[t] = is[t]
        /\ intents' \in [Settings -> {NoIntent} \cup Intent]
    BY <2>1, <2>3
  <2>8. s \in UnsettledSettings(is) /\ UnsettledSettings(intents') = UnsettledSettings(is)
    <3>1. \A t \in Settings : t \in UnsettledSettings(intents') <=> t \in UnsettledSettings(is)
      BY <1>2, <2>3, <2>4, <2>7 DEF UnsettledSettings, Active
    <3>2. s \in UnsettledSettings(is)
      BY <1>2 DEF UnsettledSettings, Active
    <3> QED BY <3>1, <3>2 DEF UnsettledSettings
  <2>9. /\ \A t \in Settings : intents'[t] = NoIntent <=> is[t] = NoIntent
        /\ \A t \in Settings : is[t] # NoIntent => intents'[t].id = is[t].id
    BY <1>2, <2>3, <2>4, <2>7
  <2>10. KeptTypes(intents', o, call', n)
    BY <2>5, <2>7, <2>9 DEF KeptInv, KeptTypes
  <2>11. Identified(intents', call', nativeQueue', n)
    <3>1. Identified(is, running, nativeQueue', n)
      BY DEF KeptInv
    <3>2. \A t \in UnsettledSettings(intents') :
             call'.id = intents'[t].id
                => call'.setting = t /\ call'.target = intents'[t].target /\ intents'[t].phase = "applying"
      <4> SUFFICES ASSUME NEW t \in UnsettledSettings(intents'), call'.id = intents'[t].id
                   PROVE  call'.setting = t /\ call'.target = intents'[t].target
                             /\ intents'[t].phase = "applying"
        OBVIOUS
      <4>1. t \in Settings /\ is[t] # NoIntent /\ intents'[t].id = is[t].id
        BY <2>8, <2>9 DEF UnsettledSettings
      <4>2. t = s
        BY <4>1, <3>1, <1>2, <2>6 DEF Identified
      <4> QED BY <4>2, <2>4, <2>6, <2>7
    <3>3. \A t \in Settings : intents'[t] # NoIntent => is[t] # NoIntent /\ intents'[t].id = is[t].id
      BY <2>9
    <3>4. /\ \A t \in Settings : intents'[t] # NoIntent => intents'[t].id <= n
          /\ call'.id <= n /\ \A w \in nativeQueue' : w.id <= n
          /\ \A t, u \in Settings :
                intents'[t] # NoIntent /\ intents'[u] # NoIntent /\ t # u
                   => intents'[t].id # intents'[u].id
      BY <3>1, <3>3, <1>2, <2>6 DEF Identified
    <3> QED BY <3>2, <3>4 DEF Identified
  <2>12. HeldOnce(intents', call', nativeQueue')
    BY <1>2, <2>4, <2>6, <2>7, <2>8 DEF KeptInv, HeldOnce, UnsettledSettings
  <2>13. Witnessed(intents', call', history', version)
    <3> SUFFICES ASSUME NEW t \in UnsettledSettings(intents'),
                        intents'[t].phase \in {"applying", "pending"}
                 PROVE  /\ intents'[t].asOf <= version
                        /\ intents'[t].differed => \E v \in intents'[t].asOf..version :
                               v > 0 /\ history'[v][t] # intents'[t].target
                        /\ intents'[t].phase = "applying" => ~intents'[t].applied
                        /\ intents'[t].applied => Shown(intents'[t], t, history')
                        /\ (call' # NoIntent /\ call'.effected /\ call'.id = intents'[t].id)
                              => Shown(intents'[t], t, history')
      BY DEF Witnessed
    <3>1. CASE t = s
      <4>1. version \in version..version /\ version > 0 /\ version <= version
        OBVIOUS
      <4> QED BY <3>1, <4>1, <2>4, <2>6, <2>7
    <3>2. CASE t # s
      BY <3>2, <2>6, <2>7, <2>8 DEF KeptInv, Witnessed, UnsettledSettings
    <3> QED BY <3>1, <3>2
  <2> QED BY <2>8, <2>9, <2>10, <2>11, <2>12, <2>13 DEF KeptInv, UnsettledSettings
<1> QED
  <2>1. CASE ~(intents' = is /\ call' = running)
    <3>1. PICK s \in Settings :
             /\ is[s] # NoIntent /\ is[s].phase = "queued"
             /\ intents' = [is EXCEPT ![s].phase = "applying", ![s].applied = FALSE,
                                 ![s].differed = history'[version][s] # is[s].target,
                                 ![s].asOf = version]
             /\ call' = [id |-> is[s].id, setting |-> s, target |-> is[s].target,
                         effected |-> FALSE, observed |-> FALSE,
                         runtime |-> history'[version]]
      BY <2>1 DEF Drain
    <3>2. running = NoIntent
      BY <2>1 DEF Drain
    <3> QED BY <3>1, <3>2, <1>2
  <2> QED BY <2>1, <1>1

\* What an observation makes of an intent: nothing, the end of it, or what it was
\* with more seen of it and perhaps queued again (observe, confirm).
LEMMA ObservedCases ==
    ASSUME NEW s \in Settings, intents[s] \in {NoIntent} \cup Intent,
           NEW runtime \in [Settings -> Values], NEW natively \in BOOLEAN
    PROVE  LET i == intents[s]
               j == Observed(i, s, runtime, natively)
           IN  \/ s \notin UnsettledSettings(intents) /\ j = i
              \/ /\ s \in UnsettledSettings(intents) /\ j = NoIntent
                 /\ i.phase = "pending" /\ (i.applied \/ i.differed) /\ runtime[s] = i.target
              \/ /\ s \in UnsettledSettings(intents) /\ j \in Intent /\ j # NoIntent
                 /\ j.id = i.id /\ j.target = i.target /\ j.asOf = i.asOf /\ j.applied = i.applied
                 /\ j.phase = i.phase \/ (i.phase = "deferred" /\ j.phase = "queued")
                 /\ j.differed => i.differed \/ runtime[s] # i.target
<1> DEFINE i == intents[s]
           b == i.differed \/ (i.phase \in {"applying", "pending"} /\ runtime[s] # i.target)
           k == [i EXCEPT !.differed = b]
           j == Observed(i, s, runtime, natively)
<1>1. CASE s \notin UnsettledSettings(intents)
  BY <1>1 DEF Observed
<1>2. CASE s \in UnsettledSettings(intents)
  <2>1. i \in Intent /\ i # NoIntent /\ i.phase \in Active /\ b \in BOOLEAN
    BY <1>2 DEF UnsettledSettings
  <2>2. /\ k \in Intent /\ k.id = i.id /\ k.target = i.target /\ k.asOf = i.asOf
        /\ k.applied = i.applied /\ k.phase = i.phase /\ k.differed = b
    BY <2>1 DEF Intent
  <2>3. j = IF Confirms(k, runtime[s]) THEN NoIntent
            ELSE IF Requeues(k, runtime, natively) THEN [k EXCEPT !.phase = "queued"] ELSE k
    BY <1>2 DEF Observed
  <2> HIDE DEF k, j
  <2>4. CASE Confirms(k, runtime[s])
    <3>1. j = NoIntent /\ i.phase = "pending" /\ runtime[s] = i.target
      BY <2>2, <2>3, <2>4 DEF Confirms
    <3>2. i.applied \/ i.differed
      BY <3>1, <2>2, <2>4 DEF Confirms
    <3> QED BY <1>2, <3>1, <3>2 DEF j
  <2>5. CASE ~Confirms(k, runtime[s]) /\ Requeues(k, runtime, natively)
    <3>1. /\ j \in Intent /\ j.id = i.id /\ j.target = i.target /\ j.asOf = i.asOf
          /\ j.applied = i.applied /\ j.phase = "queued" /\ j.differed = b
      BY <2>2, <2>3, <2>5 DEF Intent, Active
    <3>2. i.phase = "deferred"
      BY <2>2, <2>5 DEF Requeues
    <3>3. j # NoIntent /\ (j.differed => i.differed \/ runtime[s] # i.target)
      BY <3>1, NoIntentAssumption
    <3> QED BY <1>2, <3>1, <3>2, <3>3 DEF j
  <2>6. CASE ~Confirms(k, runtime[s]) /\ ~Requeues(k, runtime, natively)
    <3>1. j = k /\ j # NoIntent /\ (j.differed => i.differed \/ runtime[s] # i.target)
      BY <2>2, <2>3, <2>6, NoIntentAssumption
    <3> QED BY <1>2, <2>2, <3>1 DEF j
  <2> QED BY <2>4, <2>5, <2>6
<1> QED BY <1>1, <1>2

\* A value that shows now and did not at some version since the submission is a
\* change (confirm).
LEMMA DifferenceShows ==
    ASSUME NEW h, NEW version \in Nat, NEW known \in Nat, NEW s, NEW i,
           i.asOf \in Nat, Len(h) \in Nat, version <= Len(h), known <= version,
           i.applied => Shown(i, s, h),
           i.differed => \E v \in i.asOf..known : h[v][s] # i.target,
           i.applied \/ i.differed, h[version][s] = i.target
    PROVE  Shown(i, s, h)
<1>1. CASE i.applied
  BY <1>1
<1>2. CASE i.differed
  <2>1. PICK v \in i.asOf..known : h[v][s] # i.target
    BY <1>2
  <2>2. version \in i.asOf + 1..Len(h)
    BY <2>1
  <2> QED BY <2>2 DEF Shown
<1> QED BY <1>1, <1>2

\* Observing a version the Relay does not know yet, or knows, keeps the invariant;
\* an intent it ends has shown (observe).
LEMMA ObserveKeeps ==
    ASSUME NEW version, NEW natively \in BOOLEAN, NEW running, NEW n \in Nat,
           Observe(version, natively, running),
           history' \in Seq([Settings -> Values]), Len(history') \in 1..MaxVersions,
           seen \in Nat \ {0}, version \in seen..Len(history'),
           KeptInv(intents, order, running, nativeQueue', history', seen, n)
    PROVE  /\ KeptInv(intents', order', call', nativeQueue', history', seen', n)
           /\ seen' = version
           /\ UnsettledSettings(intents') \subseteq UnsettledSettings(intents)
           /\ \A s \in UnsettledSettings(intents) :
                 intents'[s] = NoIntent => Shown(intents[s], s, history')
<1> DEFINE is == [s \in Settings |-> Observed(intents[s], s, history'[version], natively)]
<1>1. seen' = version /\ order' = Places(is) /\ Drain(is, running, version)
  BY DEF Observe
<1>2. history'[version] \in [Settings -> Values] /\ version \in 1..Len(history')
  OBVIOUS
<1>3. intents \in [Settings -> {NoIntent} \cup Intent]
  BY DEF KeptInv, KeptTypes
<1>4. \A s \in Settings :
         \/ s \notin UnsettledSettings(intents) /\ is[s] = intents[s]
         \/ /\ s \in UnsettledSettings(intents) /\ is[s] = NoIntent
            /\ intents[s].phase = "pending" /\ (intents[s].applied \/ intents[s].differed)
            /\ history'[version][s] = intents[s].target
         \/ /\ s \in UnsettledSettings(intents) /\ is[s] \in Intent /\ is[s] # NoIntent
            /\ is[s].id = intents[s].id /\ is[s].target = intents[s].target
            /\ is[s].asOf = intents[s].asOf /\ is[s].applied = intents[s].applied
            /\ is[s].phase = intents[s].phase \/ (intents[s].phase = "deferred" /\ is[s].phase = "queued")
            /\ is[s].differed => intents[s].differed \/ history'[version][s] # intents[s].target
  <2> SUFFICES ASSUME NEW s \in Settings
               PROVE  \/ s \notin UnsettledSettings(intents) /\ is[s] = intents[s]
                      \/ /\ s \in UnsettledSettings(intents) /\ is[s] = NoIntent
                         /\ intents[s].phase = "pending" /\ (intents[s].applied \/ intents[s].differed)
                         /\ history'[version][s] = intents[s].target
                      \/ /\ s \in UnsettledSettings(intents) /\ is[s] \in Intent /\ is[s] # NoIntent
                         /\ is[s].id = intents[s].id /\ is[s].target = intents[s].target
                         /\ is[s].asOf = intents[s].asOf /\ is[s].applied = intents[s].applied
                         /\ is[s].phase = intents[s].phase
                               \/ (intents[s].phase = "deferred" /\ is[s].phase = "queued")
                         /\ is[s].differed => intents[s].differed \/ history'[version][s] # intents[s].target
    OBVIOUS
  <2>1. is[s] = Observed(intents[s], s, history'[version], natively)
    OBVIOUS
  <2> HIDE DEF is
  <2>2. intents[s] \in {NoIntent} \cup Intent
    BY <1>3
  <2> QED BY <1>2, <2>1, <2>2, ObservedCases
<1>5. is \in [Settings -> {NoIntent} \cup Intent]
  <2>1. is = [s \in Settings |-> is[s]]
    OBVIOUS
  <2>2. \A s \in Settings : is[s] \in {NoIntent} \cup Intent
    <3> HIDE DEF is
    <3> QED BY <1>3, <1>4
  <2> QED BY <2>1, <2>2
<1> HIDE DEF is
<1>6. UnsettledSettings(is) \subseteq UnsettledSettings(intents)
  BY <1>4 DEF UnsettledSettings
<1>7. \A s \in UnsettledSettings(is) :
         /\ s \in Settings /\ s \in UnsettledSettings(intents) /\ is[s] \in Intent
         /\ is[s].id = intents[s].id /\ is[s].target = intents[s].target
         /\ is[s].asOf = intents[s].asOf /\ is[s].applied = intents[s].applied
         /\ is[s].phase = intents[s].phase \/ (intents[s].phase = "deferred" /\ is[s].phase = "queued")
         /\ is[s].differed => intents[s].differed \/ history'[version][s] # intents[s].target
  BY <1>4, <1>6 DEF UnsettledSettings
<1>8. \A s \in Settings : is[s] # NoIntent => intents[s] # NoIntent /\ is[s].id = intents[s].id
  BY <1>4 DEF UnsettledSettings
<1>9. KeptTypes(is, order', running, n)
  <2>1. \A s \in Settings : order'[s] = IF is[s] = NoIntent THEN 0 ELSE order[s]
    BY <1>1 DEF Places
  <2>2. order' = [s \in Settings |-> order'[s]]
    BY <1>1 DEF Places
  <2>3. /\ order \in [Settings -> 0..n] /\ running \in {NoIntent} \cup Call
        /\ \A s \in Settings : order[s] = 0 <=> intents[s] = NoIntent
        /\ \A s, t \in Settings : order[s] = order[t] /\ s # t => order[s] = 0
    BY DEF KeptInv, KeptTypes
  <2>4. order' \in [Settings -> 0..n]
    <3>1. \A s \in Settings : order'[s] = order[s] \/ order'[s] = 0
      BY <2>1
    <3>2. \A s \in Settings : order[s] \in 0..n /\ 0 \in 0..n
      BY <2>3
    <3>3. \A s \in Settings : order'[s] \in 0..n
      BY <3>1, <3>2, Zenon
    <3> QED BY <2>2, <3>3, Zenon
  <2>5. ASSUME NEW s \in Settings
        PROVE  order'[s] = 0 <=> is[s] = NoIntent
    <3>1. order[s] = 0 <=> intents[s] = NoIntent
      BY <2>3
    <3>2. is[s] # NoIntent => intents[s] # NoIntent
      BY <1>8
    <3> QED BY <2>1, <3>1, <3>2
  <2>6. \A s, t \in Settings : order'[s] = order'[t] /\ s # t => order'[s] = 0
    BY <2>1, <2>3, <2>4
  <2> QED BY <1>5, <2>3, <2>4, <2>5, <2>6 DEF KeptTypes
<1>10. Identified(is, running, nativeQueue', n)
  <2>1. Identified(intents, running, nativeQueue', n)
    BY DEF KeptInv
  <2>2. /\ \A s \in Settings : is[s] # NoIntent => is[s].id <= n
        /\ \A s, t \in Settings :
              is[s] # NoIntent /\ is[t] # NoIntent /\ s # t => is[s].id # is[t].id
    BY <2>1, <1>8 DEF Identified
  <2>3. \A s \in UnsettledSettings(is) :
           running # NoIntent /\ running.id = is[s].id
             => /\ running.setting = s /\ running.target = is[s].target
                /\ is[s].phase = "applying"
    BY <2>1, <1>7 DEF Identified
  <2> QED BY <2>1, <2>2, <2>3 DEF Identified
<1>11. HeldOnce(is, running, nativeQueue')
  BY <1>7 DEF KeptInv, HeldOnce
<1>12. Witnessed(is, running, history', version)
  <2> SUFFICES ASSUME NEW s \in UnsettledSettings(is), is[s].phase \in {"applying", "pending"}
               PROVE  /\ is[s].asOf <= version
                      /\ is[s].differed => \E v \in is[s].asOf..version : v > 0 /\ history'[v][s] # is[s].target
                      /\ is[s].phase = "applying" => ~is[s].applied
                      /\ is[s].applied => Shown(is[s], s, history')
                      /\ (running # NoIntent /\ running.effected /\ running.id = is[s].id)
                            => Shown(is[s], s, history')
    BY DEF Witnessed
  <2>1. /\ s \in UnsettledSettings(intents) /\ is[s].phase = intents[s].phase
        /\ is[s].asOf = intents[s].asOf /\ is[s].target = intents[s].target
        /\ is[s].applied = intents[s].applied /\ is[s].id = intents[s].id
    BY <1>7
  <2>2. /\ intents[s].asOf <= seen
        /\ intents[s].differed => \E v \in intents[s].asOf..seen : v > 0 /\ history'[v][s] # intents[s].target
        /\ intents[s].phase = "applying" => ~intents[s].applied
        /\ intents[s].applied => Shown(intents[s], s, history')
        /\ (running # NoIntent /\ running.effected /\ running.id = intents[s].id)
              => Shown(intents[s], s, history')
    BY <2>1 DEF KeptInv, Witnessed
  <2>3. is[s].asOf \in Nat
    BY <1>7 DEF Intent
  <2>4. is[s].differed => \E v \in is[s].asOf..version : v > 0 /\ history'[v][s] # is[s].target
    <3>1. CASE intents[s].differed
      BY <3>1, <2>1, <2>2, <2>3, <1>2
    <3>2. CASE history'[version][s] # intents[s].target
      <4>1. version \in is[s].asOf..version /\ version > 0
        BY <2>1, <2>2, <2>3, <1>2
      <4> QED BY <4>1, <3>2, <2>1
    <3> QED BY <3>1, <3>2, <1>7
  <2>5. Shown(intents[s], s, history') => Shown(is[s], s, history')
    BY <2>1 DEF Shown
  <2>6. is[s].asOf <= version
    BY <2>1, <2>2, <2>3, <1>2
  <2> QED BY <2>1, <2>2, <2>4, <2>5, <2>6
<1>13. KeptInv(is, order', running, nativeQueue', history', version, n)
  BY <1>9, <1>10, <1>11, <1>12 DEF KeptInv
<1>14. /\ KeptInv(intents', order', call', nativeQueue', history', version, n)
       /\ UnsettledSettings(intents') = UnsettledSettings(is)
       /\ \A s \in Settings : intents'[s] = NoIntent <=> is[s] = NoIntent
  BY <1>1, <1>2, <1>13, DrainKeeps
<1>15. ASSUME NEW s \in UnsettledSettings(intents), intents'[s] = NoIntent
       PROVE  Shown(intents[s], s, history')
  <2>1. /\ s \in Settings /\ intents[s] \in Intent
        /\ intents[s].phase = "pending" /\ (intents[s].applied \/ intents[s].differed)
        /\ history'[version][s] = intents[s].target
    BY <1>3, <1>4, <1>14, <1>15 DEF UnsettledSettings
  <2>2. /\ intents[s].differed => \E v \in intents[s].asOf..seen : history'[v][s] # intents[s].target
        /\ intents[s].applied => Shown(intents[s], s, history')
    BY <2>1 DEF KeptInv, Witnessed
  <2>3. intents[s].asOf \in Nat /\ Len(history') \in Nat /\ version \in Nat
    BY <2>1, <1>2 DEF Intent
  <2>4. version <= Len(history') /\ seen <= version /\ seen \in Nat
    OBVIOUS
  <2>5. intents[s].applied \/ intents[s].differed
    BY <2>1
  <2> QED BY <2>1, <2>2, <2>3, <2>4, <2>5, DifferenceShows
<1> QED BY <1>1, <1>6, <1>14, <1>15

\* The end of a native call keeps the invariant, settles no intent but its own, and
\* an intent it confirms has shown (drain).  The assumptions are what the kinds of
\* ends have in common.
LEMMA CallEndsKeeps ==
    ASSUME NEW result, CallEnds(result), call # NoIntent, WorldTypes,
           KeptInv(intents, order, call, nativeQueue, history, seen, issued),
           Owned =>
              LET i == intents[call.setting]
              IN  /\ result \in Intent
                  /\ result.id = i.id /\ result.target = i.target
                  /\ result.phase \in {"settled", "pending", "queued", "deferred"}
                  /\ result.phase = "pending" =>
                        /\ result.asOf = i.asOf
                        /\ result.differed => i.differed
                        /\ result.applied => i.applied \/ call.effected,
           \A w \in nativeQueue' : w \in nativeQueue \/ w.id = call.id,
           Owned /\ result.phase \in {"queued", "deferred"} => nativeQueue' = nativeQueue
    PROVE  /\ KeptInv(intents', order', call', nativeQueue', history', seen', issued')
           /\ UnsettledSettings(intents') \subseteq UnsettledSettings(intents)
           /\ \A s \in UnsettledSettings(intents) :
                 /\ intents'[s] = NoIntent => Shown(intents[s], s, history')
                 /\ intents[s].id # call.id =>
                       s \in UnsettledSettings(intents') /\ intents'[s].id = intents[s].id
<1> DEFINE s == call.setting
           i == IF Owned THEN result ELSE intents[s]
           confirmed == Owned /\ Confirms(i, history[seen][s])
           is == [intents EXCEPT ![s] = IF confirmed THEN NoIntent ELSE i]
<1>1. /\ order' = Places(is) /\ Drain(is, NoIntent, seen)
      /\ history' = history /\ seen' = seen /\ issued' = issued
  BY DEF CallEnds, bounds
<1>2. /\ intents \in [Settings -> {NoIntent} \cup Intent] /\ call \in Call /\ s \in Settings
      /\ seen \in 1..Len(history) /\ Len(history) \in Nat
  BY DEF KeptInv, KeptTypes, Call, WorldTypes
<1>3. Owned => s \in UnsettledSettings(intents) /\ intents[s].id = call.id
  BY DEF Owned
<1>4. /\ Identified(intents, call, nativeQueue, issued) /\ HeldOnce(intents, call, nativeQueue)
      /\ Witnessed(intents, call, history, seen)
  BY DEF KeptInv
<1>5. ASSUME Owned
      PROVE  /\ intents[s].phase = "applying" /\ intents[s].applied = FALSE /\ intents[s] \in Intent
             /\ intents[s].asOf <= seen
             /\ intents[s].differed =>
                   \E v \in intents[s].asOf..seen : v > 0 /\ history[v][s] # intents[s].target
             /\ call.effected => Shown(intents[s], s, history)
  <2>1. intents[s].phase = "applying"
    BY <1>3, <1>4, <1>5 DEF Identified
  <2>2. intents[s] \in Intent
    BY <1>2, <1>3, <1>5 DEF UnsettledSettings
  <2>3. intents[s].applied \in BOOLEAN
    BY <2>2 DEF Intent
  <2> QED BY <2>1, <2>2, <2>3, <1>3, <1>4, <1>5 DEF Witnessed
<1>6. /\ \A t \in Settings : t # s => is[t] = intents[t]
      /\ is[s] = IF confirmed THEN NoIntent ELSE i
      /\ is \in [Settings -> {NoIntent} \cup Intent]
  <2>1. i \in {NoIntent} \cup Intent
    BY <1>2
  <2> QED BY <1>2, <2>1
<1>7. \/ ~Owned /\ is[s] = intents[s]
      \/ Owned /\ ~confirmed /\ is[s] = result
      \/ /\ Owned /\ is[s] = NoIntent
         /\ Confirms(result, history[seen][s])
  BY <1>6
<1> HIDE DEF is, confirmed, i, s
<1>8. /\ UnsettledSettings(is) \subseteq UnsettledSettings(intents)
      /\ \A t \in UnsettledSettings(intents) : intents[t].id # call.id =>
            t \in UnsettledSettings(is) /\ is[t] = intents[t]
  BY <1>3, <1>6, <1>7 DEF UnsettledSettings
<1>9. KeptTypes(is, order', NoIntent, issued)
  <2>1. /\ \A t \in Settings : order'[t] = IF is[t] = NoIntent THEN 0 ELSE order[t]
        /\ order' = [t \in Settings |-> order'[t]]
    BY <1>1 DEF Places
  <2>2. /\ order \in [Settings -> 0..issued] /\ issued \in Nat
        /\ \A t \in Settings : order[t] = 0 <=> intents[t] = NoIntent
        /\ \A t, u \in Settings : order[t] = order[u] /\ t # u => order[t] = 0
    BY DEF KeptInv, KeptTypes, WorldTypes
  <2>3. order' \in [Settings -> 0..issued]
    BY <2>1, <2>2
  <2>4. \A t \in Settings : intents[t] = NoIntent => is[t] = NoIntent
    BY <1>3, <1>6, <1>7 DEF UnsettledSettings
  <2>5. \A t \in Settings : order'[t] = 0 <=> is[t] = NoIntent
    BY <2>1, <2>2, <2>4
  <2>6. \A t, u \in Settings : order'[t] = order'[u] /\ t # u => order'[t] = 0
    BY <2>1, <2>2, <2>3
  <2> QED BY <1>6, <2>3, <2>5, <2>6 DEF KeptTypes
<1>10. \A t \in Settings : is[t] # NoIntent => intents[t] # NoIntent /\ is[t].id = intents[t].id
  BY <1>3, <1>6, <1>7 DEF UnsettledSettings, s
<1>11. Identified(is, NoIntent, nativeQueue', issued)
  BY <1>4, <1>10 DEF Identified
<1>12. HeldOnce(is, NoIntent, nativeQueue')
  <2> SUFFICES ASSUME NEW t \in UnsettledSettings(is), is[t].phase \in {"queued", "deferred"},
                      NEW w \in nativeQueue'
               PROVE  w.id # is[t].id
    BY DEF HeldOnce
  <2>1. CASE ~Owned \/ t # s
    <3>1. is[t] = intents[t] /\ t \in UnsettledSettings(intents)
      BY <2>1, <1>6, <1>7, <1>8 DEF UnsettledSettings
    <3>2. intents[t].id # call.id
      BY <3>1, <1>4 DEF Identified
    <3> QED BY <3>1, <3>2, <1>4 DEF HeldOnce
  <2>2. CASE Owned /\ t = s
    <3>1. is[t] = result /\ result.id = call.id
      BY <2>2, <1>3, <1>7 DEF UnsettledSettings, s
    <3>2. w \in nativeQueue
      BY <2>2, <3>1
    <3> QED BY <3>1, <3>2, <1>4 DEF HeldOnce
  <2> QED BY <2>1, <2>2
<1>13. Witnessed(is, NoIntent, history, seen)
  <2> SUFFICES ASSUME NEW t \in UnsettledSettings(is), is[t].phase \in {"applying", "pending"}
               PROVE  /\ is[t].asOf <= seen
                      /\ is[t].differed => \E v \in is[t].asOf..seen : v > 0 /\ history[v][t] # is[t].target
                      /\ is[t].phase = "applying" => ~is[t].applied
                      /\ is[t].applied => Shown(is[t], t, history)
    BY DEF Witnessed
  <2>1. CASE ~Owned \/ t # s
    <3>1. is[t] = intents[t] /\ t \in UnsettledSettings(intents)
      BY <2>1, <1>6, <1>7, <1>8 DEF UnsettledSettings
    <3> QED BY <3>1, <1>4 DEF Witnessed
  <2>2. CASE Owned /\ t = s
    <3>1. is[t] = result
      BY <2>2, <1>7 DEF UnsettledSettings
    <3>2. /\ result.phase = "pending" /\ result.asOf = intents[s].asOf
          /\ result.target = intents[s].target
          /\ result.differed => intents[s].differed
          /\ result.applied => call.effected
      BY <2>2, <3>1, <1>5 DEF s
    <3>3. Shown(intents[s], s, history) => Shown(result, s, history)
      BY <3>2 DEF Shown
    <3> QED BY <2>2, <3>1, <3>2, <3>3, <1>5
  <2> QED BY <2>1, <2>2
<1>14. KeptInv(is, order', NoIntent, nativeQueue', history', seen, issued)
  BY <1>1, <1>9, <1>11, <1>12, <1>13 DEF KeptInv
<1>15. /\ KeptInv(intents', order', call', nativeQueue', history', seen, issued)
       /\ UnsettledSettings(intents') = UnsettledSettings(is)
       /\ \A t \in Settings : intents'[t] = NoIntent <=> is[t] = NoIntent
       /\ \A t \in UnsettledSettings(is) : intents'[t].id = is[t].id
  <2>1. /\ history' \in Seq([Settings -> Values]) /\ Len(history') \in 1..MaxVersions
        /\ seen \in 1..Len(history') /\ issued \in Nat
    BY <1>1 DEF WorldTypes
  <2> QED BY <1>1, <1>14, <2>1, DrainKeeps
<1>16. ASSUME NEW t \in UnsettledSettings(intents), intents'[t] = NoIntent
       PROVE  Shown(intents[t], t, history')
  <2>1. is[t] = NoIntent /\ t \in Settings /\ intents[t] # NoIntent
    BY <1>15, <1>16 DEF UnsettledSettings
  <2>2. Owned /\ t = s
    BY <2>1, <1>6, <1>7
  <2>3. Confirms(result, history[seen][s])
    BY <2>1, <2>2, <1>7, NoIntentAssumption DEF s
  <2>4. /\ result.phase = "pending" /\ result.asOf = intents[s].asOf
        /\ result.target = intents[s].target
        /\ result.differed => intents[s].differed
        /\ result.applied => call.effected
        /\ result.applied \/ result.differed
        /\ history[seen][s] = intents[s].target
    BY <2>2, <2>3, <1>5 DEF s, Confirms
  <2>5. /\ intents[s].asOf \in Nat /\ seen \in Nat /\ Len(history) \in Nat /\ seen <= Len(history)
        /\ seen <= seen
    BY <1>2, <1>5, <2>2 DEF Intent
  <2>6. CASE result.applied
    BY <2>6, <2>4, <2>2, <1>1, <1>5
  <2>7. CASE result.differed
    <3>1. PICK v \in intents[s].asOf..seen : history[v][s] # intents[s].target
      BY <2>7, <2>4, <2>2, <1>5
    <3>2. seen \in intents[s].asOf + 1..Len(history)
      BY <3>1, <2>4, <2>5
    <3> QED BY <3>2, <2>2, <2>4, <1>1 DEF Shown
  <2> QED BY <2>4, <2>6, <2>7
<1> QED BY <1>1, <1>8, <1>15, <1>16

-----------------------------------------------------------------------------
(* The actions keep the invariant.                                         *)

\* An intent that a step ends has shown.
EndsShown ==
    \A s \in UnsettledSettings(intents) :
        intents'[s] = NoIntent => Shown(intents[s], s, history')

LEMMA NothingKept ==
    /\ NoIntent \notin Intent /\ NoIntent \notin Call /\ NoIntent \notin Read
BY NoIntentAssumption

\* Initially nothing is asked for.
LEMMA SettingInitial == SettingInit => SettingIInv
<1> SUFFICES ASSUME SettingInit PROVE SettingIInv
  OBVIOUS
<1>1. /\ MaxIntents \in Nat \ {0} /\ MaxVersions \in Nat \ {0} /\ Initially \in Values
  BY SettingAssumption
<1>2. WorldTypes
  <2>1. [s \in Settings |-> Initially] \in [Settings -> Values]
    BY <1>1
  <2>2. history \in Seq([Settings -> Values]) /\ Len(history) = 1
    BY <2>1 DEF SettingInit
  <2>3. Len(history) \in 1..MaxVersions /\ seen \in 1..Len(history)
    BY <1>1, <2>2 DEF SettingInit
  <2>4. issued \in 0..MaxIntents /\ otherReads \in 0..MaxIntents - issued
    BY <1>1 DEF SettingInit
  <2>5. /\ read = NoIntent /\ refreshing \in BOOLEAN /\ poll \in BOOLEAN /\ settingsClosed \in BOOLEAN
        /\ nativeQueue = {}
    BY DEF SettingInit
  <2> QED BY <2>2, <2>3, <2>4, <2>5 DEF WorldTypes
<1>3. \A s \in Settings : intents[s] = NoIntent /\ order[s] = 0
  BY DEF SettingInit
<1>4. UnsettledSettings(intents) = {}
  BY <1>3 DEF UnsettledSettings
<1>5. KeptTypes(intents, order, call, issued)
  BY <1>3 DEF SettingInit, KeptTypes
<1> QED BY <1>2, <1>3, <1>4, <1>5 DEF SettingInit, SettingIInv, KeptInv, Identified, HeldOnce, Witnessed,
           PolledWhileUnsettled, ReadFresh

\* A readback is a new read or none (readback).
LEMMA ReadbackKeeps ==
    ASSUME Readback, WorldTypes, ReadFresh, history' = history, seen' = seen,
           settingsClosed' = settingsClosed
    PROVE  /\ read' \in {NoIntent} \cup Read /\ (read' # NoIntent => read'.version <= Len(history'))
           /\ refreshing' \in BOOLEAN
           /\ ReadFresh'
<1>1. CASE UNCHANGED readback
  BY <1>1 DEF readback, WorldTypes, ReadFresh
<1>2. CASE refreshing' = TRUE /\ read' = [own |-> TRUE, version |-> 0, stale |-> FALSE]
  <2>1. read' \in Read /\ read'.version = 0 /\ Len(history) \in Nat
    BY <1>2, SettingAssumption DEF Read, WorldTypes
  <2> QED BY <1>2, <2>1 DEF ReadFresh, WorldTypes
<1> QED BY <1>1, <1>2 DEF Readback

\* accept
LEMMA AcceptKeeps ==
    ASSUME SettingIInv, Accept PROVE SettingIInv' /\ EndsShown
<1>1. PICK s \in Settings, v \in Values :
         LET i == [id |-> issued', target |-> v, phase |-> "queued", applied |-> FALSE,
                   differed |-> FALSE, runtime |-> NoIntent, asOf |-> 0]
         IN  /\ order' = IF intents[s] = NoIntent THEN [order EXCEPT ![s] = issued'] ELSE order
             /\ Drain([intents EXCEPT ![s] = i], call, seen)
  BY DEF Accept
<1> DEFINE i == [id |-> issued', target |-> v, phase |-> "queued", applied |-> FALSE,
                 differed |-> FALSE, runtime |-> NoIntent, asOf |-> 0]
           is == [intents EXCEPT ![s] = i]
<1>2. /\ issued' = issued + 1 /\ issued + otherReads < MaxIntents /\ poll' = TRUE
      /\ history' = history /\ nativeQueue' = nativeQueue /\ seen' = seen /\ read' = read
      /\ refreshing' = refreshing /\ otherReads' = otherReads /\ settingsClosed' = settingsClosed
  BY DEF Accept, world, readback
<1>3. WorldTypes /\ KeptInv(intents, order, call, nativeQueue, history, seen, issued) /\ ReadFresh
  BY DEF SettingIInv
<1>4. /\ issued \in Nat /\ otherReads \in Nat /\ MaxIntents \in Nat /\ MaxVersions \in Nat
      /\ issued' \in Ids /\ seen \in Nat
  BY <1>2, <1>3, SettingAssumption DEF WorldTypes, Ids
<1>5. i \in Intent /\ i # NoIntent /\ i.id = issued + 1 /\ i.phase = "queued"
  <2>1. i \in Intent
    BY <1>4 DEF Intent, Active
  <2> QED BY <2>1, <1>2, NothingKept
<1>6. /\ is[s] = i /\ \A t \in Settings : t # s => is[t] = intents[t]
      /\ is \in [Settings -> {NoIntent} \cup Intent]
  BY <1>3, <1>5 DEF KeptInv, KeptTypes
<1>7. /\ order' = (IF intents[s] = NoIntent THEN [order EXCEPT ![s] = issued + 1] ELSE order)
      /\ Drain(is, call, seen)
  BY <1>1, <1>2
<1> HIDE DEF i, is
<1>8. KeptTypes(is, order', call, issued')
  <2>1. /\ order \in [Settings -> 0..issued] /\ call \in {NoIntent} \cup Call
        /\ \A t \in Settings : order[t] = 0 <=> intents[t] = NoIntent
        /\ \A t, u \in Settings : order[t] = order[u] /\ t # u => order[t] = 0
    BY <1>3 DEF KeptInv, KeptTypes
  <2>2. order' \in [Settings -> 0..issued']
    BY <2>1, <1>2, <1>4, <1>7
  <2>3. /\ \A t \in Settings : t # s => order'[t] = order[t]
        /\ order'[s] = IF intents[s] = NoIntent THEN issued + 1 ELSE order[s]
    BY <2>1, <1>7
  <2>4. \A t \in Settings : order'[t] = 0 <=> is[t] = NoIntent
    BY <2>1, <2>3, <1>4, <1>5, <1>6
  <2>5. \A t, u \in Settings : order'[t] = order'[u] /\ t # u => order'[t] = 0
    <3>1. \A t \in Settings : order[t] \in 0..issued
      BY <2>1
    <3> QED BY <3>1, <2>1, <2>3, <1>4
  <2> QED BY <1>6, <2>1, <2>2, <2>4, <2>5 DEF KeptTypes
<1>9. Identified(is, call, nativeQueue', issued')
  <2>1. Identified(intents, call, nativeQueue, issued)
    BY <1>3 DEF KeptInv
  <2>2. /\ \A t \in Settings : intents[t] # NoIntent => intents[t].id <= issued /\ intents[t].id \in Nat
        /\ call # NoIntent => call.id <= issued /\ call.id \in Nat
        /\ \A w \in nativeQueue : w.id <= issued /\ w.id \in Nat
    BY <2>1, <1>3 DEF Identified, KeptInv, KeptTypes, Intent, Call, Ids, WorldTypes
  <2>3. /\ \A t \in Settings : is[t] # NoIntent => is[t].id <= issued'
        /\ call # NoIntent => call.id <= issued'
        /\ \A w \in nativeQueue' : w.id <= issued'
    BY <2>2, <1>2, <1>4, <1>5, <1>6
  <2>4. \A t, u \in Settings :
           is[t] # NoIntent /\ is[u] # NoIntent /\ t # u => is[t].id # is[u].id
    BY <2>1, <2>2, <1>4, <1>5, <1>6 DEF Identified
  <2>5. ASSUME NEW t \in UnsettledSettings(is), call # NoIntent, call.id = is[t].id
        PROVE  call.setting = t /\ call.target = is[t].target /\ is[t].phase = "applying"
    <3>1. t # s
      BY <2>2, <2>5, <1>4, <1>5, <1>6
    <3>2. is[t] = intents[t] /\ t \in UnsettledSettings(intents)
      BY <3>1, <1>6 DEF UnsettledSettings
    <3> QED BY <3>2, <2>1, <2>5 DEF Identified
  <2> QED BY <2>3, <2>4, <2>5 DEF Identified
<1>10. HeldOnce(is, call, nativeQueue')
  <2>1. \A w \in nativeQueue : w.id <= issued /\ w.id \in Nat
    BY <1>3 DEF Identified, KeptInv, WorldTypes, Ids
  <2>2. \A w \in nativeQueue : w.id # is[s].id
    BY <2>1, <1>4, <1>5, <1>6
  <2>3. \A t \in UnsettledSettings(is) : t = s \/ (t \in UnsettledSettings(intents) /\ is[t] = intents[t])
    BY <1>6 DEF UnsettledSettings
  <2> QED BY <2>2, <2>3, <1>2, <1>3 DEF KeptInv, HeldOnce
<1>11. Witnessed(is, call, history', seen)
  <2>1. \A t \in UnsettledSettings(is) :
           is[t].phase \in {"applying", "pending"} => t \in UnsettledSettings(intents) /\ is[t] = intents[t]
    BY <1>5, <1>6 DEF UnsettledSettings
  <2> QED BY <2>1, <1>2, <1>3 DEF KeptInv, Witnessed
<1>12. /\ KeptInv(intents', order', call', nativeQueue', history', seen, issued')
       /\ \A t \in Settings : intents'[t] = NoIntent <=> is[t] = NoIntent
  <2>1. /\ history' \in Seq([Settings -> Values]) /\ Len(history') \in 1..MaxVersions
        /\ seen \in 1..Len(history') /\ issued' \in Nat
    BY <1>2, <1>3, <1>4 DEF WorldTypes
  <2>2. KeptInv(is, order', call, nativeQueue', history', seen, issued')
    BY <1>8, <1>9, <1>10, <1>11 DEF KeptInv
  <2> QED BY <2>1, <2>2, <1>7, DrainKeeps
<1>13. WorldTypes'
  BY <1>2, <1>3, <1>4 DEF WorldTypes
<1>14. PolledWhileUnsettled' /\ ReadFresh'
  BY <1>2, <1>3 DEF PolledWhileUnsettled, ReadFresh
<1>15. EndsShown
  BY <1>5, <1>6, <1>12 DEF EndsShown, UnsettledSettings
<1> QED BY <1>2, <1>12, <1>13, <1>14, <1>15 DEF SettingIInv

\* expire
LEMMA ExpireKeeps ==
    ASSUME SettingIInv, NEW s \in Settings, Expire(s) PROVE SettingIInv' /\ EndsShown
<1>0. s \in UnsettledSettings(intents) /\ intents' = [intents EXCEPT ![s] = SettleIntent(@)]
  BY DEF Expire
<1>1. /\ Readback /\ order' = order /\ call' = call /\ seen' = seen /\ poll' = poll
      /\ history' = history /\ nativeQueue' = nativeQueue
      /\ issued' = issued /\ otherReads' = otherReads /\ settingsClosed' = settingsClosed
  BY DEF Expire, world, bounds
<1>2. /\ WorldTypes /\ KeptInv(intents, order, call, nativeQueue, history, seen, issued)
      /\ ReadFresh /\ PolledWhileUnsettled
  BY DEF SettingIInv
<1>3. intents \in [Settings -> {NoIntent} \cup Intent] /\ intents[s] \in Intent
  BY <1>0, <1>2 DEF KeptInv, KeptTypes, UnsettledSettings
<1>4. /\ SettleIntent(intents[s]) \in Intent /\ SettleIntent(intents[s]) # NoIntent
      /\ SettleIntent(intents[s]).id = intents[s].id /\ SettleIntent(intents[s]).phase = "settled"
  <2>1. SettleIntent(intents[s]) \in Intent
    <3>1. intents[s] \in Intent /\ 0 \in 0..MaxVersions
      BY <1>3, SettingAssumption
    <3> QED BY <3>1 DEF SettleIntent, Intent, Active
  <2> QED BY <2>1, <1>3, NothingKept DEF SettleIntent, Intent
<1>5. /\ intents' \in [Settings -> {NoIntent} \cup Intent]
      /\ \A t \in Settings : t # s => intents'[t] = intents[t]
      /\ intents'[s] = SettleIntent(intents[s])
  BY <1>0, <1>3, <1>4
<1>6. /\ \A t \in Settings : (intents'[t] = NoIntent) <=> (intents[t] = NoIntent)
      /\ \A t \in Settings : intents[t] # NoIntent => intents'[t].id = intents[t].id
  BY <1>3, <1>4, <1>5, NothingKept
<1>7. \A t \in UnsettledSettings(intents') : t \in UnsettledSettings(intents) /\ intents'[t] = intents[t]
  BY <1>4, <1>5 DEF UnsettledSettings, Active
<1>8. KeptTypes(intents', order', call', issued')
  BY <1>1, <1>2, <1>5, <1>6 DEF KeptInv, KeptTypes
<1>9. Identified(intents', call', nativeQueue', issued')
  BY <1>1, <1>2, <1>6, <1>7 DEF KeptInv, Identified
<1>10. HeldOnce(intents', call', nativeQueue') /\ Witnessed(intents', call', history', seen')
  BY <1>1, <1>2, <1>7 DEF KeptInv, HeldOnce, Witnessed
<1>11. /\ read' \in {NoIntent} \cup Read /\ (read' # NoIntent => read'.version <= Len(history'))
       /\ refreshing' \in BOOLEAN /\ ReadFresh'
  BY <1>1, <1>2, ReadbackKeeps
<1>12. WorldTypes'
  BY <1>1, <1>2, <1>11 DEF WorldTypes
<1>13. PolledWhileUnsettled'
  BY <1>1, <1>2, <1>7 DEF PolledWhileUnsettled
<1>14. EndsShown
  <2>1. \A t \in UnsettledSettings(intents) : t \in Settings /\ intents[t] # NoIntent
    BY DEF UnsettledSettings
  <2> QED BY <1>6, <2>1 DEF EndsShown
<1> QED BY <1>8, <1>9, <1>10, <1>11, <1>12, <1>13, <1>14 DEF SettingIInv, KeptInv

\* Steps of timers and reads that change no intent (scheduleReadback, close,
\* refreshRuntimeInfo, readback).
LEMMA KeptStays ==
    ASSUME SettingIInv,
           UNCHANGED <<world, kept, issued>>,
           WorldTypes', ReadFresh', PolledWhileUnsettled'
    PROVE  SettingIInv' /\ EndsShown
<1>1. /\ intents' = intents /\ order' = order /\ call' = call /\ nativeQueue' = nativeQueue
      /\ history' = history /\ seen' = seen /\ issued' = issued
  BY DEF world, kept
<1> QED BY <1>1 DEF SettingIInv, EndsShown, UnsettledSettings

LEMMA TimersKeep ==
    ASSUME SettingIInv,
           FirePoll \/ CloseSettings \/ OtherRead \/ ReadAnswered \/ ReadFails \/ ReadbackEnds
    PROVE  SettingIInv' /\ EndsShown
<1>1. WorldTypes /\ ReadFresh /\ PolledWhileUnsettled
  BY DEF SettingIInv
<1>2. CASE FirePoll
  <2>1. /\ Readback /\ poll' = (UnsettledSettings(intents) # {})
        /\ history' = history /\ nativeQueue' = nativeQueue /\ intents' = intents /\ seen' = seen
        /\ issued' = issued /\ otherReads' = otherReads /\ settingsClosed' = settingsClosed
        /\ UNCHANGED <<world, kept, issued>>
    BY <1>2 DEF FirePoll, world, kept, bounds
  <2>2. /\ read' \in {NoIntent} \cup Read /\ (read' # NoIntent => read'.version <= Len(history'))
        /\ refreshing' \in BOOLEAN /\ ReadFresh'
    BY <1>1, <2>1, ReadbackKeeps
  <2>3. WorldTypes' /\ PolledWhileUnsettled'
    BY <1>1, <2>1, <2>2 DEF WorldTypes, PolledWhileUnsettled
  <2> QED BY <2>1, <2>2, <2>3, KeptStays
<1>3. CASE CloseSettings
  BY <1>1, <1>3, KeptStays DEF CloseSettings, world, kept, WorldTypes, ReadFresh, PolledWhileUnsettled
<1>4. CASE OtherRead
  <2>1. /\ read' = [own |-> FALSE, version |-> 0, stale |-> FALSE] /\ otherReads' = otherReads + 1
        /\ issued + otherReads < MaxIntents
        /\ UNCHANGED <<history, nativeQueue, intents, order, call, seen, refreshing, poll, settingsClosed, issued>>
    BY <1>4 DEF OtherRead, world, kept
  <2>2. read' \in Read /\ read'.version = 0 /\ Len(history) \in Nat
    BY <1>1, <2>1, SettingAssumption DEF Read, WorldTypes
  <2>3. WorldTypes' /\ ReadFresh' /\ PolledWhileUnsettled'
    BY <1>1, <2>1, <2>2, SettingAssumption DEF WorldTypes, ReadFresh, PolledWhileUnsettled
  <2> QED BY <2>1, <2>3, KeptStays DEF world, kept
<1>5. CASE ReadAnswered
  <2>1. /\ read # NoIntent /\ read' = [read EXCEPT !.version = Len(history)]
        /\ UNCHANGED <<history, nativeQueue, intents, order, call, seen, refreshing, poll, settingsClosed,
                        issued, otherReads>>
    BY <1>5 DEF ReadAnswered, world, kept, bounds
  <2>2. read \in Read /\ Len(history) \in 0..MaxVersions /\ seen <= Len(history) /\ Len(history) \in Nat
    BY <1>1, <2>1, SettingAssumption DEF WorldTypes
  <2>3. read' \in Read /\ read'.version = Len(history)
    BY <2>1, <2>2 DEF Read
  <2>4. WorldTypes' /\ ReadFresh' /\ PolledWhileUnsettled'
    BY <1>1, <2>1, <2>2, <2>3 DEF WorldTypes, ReadFresh, PolledWhileUnsettled
  <2> QED BY <2>1, <2>4, KeptStays DEF world, kept
<1>6. CASE ReadFails
  <2>1. /\ read # NoIntent /\ read' = NoIntent /\ refreshing' = (refreshing /\ ~read.own)
        /\ UNCHANGED <<history, nativeQueue, intents, order, call, seen, poll, settingsClosed, issued, otherReads>>
    BY <1>6 DEF ReadFails, world, kept, bounds
  <2>2. WorldTypes' /\ ReadFresh' /\ PolledWhileUnsettled'
    BY <1>1, <2>1 DEF WorldTypes, ReadFresh, PolledWhileUnsettled
  <2> QED BY <2>1, <2>2, KeptStays DEF world, kept
<1>7. CASE ReadbackEnds
  BY <1>1, <1>7, KeptStays DEF ReadbackEnds, world, kept, bounds, WorldTypes, ReadFresh, PolledWhileUnsettled
<1> QED BY <1>2, <1>3, <1>4, <1>5, <1>6, <1>7

\* The ends of a native call (drain).  One fact more: no intent but the call's own
\* is settled.
LEMMA CallsKeep ==
    ASSUME SettingIInv, Calls
    PROVE  /\ SettingIInv' /\ EndsShown
           /\ \A s \in UnsettledSettings(intents) :
                 intents[s].id # call.id =>
                    s \in UnsettledSettings(intents') /\ intents'[s].id = intents[s].id
<1>1. /\ WorldTypes /\ ReadFresh /\ PolledWhileUnsettled
      /\ KeptInv(intents, order, call, nativeQueue, history, seen, issued)
  BY DEF SettingIInv
<1>2. ASSUME NEW result, CallEnds(result),
             KeptInv(intents', order', call', nativeQueue', history', seen', issued'),
             UnsettledSettings(intents') \subseteq UnsettledSettings(intents),
             \A s \in UnsettledSettings(intents) : intents'[s] = NoIntent => Shown(intents[s], s, history'),
             nativeQueue' \subseteq [id : Ids, setting : Settings, target : Values]
      PROVE  SettingIInv' /\ EndsShown
  <2>1. /\ Readback /\ history' = history /\ seen' = seen /\ poll' = poll
        /\ settingsClosed' = settingsClosed /\ issued' = issued /\ otherReads' = otherReads
    BY <1>2 DEF CallEnds, bounds
  <2>2. /\ read' \in {NoIntent} \cup Read /\ (read' # NoIntent => read'.version <= Len(history'))
        /\ refreshing' \in BOOLEAN /\ ReadFresh'
    BY <1>1, <2>1, ReadbackKeeps
  <2>3. WorldTypes'
    BY <1>1, <1>2, <2>1, <2>2 DEF WorldTypes
  <2>4. PolledWhileUnsettled'
    BY <1>1, <1>2, <2>1 DEF PolledWhileUnsettled
  <2> QED BY <1>2, <2>2, <2>3, <2>4 DEF SettingIInv, EndsShown
<1>3. /\ nativeQueue \subseteq [id : Ids, setting : Settings, target : Values]
      /\ call # NoIntent /\ call \in Call
      /\ intents \in [Settings -> {NoIntent} \cup Intent]
  BY <1>1 DEF Calls, CallApplied, CallPending, CallDeferred, CallFails, KeptInv, KeptTypes, WorldTypes
<1>4. Owned => /\ Submitted = intents[call.setting] /\ Submitted \in Intent
               /\ Submitted.phase = "applying" /\ Submitted.applied = FALSE
  <2>1. ASSUME Owned PROVE Submitted \in Intent /\ Submitted.phase = "applying" /\ Submitted.applied = FALSE
    <3>1. /\ call.setting \in UnsettledSettings(intents) /\ intents[call.setting].id = call.id
          /\ intents[call.setting] \in Intent
      BY <1>3, <2>1 DEF Owned, UnsettledSettings
    <3>2. intents[call.setting].phase = "applying"
      BY <1>1, <1>3, <3>1 DEF KeptInv, Identified
    <3>3. ~intents[call.setting].applied /\ intents[call.setting].applied \in BOOLEAN
      BY <1>1, <3>1, <3>2 DEF KeptInv, Witnessed, Intent
    <3> QED BY <3>1, <3>2, <3>3 DEF Submitted
  <2> QED BY <2>1 DEF Submitted
<1>5. NativeQueues => /\ \A w \in nativeQueue' : w \in nativeQueue \/ w.id = call.id
                      /\ nativeQueue' \subseteq [id : Ids, setting : Settings, target : Values]
  BY <1>3 DEF NativeQueues, Call
<1>6. CASE CallApplied
  <2> DEFINE result == [Submitted EXCEPT !.phase = "pending", !.applied = TRUE]
  <2>1. /\ call.effected /\ nativeQueue' = nativeQueue /\ CallEnds(result)
    BY <1>6 DEF CallApplied
  <2>2. ASSUME Owned
        PROVE  /\ result \in Intent /\ result.id = Submitted.id /\ result.target = Submitted.target
               /\ result.phase = "pending" /\ result.asOf = Submitted.asOf
               /\ result.differed = Submitted.differed
    BY <1>4, <2>2 DEF Intent, Active
  <2> HIDE DEF result
  <2>3. Owned => LET i == intents[call.setting]
                 IN  /\ result \in Intent
                     /\ result.id = i.id /\ result.target = i.target
                     /\ result.phase \in {"settled", "pending", "queued", "deferred"}
                     /\ result.phase = "pending" =>
                           /\ result.asOf = i.asOf
                           /\ result.differed => i.differed
                           /\ result.applied => i.applied \/ call.effected
    BY <1>4, <2>1, <2>2
  <2> QED BY <1>1, <1>2, <1>3, <2>1, <2>3, CallEndsKeeps
<1>7. CASE CallPending
  <2> DEFINE result == [Submitted EXCEPT !.phase = "pending"]
  <2>1. NativeQueues /\ CallEnds(result)
    BY <1>7 DEF CallPending
  <2>2. ASSUME Owned
        PROVE  /\ result \in Intent /\ result.id = Submitted.id /\ result.target = Submitted.target
               /\ result.phase = "pending" /\ result.asOf = Submitted.asOf
               /\ result.differed = Submitted.differed /\ result.applied = Submitted.applied
    BY <1>4, <2>2 DEF Intent, Active
  <2> HIDE DEF result
  <2>3. Owned => LET i == intents[call.setting]
                 IN  /\ result \in Intent
                     /\ result.id = i.id /\ result.target = i.target
                     /\ result.phase \in {"settled", "pending", "queued", "deferred"}
                     /\ result.phase = "pending" =>
                           /\ result.asOf = i.asOf
                           /\ result.differed => i.differed
                           /\ result.applied => i.applied \/ call.effected
    BY <1>4, <2>1, <2>2
  <2>4. Owned /\ result.phase \in {"queued", "deferred"} => nativeQueue' = nativeQueue
    BY <2>2
  <2> QED BY <1>1, <1>2, <1>3, <1>5, <2>1, <2>3, <2>4, CallEndsKeeps
<1>8. CASE CallDeferred
  <2> DEFINE phase == IF call.observed THEN "queued" ELSE "deferred"
             result == [Submitted EXCEPT !.phase = phase, !.runtime = call.runtime]
  <2>1. nativeQueue' = nativeQueue /\ CallEnds(result)
    BY <1>8 DEF CallDeferred
  <2>2. ASSUME Owned
        PROVE  /\ result \in Intent /\ result.id = Submitted.id /\ result.target = Submitted.target
               /\ result.phase \in {"queued", "deferred"}
    <3>1. phase \in {"queued", "deferred"} /\ call.runtime \in [Settings -> Values]
      BY <1>3 DEF Call
    <3> HIDE DEF phase
    <3>2. Submitted \in Intent
      BY <1>4, <2>2
    <3> QED BY <3>1, <3>2 DEF Intent, Active
  <2> HIDE DEF result
  <2>3. Owned => LET i == intents[call.setting]
                 IN  /\ result \in Intent
                     /\ result.id = i.id /\ result.target = i.target
                     /\ result.phase \in {"settled", "pending", "queued", "deferred"}
                     /\ result.phase = "pending" =>
                           /\ result.asOf = i.asOf
                           /\ result.differed => i.differed
                           /\ result.applied => i.applied \/ call.effected
    BY <1>4, <2>2
  <2> QED BY <1>1, <1>2, <1>3, <2>1, <2>3, CallEndsKeeps
<1>9. CASE CallFails
  <2> DEFINE result == SettleIntent(Submitted)
  <2>1. /\ CallEnds(result) /\ \A w \in nativeQueue' : w \in nativeQueue \/ w.id = call.id
        /\ nativeQueue' \subseteq [id : Ids, setting : Settings, target : Values]
    BY <1>3, <1>5, <1>9 DEF CallFails
  <2>2. ASSUME Owned
        PROVE  /\ result \in Intent /\ result.id = Submitted.id /\ result.target = Submitted.target
               /\ result.phase = "settled"
    <3>1. Submitted \in Intent /\ 0 \in 0..MaxVersions
      BY <1>4, <2>2, SettingAssumption
    <3> QED BY <3>1 DEF SettleIntent, Intent, Active
  <2> HIDE DEF result
  <2>3. Owned => LET i == intents[call.setting]
                 IN  /\ result \in Intent
                     /\ result.id = i.id /\ result.target = i.target
                     /\ result.phase \in {"settled", "pending", "queued", "deferred"}
                     /\ result.phase = "pending" =>
                           /\ result.asOf = i.asOf
                           /\ result.differed => i.differed
                           /\ result.applied => i.applied \/ call.effected
    BY <1>4, <2>2
  <2>4. Owned /\ result.phase \in {"queued", "deferred"} => nativeQueue' = nativeQueue
    BY <2>2
  <2> QED BY <1>1, <1>2, <1>3, <2>1, <2>3, <2>4, CallEndsKeeps
<1> QED BY <1>6, <1>7, <1>8, <1>9 DEF Calls

\* A read that returns an overtaken answer changes nothing, another one is an
\* observation that does not go back (refreshRuntimeInfo).
LEMMA ReadReturnsKeeps ==
    ASSUME SettingIInv, ReadReturns PROVE SettingIInv' /\ EndsShown /\ seen' >= seen
<1>1. /\ WorldTypes /\ ReadFresh /\ PolledWhileUnsettled
      /\ KeptInv(intents, order, call, nativeQueue, history, seen, issued)
  BY DEF SettingIInv
<1>2. /\ read # NoIntent /\ read.version # 0 /\ read' = NoIntent
      /\ refreshing' = (refreshing /\ ~read.own)
      /\ UNCHANGED <<history, nativeQueue, poll, settingsClosed, issued, otherReads>>
      /\ IF Counts THEN Observe(read.version, FALSE, call) ELSE UNCHANGED kept
  BY DEF ReadReturns, world, bounds
<1>3. read \in Read /\ read.version \in 1..Len(history) /\ Len(history) \in Nat
  BY <1>1, <1>2 DEF WorldTypes, Read
<1>4. CASE ~Counts
  <2>1. UNCHANGED <<intents, order, call, seen>>
    BY <1>2, <1>4 DEF kept
  <2>2. WorldTypes' /\ ReadFresh' /\ PolledWhileUnsettled'
    BY <1>1, <1>2, <2>1 DEF WorldTypes, ReadFresh, PolledWhileUnsettled
  <2>3. SettingIInv' /\ EndsShown
    BY <1>2, <2>1, <2>2, KeptStays DEF world, kept
  <2> QED BY <1>1, <2>1, <2>3 DEF WorldTypes
<1>5. CASE Counts
  <2>1. Observe(read.version, FALSE, call) /\ read.version \in seen..Len(history)
    <3>1. Observe(read.version, FALSE, call)
      BY <1>2, <1>5
    <3>2. read.version >= seen
      BY <1>1, <1>2, <1>5 DEF Counts, ReadFresh
    <3>3. seen \in Nat
      BY <1>1 DEF WorldTypes
    <3>4. read.version \in Nat /\ read.version <= Len(history) /\ Len(history) \in Nat
      BY <1>3
    <3>5. read.version \in seen..Len(history)
      BY <3>2, <3>3, <3>4
    <3> QED BY <3>1, <3>5
  <2>2. /\ history' \in Seq([Settings -> Values]) /\ Len(history') \in 1..MaxVersions
        /\ seen \in Nat \ {0} /\ read.version \in seen..Len(history') /\ issued \in Nat
        /\ KeptInv(intents, order, call, nativeQueue', history', seen, issued)
    BY <1>1, <1>2, <2>1 DEF WorldTypes
  <2>3. /\ KeptInv(intents', order', call', nativeQueue', history', seen', issued)
        /\ seen' = read.version
        /\ UnsettledSettings(intents') \subseteq UnsettledSettings(intents)
        /\ EndsShown
    BY <2>1, <2>2, ObserveKeeps DEF EndsShown
  <2>4. WorldTypes' /\ ReadFresh' /\ PolledWhileUnsettled'
    BY <1>1, <1>2, <1>3, <2>3 DEF WorldTypes, ReadFresh, PolledWhileUnsettled
  <2>5. seen' >= seen
    BY <2>1, <2>2, <2>3
  <2> QED BY <1>2, <2>3, <2>4, <2>5 DEF SettingIInv
<1> QED BY <1>4, <1>5

\* The history only grows: what has shown stays shown, and nothing known changes.
LEMMA HistoryGrows ==
    ASSUME WorldTypes, NEW s \in Settings, NEW v \in Values, Len(history) < MaxVersions,
           history' = Append(history, [Last(history) EXCEPT ![s] = v])
    PROVE  /\ history' \in Seq([Settings -> Values]) /\ Len(history') = Len(history) + 1
           /\ Len(history') \in 1..MaxVersions
           /\ \A n \in 1..Len(history) : history'[n] = history[n]
           /\ history'[Len(history')][s] = v
<1>1. /\ history \in Seq([Settings -> Values]) /\ Len(history) \in Nat \ {0} /\ MaxVersions \in Nat
      /\ Last(history) \in [Settings -> Values]
  BY SettingAssumption DEF WorldTypes, Last
<1> DEFINE row == [Last(history) EXCEPT ![s] = v]
<1>2. row \in [Settings -> Values] /\ row[s] = v
  BY <1>1
<1> HIDE DEF row
<1> QED BY <1>1, <1>2 DEF row

\* A native write disturbs nothing that is recorded of the intents.
LEMMA WriteKeepsKnown ==
    ASSUME WorldTypes, NEW s \in Settings, NEW v \in Values, Len(history) < MaxVersions,
           history' = Append(history, [Last(history) EXCEPT ![s] = v]),
           \A w \in nativeQueue' : w \in nativeQueue,
           KeptInv(intents, order, call, nativeQueue, history, seen, issued)
    PROVE  KeptInv(intents, order, call, nativeQueue', history', seen, issued)
<1>1. /\ Len(history') = Len(history) + 1 /\ Len(history) \in Nat /\ seen \in 1..Len(history)
      /\ \A n \in 1..Len(history) : history'[n] = history[n]
  BY HistoryGrows DEF WorldTypes
<1>2. ASSUME NEW t \in UnsettledSettings(intents), Shown(intents[t], t, history)
      PROVE  Shown(intents[t], t, history')
  <2>1. intents[t].asOf \in Nat
    BY DEF KeptInv, KeptTypes, UnsettledSettings, Intent
  <2>2. PICK n \in intents[t].asOf + 1..Len(history) : history[n][t] = intents[t].target
    BY <1>2 DEF Shown
  <2>3. n \in intents[t].asOf + 1..Len(history') /\ history'[n] = history[n]
    BY <1>1, <2>1, <2>2
  <2> QED BY <2>2, <2>3 DEF Shown
<1>3. ASSUME NEW t \in UnsettledSettings(intents),
             \E n \in intents[t].asOf..seen : n > 0 /\ history[n][t] # intents[t].target
      PROVE  \E n \in intents[t].asOf..seen : n > 0 /\ history'[n][t] # intents[t].target
  <2>1. intents[t].asOf \in Nat
    BY DEF KeptInv, KeptTypes, UnsettledSettings, Intent
  <2>2. PICK n \in intents[t].asOf..seen : n > 0 /\ history[n][t] # intents[t].target
    BY <1>3
  <2>3. history'[n] = history[n]
    BY <1>1, <2>1, <2>2
  <2> QED BY <2>2, <2>3
<1>4. Witnessed(intents, call, history', seen)
  BY <1>2, <1>3 DEF KeptInv, Witnessed
<1>5. Identified(intents, call, nativeQueue', issued) /\ HeldOnce(intents, call, nativeQueue')
  BY DEF KeptInv, Identified, HeldOnce
<1> QED BY <1>4, <1>5 DEF KeptInv

\* An observed write or none is noticed (applyStateEvent).
LEMMA NoticedKeeps ==
    ASSUME NEW running, Noticed(running), WorldTypes, ~settingsClosed,
           history' \in Seq([Settings -> Values]), Len(history') \in 1..MaxVersions,
           Len(history') >= Len(history),
           KeptInv(intents, order, running, nativeQueue', history', seen, issued)
    PROVE  /\ KeptInv(intents', order', call', nativeQueue', history', seen', issued)
           /\ UnsettledSettings(intents') \subseteq UnsettledSettings(intents)
           /\ EndsShown
           /\ seen' \in 1..Len(history')
           /\ read' \in {NoIntent} \cup Read /\ (read' # NoIntent => read'.version <= Len(history'))
           /\ (read' # NoIntent => read'.stale)
<1> DEFINE observing == IF running = NoIntent THEN running ELSE [running EXCEPT !.observed = TRUE]
<1>1. /\ read' = (IF read = NoIntent THEN read ELSE [read EXCEPT !.stale = TRUE])
      /\ Observe(Len(history'), TRUE, observing)
  BY DEF Noticed
<1>2. /\ read' \in {NoIntent} \cup Read /\ (read' # NoIntent => read'.version <= Len(history'))
      /\ (read' # NoIntent => read'.stale)
  <2>1. CASE read = NoIntent
    BY <1>1, <2>1
  <2>2. CASE read # NoIntent
    <3>1. /\ read \in Read /\ read.version <= Len(history) /\ read' = [read EXCEPT !.stale = TRUE]
          /\ Len(history) \in Nat /\ Len(history') \in Nat
      BY <1>1, <2>2 DEF WorldTypes
    <3>2. read' \in Read /\ read'.version = read.version /\ read'.version \in Nat /\ read'.stale = TRUE
      <4>1. read.version \in Nat
        BY <3>1, SettingAssumption DEF Read
      <4>2. read' \in Read
        BY <3>1 DEF Read
      <4>3. read'.version = read.version
        BY <3>1 DEF Read
      <4>4. read'.stale = TRUE
        BY <3>1 DEF Read
      <4> QED BY <4>1, <4>2, <4>3, <4>4
    <3> QED BY <3>1, <3>2
  <2> QED BY <2>1, <2>2
<1>3. KeptInv(intents, order, observing, nativeQueue', history', seen, issued)
  <2>1. CASE running = NoIntent
    BY <2>1
  <2>2. CASE running # NoIntent
    <3>1. running \in Call /\ observing = [running EXCEPT !.observed = TRUE]
      BY <2>2 DEF KeptInv, KeptTypes
    <3>2. /\ observing \in Call /\ observing.id = running.id /\ observing.setting = running.setting
          /\ observing.target = running.target /\ observing.effected = running.effected
      BY <3>1 DEF Call
    <3> HIDE DEF observing
    <3>3. observing # NoIntent
      BY <3>2, NothingKept
    <3>4. KeptTypes(intents, order, observing, issued)
      BY <3>2 DEF KeptInv, KeptTypes
    <3>5. Identified(intents, observing, nativeQueue', issued)
      BY <2>2, <3>2, <3>3 DEF KeptInv, Identified
    <3>6. HeldOnce(intents, observing, nativeQueue')
      BY <2>2, <3>2, <3>3 DEF KeptInv, HeldOnce
    <3>7. Witnessed(intents, observing, history', seen)
      BY <2>2, <3>2, <3>3 DEF KeptInv, Witnessed
    <3> QED BY <3>4, <3>5, <3>6, <3>7 DEF KeptInv
  <2> QED BY <2>1, <2>2
<1> HIDE DEF observing
<1>4. /\ seen \in Nat \ {0} /\ Len(history') \in seen..Len(history') /\ issued \in Nat
      /\ Len(history') \in 1..Len(history')
  BY DEF WorldTypes
<1>5. /\ KeptInv(intents', order', call', nativeQueue', history', seen', issued)
      /\ seen' = Len(history')
      /\ UnsettledSettings(intents') \subseteq UnsettledSettings(intents)
      /\ EndsShown
  <2>1. TRUE \in BOOLEAN
    OBVIOUS
  <2> QED BY <1>1, <1>3, <1>4, <2>1, ObserveKeeps DEF EndsShown
<1> QED BY <1>2, <1>4, <1>5

\* A native write, of a call, of something accepted earlier or of the user, observed
\* or not.  What a write owes is that the invariant holds of the call it belongs to.
LEMMA WriteKeeps ==
    ASSUME SettingIInv, NEW s \in Settings, NEW v \in Values, NEW running,
           Write(s, v, running), \A w \in nativeQueue' : w \in nativeQueue,
           KeptInv(intents, order, call, nativeQueue', history', seen, issued)
              => KeptInv(intents, order, running, nativeQueue', history', seen, issued)
    PROVE  SettingIInv' /\ EndsShown
<1>1. /\ WorldTypes /\ ReadFresh /\ PolledWhileUnsettled
      /\ KeptInv(intents, order, call, nativeQueue, history, seen, issued)
  BY DEF SettingIInv
<1>2. /\ Len(history) < MaxVersions /\ history' = Append(history, [Last(history) EXCEPT ![s] = v])
      /\ \/ ~settingsClosed /\ Noticed(running)
         \/ call' = running /\ UNCHANGED <<read, seen, intents, order>>
      /\ UNCHANGED <<refreshing, poll, settingsClosed, issued, otherReads>>
  BY DEF Write, bounds
<1>3. /\ history' \in Seq([Settings -> Values]) /\ Len(history') = Len(history) + 1
      /\ Len(history') \in 1..MaxVersions /\ Len(history) \in Nat
  BY <1>1, <1>2, HistoryGrows DEF WorldTypes
<1>4. KeptInv(intents, order, running, nativeQueue', history', seen, issued)
  BY <1>1, <1>2, WriteKeepsKnown
<1>5. nativeQueue' \subseteq [id : Ids, setting : Settings, target : Values]
  BY <1>1 DEF WorldTypes
<1>6. CASE ~settingsClosed /\ Noticed(running)
  <2>1. Len(history') >= Len(history)
    BY <1>3
  <2>2. /\ KeptInv(intents', order', call', nativeQueue', history', seen', issued)
        /\ UnsettledSettings(intents') \subseteq UnsettledSettings(intents)
        /\ EndsShown
        /\ seen' \in 1..Len(history')
        /\ read' \in {NoIntent} \cup Read /\ (read' # NoIntent => read'.version <= Len(history'))
        /\ (read' # NoIntent => read'.stale)
    BY <1>1, <1>3, <1>4, <1>6, <2>1, NoticedKeeps
  <2>3. WorldTypes' /\ ReadFresh' /\ PolledWhileUnsettled'
    BY <1>1, <1>2, <1>3, <1>5, <2>2 DEF WorldTypes, ReadFresh, PolledWhileUnsettled
  <2> QED BY <1>2, <2>2, <2>3 DEF SettingIInv
<1>7. CASE call' = running /\ UNCHANGED <<read, seen, intents, order>>
  <2>1. seen' \in 1..Len(history') /\ (read' # NoIntent => read'.version <= Len(history'))
    BY <1>1, <1>3, <1>7 DEF WorldTypes, Read
  <2>2. WorldTypes' /\ ReadFresh' /\ PolledWhileUnsettled'
    BY <1>1, <1>2, <1>3, <1>5, <1>7, <2>1 DEF WorldTypes, ReadFresh, PolledWhileUnsettled
  <2>3. EndsShown
    <3>1. \A t \in UnsettledSettings(intents) : intents'[t] # NoIntent
      BY <1>7 DEF UnsettledSettings
    <3> QED BY <3>1 DEF EndsShown
  <2> QED BY <1>2, <1>4, <1>7, <2>2, <2>3 DEF SettingIInv
<1> QED BY <1>2, <1>6, <1>7

\* Native code (runtime_updated, runtimeInfo).
LEMMA NativeKeeps ==
    ASSUME SettingIInv, Native PROVE SettingIInv' /\ EndsShown
<1>1. /\ WorldTypes /\ ReadFresh /\ PolledWhileUnsettled
      /\ KeptInv(intents, order, call, nativeQueue, history, seen, issued)
  BY DEF SettingIInv
<1>2. CASE NativeTakesCall
  <2> DEFINE running == [call EXCEPT !.effected = TRUE]
  <2>1. /\ call # NoIntent /\ ~call.effected /\ Write(call.setting, call.target, running)
        /\ nativeQueue' = nativeQueue
    BY <1>2 DEF NativeTakesCall
  <2>2. call \in Call
    BY <1>1, <2>1 DEF KeptInv, KeptTypes
  <2>3. /\ running \in Call /\ running.id = call.id /\ running.setting = call.setting
        /\ running.target = call.target
        /\ call.setting \in Settings /\ call.target \in Values
    BY <2>2 DEF Call
  <2> HIDE DEF running
  <2>4. running # NoIntent
    BY <2>3, NothingKept
  <2>5. ASSUME KeptInv(intents, order, call, nativeQueue', history', seen, issued)
        PROVE  KeptInv(intents, order, running, nativeQueue', history', seen, issued)
    <3>1. KeptTypes(intents, order, running, issued)
      BY <2>3, <2>5 DEF KeptInv, KeptTypes
    <3>2. Identified(intents, running, nativeQueue', issued)
      BY <2>1, <2>3, <2>4, <2>5 DEF KeptInv, Identified
    <3>3. HeldOnce(intents, running, nativeQueue')
      BY <2>1, <2>3, <2>4, <2>5 DEF KeptInv, HeldOnce
    <3>4. /\ Len(history') = Len(history) + 1 /\ history'[Len(history')][call.setting] = call.target
          /\ Len(history) \in Nat /\ seen <= Len(history) /\ seen \in Nat
      <4>1. /\ Len(history) < MaxVersions
            /\ history' = Append(history, [Last(history) EXCEPT ![call.setting] = call.target])
        BY <2>1 DEF Write
      <4>2. /\ Len(history') = Len(history) + 1
            /\ history'[Len(history')][call.setting] = call.target
        BY <1>1, <2>3, <4>1, HistoryGrows
      <4>3. Len(history) \in Nat /\ seen <= Len(history) /\ seen \in Nat
        BY <1>1 DEF WorldTypes
      <4> QED BY <4>2, <4>3
    <3>5. Witnessed(intents, running, history', seen)
      <4> SUFFICES ASSUME NEW t \in UnsettledSettings(intents),
                          intents[t].phase \in {"applying", "pending"},
                          running.id = intents[t].id
                   PROVE  Shown(intents[t], t, history')
        BY <2>5 DEF KeptInv, Witnessed
      <4>1. t = call.setting /\ intents[t].target = call.target
        BY <2>1, <2>3, <2>5 DEF KeptInv, Identified
      <4>2. intents[t].asOf \in Nat /\ intents[t].asOf <= seen
        BY <2>5 DEF KeptInv, KeptTypes, Witnessed, UnsettledSettings, Intent
      <4>3. Len(history') \in intents[t].asOf + 1..Len(history')
        BY <3>4, <4>2
      <4> QED BY <3>4, <4>1, <4>3 DEF Shown
    <3> QED BY <3>1, <3>2, <3>3, <3>5 DEF KeptInv
  <2> QED BY <2>1, <2>3, <2>5, WriteKeeps
<1>3. CASE NativeTakesQueued
  <2>1. PICK w \in nativeQueue : nativeQueue' = nativeQueue \ {w} /\ Write(w.setting, w.target, call)
    BY <1>3 DEF NativeTakesQueued
  <2>2. w.setting \in Settings /\ w.target \in Values /\ \A u \in nativeQueue' : u \in nativeQueue
    BY <1>1, <2>1 DEF WorldTypes
  <2> QED BY <2>1, <2>2, WriteKeeps
<1>4. CASE NativeChanges
  <2>1. PICK s \in Settings, v \in Values : Write(s, v, call)
    BY <1>4 DEF NativeChanges
  <2>2. nativeQueue' = nativeQueue
    BY <1>4 DEF NativeChanges
  <2> QED BY <2>1, <2>2, WriteKeeps
<1>5. CASE NativeStirs
  <2>1. /\ ~settingsClosed /\ Noticed(call) /\ history' = history /\ nativeQueue' = nativeQueue
        /\ UNCHANGED <<refreshing, poll, settingsClosed, issued, otherReads>>
    BY <1>5 DEF NativeStirs, world, bounds
  <2>2. /\ history' \in Seq([Settings -> Values]) /\ Len(history') \in 1..MaxVersions
        /\ Len(history') >= Len(history)
        /\ KeptInv(intents, order, call, nativeQueue', history', seen, issued)
    BY <1>1, <2>1 DEF WorldTypes
  <2>3. /\ KeptInv(intents', order', call', nativeQueue', history', seen', issued)
        /\ UnsettledSettings(intents') \subseteq UnsettledSettings(intents)
        /\ EndsShown
        /\ seen' \in 1..Len(history')
        /\ read' \in {NoIntent} \cup Read /\ (read' # NoIntent => read'.version <= Len(history'))
        /\ (read' # NoIntent => read'.stale)
    BY <1>1, <2>1, <2>2, NoticedKeeps
  <2>4. WorldTypes' /\ ReadFresh' /\ PolledWhileUnsettled'
    BY <1>1, <2>1, <2>2, <2>3 DEF WorldTypes, ReadFresh, PolledWhileUnsettled
  <2> QED BY <2>1, <2>3, <2>4 DEF SettingIInv
<1> QED BY <1>2, <1>3, <1>4, <1>5 DEF Native

-----------------------------------------------------------------------------
(* The theorems.                                                           *)

\* Every step keeps the invariant, and what it ends has shown.
LEMMA SettingStep ==
    ASSUME SettingIInv, SettingNext PROVE SettingIInv' /\ EndsShown
BY AcceptKeeps, ExpireKeeps, TimersKeep, CallsKeep, ReadReturnsKeeps, NativeKeeps
   DEF SettingNext, Requests, Reads

LEMMA SettingStutter ==
    ASSUME SettingIInv, UNCHANGED settingVars PROVE SettingIInv'
<1>1. UNCHANGED <<history, nativeQueue, intents, order, call, seen, read, refreshing, poll,
                  settingsClosed, issued, otherReads>>
  BY DEF settingVars, world, kept, readback, bounds
<1> QED BY <1>1 DEF SettingIInv, WorldTypes, ReadFresh, PolledWhileUnsettled, UnsettledSettings

\* The invariant that carries the theorems below holds in every reachable state.
THEOREM SettingInvariant == SettingSpec => []SettingIInv
<1>1. SettingIInv /\ [SettingNext]_settingVars => SettingIInv'
  BY SettingStep, SettingStutter
<1> QED BY <1>1, SettingInitial, PTL DEF SettingSpec

\* Types; no change is submitted that native code holds already; and while an intent
\* is unsettled a readback is due (session-setting-changes.ts).
THEOREM SettingsHold == SettingSpec => []SettingInv
<1>1. SettingIInv => SettingInv
  BY DEF SettingIInv, SettingInv, SettingTypeOK, WorldTypes, KeptInv, KeptTypes, HeldOnce, SubmittedOnce
<1> QED BY <1>1, SettingInvariant, PTL

\* An intent is confirmed only after its value showed later than its submission
\* (confirm).
THEOREM EvidenceConfirms == SettingSpec => ConfirmedByEvidence
<1>1. SettingIInv /\ [SettingNext]_settingVars
         => [\A s \in UnsettledSettings(intents) :
                intents'[s] = NoIntent =>
                    \E n \in intents[s].asOf + 1..Len(history') :
                        history'[n][s] = intents[s].target]_settingVars
  BY SettingStep DEF EndsShown, Shown
<1> QED BY <1>1, SettingInvariant, PTL DEF SettingSpec, ConfirmedByEvidence

\* The end of an old call settles no newer intent, and a read that an observation
\* has overtaken takes nothing back (drain, refreshRuntimeInfo).
THEOREM LateAnswersHarmless == SettingSpec => LateAnswersSilent
<1>1. SettingIInv /\ [SettingNext]_settingVars
         => [Calls => \A s \in UnsettledSettings(intents) :
                intents[s].id # call.id =>
                    s \in UnsettledSettings(intents') /\ intents'[s].id = intents[s].id]_settingVars
  BY CallsKeep
<1>2. SettingIInv /\ [SettingNext]_settingVars => [ReadReturns => seen' >= seen]_settingVars
  BY ReadReturnsKeeps
<1> QED BY <1>1, <1>2, SettingInvariant, PTL
        DEF SettingSpec, LateAnswersSilent, OldCompletionSilent, ReadsNeverRegress

-----------------------------------------------------------------------------
(* The attachment of sessions.                                             *)

Holders == Clients \cup Sessions

JobRecords == [stage : {"none", "waiting", "parent", "leasing", "opening", "creating"},
               agent : Agents \cup {NoAgent}]
LeaseRecords == [stage : {"none", "wait", "join", "held", "failed"},
                 kept : SUBSET Sessions, left : SUBSET Sessions, intact : BOOLEAN]
CheckRecords == [of : Sessions \cup {NoSession}, current : BOOLEAN, covers : BOOLEAN]

\* The types of all variables but users, whose values are those of the leases.
OtherTypes ==
    /\ binding \in [Sessions -> Agents \cup {NoAgent}]
    /\ job \in [Sessions -> JobRecords]
    /\ lease \in [Holders -> LeaseRecords]
    /\ live \subseteq Sessions /\ severed \subseteq live
    /\ releasing \subseteq Sessions /\ uncertain \subseteq Sessions
    /\ check \in CheckRecords
    /\ operation \in [Sessions -> {"none", "running", "orphan"}]
    /\ nativeOwner \subseteq Sessions /\ host \in {"open", "closing", "shut"}
    /\ handing \in [todo : SUBSET Sessions, busy : Sessions \cup {NoSession}]
    /\ mischances \in 0..MaxMischances

\* What a lease keeps is published; it waits for something until it holds all.
LeaseShape ==
    \A u \in Holders :
        /\ lease[u].left \subseteq lease[u].kept
        /\ lease[u].stage \in {"none", "failed"} => lease[u].kept = {}
        /\ lease[u].stage \in {"wait", "join"} => lease[u].left # {}
        /\ lease[u].stage = "held" => lease[u].left = {}
        /\ \A s \in lease[u].kept : Bound(s)

\* A job of a child holds its parent before it opens the native session.
JobShape ==
    \A s \in Sessions :
        /\ job[s].stage = "none" <=> job[s].agent = NoAgent
        /\ Parent[s] = NoSession \/ job[s].stage \in {"none", "waiting", "parent"} =>
              lease[s] = NoLease
        /\ job[s].stage = "leasing" => Parent[s] # NoSession
        /\ job[s].stage \in {"opening", "creating"} /\ Parent[s] # NoSession =>
              lease[s].stage = "held"
        /\ lease[s].stage \in {"wait", "join", "held"} => Parent[s] \in lease[s].kept
        /\ (job[s].stage # "none" \/ Bound(s)) /\ Parent[s] # NoSession => Bound(Parent[s])
        /\ s \in live \cup releasing => Bound(s)

\* The users of a session are the leases that keep it, and its operation.
Keepers(s) == {u \in Holders : s \in lease[u].kept}
InUse(s) == IF operation[s] = "none" THEN 0 ELSE 1
UsersCounted == \A s \in Sessions : users[s] = Cardinality(Keepers(s)) + InUse(s)

\* A check that an unknown outcome has overtaken is not current.
DoubtCovered == check.current => check.covers

Together ==
    /\ OtherTypes /\ LeaseShape /\ JobShape /\ users \in [Sessions -> Nat] /\ UsersCounted
    /\ OneIdentity /\ LeaseServed /\ FamilyTogether /\ OneGeneration /\ NothingLeftOpen
    /\ DoubtProtected /\ DoubtCovered

-----------------------------------------------------------------------------
\* Fields of a record of its type are set.
LEMMA LeaseFields ==
    ASSUME NEW l \in LeaseRecords, NEW L \in SUBSET Sessions,
           NEW stage \in {"none", "wait", "join", "held", "failed"}
    PROVE  /\ [l EXCEPT !.stage = stage] \in LeaseRecords
           /\ [l EXCEPT !.left = L, !.stage = stage] \in LeaseRecords
           /\ \A i \in BOOLEAN : [l EXCEPT !.intact = i] \in LeaseRecords
  BY DEF LeaseRecords

LEMMA JobMoves ==
    ASSUME job \in [Sessions -> JobRecords], NEW s \in Sessions,
           NEW stage \in {"none", "waiting", "parent", "leasing", "opening", "creating"}
    PROVE  [job EXCEPT ![s].stage = stage] \in [Sessions -> JobRecords]
<1>1. [job[s] EXCEPT !.stage = stage] \in JobRecords  BY DEF JobRecords
<1>. QED  BY <1>1

LEMMA Nobody ==
    /\ NoJob \in JobRecords /\ NoLease \in LeaseRecords /\ NoCheck \in CheckRecords
    /\ \A u \in Holders : Failed(u) \in LeaseRecords /\ Failed(u).kept = {}
                          /\ Failed(u).left = {} /\ Failed(u).stage \in {"none", "failed"}
    /\ NoLease.kept = {} /\ NoLease.left = {} /\ NoLease.stage = "none"
    /\ NoJob.stage = "none" /\ NoJob.agent = NoAgent
  BY DEF NoJob, NoLease, NoCheck, Failed, JobRecords, LeaseRecords, CheckRecords

\* The session a lease is at is one it waits for.
LEMMA AtLeft ==
    ASSUME OtherTypes, LeaseShape, NEW u \in Holders, lease[u].stage \in {"wait", "join"}
    PROVE  At(u) \in lease[u].left /\ At(u) \in Sessions
<1>1. lease[u].left \in SUBSET Sessions /\ lease[u].left # {}
  BY DEF OtherTypes, LeaseShape, LeaseRecords
<1>2. \E s \in lease[u].left : Ancestors[s] \cap lease[u].left = {}
  BY <1>1, FamilyAssumption
<1>. QED  BY <1>1, <1>2 DEF At

\* Who keeps a session is one of finitely many.
LEMMA KeepersFinite ==
    ASSUME NEW S \in SUBSET Holders
    PROVE  IsFiniteSet(S) /\ Cardinality(S) \in Nat
<1>1. IsFiniteSet(Holders)  BY FS_Union, FamilyAssumption DEF Holders
<1>. QED  BY <1>1, FS_Subset, FS_CardinalityType

LEMMA ResetTyped ==
    ASSUME check \in CheckRecords, NEW S
    PROVE  Reset(S) \in CheckRecords
  BY DEF Reset, CheckRecords

LEMMA AcquiresTyped ==
    ASSUME OtherTypes, NEW u \in Holders, NEW s \in Sessions, Acquires(u, s)
    PROVE  lease' \in [Holders -> LeaseRecords] /\ check' \in CheckRecords
<1>1. Kept(s) \in SUBSET Sessions
  BY AttachmentAssumption DEF AttachmentAssumption, Kept
<1>2. [stage |-> "wait", kept |-> Kept(s), left |-> Kept(s), intact |-> TRUE] \in LeaseRecords
  BY <1>1 DEF LeaseRecords
<1>. QED  BY <1>2, ResetTyped DEF Acquires, OtherTypes

\* What the end of a job does to the leases, whoever shares its end.
LEMMA JobEndsTyped ==
    ASSUME OtherTypes, NEW s \in Sessions, NEW joined, NEW ok \in BOOLEAN, EndsJob(s, joined, ok)
    PROVE  /\ job' \in [Sessions -> JobRecords] /\ lease' \in [Holders -> LeaseRecords]
           /\ check' \in CheckRecords
<1>1. job' \in [Sessions -> JobRecords]  BY Nobody DEF EndsJob, OtherTypes
<1>2. check' \in CheckRecords  BY ResetTyped DEF EndsJob, OtherTypes
<1>3. DOMAIN lease = Holders  BY DEF OtherTypes
<1>4. ASSUME NEW u \in Holders PROVE lease'[u] \in LeaseRecords
  <2>1. lease[u] \in LeaseRecords /\ lease[u].left \ {s} \in SUBSET Sessions
    BY DEF OtherTypes, LeaseRecords
  <2>2. \/ lease'[u] = lease[u] \/ lease'[u] = NoLease \/ lease'[u] = Failed(u)
        \/ lease'[u] = [lease[u] EXCEPT !.left = lease[u].left \ {s},
                             !.stage = IF lease[u].left \ {s} = {} THEN "held" ELSE "wait"]
    BY <1>3 DEF EndsJob
  <2>. QED  BY <2>1, <2>2, LeaseFields, Nobody
<1>5. lease' = [u \in Holders |-> lease'[u]]  BY <1>3 DEF EndsJob
<1>. QED  BY <1>1, <1>2, <1>4, <1>5

\* A handoff takes from the leases nothing but that they are intact.
LEMMA TakenKeeps ==
    ASSUME OtherTypes, NEW S, TakesFromLeases(S), NEW u \in Holders
    PROVE  \E i \in BOOLEAN :
              /\ lease'[u] = [lease[u] EXCEPT !.intact = i]
              /\ i <=> lease[u].intact /\ (lease[u].kept \ lease[u].left) \cap S \cap live = {}
<1>1. DOMAIN lease = Holders /\ lease[u].intact \in BOOLEAN  BY DEF OtherTypes, LeaseRecords
<1>. DEFINE i == lease[u].intact /\ (lease[u].kept \ lease[u].left) \cap S \cap live = {}
<1>2. i \in BOOLEAN  BY <1>1
<1>3. lease'[u] = [lease[u] EXCEPT !.intact = i]  BY <1>1 DEF TakesFromLeases
<1>. QED  BY <1>2, <1>3

-----------------------------------------------------------------------------
\* Every step keeps the types.
LEMMA TypesKept ==
    ASSUME OtherTypes, LeaseShape, AttachmentNext
    PROVE  OtherTypes'
<1>. USE DEF OtherTypes, heldVars, idleVars, hostState, hostVars
<1>0. DOMAIN lease = Holders /\ 1..2 \subseteq Nat /\ NoSession \notin Sessions
  BY AttachmentAssumption DEF AttachmentAssumption
<1>a. ASSUME NEW w \in Nat, Mischance(w) PROVE mischances' \in 0..MaxMischances
  BY <1>a, AttachmentAssumption DEF Mischance, AttachmentAssumption
<1>b. ASSUME NEW s \in Sessions, JobFails(s)
      PROVE  /\ job' \in [Sessions -> JobRecords] /\ lease' \in [Holders -> LeaseRecords]
             /\ check' \in CheckRecords
             /\ UNCHANGED <<binding, live, severed, idleVars, operation, hostState>>
  BY <1>b, JobEndsTyped DEF JobFails, JobEnds
<1>c. ASSUME NEW S, CloseAgents(S)
      PROVE  live' = live \ S /\ operation' \in [Sessions -> {"none", "running", "orphan"}]
  BY <1>c DEF CloseAgents
<1>d. ASSUME NEW S, CloseAgents(S), Severs(S) PROVE severed' \subseteq live'
  BY <1>d DEF CloseAgents, Severs
<1>e. ASSUME NEW S, TakesFromLeases(S) PROVE lease' \in [Holders -> LeaseRecords]
  <2>1. ASSUME NEW u \in Holders PROVE lease'[u] \in LeaseRecords
    <3>1. PICK i \in BOOLEAN : lease'[u] = [lease[u] EXCEPT !.intact = i]
      BY <1>e, TakenKeeps
    <3>2. lease[u] \in LeaseRecords /\ {} \in SUBSET Sessions  OBVIOUS
    <3>3. [lease[u] EXCEPT !.intact = i] \in LeaseRecords  BY <3>2, LeaseFields
    <3>. QED  BY <3>1, <3>3
  <2>. QED  BY <2>1, <1>e, <1>0 DEF TakesFromLeases
<1>1. ASSUME NEW u \in Clients, ReleaseLease(u) PROVE OtherTypes'
  BY <1>1, Nobody, ResetTyped DEF ReleaseLease, Holders
<1>2. ASSUME NEW u \in Clients, NEW s \in Sessions, AcquireSession(u, s) PROVE OtherTypes'
  BY <1>2, AcquiresTyped DEF AcquireSession, Holders
<1>3. ASSUME NEW u \in Clients, NEW s \in Sessions, BeginOperation(u, s) PROVE OtherTypes'
  BY <1>3, ResetTyped DEF BeginOperation
<1>4. ASSUME NEW u \in Holders, AcquireProjects(u) PROVE OtherTypes'
  <2>1. At(u) \in Sessions  BY <1>4, AtLeft DEF AcquireProjects
  <2>2. lease' \in [Holders -> LeaseRecords]  BY <1>4, LeaseFields DEF AcquireProjects
  <2>3. job' \in [Sessions -> JobRecords]  BY <1>4, <2>1 DEF AcquireProjects, JobRecords
  <2>. QED  BY <1>4, <2>2, <2>3 DEF AcquireProjects
<1>5. ASSUME NEW u \in Holders, AcquireRefused(u) PROVE OtherTypes'
  BY <1>5, Nobody, ResetTyped DEF AcquireRefused
<1>6. ASSUME NEW s \in Sessions, JobReattaches(s) PROVE OtherTypes'
  BY <1>6, JobMoves DEF JobReattaches
<1>7. ASSUME NEW s \in Sessions, JobHoldsParent(s) PROVE OtherTypes'
  BY <1>7, JobMoves DEF JobHoldsParent
<1>8. ASSUME NEW s \in Sessions, JobLeasesParent(s) PROVE OtherTypes'
  <2>1. CASE job' = [job EXCEPT ![s].stage = "opening"]
             /\ UNCHANGED <<binding, heldVars, live, severed, idleVars, operation, hostVars>>
    BY <2>1, JobMoves
  <2>2. CASE /\ job' = [job EXCEPT ![s].stage = "leasing"] /\ Parent[s] # NoSession
             /\ Acquires(s, Parent[s])
             /\ UNCHANGED <<binding, live, severed, idleVars, operation, hostVars>>
    <3>1. Parent[s] \in Sessions  BY <2>2, AttachmentAssumption DEF AttachmentAssumption
    <3>. QED  BY <2>2, <3>1, JobMoves, AcquiresTyped DEF Holders
  <2>3. CASE JobFails(s) /\ UNCHANGED mischances
    BY <2>3, <1>b
  <2>. QED  BY <1>8, <2>1, <2>2, <2>3 DEF JobLeasesParent
<1>9. ASSUME NEW s \in Sessions, JobFindsAgent(s) PROVE OtherTypes'
  BY <1>9, JobEndsTyped DEF JobFindsAgent, JobEnds
<1>10. ASSUME NEW s \in Sessions, JobLosesParent(s) \/ JobFindsShut(s) PROVE OtherTypes'
  BY <1>10, <1>b DEF JobLosesParent, JobFindsShut
<1>11. ASSUME NEW s \in Sessions, JobOpens(s) PROVE OtherTypes'
  <2>1. CASE job' = [job EXCEPT ![s].stage = "creating"]
             /\ UNCHANGED <<binding, heldVars, live, severed, idleVars, operation, hostVars>>
    BY <2>1, JobMoves
  <2>2. CASE JobFails(s) /\ UNCHANGED mischances
    BY <2>2, <1>b
  <2>. QED  BY <1>11, <2>1, <2>2 DEF JobOpens
<1>12. ASSUME NEW s \in Sessions, JobMeetsFailure(s) PROVE OtherTypes'
  BY <1>12, <1>a, <1>b DEF JobMeetsFailure
<1>13. ASSUME NEW s \in Sessions, JobAttaches(s) PROVE OtherTypes'
  <2>1. job[s].agent \in Agents \cup {NoAgent}  BY DEF JobRecords
  <2>2. binding' \in [Sessions -> Agents \cup {NoAgent}]  BY <1>13, <2>1 DEF JobAttaches
  <2>3. live' \subseteq Sessions /\ severed' \subseteq live' /\ nativeOwner' \subseteq Sessions
    BY <1>13 DEF JobAttaches
  <2>. QED  BY <1>13, <2>2, <2>3, JobEndsTyped DEF JobAttaches, JobEnds
<1>14. ASSUME NEW s \in Sessions, NEW a \in Agents, Attach(s, a) PROVE OtherTypes'
  <2>1. job' \in [Sessions -> JobRecords]  BY <1>14 DEF Attach, JobRecords
  <2>. QED  BY <1>14, <2>1 DEF Attach
<1>15. ASSUME NEW s \in Sessions, SweepReleases(s) PROVE OtherTypes'
  BY <1>15, <1>c DEF SweepReleases, Safe, Quiet
<1>16. ASSUME NEW s \in Sessions, ReleaseEnds(s) PROVE OtherTypes'
  BY <1>16 DEF ReleaseEnds
<1>17. ASSUME NEW s \in Sessions, ReleaseFails(s) PROVE OtherTypes'
  <2>1. lease' \in [Holders -> LeaseRecords]  BY <1>17, <1>0, Nobody DEF ReleaseFails
  <2>. QED  BY <1>17, <2>1, <1>a, ResetTyped DEF ReleaseFails
<1>18. ASSUME NEW s \in Sessions, ReleaseFailsJob(s) PROVE OtherTypes'
  BY <1>18, <1>a, JobEndsTyped DEF ReleaseFailsJob
<1>19. ASSUME NEW s \in Sessions, CommandReleases(s) PROVE OtherTypes'
  BY <1>19, <1>a, <1>c, <1>d DEF CommandReleases
<1>20. ASSUME NEW s \in Sessions, Handoff(s) PROVE OtherTypes'
  <2>1. Family(s) \subseteq Sessions  BY DEF Family
  <2>. QED  BY <1>20, <2>1, <1>a DEF Handoff
<1>21. ASSUME NEW s \in Sessions, HandoffCloses(s) PROVE OtherTypes'
  BY <1>21, <1>c, <1>d, <1>e DEF HandoffCloses
<1>22. CASE HandoffGoesOn
  BY <1>22 DEF HandoffGoesOn
<1>23. ASSUME NEW s \in Sessions, NEW unknown \in BOOLEAN, OperationEnds(s, unknown)
       PROVE  OtherTypes'
  <2>1. check' \in CheckRecords  BY <1>23, ResetTyped DEF OperationEnds, CheckRecords
  <2>. QED  BY <1>23, <2>1, <1>a DEF OperationEnds
<1>24. ASSUME NEW s \in Sessions, CheckStarts(s) PROVE OtherTypes'
  <2>1. check' \in CheckRecords  BY <1>24 DEF CheckStarts, CheckRecords
  <2>. QED  BY <1>24, <2>1, <1>a DEF CheckStarts
<1>25. ASSUME NEW s \in Sessions, CheckConfirms(s) \/ CheckFails(s) PROVE OtherTypes'
  BY <1>25, <1>a, Nobody DEF CheckConfirms, CheckFails
<1>26. ASSUME NEW value \in BOOLEAN, SetConnected(value) PROVE OtherTypes'
  BY <1>26, <1>a, ResetTyped DEF SetConnected
<1>27. CASE BeginShutdown
  BY <1>27, <1>a DEF BeginShutdown
<1>28. CASE Shut
  BY <1>28, <1>c, <1>d, <1>e DEF Shut
<1>. QED
  BY <1>1, <1>2, <1>3, <1>4, <1>5, <1>6, <1>7, <1>8, <1>9, <1>10, <1>11, <1>12, <1>13, <1>14, <1>15,
     <1>16, <1>17, <1>18, <1>19, <1>20, <1>21, <1>22, <1>23, <1>24, <1>25, <1>26, <1>27, <1>28
  DEF AttachmentNext, AcquireGoes, JobGoes, Holders
-----------------------------------------------------------------------------
(* The kinds of steps.  All that the invariant is about are the bindings, jobs, *)
(* leases and agents; a step that touches none of them may still end a release. *)

Rest == UNCHANGED <<binding, live, severed, operation, host>> /\ releasing' \subseteq releasing

\* Steps that leave the leases, the jobs and the agents alone.
Aside ==
    /\ UNCHANGED <<binding, job, lease, live, severed>>
    /\ releasing' \subseteq releasing /\ (host' = host \/ host' = "closing")

\* The users each session has without any lease given or taken.
Uses == \/ users' = users /\ \A s \in Sessions : InUse(s)' = InUse(s)
        \/ \E s \in Sessions : /\ users' = [users EXCEPT ![s] = @ + 1] /\ InUse(s) = 0
                               /\ operation' = [operation EXCEPT ![s] = "running"]
        \/ \E s \in Sessions : /\ users' = [users EXCEPT ![s] = @ - 1] /\ InUse(s) = 1
                               /\ operation' = [operation EXCEPT ![s] = "none"]

GivesBack(L) ==
    /\ \A u \in L : u \in Clients \/ lease[u].stage = "wait"
    /\ lease' = [u \in DOMAIN lease |-> IF u \in L THEN Failed(u) ELSE lease[u]]
    /\ users' = UnusedBy(L) /\ job' = job /\ Rest

Leases(u, s) ==
    /\ Acquires(u, s) /\ lease[u].kept = {} /\ Bound(s) /\ host = "open" /\ Rest
    /\ \/ u \in Clients /\ job' = job
       \/ /\ u \in Sessions /\ job[u].stage = "parent" /\ Parent[u] = s
          /\ job' = [job EXCEPT ![u].stage = "leasing"]

\* A failed job fails whoever joined it, or waited for the same release.
JobFailed(s) ==
    \E joined \in {JoinedAt(s), WaitingAt(s) \cup JoinedAt(s)} : EndsJob(s, joined, FALSE) /\ Rest

\* The stages of a job that it goes through by itself.
JobMoved(s) ==
    /\ UNCHANGED <<lease, users>> /\ Rest
    /\ \/ /\ job[s].stage = "waiting" /\ s \notin releasing
          /\ job' = [job EXCEPT ![s].stage = "parent"]
       \/ /\ job[s].stage = "parent" /\ Parent[s] = NoSession
          /\ job' = [job EXCEPT ![s].stage = "opening"]
       \/ /\ job[s].stage = "leasing" /\ lease[s].stage = "held"
          /\ job' = [job EXCEPT ![s].stage = "opening"]
       \/ /\ job[s].stage = "opening"
          /\ job' = [job EXCEPT ![s].stage = "creating"]

\* Steps that close the agents of S.
Closes(S) ==
    \/ \E s \in Sessions : S = {s} /\ (SweepReleases(s) \/ CommandReleases(s) \/ HandoffCloses(s))
    \/ S = Sessions /\ Shut

LEMMA StepKinds ==
    ASSUME Together, AttachmentNext
    PROVE  \/ Aside /\ Uses
           \/ \E L \in SUBSET Holders : GivesBack(L)
           \/ \E u \in Holders : AcquireProjects(u) \/ \E s \in Sessions : Leases(u, s)
           \/ \E s \in Sessions :
                 \/ JobMoved(s) \/ JobFailed(s) \/ JobFindsAgent(s) \/ JobAttaches(s)
                 \/ \E a \in Agents : Attach(s, a)
           \/ \E S \in SUBSET Sessions : Closes(S)
<1>. DEFINE Kind ==
           \/ Aside /\ Uses
           \/ \E L \in SUBSET Holders : GivesBack(L)
           \/ \E u \in Holders : AcquireProjects(u) \/ \E s \in Sessions : Leases(u, s)
           \/ \E s \in Sessions :
                 \/ JobMoved(s) \/ JobFailed(s) \/ JobFindsAgent(s) \/ JobAttaches(s)
                 \/ \E a \in Agents : Attach(s, a)
           \/ \E S \in SUBSET Sessions : Closes(S)
<1>. USE DEF heldVars, idleVars, hostState, hostVars
<1>0. DOMAIN lease = Holders /\ Clients \cap Sessions = {} /\ Clients \subseteq Holders
      /\ Sessions \subseteq Holders
  BY AttachmentAssumption DEF Together, OtherTypes, Holders, AttachmentAssumption
<1>a. ASSUME UNCHANGED operation PROVE \A s \in Sessions : InUse(s)' = InUse(s)
  BY <1>a DEF InUse
<1>1. ASSUME NEW u \in Clients, ReleaseLease(u) PROVE Kind
  <2>1. lease' = [v \in DOMAIN lease |-> IF v \in {u} THEN Failed(v) ELSE lease[v]]
    BY <1>0, <1>1 DEF ReleaseLease, Failed, Together, OtherTypes
  <2>. QED  BY <1>0, <1>1, <2>1 DEF ReleaseLease, GivesBack, Rest
<1>2. ASSUME NEW u \in Clients, NEW s \in Sessions, AcquireSession(u, s) PROVE Kind
  <2>1. Leases(u, s)  BY <1>2, <1>0 DEF AcquireSession, Leases, Rest, Together, LeaseShape
  <2>. QED  BY <1>0, <2>1
<1>3. ASSUME NEW u \in Clients, NEW s \in Sessions, BeginOperation(u, s) PROVE Kind
  <2>1. users' = [users EXCEPT ![s] = @ + 1]  BY <1>3 DEF BeginOperation, UsedBy, Together
  <2>2. Aside /\ Uses  BY <1>3, <2>1 DEF BeginOperation, Aside, Uses, InUse
  <2>. QED  BY <2>2
<1>4. ASSUME NEW u \in Holders, AcquireRefused(u) PROVE Kind
  <2>1. lease' = [v \in DOMAIN lease |-> IF v \in {u} THEN Failed(v) ELSE lease[v]]
    BY <1>0, <1>4 DEF AcquireRefused, Together, OtherTypes
  <2>. QED  BY <1>4, <2>1 DEF AcquireRefused, GivesBack, Rest
<1>5. ASSUME NEW s \in Sessions, JobFails(s) PROVE JobFailed(s)
  BY <1>5 DEF JobFails, JobEnds, JobFailed, Rest
<1>6. ASSUME NEW s \in Sessions, JobReattaches(s) PROVE Kind
  BY <1>6 DEF JobReattaches, JobMoved, Rest
<1>7. ASSUME NEW s \in Sessions, JobHoldsParent(s) PROVE Kind
  BY <1>7 DEF JobHoldsParent, JobMoved, Rest
<1>8. ASSUME NEW s \in Sessions, JobLeasesParent(s) PROVE Kind
  <2>1. CASE /\ Parent[s] = NoSession /\ job' = [job EXCEPT ![s].stage = "opening"]
             /\ UNCHANGED <<binding, heldVars, live, severed, idleVars, operation, hostVars>>
    BY <2>1, <1>8 DEF JobLeasesParent, JobMoved, Rest
  <2>2. CASE /\ Parent[s] # NoSession /\ host = "open"
             /\ job' = [job EXCEPT ![s].stage = "leasing"] /\ Acquires(s, Parent[s])
             /\ UNCHANGED <<binding, live, severed, idleVars, operation, hostVars>>
    <3>1. Parent[s] \in Sessions  BY <2>2, AttachmentAssumption DEF AttachmentAssumption
    <3>2. job[s].stage = "parent"  BY <1>8 DEF JobLeasesParent
    <3>3. Bound(Parent[s]) /\ lease[s].kept = {}
      BY <2>2, <3>2, Nobody DEF Together, JobShape
    <3>4. Leases(s, Parent[s])  BY <2>2, <3>2, <3>3 DEF Leases, Rest
    <3>. QED  BY <1>0, <3>1, <3>4
  <2>3. CASE JobFails(s)
    BY <2>3, <1>5
  <2>. QED  BY <1>8, <2>1, <2>2, <2>3 DEF JobLeasesParent
<1>9. ASSUME NEW s \in Sessions, JobLosesParent(s) \/ JobFindsShut(s) \/ JobMeetsFailure(s)
      PROVE Kind
  BY <1>9, <1>5 DEF JobLosesParent, JobFindsShut, JobMeetsFailure
<1>10. ASSUME NEW s \in Sessions, JobOpens(s) PROVE Kind
  <2>1. CASE JobFails(s)
    BY <2>1, <1>5
  <2>2. CASE ~JobFails(s)
    BY <2>2, <1>10 DEF JobOpens, JobMoved, Rest
  <2>. QED  BY <2>1, <2>2
<1>11. ASSUME NEW s \in Sessions, ReleaseEnds(s) PROVE Kind
  BY <1>11, <1>a DEF ReleaseEnds, Aside, Uses
<1>12. ASSUME NEW s \in Sessions, ReleaseFails(s) PROVE Kind
  <2>1. WaitingAt(s) \subseteq Holders /\ \A u \in WaitingAt(s) : lease[u].stage = "wait"
    BY <1>0 DEF WaitingAt
  <2>2. GivesBack(WaitingAt(s))  BY <1>12, <2>1 DEF ReleaseFails, GivesBack, Rest
  <2>. QED  BY <2>1, <2>2
<1>13. ASSUME NEW s \in Sessions, ReleaseFailsJob(s) PROVE Kind
  BY <1>13 DEF ReleaseFailsJob, JobFailed, Rest
<1>14. ASSUME NEW s \in Sessions, NEW unknown \in BOOLEAN, OperationEnds(s, unknown) PROVE Kind
  <2>1. Aside /\ Uses  BY <1>14 DEF OperationEnds, Aside, Uses, InUse
  <2>. QED  BY <2>1
<1>15. ASSUME NEW s \in Sessions, \/ CheckStarts(s) \/ CheckConfirms(s) \/ CheckFails(s)
                                  \/ Handoff(s)
       PROVE Kind
  <2>1. UNCHANGED <<binding, job, lease, users, live, severed, releasing, operation, host>>
    BY <1>15 DEF CheckStarts, CheckConfirms, CheckFails, Handoff
  <2>. QED  BY <2>1, <1>a DEF Aside, Uses
<1>16. ASSUME HandoffGoesOn \/ BeginShutdown \/ \E value \in BOOLEAN : SetConnected(value)
       PROVE Kind
  BY <1>16, <1>a DEF HandoffGoesOn, BeginShutdown, SetConnected, Aside, Uses
<1>17. ASSUME NEW s \in Sessions, SweepReleases(s) \/ CommandReleases(s) \/ HandoffCloses(s)
       PROVE Kind
  BY <1>17 DEF Closes
<1>18. ASSUME Shut PROVE Kind
  BY <1>18 DEF Closes
<1>. QED
  BY <1>1, <1>2, <1>3, <1>4, <1>6, <1>7, <1>8, <1>9, <1>10, <1>11, <1>12, <1>13, <1>14, <1>15, <1>16,
     <1>17, <1>18
  DEF AttachmentNext, AcquireGoes, JobGoes, Holders
-----------------------------------------------------------------------------
\* What a step may do to a lease.
LeaseStep(u) ==
    \/ lease'[u] = lease[u]
    \/ /\ lease'[u] = NoLease /\ u \in Sessions /\ job'[u] = NoJob
    \/ /\ lease'[u] = Failed(u)
       /\ u \in Clients \/ lease[u].stage \in {"wait", "join"}
    \/ \E s \in Sessions :
          /\ lease'[u] = [stage |-> "wait", kept |-> Kept(s), left |-> Kept(s), intact |-> TRUE]
          /\ Bound(s)
          /\ u \in Clients \/ (job'[u].stage = "leasing" /\ Parent[u] = s)
    \/ /\ lease[u].stage = "wait" /\ lease'[u] = [lease[u] EXCEPT !.stage = "join"]
    \/ \E s \in live' :
          /\ lease[u].stage = "join"
          /\ lease'[u] = [lease[u] EXCEPT !.left = lease[u].left \ {s},
                              !.stage = IF lease[u].left \ {s} = {} THEN "held" ELSE "wait"]
    \/ \E i \in BOOLEAN :
          /\ lease'[u] = [lease[u] EXCEPT !.intact = i]
          /\ i <=> lease[u].intact /\ (lease[u].kept \ lease[u].left) \cap live \subseteq live'

LEMMA JobEndsLeases ==
    ASSUME OtherTypes, NEW s \in Sessions, NEW joined, NEW ok \in BOOLEAN, EndsJob(s, joined, ok),
           joined \subseteq WaitingAt(s) \cup JoinedAt(s),
           ok => joined \subseteq JoinedAt(s) /\ s \in live',
           NEW u \in Holders
    PROVE  LeaseStep(u)
<1>0. DOMAIN lease = Holders /\ DOMAIN job = Sessions  BY DEF OtherTypes
<1>1. CASE u = s
  BY <1>0, <1>1 DEF EndsJob, LeaseStep
<1>2. CASE u # s /\ u \notin joined
  BY <1>0, <1>2 DEF EndsJob, LeaseStep
<1>3. CASE u # s /\ u \in joined
  <2>1. lease[u].stage \in {"wait", "join"} /\ (ok => lease[u].stage = "join")
    BY <1>3 DEF WaitingAt, JoinedAt
  <2>2. CASE ok /\ host = "open"
    <3>1. lease'[u] = [lease[u] EXCEPT !.left = lease[u].left \ {s},
                           !.stage = IF lease[u].left \ {s} = {} THEN "held" ELSE "wait"]
      BY <1>0, <1>3, <2>2 DEF EndsJob
    <3>. QED  BY <2>1, <2>2, <3>1 DEF LeaseStep
  <2>3. CASE ~(ok /\ host = "open")
    BY <1>0, <1>3, <2>1, <2>3 DEF EndsJob, LeaseStep
  <2>. QED  BY <2>2, <2>3
<1>. QED  BY <1>1, <1>2, <1>3

LEMMA LeaseSteps ==
    ASSUME Together, AttachmentNext, NEW u \in Holders
    PROVE  LeaseStep(u)
<1>0. OtherTypes /\ DOMAIN lease = Holders  BY DEF Together, OtherTypes
<1>a. ASSUME UNCHANGED lease PROVE LeaseStep(u)  BY <1>a DEF LeaseStep
<1>1. CASE Aside
  BY <1>1, <1>a DEF Aside
<1>2. ASSUME NEW L \in SUBSET Holders, GivesBack(L) PROVE LeaseStep(u)
  BY <1>0, <1>2 DEF GivesBack, LeaseStep
<1>3. ASSUME NEW v \in Holders, AcquireProjects(v) PROVE LeaseStep(u)
  <2>1. lease'[u] = lease[u] \/ (u = v /\ lease'[u] = [lease[u] EXCEPT !.stage = "join"])
    BY <1>0, <1>3 DEF AcquireProjects
  <2>. QED  BY <1>3, <2>1 DEF AcquireProjects, LeaseStep
<1>4. ASSUME NEW v \in Holders, NEW s \in Sessions, Leases(v, s) PROVE LeaseStep(u)
  <2>1. \/ lease'[u] = lease[u]
        \/ /\ u = v
           /\ lease'[u] = [stage |-> "wait", kept |-> Kept(s), left |-> Kept(s), intact |-> TRUE]
    BY <1>0, <1>4 DEF Leases, Acquires
  <2>2. v \in Clients \/ (job'[v].stage = "leasing" /\ Parent[v] = s)
    <3>1. CASE v \in Sessions /\ Parent[v] = s /\ job' = [job EXCEPT ![v].stage = "leasing"]
      BY <3>1 DEF Together, OtherTypes, JobRecords
    <3>. QED  BY <1>4, <3>1 DEF Leases
  <2>. QED  BY <1>4, <2>1, <2>2 DEF LeaseStep, Leases
<1>5. ASSUME NEW s \in Sessions, JobMoved(s) \/ \E a \in Agents : Attach(s, a) PROVE LeaseStep(u)
  BY <1>5, <1>a DEF JobMoved, Attach, heldVars
<1>6. ASSUME NEW s \in Sessions, JobFailed(s) PROVE LeaseStep(u)
  BY <1>0, <1>6, JobEndsLeases DEF JobFailed
<1>7. ASSUME NEW s \in Sessions, JobFindsAgent(s) PROVE LeaseStep(u)
  BY <1>0, <1>7, JobEndsLeases DEF JobFindsAgent, JobEnds
<1>8. ASSUME NEW s \in Sessions, JobAttaches(s) PROVE LeaseStep(u)
  <2>1. s \in live'  BY <1>8 DEF JobAttaches
  <2>. QED  BY <1>0, <1>8, <2>1, JobEndsLeases DEF JobAttaches, JobEnds
<1>9. ASSUME NEW S, TakesFromLeases(S), CloseAgents(S) PROVE LeaseStep(u)
  <2>1. PICK i \in BOOLEAN :
              /\ lease'[u] = [lease[u] EXCEPT !.intact = i]
              /\ i <=> lease[u].intact /\ (lease[u].kept \ lease[u].left) \cap S \cap live = {}
    BY <1>0, <1>9, TakenKeeps
  <2>2. live' = live \ S  BY <1>9 DEF CloseAgents
  <2>3. (lease[u].kept \ lease[u].left) \cap S \cap live = {}
        <=> (lease[u].kept \ lease[u].left) \cap live \subseteq live'
    BY <2>2
  <2>. QED  BY <2>1, <2>3 DEF LeaseStep
<1>10. ASSUME NEW S \in SUBSET Sessions, Closes(S) PROVE LeaseStep(u)
  BY <1>10, <1>9, <1>a DEF Closes, SweepReleases, CommandReleases, HandoffCloses, Shut, heldVars
<1>. QED  BY StepKinds, <1>1, <1>2, <1>3, <1>4, <1>5, <1>6, <1>7, <1>8, <1>10

\* A published session stays published; a job has an identity.
LEMMA BoundStays ==
    ASSUME Together, AttachmentNext, NEW s \in Sessions, Bound(s)
    PROVE  Bound(s)'
<1>1. ASSUME NEW x \in Sessions, JobAttaches(x) PROVE Bound(s)'
  <2>1. job[x].agent # NoAgent  BY <1>1 DEF JobAttaches, Together, JobShape
  <2>2. binding' = [binding EXCEPT ![x] = job[x].agent]  BY <1>1 DEF JobAttaches
  <2>. QED  BY <2>1, <2>2 DEF Bound, Together, OtherTypes
<1>2. ASSUME UNCHANGED binding PROVE Bound(s)'  BY <1>2 DEF Bound
<1>. QED  BY StepKinds, <1>1, <1>2 DEF Aside, GivesBack, AcquireProjects, Leases, JobMoved,
          JobFailed, JobFindsAgent, Closes, Attach, Rest, SweepReleases, CommandReleases,
          HandoffCloses, Shut

LEMMA LeaseShapeKept ==
    ASSUME Together, AttachmentNext
    PROVE  LeaseShape'
<1>1. SUFFICES ASSUME NEW u \in Holders
               PROVE  /\ lease'[u].left \subseteq lease'[u].kept
                      /\ lease'[u].stage \in {"none", "failed"} => lease'[u].kept = {}
                      /\ lease'[u].stage \in {"wait", "join"} => lease'[u].left # {}
                      /\ lease'[u].stage = "held" => lease'[u].left = {}
                      /\ \A s \in lease'[u].kept : Bound(s)
  <2>1. OtherTypes'  BY TypesKept DEF Together
  <2>2. \A u \in Holders : lease'[u].kept \subseteq Sessions  BY <2>1 DEF OtherTypes, LeaseRecords
  <2>. QED  BY <1>1, <2>2, BoundStays DEF LeaseShape
<1>2. lease[u] \in LeaseRecords  BY DEF Together, OtherTypes
<1>3. /\ lease[u].left \subseteq lease[u].kept
      /\ lease[u].stage \in {"none", "failed"} => lease[u].kept = {}
      /\ lease[u].stage \in {"wait", "join"} => lease[u].left # {}
      /\ lease[u].stage = "held" => lease[u].left = {}
      /\ \A s \in lease[u].kept : Bound(s)
  BY DEF Together, LeaseShape
<1>4. CASE lease'[u] = lease[u] \/ lease'[u] = NoLease \/ lease'[u] = Failed(u)
  BY <1>3, <1>4, Nobody
<1>5. ASSUME NEW s \in Sessions, Bound(s), lease'[u] =
                 [stage |-> "wait", kept |-> Kept(s), left |-> Kept(s), intact |-> TRUE]
      PROVE  /\ lease'[u].left = lease'[u].kept /\ lease'[u].stage = "wait"
             /\ lease'[u].kept # {} /\ \A a \in lease'[u].kept : Bound(a)
  BY <1>5 DEF Kept
<1>6. CASE /\ lease[u].stage = "wait" /\ lease'[u] = [lease[u] EXCEPT !.stage = "join"]
  BY <1>2, <1>3, <1>6 DEF LeaseRecords
<1>7. ASSUME NEW s \in live', lease'[u] = [lease[u] EXCEPT !.left = lease[u].left \ {s},
                              !.stage = IF lease[u].left \ {s} = {} THEN "held" ELSE "wait"]
      PROVE  /\ lease'[u].kept = lease[u].kept /\ lease'[u].left = lease[u].left \ {s}
             /\ lease'[u].stage = IF lease[u].left \ {s} = {} THEN "held" ELSE "wait"
  BY <1>2, <1>7 DEF LeaseRecords
<1>8. ASSUME NEW i \in BOOLEAN, lease'[u] = [lease[u] EXCEPT !.intact = i]
      PROVE  /\ lease'[u].kept = lease[u].kept /\ lease'[u].left = lease[u].left
             /\ lease'[u].stage = lease[u].stage
  BY <1>2, <1>8 DEF LeaseRecords
<1>. QED  BY LeaseSteps, <1>3, <1>4, <1>5, <1>6, <1>7, <1>8 DEF LeaseStep
-----------------------------------------------------------------------------
\* What a step may do to a job.
Advances(s, stage) == job'[s] = [job[s] EXCEPT !.stage = stage]
JobStep(s) ==
    \/ job'[s] = job[s]
    \/ job'[s] = NoJob /\ lease'[s] = NoLease
    \/ /\ job[s].stage = "none" /\ Bound(s)
       /\ job'[s] = [stage |-> "waiting", agent |-> binding[s]]
    \/ \E a \in Agents :
          /\ job[s].stage = "none" /\ ~Bound(s) /\ ~Taken(a)
          /\ Parent[s] # NoSession => Bound(Parent[s])
          /\ job'[s] = [stage |-> "parent", agent |-> a]
    \/ job[s].stage = "waiting" /\ s \notin releasing /\ Advances(s, "parent")
    \/ /\ job[s].stage = "parent" /\ Parent[s] = NoSession
       /\ Advances(s, "opening")
    \/ /\ job[s].stage = "parent" /\ Parent[s] # NoSession
       /\ Advances(s, "leasing")
       /\ lease'[s].stage = "wait" /\ Parent[s] \in lease'[s].kept
    \/ /\ job[s].stage = "leasing" /\ lease[s].stage = "held" /\ lease'[s] = lease[s]
       /\ Advances(s, "opening")
    \/ job[s].stage = "opening" /\ Advances(s, "creating")

LEMMA JobEndsJobs ==
    ASSUME OtherTypes, NEW s \in Sessions, NEW joined, NEW ok \in BOOLEAN, EndsJob(s, joined, ok),
           NEW x \in Sessions
    PROVE  JobStep(x)
<1>0. DOMAIN lease = Holders /\ DOMAIN job = Sessions /\ s \in Holders  BY DEF OtherTypes, Holders
<1>1. CASE x = s
  BY <1>0, <1>1 DEF EndsJob, JobStep
<1>2. CASE x # s
  BY <1>0, <1>2 DEF EndsJob, JobStep
<1>. QED  BY <1>1, <1>2

LEMMA JobSteps ==
    ASSUME Together, AttachmentNext, NEW s \in Sessions
    PROVE  JobStep(s)
<1>0. OtherTypes /\ DOMAIN job = Sessions /\ DOMAIN lease = Holders /\ Sessions \subseteq Holders
  BY DEF Together, OtherTypes, Holders
<1>a. ASSUME UNCHANGED job PROVE JobStep(s)  BY <1>a DEF JobStep
<1>1. CASE Aside \/ \E L \in SUBSET Holders : GivesBack(L)
  BY <1>1, <1>a DEF Aside, GivesBack
<1>2. ASSUME NEW u \in Holders, AcquireProjects(u) PROVE JobStep(s)
  <2>1. At(u) \in Sessions /\ Bound(At(u))
    <3>1. OtherTypes /\ LeaseShape /\ lease[u].stage = "wait"
      BY <1>2 DEF AcquireProjects, Together
    <3>2. At(u) \in Sessions /\ At(u) \in lease[u].left  BY <3>1, AtLeft
    <3>. QED  BY <3>1, <3>2 DEF LeaseShape
  <2>2. CASE job[At(u)].stage = "none"
    <3>1. job' = [job EXCEPT ![At(u)] = [stage |-> "waiting", agent |-> binding[At(u)]]]
      BY <1>2, <2>2 DEF AcquireProjects
    <3>2. CASE At(u) = s
      BY <1>0, <2>1, <2>2, <3>1, <3>2 DEF JobStep
    <3>3. CASE At(u) # s
      BY <1>0, <3>1, <3>3 DEF JobStep
    <3>. QED  BY <3>2, <3>3
  <2>3. CASE job[At(u)].stage # "none"
    BY <1>a, <1>2, <2>3 DEF AcquireProjects
  <2>. QED  BY <2>2, <2>3
<1>3. ASSUME NEW u \in Holders, NEW x \in Sessions, Leases(u, x) PROVE JobStep(s)
  <2>1. CASE u = s /\ u \in Sessions /\ job[u].stage = "parent" /\ Parent[u] = x
             /\ job' = [job EXCEPT ![u].stage = "leasing"]
    <3>1. lease'[s] = [stage |-> "wait", kept |-> Kept(x), left |-> Kept(x), intact |-> TRUE]
      BY <1>0, <1>3, <2>1 DEF Leases, Acquires
    <3>2. lease'[s].stage = "wait" /\ x \in lease'[s].kept  BY <3>1 DEF Kept
    <3>3. Parent[s] # NoSession  BY <2>1, AttachmentAssumption DEF AttachmentAssumption
    <3>4. Advances(s, "leasing")  BY <1>0, <2>1 DEF Advances
    <3>. QED  BY <2>1, <3>2, <3>3, <3>4 DEF JobStep
  <2>2. CASE job'[s] = job[s]
    BY <2>2 DEF JobStep
  <2>. QED  BY <1>0, <1>3, <2>1, <2>2 DEF Leases
<1>4. ASSUME NEW x \in Sessions, JobMoved(x) PROVE JobStep(s)
  <2>1. CASE x # s
    <3>1. job'[s] = job[s]  BY <1>0, <1>4, <2>1 DEF JobMoved
    <3>. QED  BY <3>1 DEF JobStep
  <2>2. CASE x = s
    BY <1>0, <1>4, <2>2 DEF JobMoved, JobStep, Advances
  <2>. QED  BY <2>1, <2>2
<1>5. ASSUME NEW x \in Sessions, NEW a \in Agents, Attach(x, a) PROVE JobStep(s)
  <2>1. CASE x # s
    <3>1. job'[s] = job[s]  BY <1>0, <1>5, <2>1 DEF Attach
    <3>. QED  BY <3>1 DEF JobStep
  <2>2. CASE /\ x = s /\ Bound(s)
             /\ job' = [job EXCEPT ![s] = [stage |-> "waiting", agent |-> binding[s]]]
    BY <1>0, <1>5, <2>2 DEF Attach, JobStep
  <2>3. CASE /\ x = s /\ ~Bound(s) /\ ~Taken(a)
             /\ job' = [job EXCEPT ![s] = [stage |-> "parent", agent |-> a]]
    BY <1>0, <1>5, <2>3 DEF Attach, JobStep
  <2>. QED  BY <1>5, <2>1, <2>2, <2>3 DEF Attach
<1>6. ASSUME NEW x \in Sessions, JobFailed(x) \/ JobFindsAgent(x) \/ JobAttaches(x) PROVE JobStep(s)
  BY <1>0, <1>6, JobEndsJobs DEF JobFailed, JobFindsAgent, JobAttaches, JobEnds
<1>7. ASSUME NEW S \in SUBSET Sessions, Closes(S) PROVE JobStep(s)
  BY <1>7, <1>a DEF Closes, SweepReleases, CommandReleases, HandoffCloses, Shut
<1>. QED  BY StepKinds, <1>1, <1>2, <1>3, <1>4, <1>5, <1>6, <1>7

\* Only a published session has an agent or one that is detached.
LEMMA LiveBound ==
    ASSUME Together, AttachmentNext, NEW s \in live' \cup releasing'
    PROVE  s \in Sessions /\ Bound(s)'
<1>0. (live \cup releasing) \subseteq Sessions /\ \A x \in live \cup releasing : Bound(x)
  BY DEF Together, OtherTypes, JobShape
<1>1. CASE s \in live \cup releasing
  BY <1>0, <1>1, BoundStays
<1>2. ASSUME NEW x \in Sessions, SweepReleases(x) PROVE s \in live \cup releasing
  BY <1>2 DEF SweepReleases, CloseAgents, Safe, Quiet
<1>3. ASSUME NEW x \in Sessions, JobAttaches(x)
      PROVE  s \in live \cup releasing \/ (s = x /\ Bound(x)')
  <2>1. job[x].agent # NoAgent  BY <1>3 DEF JobAttaches, Together, JobShape
  <2>2. Bound(x)'  BY <1>3, <2>1 DEF JobAttaches, Bound, Together, OtherTypes
  <2>. QED  BY <1>3, <2>2 DEF JobAttaches, idleVars
<1>4. ASSUME live' \subseteq live, releasing' \subseteq releasing PROVE s \in live \cup releasing
  BY <1>4
<1>5. ASSUME NEW S \in SUBSET Sessions, Closes(S) PROVE s \in live \cup releasing
  BY <1>2, <1>4, <1>5 DEF Closes, CommandReleases, HandoffCloses, Shut, CloseAgents, idleVars
<1>. QED  BY StepKinds, <1>1, <1>3, <1>4, <1>5 DEF Aside, GivesBack, AcquireProjects, Leases,
          JobMoved, JobFailed, JobFindsAgent, Attach, Rest, idleVars

LEMMA JobShapeKept ==
    ASSUME Together, AttachmentNext
    PROVE  JobShape'
<1>1. SUFFICES ASSUME NEW s \in Sessions
               PROVE  /\ job'[s].stage = "none" <=> job'[s].agent = NoAgent
                      /\ Parent[s] = NoSession \/ job'[s].stage \in {"none", "waiting", "parent"} =>
                            lease'[s] = NoLease
                      /\ job'[s].stage = "leasing" => Parent[s] # NoSession
                      /\ job'[s].stage \in {"opening", "creating"} /\ Parent[s] # NoSession =>
                            lease'[s].stage = "held"
                      /\ lease'[s].stage \in {"wait", "join", "held"} => Parent[s] \in lease'[s].kept
                      /\ (job'[s].stage # "none" \/ Bound(s)') /\ Parent[s] # NoSession =>
                            Bound(Parent[s])'
  BY <1>1, LiveBound DEF JobShape
<1>2. /\ job[s].stage = "none" <=> job[s].agent = NoAgent
      /\ Parent[s] = NoSession \/ job[s].stage \in {"none", "waiting", "parent"} =>
            lease[s] = NoLease
      /\ job[s].stage = "leasing" => Parent[s] # NoSession
      /\ job[s].stage \in {"opening", "creating"} /\ Parent[s] # NoSession =>
            lease[s].stage = "held"
      /\ lease[s].stage \in {"wait", "join", "held"} => Parent[s] \in lease[s].kept
      /\ (job[s].stage # "none" \/ Bound(s)) /\ Parent[s] # NoSession => Bound(Parent[s])
  BY DEF Together, JobShape
<1>3. /\ job[s] \in JobRecords /\ lease[s] \in LeaseRecords /\ s \in Holders /\ s \notin Clients
      /\ binding[s] \in Agents \cup {NoAgent} /\ NoAgent \notin Agents
      /\ Parent[s] \in Sessions \cup {NoSession}
  BY AttachmentAssumption DEF Together, OtherTypes, Holders, AttachmentAssumption
<1>4. JobStep(s) /\ LeaseStep(s)  BY <1>3, JobSteps, LeaseSteps
\* The stage of a job after the step, and what it says of the stage before.
<1>5. \/ job'[s] = job[s]
      \/ job'[s].stage = "none" /\ job'[s].agent = NoAgent /\ lease'[s] = NoLease
      \/ /\ job'[s].stage = "waiting" /\ job'[s].agent = binding[s] /\ Bound(s)
         /\ job[s].stage = "none"
      \/ /\ job'[s].stage = "parent" /\ job'[s].agent \in Agents /\ job[s].stage = "none"
         /\ Parent[s] # NoSession => Bound(Parent[s])
      \/ job'[s].stage = "parent" /\ job'[s].agent = job[s].agent /\ job[s].stage = "waiting"
      \/ /\ job'[s].stage = "opening" /\ job'[s].agent = job[s].agent /\ job[s].stage = "parent"
         /\ Parent[s] = NoSession
      \/ /\ job'[s].stage = "leasing" /\ job'[s].agent = job[s].agent /\ job[s].stage = "parent"
         /\ Parent[s] # NoSession /\ lease'[s].stage = "wait" /\ Parent[s] \in lease'[s].kept
      \/ /\ job'[s].stage = "opening" /\ job'[s].agent = job[s].agent /\ job[s].stage = "leasing"
         /\ lease[s].stage = "held" /\ lease'[s] = lease[s]
      \/ job'[s].stage = "creating" /\ job'[s].agent = job[s].agent /\ job[s].stage = "opening"
  <2>1. ASSUME NEW stage, Advances(s, stage)
        PROVE  job'[s].stage = stage /\ job'[s].agent = job[s].agent
    BY <1>3, <2>1 DEF Advances, JobRecords
  <2>2. CASE job'[s] = job[s] \/ (job'[s] = NoJob /\ lease'[s] = NoLease)
    BY <2>2, Nobody
  <2>3. CASE /\ job[s].stage = "none" /\ Bound(s)
             /\ job'[s] = [stage |-> "waiting", agent |-> binding[s]]
    BY <1>3, <2>3
  <2>4. ASSUME NEW a \in Agents, job[s].stage = "none", Parent[s] # NoSession => Bound(Parent[s]),
               job'[s] = [stage |-> "parent", agent |-> a]
        PROVE  /\ job'[s].stage = "parent" /\ job'[s].agent \in Agents /\ job[s].stage = "none"
               /\ Parent[s] # NoSession => Bound(Parent[s])
    BY <2>4
  <2>5. Advances(s, "parent") => job'[s].stage = "parent" /\ job'[s].agent = job[s].agent
    BY <2>1
  <2>6. Advances(s, "opening") => job'[s].stage = "opening" /\ job'[s].agent = job[s].agent
    BY <2>1
  <2>7. Advances(s, "leasing") => job'[s].stage = "leasing" /\ job'[s].agent = job[s].agent
    BY <2>1
  <2>8. Advances(s, "creating") => job'[s].stage = "creating" /\ job'[s].agent = job[s].agent
    BY <2>1
  <2>. QED  BY <1>4, <2>2, <2>3, <2>4, <2>5, <2>6, <2>7, <2>8, Zenon DEF JobStep
<1>6. job'[s].stage = "none" <=> job'[s].agent = NoAgent
  BY <1>2, <1>3, <1>5 DEF Bound
\* The same of the lease on the parent.
<1>7. \/ lease'[s] = lease[s]
      \/ lease'[s] = NoLease /\ job'[s].stage = "none"
      \/ lease'[s].stage \in {"none", "failed"} /\ lease[s].stage \in {"wait", "join"}
      \/ lease'[s].stage = "wait" /\ Parent[s] \in lease'[s].kept /\ job'[s].stage = "leasing"
         /\ Parent[s] \in Sessions
      \/ /\ lease[s].stage \in {"wait", "join"} /\ lease'[s].stage \in {"wait", "join", "held"}
         /\ lease'[s].kept = lease[s].kept
      \/ lease'[s].stage = lease[s].stage /\ lease'[s].kept = lease[s].kept
         /\ (lease[s] = NoLease => lease'[s] = NoLease)
  <2>1. ASSUME NEW x \in Sessions, Parent[s] = x,
               lease'[s] = [stage |-> "wait", kept |-> Kept(x), left |-> Kept(x), intact |-> TRUE]
        PROVE  lease'[s].stage = "wait" /\ Parent[s] \in lease'[s].kept
    BY <2>1 DEF Kept
  <2>2. ASSUME lease'[s] = [lease[s] EXCEPT !.stage = "join"]
        PROVE  lease'[s].stage = "join" /\ lease'[s].kept = lease[s].kept
    BY <1>3, <2>2 DEF LeaseRecords
  <2>3. ASSUME NEW x, lease'[s] = [lease[s] EXCEPT !.left = lease[s].left \ {x},
                          !.stage = IF lease[s].left \ {x} = {} THEN "held" ELSE "wait"]
        PROVE  lease'[s].stage \in {"wait", "held"} /\ lease'[s].kept = lease[s].kept
    BY <1>3, <2>3 DEF LeaseRecords
  <2>4. ASSUME NEW i \in BOOLEAN, lease'[s] = [lease[s] EXCEPT !.intact = i],
               i <=> lease[s].intact /\ (lease[s].kept \ lease[s].left) \cap live \subseteq live'
        PROVE  /\ lease'[s].stage = lease[s].stage /\ lease'[s].kept = lease[s].kept
               /\ lease[s] = NoLease => lease'[s] = NoLease
    BY <1>3, <2>4 DEF LeaseRecords, NoLease
  <2>. QED  BY <1>3, <1>4, <2>1, <2>2, <2>3, <2>4, Nobody DEF LeaseStep
<1>8. Parent[s] = NoSession \/ job'[s].stage \in {"none", "waiting", "parent"} =>
         lease'[s] = NoLease
  BY <1>2, <1>5, <1>7, Nobody, AttachmentAssumption DEF AttachmentAssumption
<1>9. job'[s].stage = "leasing" => Parent[s] # NoSession
  BY <1>2, <1>5
<1>10. job'[s].stage \in {"opening", "creating"} /\ Parent[s] # NoSession =>
          lease'[s].stage = "held"
  BY <1>2, <1>5, <1>7, Nobody
<1>11. lease'[s].stage \in {"wait", "join", "held"} => Parent[s] \in lease'[s].kept
  BY <1>2, <1>7, Nobody
<1>12. (job'[s].stage # "none" \/ Bound(s)') /\ Parent[s] # NoSession => Bound(Parent[s])'
  <2>1. Bound(s)' => Bound(s) \/ job[s].stage # "none"
    <3>1. ASSUME NEW x \in Sessions, JobAttaches(x)
          PROVE  Bound(s)' => Bound(s) \/ job[s].stage # "none"
      <4>1. CASE x = s
        BY <3>1, <4>1 DEF JobAttaches
      <4>2. CASE x # s
        BY <3>1, <4>2 DEF JobAttaches, Bound, Together, OtherTypes
      <4>. QED  BY <4>1, <4>2
    <3>2. CASE UNCHANGED binding
      BY <3>2 DEF Bound
    <3>. QED  BY StepKinds, <3>1, <3>2 DEF Aside, GivesBack, AcquireProjects, Leases, JobMoved,
              JobFailed, JobFindsAgent, Closes, Attach, Rest, SweepReleases, CommandReleases,
              HandoffCloses, Shut
  <2>2. Parent[s] # NoSession /\ Bound(Parent[s]) => Bound(Parent[s])'
    BY <1>3, BoundStays
  <2>. QED  BY <1>2, <1>5, <2>1, <2>2
<1>. QED  BY <1>6, <1>8, <1>9, <1>10, <1>11, <1>12
-----------------------------------------------------------------------------
\* Leases of L are given back: the sessions they keep lose that many users.
LEMMA FewerUsers ==
    ASSUME Together, NEW L \in SUBSET Holders, users' = UnusedBy(L),
           \A u \in L : lease'[u].kept = {},
           \A u \in Holders \ L : lease'[u].kept = lease[u].kept,
           \A s \in Sessions : InUse(s)' = InUse(s)
    PROVE  UsersCounted'
<1>1. SUFFICES ASSUME NEW s \in Sessions
               PROVE  users'[s] = Cardinality(Keepers(s)') + InUse(s)'
  BY <1>1 DEF UsersCounted
<1>. DEFINE gone == {u \in L : s \in lease[u].kept}
<1>2. users[s] = Cardinality(Keepers(s)) + InUse(s) /\ InUse(s) \in Nat
  BY DEF Together, UsersCounted, InUse
<1>3. users'[s] = users[s] - Cardinality(gone)
  BY DEF UnusedBy
<1>4. Keepers(s)' = Keepers(s) \ gone /\ Keepers(s) \cap gone = gone
  BY DEF Keepers, Holders
<1>5. Keepers(s) \in SUBSET Holders /\ gone \in SUBSET Holders
  BY DEF Keepers
<1>. HIDE DEF gone
<1>6. IsFiniteSet(Keepers(s)) /\ Cardinality(Keepers(s)) \in Nat
  BY <1>5, KeepersFinite
<1>7. Cardinality(gone) \in Nat
  BY <1>5, KeepersFinite
<1>8. Cardinality(Keepers(s) \ gone) = Cardinality(Keepers(s)) - Cardinality(Keepers(s) \cap gone)
  BY <1>6, FS_Difference
<1>9. Cardinality(Keepers(s)') = Cardinality(Keepers(s)) - Cardinality(gone)
  BY <1>4, <1>8
<1>10. InUse(s)' = InUse(s)  OBVIOUS
<1>. QED  BY <1>2, <1>3, <1>6, <1>7, <1>9, <1>10

\* A lease is taken: each session it keeps has one user more.
LEMMA MoreUsers ==
    ASSUME Together, NEW u \in Holders, NEW s \in Sessions, Leases(u, s)
    PROVE  UsersCounted'
<1>0. DOMAIN lease = Holders  BY DEF Together, OtherTypes
<1>1. SUFFICES ASSUME NEW x \in Sessions
               PROVE  users'[x] = Cardinality(Keepers(x)') + InUse(x)'
  BY <1>1 DEF UsersCounted
<1>2. /\ users[x] = Cardinality(Keepers(x)) + InUse(x) /\ InUse(x) \in Nat
      /\ InUse(x)' = InUse(x)
  BY DEF Together, UsersCounted, InUse, Leases, Rest
<1>3. users'[x] = IF x \in Kept(s) THEN users[x] + 1 ELSE users[x]
  BY DEF Leases, Acquires, UsedBy
<1>4. lease'[u].kept = Kept(s) /\ lease[u].kept = {}
      /\ \A v \in Holders : v # u => lease'[v].kept = lease[v].kept
  BY <1>0 DEF Leases, Acquires
<1>5. Keepers(x)' = IF x \in Kept(s) THEN Keepers(x) \cup {u} ELSE Keepers(x)
  BY <1>4 DEF Keepers, Holders
<1>6. u \notin Keepers(x)  BY <1>4 DEF Keepers
<1>7. IsFiniteSet(Keepers(x)) /\ Cardinality(Keepers(x)) \in Nat
  <2>1. Keepers(x) \in SUBSET Holders  BY DEF Keepers
  <2>. QED  BY <2>1, KeepersFinite
<1>8. Cardinality(Keepers(x) \cup {u}) = Cardinality(Keepers(x)) + 1
  BY <1>6, <1>7, FS_AddElement
<1>. QED  BY <1>2, <1>3, <1>5, <1>7, <1>8

\* No lease changes what it keeps.
LEMMA SameKeepers ==
    ASSUME Together, AttachmentNext, \A u \in Holders : lease'[u].kept = lease[u].kept, Uses
    PROVE  UsersCounted'
<1>1. SUFFICES ASSUME NEW s \in Sessions
               PROVE  users'[s] = Cardinality(Keepers(s)') + InUse(s)'
  BY <1>1 DEF UsersCounted
<1>2. Keepers(s)' = Keepers(s)  BY DEF Keepers, Holders
<1>3. Cardinality(Keepers(s)) \in Nat
  <2>1. Keepers(s) \in SUBSET Holders  BY DEF Keepers
  <2>. QED  BY <2>1, KeepersFinite
<1>4. users[s] = Cardinality(Keepers(s)) + InUse(s) /\ users[s] \in Nat
      /\ operation \in [Sessions -> {"none", "running", "orphan"}] /\ DOMAIN users = Sessions
  BY DEF Together, UsersCounted, OtherTypes
<1>5. CASE users' = users /\ \A x \in Sessions : InUse(x)' = InUse(x)
  BY <1>2, <1>4, <1>5
<1>6. ASSUME NEW x \in Sessions, users' = [users EXCEPT ![x] = @ + 1], InUse(x) = 0,
             operation' = [operation EXCEPT ![x] = "running"]
      PROVE  users'[s] = Cardinality(Keepers(s)') + InUse(s)'
  BY <1>2, <1>3, <1>4, <1>6 DEF InUse
<1>7. ASSUME NEW x \in Sessions, users' = [users EXCEPT ![x] = @ - 1], InUse(x) = 1,
             operation' = [operation EXCEPT ![x] = "none"]
      PROVE  users'[s] = Cardinality(Keepers(s)') + InUse(s)'
  BY <1>2, <1>3, <1>4, <1>7 DEF InUse
<1>. QED  BY <1>5, <1>6, <1>7 DEF Uses

LEMMA JobEndsUsers ==
    ASSUME Together, NEW s \in Sessions, NEW joined \in SUBSET Holders, NEW ok \in BOOLEAN,
           EndsJob(s, joined, ok), UNCHANGED operation
    PROVE  UsersCounted'
<1>0. DOMAIN lease = Holders /\ s \in Holders  BY DEF Together, OtherTypes, Holders
<1>1. \A x \in Sessions : InUse(x)' = InUse(x)  BY DEF InUse
<1>. DEFINE served == IF ok /\ host = "open" THEN joined ELSE {}
            over   == (joined \ served) \cup {s}
<1>2. joined \subseteq Holders /\ over \in SUBSET Holders  BY <1>0
<1>3. users' = UnusedBy(over)  BY DEF EndsJob
<1>4. ASSUME NEW u \in over PROVE lease'[u].kept = {}
  <2>1. u = s \/ (u \in joined /\ u \notin served)  BY <1>4
  <2>2. u \in Holders  BY <1>2, <1>4
  <2>3. lease'[u] = NoLease \/ lease'[u] = Failed(u)  BY <1>0, <2>1, <2>2 DEF EndsJob
  <2>. QED  BY <2>2, <2>3, Nobody
<1>5. ASSUME NEW u \in Holders \ over PROVE lease'[u].kept = lease[u].kept
  <2>1. CASE u \in served
    <3>1. u # s  BY <1>5
    <3>2. lease'[u] = [lease[u] EXCEPT !.left = lease[u].left \ {s},
                           !.stage = IF lease[u].left \ {s} = {} THEN "held" ELSE "wait"]
      BY <1>0, <2>1, <3>1 DEF EndsJob
    <3>3. lease[u] \in LeaseRecords  BY <1>5 DEF Together, OtherTypes
    <3>. QED  BY <3>2, <3>3 DEF LeaseRecords
  <2>2. CASE u \notin served
    <3>1. u # s /\ u \notin joined  BY <1>5, <2>2
    <3>2. lease'[u] = lease[u]  BY <1>0, <2>2, <3>1 DEF EndsJob
    <3>. QED  BY <3>2
  <2>. QED  BY <2>1, <2>2
<1>. QED  BY <1>1, <1>2, <1>3, <1>4, <1>5, FewerUsers

LEMMA UsersCountedKept ==
    ASSUME Together, AttachmentNext
    PROVE  UsersCounted' /\ users' \in [Sessions -> Nat]
<1>0. OtherTypes /\ DOMAIN lease = Holders  BY DEF Together, OtherTypes
<1>a. ASSUME UNCHANGED lease, Uses PROVE UsersCounted'
  <2>1. \A u \in Holders : lease'[u].kept = lease[u].kept  BY <1>a
  <2>. QED  BY <1>a, <2>1, SameKeepers
<1>b. ASSUME UNCHANGED operation PROVE \A s \in Sessions : InUse(s)' = InUse(s)
  BY <1>b DEF InUse
<1>1. ASSUME Aside, Uses PROVE UsersCounted'
  BY <1>1, <1>a DEF Aside
<1>2. ASSUME NEW L \in SUBSET Holders, GivesBack(L) PROVE UsersCounted'
  <2>1. /\ \A u \in L : lease'[u].kept = {}
        /\ \A u \in Holders \ L : lease'[u].kept = lease[u].kept
    BY <1>0, <1>2, Nobody DEF GivesBack
  <2>. QED  BY <1>2, <1>b, <2>1, FewerUsers DEF GivesBack, Rest
<1>3. ASSUME NEW u \in Holders, AcquireProjects(u) PROVE UsersCounted'
  <2>1. \A v \in Holders : lease'[v].kept = lease[v].kept
    BY <1>0, <1>3 DEF AcquireProjects, OtherTypes, LeaseRecords
  <2>. QED  BY <1>3, <1>b, <2>1, SameKeepers DEF AcquireProjects, Uses
<1>4. ASSUME NEW u \in Holders, NEW s \in Sessions, Leases(u, s) PROVE UsersCounted'
  BY <1>4, MoreUsers
<1>5. ASSUME NEW s \in Sessions, JobMoved(s) \/ \E a \in Agents : Attach(s, a) PROVE UsersCounted'
  BY <1>5, <1>a, <1>b DEF JobMoved, Attach, Rest, Uses, heldVars
<1>6. ASSUME NEW s \in Sessions, JobFailed(s) \/ JobFindsAgent(s) \/ JobAttaches(s)
      PROVE  UsersCounted'
  <2>1. JoinedAt(s) \in SUBSET Holders /\ WaitingAt(s) \cup JoinedAt(s) \in SUBSET Holders
    BY <1>0 DEF JoinedAt, WaitingAt
  <2>. QED  BY <1>6, <2>1, JobEndsUsers DEF JobFailed, JobFindsAgent, JobAttaches, JobEnds, Rest
<1>7. ASSUME NEW S \in SUBSET Sessions, Closes(S) PROVE UsersCounted'
  <2>1. users' = users /\ CloseAgents(S)
    BY <1>7 DEF Closes, SweepReleases, CommandReleases, HandoffCloses, Shut, heldVars
  <2>2. \A s \in Sessions : InUse(s)' = InUse(s)  BY <2>1 DEF CloseAgents, InUse
  <2>3. lease' = lease \/ TakesFromLeases(S)
    BY <1>7 DEF Closes, SweepReleases, CommandReleases, HandoffCloses, Shut, heldVars
  <2>4. ASSUME NEW u \in Holders PROVE lease'[u].kept = lease[u].kept
    <3>1. CASE TakesFromLeases(S)
      <4>1. PICK i \in BOOLEAN : lease'[u] = [lease[u] EXCEPT !.intact = i]
        BY <1>0, <3>1, TakenKeeps
      <4>. QED  BY <1>0, <4>1 DEF OtherTypes, LeaseRecords
    <3>. QED  BY <2>3, <3>1
  <2>. QED  BY <2>1, <2>2, <2>4, SameKeepers DEF Uses
<1>8. UsersCounted'
  BY StepKinds, <1>1, <1>2, <1>3, <1>4, <1>5, <1>6, <1>7
<1>9. ASSUME NEW s \in Sessions PROVE users'[s] \in Nat
  <2>1. Keepers(s)' \in SUBSET Holders  BY DEF Keepers, Holders
  <2>2. InUse(s)' \in Nat  BY DEF InUse
  <2>3. users'[s] = Cardinality(Keepers(s)') + InUse(s)'  BY <1>8 DEF UsersCounted
  <2>. QED  BY <2>1, <2>2, <2>3, KeepersFinite
<1>10. users' = [s \in Sessions |-> users'[s]]
  <2>1. users = [s \in Sessions |-> users[s]]  BY DEF Together
  <2>2. \A L : UnusedBy(L) = [s \in Sessions |-> UnusedBy(L)[s]]  BY DEF UnusedBy
  <2>3. \A L : UsedBy(L) = [s \in Sessions |-> UsedBy(L)[s]]  BY DEF UsedBy
  <2>4. Uses => users' = [s \in Sessions |-> users'[s]]  BY <2>1 DEF Uses
  <2>5. \/ Uses \/ users' = users
        \/ \E L : users' = UnusedBy(L) \/ users' = UsedBy(L)
    BY StepKinds DEF GivesBack, AcquireProjects, Leases, Acquires, JobMoved, JobFailed, JobFindsAgent,
       JobAttaches, JobEnds, EndsJob, Closes, Attach, SweepReleases, CommandReleases, HandoffCloses, Shut, heldVars
  <2>. QED  BY <2>1, <2>2, <2>3, <2>4, <2>5
<1>. QED  BY <1>8, <1>9, <1>10
-----------------------------------------------------------------------------
\* What a step may do to the identities: at most one session, x, gets another.
Others(x) == \A s \in Sessions \ {x} : binding'[s] = binding[s] /\ job'[s].agent = job[s].agent
IdentityStep(x) ==
    \/ binding'[x] = binding[x] /\ job'[x].agent = job[x].agent
    \/ binding'[x] = binding[x] /\ job'[x].agent = NoAgent
    \/ binding'[x] = binding[x] /\ job'[x].agent = binding[x] /\ Bound(x)
    \/ binding'[x] = binding[x] /\ job'[x].agent # NoAgent /\ ~Taken(job'[x].agent) /\ ~Bound(x)
    \/ binding'[x] = job[x].agent /\ job'[x].agent = NoAgent /\ job[x].agent # NoAgent

LEMMA IdentitySteps ==
    ASSUME Together, AttachmentNext
    PROVE  \/ \A s \in Sessions : binding'[s] = binding[s] /\ job'[s].agent = job[s].agent
           \/ \E x \in Sessions : Others(x) /\ IdentityStep(x)
<1>. DEFINE Same == \A s \in Sessions : binding'[s] = binding[s] /\ job'[s].agent = job[s].agent
            Goal == Same \/ \E x \in Sessions : Others(x) /\ IdentityStep(x)
<1>0. /\ DOMAIN job = Sessions /\ DOMAIN binding = Sessions /\ NoAgent \notin Agents
      /\ \A s \in Sessions : job[s] \in JobRecords
  BY AttachmentAssumption DEF Together, OtherTypes, AttachmentAssumption
<1>a. ASSUME UNCHANGED <<binding, job>> PROVE Same  BY <1>a
<1>b. ASSUME NEW x \in Sessions, NEW stage, UNCHANGED binding, job' = [job EXCEPT ![x].stage = stage]
      PROVE  Same
  BY <1>0, <1>b DEF JobRecords
<1>c. ASSUME NEW x \in Sessions, NEW j, UNCHANGED binding, job' = [job EXCEPT ![x] = j]
      PROVE  Others(x) /\ binding'[x] = binding[x] /\ job'[x] = j
  BY <1>0, <1>c DEF Others
<1>1. ASSUME Aside \/ \E L \in SUBSET Holders : GivesBack(L) PROVE Goal
  BY <1>1, <1>a DEF Aside, GivesBack, Rest
<1>2. ASSUME NEW u \in Holders, AcquireProjects(u) PROVE Goal
  <2>1. At(u) \in Sessions /\ Bound(At(u))
    <3>1. OtherTypes /\ LeaseShape /\ lease[u].stage = "wait"
      BY <1>2 DEF AcquireProjects, Together
    <3>2. At(u) \in Sessions /\ At(u) \in lease[u].left  BY <3>1, AtLeft
    <3>. QED  BY <3>1, <3>2 DEF LeaseShape
  <2>2. CASE job' = [job EXCEPT ![At(u)] = [stage |-> "waiting", agent |-> binding[At(u)]]]
    <3>1. /\ Others(At(u)) /\ binding'[At(u)] = binding[At(u)]
          /\ job'[At(u)] = [stage |-> "waiting", agent |-> binding[At(u)]]
      BY <1>c, <1>2, <2>1, <2>2 DEF AcquireProjects
    <3>. QED  BY <2>1, <3>1 DEF IdentityStep
  <2>3. CASE job' = job
    BY <1>a, <1>2, <2>3 DEF AcquireProjects
  <2>. QED  BY <1>2, <2>2, <2>3 DEF AcquireProjects
<1>3. ASSUME NEW u \in Holders, NEW x \in Sessions, Leases(u, x) PROVE Goal
  BY <1>3, <1>a, <1>b DEF Leases, Rest
<1>4. ASSUME NEW x \in Sessions, JobMoved(x) PROVE Goal
  BY <1>4, <1>b DEF JobMoved, Rest
<1>5. ASSUME NEW x \in Sessions, NEW a \in Agents, Attach(x, a) PROVE Goal
  <2>1. CASE Bound(x) /\ job' = [job EXCEPT ![x] = [stage |-> "waiting", agent |-> binding[x]]]
    <3>1. /\ Others(x) /\ binding'[x] = binding[x]
          /\ job'[x] = [stage |-> "waiting", agent |-> binding[x]]
      BY <1>c, <1>5, <2>1 DEF Attach
    <3>. QED  BY <2>1, <3>1 DEF IdentityStep
  <2>2. CASE ~Bound(x) /\ ~Taken(a) /\ job' = [job EXCEPT ![x] = [stage |-> "parent", agent |-> a]]
    <3>1. Others(x) /\ binding'[x] = binding[x] /\ job'[x] = [stage |-> "parent", agent |-> a]
      BY <1>c, <1>5, <2>2 DEF Attach
    <3>2. job'[x].agent = a /\ a # NoAgent  BY <1>0, <3>1
    <3>. QED  BY <2>2, <3>1, <3>2 DEF IdentityStep
  <2>. QED  BY <1>5, <2>1, <2>2 DEF Attach
<1>6. ASSUME NEW x \in Sessions, JobFailed(x) \/ JobFindsAgent(x) PROVE Goal
  <2>1. Others(x) /\ binding'[x] = binding[x] /\ job'[x] = NoJob
    BY <1>c, <1>6 DEF JobFailed, JobFindsAgent, JobEnds, EndsJob, Rest
  <2>. QED  BY <2>1, Nobody DEF IdentityStep
<1>7. ASSUME NEW x \in Sessions, JobAttaches(x) PROVE Goal
  <2>1. job[x].agent # NoAgent  BY <1>7 DEF JobAttaches, Together, JobShape
  <2>2. Others(x) /\ binding'[x] = job[x].agent /\ job'[x] = NoJob
    BY <1>0, <1>7 DEF JobAttaches, JobEnds, EndsJob, Others
  <2>. QED  BY <2>1, <2>2, Nobody DEF IdentityStep
<1>8. ASSUME NEW S \in SUBSET Sessions, Closes(S) PROVE Goal
  BY <1>8, <1>a DEF Closes, SweepReleases, CommandReleases, HandoffCloses, Shut
<1>. QED  BY StepKinds, <1>1, <1>2, <1>3, <1>4, <1>5, <1>6, <1>7, <1>8

\* Nobody takes the identity of a session.
LEMMA OneIdentityKept ==
    ASSUME Together, AttachmentNext
    PROVE  OneIdentity'
<1>0. \A s \in Sessions : job'[s].stage = "none" <=> job'[s].agent = NoAgent
  BY JobShapeKept DEF JobShape
<1>1. \A s, x \in Sessions : s # x =>
        /\ binding[s] # NoAgent => binding[s] # binding[x] /\ binding[s] # job[x].agent
        /\ job[s].agent # NoAgent => job[s].agent # job[x].agent
  BY DEF Together, OneIdentity, JobShape, Bound
<1>2. SUFFICES ASSUME NEW s \in Sessions, NEW x \in Sessions, s # x
               PROVE  /\ binding'[s] # NoAgent =>
                            binding'[s] # binding'[x] /\ binding'[s] # job'[x].agent
                      /\ job'[s].agent # NoAgent => job'[s].agent # job'[x].agent
  BY <1>0, <1>2 DEF OneIdentity, Bound
<1>3. CASE binding'[s] = binding[s] /\ job'[s].agent = job[s].agent
           /\ binding'[x] = binding[x] /\ job'[x].agent = job[x].agent
  BY <1>1, <1>2, <1>3
<1>4. ASSUME Others(s), IdentityStep(s)
      PROVE  /\ binding'[s] # NoAgent => binding'[s] # binding'[x] /\ binding'[s] # job'[x].agent
             /\ job'[s].agent # NoAgent => job'[s].agent # job'[x].agent
  <2>1. binding'[x] = binding[x] /\ job'[x].agent = job[x].agent  BY <1>2, <1>4 DEF Others
  <2>. QED  BY <1>1, <1>2, <1>4, <2>1 DEF IdentityStep, Taken, Bound
<1>5. ASSUME Others(x), IdentityStep(x)
      PROVE  /\ binding'[s] # NoAgent => binding'[s] # binding'[x] /\ binding'[s] # job'[x].agent
             /\ job'[s].agent # NoAgent => job'[s].agent # job'[x].agent
  <2>1. binding'[s] = binding[s] /\ job'[s].agent = job[s].agent  BY <1>2, <1>5 DEF Others
  <2>. QED  BY <1>1, <1>2, <1>5, <2>1 DEF IdentityStep, Taken, Bound
<1>6. ASSUME NEW y \in Sessions, Others(y), y # s, y # x
      PROVE  /\ binding'[s] = binding[s] /\ job'[s].agent = job[s].agent
             /\ binding'[x] = binding[x] /\ job'[x].agent = job[x].agent
  BY <1>6 DEF Others
<1>. QED  BY IdentitySteps, <1>3, <1>4, <1>5, <1>6
-----------------------------------------------------------------------------
\* Who has no users is in no lease.
LEMMA Unused ==
    ASSUME Together, NEW s \in Sessions, users[s] = 0, NEW u \in Holders
    PROVE  s \notin lease[u].kept
<1>1. Keepers(s) \in SUBSET Holders  BY DEF Keepers
<1>2. IsFiniteSet(Keepers(s)) /\ Cardinality(Keepers(s)) \in Nat  BY <1>1, KeepersFinite
<1>3. users[s] = Cardinality(Keepers(s)) + InUse(s) /\ InUse(s) \in Nat
  BY DEF Together, UsersCounted, InUse
<1>4. Cardinality(Keepers(s)) = 0  BY <1>2, <1>3
<1>5. Keepers(s) = {}  BY <1>2, <1>4, FS_EmptySet
<1>. QED  BY <1>5 DEF Keepers

\* Agents are closed by Closes only.
LEMMA LiveStays ==
    ASSUME Together, AttachmentNext
    PROVE  live \subseteq live' \/ \E S \in SUBSET Sessions : Closes(S)
  BY StepKinds DEF Aside, GivesBack, AcquireProjects, Leases, JobMoved, JobFailed, JobFindsAgent,
     JobAttaches, Attach, Rest

\* No step takes an agent from a lease that is intact after it.
LEMMA KeptAttached ==
    ASSUME Together, AttachmentNext, NEW u \in Holders, lease'[u].intact
    PROVE  (lease[u].kept \ lease[u].left) \cap live \subseteq live'
<1>0. OtherTypes /\ lease[u] \in LeaseRecords  BY DEF Together, OtherTypes
<1>1. ASSUME NEW s \in Sessions, SweepReleases(s) \/ CommandReleases(s)
      PROVE  (lease[u].kept \ lease[u].left) \cap live \subseteq live'
  <2>1. users[s] = 0 /\ live' = live \ {s}
    BY <1>1 DEF SweepReleases, CommandReleases, Swept, CloseAgents
  <2>2. s \notin lease[u].kept  BY <2>1, Unused
  <2>. QED  BY <2>1, <2>2
<1>2. ASSUME NEW S, TakesFromLeases(S), CloseAgents(S)
      PROVE  (lease[u].kept \ lease[u].left) \cap live \subseteq live'
  <2>1. PICK i \in BOOLEAN :
              /\ lease'[u] = [lease[u] EXCEPT !.intact = i]
              /\ i <=> lease[u].intact /\ (lease[u].kept \ lease[u].left) \cap S \cap live = {}
    BY <1>0, <1>2, TakenKeeps
  <2>2. lease'[u].intact = i  BY <1>0, <2>1 DEF LeaseRecords
  <2>3. (lease[u].kept \ lease[u].left) \cap S \cap live = {}  BY <2>1, <2>2
  <2>. QED  BY <1>2, <2>3 DEF CloseAgents
<1>3. ASSUME NEW S \in SUBSET Sessions, Closes(S)
      PROVE  (lease[u].kept \ lease[u].left) \cap live \subseteq live'
  BY <1>1, <1>2, <1>3 DEF Closes, HandoffCloses, Shut
<1>. QED  BY <1>3, LiveStays

LEMMA LeaseServedKept ==
    ASSUME Together, AttachmentNext
    PROVE  LeaseServed'
<1>0. OtherTypes /\ DOMAIN lease = Holders /\ DOMAIN lease' = Holders
  BY TypesKept DEF Together, OtherTypes, Holders
<1>1. SUFFICES ASSUME NEW u \in Holders, lease'[u].stage # "none", lease'[u].intact
               PROVE  lease'[u].kept \ lease'[u].left \subseteq live'
  BY <1>0, <1>1 DEF LeaseServed
<1>2. lease[u] \in LeaseRecords  BY <1>0 DEF OtherTypes
<1>3. lease[u].stage # "none" /\ lease[u].intact => lease[u].kept \ lease[u].left \subseteq live
  BY <1>0 DEF Together, LeaseServed
<1>4. (lease[u].kept \ lease[u].left) \cap live \subseteq live'  BY <1>1, KeptAttached
<1>5. CASE lease'[u] = lease[u]
  BY <1>1, <1>3, <1>4, <1>5
<1>6. CASE lease'[u] = NoLease \/ lease'[u] = Failed(u)
  BY <1>6, Nobody
<1>7. ASSUME NEW s \in Sessions, lease'[u] =
                 [stage |-> "wait", kept |-> Kept(s), left |-> Kept(s), intact |-> TRUE]
      PROVE  lease'[u].kept \ lease'[u].left = {}
  BY <1>7
<1>8. ASSUME lease[u].stage = "wait", lease'[u] = [lease[u] EXCEPT !.stage = "join"]
      PROVE  lease'[u].kept \ lease'[u].left \subseteq live'
  BY <1>1, <1>2, <1>3, <1>4, <1>8 DEF LeaseRecords
<1>9. ASSUME NEW s \in live', lease[u].stage = "join", lease'[u] = [lease[u] EXCEPT
                 !.left = lease[u].left \ {s},
                 !.stage = IF lease[u].left \ {s} = {} THEN "held" ELSE "wait"]
      PROVE  lease'[u].kept \ lease'[u].left \subseteq live'
  <2>1. /\ lease'[u].kept = lease[u].kept /\ lease'[u].left = lease[u].left \ {s}
        /\ lease'[u].intact = lease[u].intact
    BY <1>2, <1>9 DEF LeaseRecords
  <2>. QED  BY <1>1, <1>3, <1>4, <1>9, <2>1
<1>10. ASSUME NEW i \in BOOLEAN, lease'[u] = [lease[u] EXCEPT !.intact = i],
              i <=> lease[u].intact /\ (lease[u].kept \ lease[u].left) \cap live \subseteq live'
       PROVE  lease'[u].kept \ lease'[u].left \subseteq live'
  <2>1. /\ lease'[u].kept = lease[u].kept /\ lease'[u].left = lease[u].left
        /\ lease'[u].stage = lease[u].stage /\ lease'[u].intact = i
    BY <1>2, <1>10 DEF LeaseRecords
  <2>. QED  BY <1>1, <1>3, <1>4, <1>10, <2>1
<1>. QED  BY LeaseSteps, <1>5, <1>6, <1>7, <1>8, <1>9, <1>10 DEF LeaseStep

\* A parent that a child still needs is closed by nothing that does not tell the child.
LEMMA FamilyTogetherKept ==
    ASSUME Together, AttachmentNext
    PROVE  FamilyTogether'
<1>0. /\ live \subseteq Sessions /\ severed \subseteq live /\ \A x \in live : Bound(x)
      /\ \A x \in live \ severed : Parent[x] # NoSession /\ Bound(Parent[x]) => Parent[x] \in live
      /\ \A x \in live : Parent[x] # NoSession => Parent[x] \in Sessions /\ Bound(Parent[x])
  BY AttachmentAssumption DEF Together, OtherTypes, JobShape, FamilyTogether, AttachmentAssumption
<1>1. SUFFICES ASSUME NEW x \in live' \ severed', Parent[x] # NoSession
               PROVE  Parent[x] \in live'
  BY <1>1 DEF FamilyTogether
<1>2. CASE UNCHANGED <<live, severed>>
  BY <1>0, <1>1, <1>2
<1>3. ASSUME NEW s \in Sessions, JobAttaches(s) PROVE Parent[x] \in live'
  <2>1. live' = live \cup {s}  BY <1>3 DEF JobAttaches
  <2>2. CASE x = s
    <3>1. lease[s].intact  BY <1>1, <1>3, <2>2 DEF JobAttaches
    <3>2. /\ lease[s].stage = "held" /\ Parent[s] \in lease[s].kept /\ lease[s].left = {}
          /\ s \in DOMAIN lease
      BY <1>1, <1>3, <2>2 DEF JobAttaches, Together, JobShape, LeaseShape, Holders, OtherTypes
    <3>3. lease[s].kept \ lease[s].left \subseteq live
      BY <3>1, <3>2 DEF Together, LeaseServed
    <3>. QED  BY <2>1, <2>2, <3>2, <3>3
  <2>3. CASE x # s
    <3>1. x \in live \ severed  BY <1>1, <1>3, <2>1, <2>3 DEF JobAttaches
    <3>. QED  BY <1>0, <1>1, <2>1, <3>1
  <2>. QED  BY <2>2, <2>3
<1>4. ASSUME NEW s \in Sessions, SweepReleases(s) PROVE Parent[x] \in live'
  <2>1. live' = live \ {s} /\ severed' = severed /\ ~ChildNeeds(s)
    BY <1>4 DEF SweepReleases, Safe, CloseAgents
  <2>2. x \in Sessions /\ x \in live \ severed /\ Bound(x)  BY <1>0, <1>1, <2>1
  <2>3. Parent[x] # s  BY <2>1, <2>2 DEF ChildNeeds, Children
  <2>. QED  BY <1>0, <1>1, <2>1, <2>2, <2>3
<1>5. ASSUME NEW S, CloseAgents(S), Severs(S) PROVE Parent[x] \in live'
  <2>1. live' = live \ S /\ severed' = (severed \cup {c \in live : Parent[c] \in S \cap live}) \ S
    BY <1>5 DEF CloseAgents, Severs
  <2>. QED  BY <1>0, <1>1, <2>1
<1>6. ASSUME NEW S \in SUBSET Sessions, Closes(S) PROVE Parent[x] \in live'
  BY <1>4, <1>5, <1>6 DEF Closes, CommandReleases, HandoffCloses, Shut
<1>. QED  BY StepKinds, <1>2, <1>3, <1>6 DEF Aside, GivesBack, AcquireProjects, Leases, JobMoved,
          JobFailed, JobFindsAgent, Attach, Rest

LEMMA OneGenerationKept ==
    ASSUME Together, AttachmentNext
    PROVE  OneGeneration'
<1>0. /\ releasing \subseteq Sessions /\ \A s \in releasing : Bound(s)
      /\ \A s \in releasing : s \notin live /\ job[s].stage \in {"none", "waiting"}
      /\ \A s \in Sessions : job[s] \in JobRecords
  BY DEF Together, OtherTypes, JobShape, OneGeneration
<1>1. ASSUME NEW s \in releasing PROVE job'[s].stage \in {"none", "waiting"}
  <2>1. JobStep(s)  BY <1>0, JobSteps
  <2>2. Bound(s) /\ job[s].stage \in {"none", "waiting"}  BY <1>0
  <2>3. \/ job'[s] = job[s] \/ job'[s] = NoJob
        \/ job'[s] = [stage |-> "waiting", agent |-> binding[s]]
    BY <2>1, <2>2 DEF JobStep
  <2>. QED  BY <2>2, <2>3, Nobody
<1>2. ASSUME NEW s \in Sessions, SweepReleases(s) PROVE OneGeneration'
  BY <1>0, <1>2 DEF SweepReleases, Safe, CloseAgents, OneGeneration
<1>3. ASSUME live' \subseteq live, releasing' \subseteq releasing PROVE OneGeneration'
  BY <1>0, <1>1, <1>3 DEF OneGeneration
<1>4. ASSUME NEW s \in Sessions, JobAttaches(s) PROVE OneGeneration'
  <2>1. s \notin releasing  BY <1>0, <1>4 DEF JobAttaches
  <2>. QED  BY <1>0, <1>1, <1>4, <2>1 DEF JobAttaches, OneGeneration, idleVars
<1>5. ASSUME NEW S \in SUBSET Sessions, Closes(S) PROVE OneGeneration'
  BY <1>2, <1>3, <1>5 DEF Closes, CommandReleases, HandoffCloses, Shut, CloseAgents, idleVars
<1>. QED  BY StepKinds, <1>3, <1>4, <1>5 DEF Aside, GivesBack, AcquireProjects, Leases, JobMoved,
          JobFailed, JobFindsAgent, Attach, Rest, idleVars

LEMMA NothingLeftOpenKept ==
    ASSUME Together, AttachmentNext
    PROVE  NothingLeftOpen'
<1>0. (host = "shut" => live = {}) /\ live \subseteq Sessions
  BY DEF Together, NothingLeftOpen, OtherTypes
<1>1. ASSUME live' \subseteq live, host' = host \/ host' = "closing" PROVE NothingLeftOpen'
  BY <1>0, <1>1 DEF NothingLeftOpen
<1>2. ASSUME NEW s \in Sessions, JobAttaches(s) PROVE NothingLeftOpen'
  BY <1>2 DEF JobAttaches, NothingLeftOpen
<1>3. CASE Shut
  BY <1>0, <1>3 DEF Shut, CloseAgents, NothingLeftOpen
<1>4. ASSUME NEW S \in SUBSET Sessions, Closes(S) PROVE NothingLeftOpen'
  BY <1>1, <1>3, <1>4 DEF Closes, SweepReleases, CommandReleases, HandoffCloses, CloseAgents,
     hostVars, hostState
<1>. QED  BY StepKinds, <1>1, <1>2, <1>4 DEF Aside, GivesBack, AcquireProjects, Leases, JobMoved,
          JobFailed, JobFindsAgent, Attach, Rest, hostVars, hostState
-----------------------------------------------------------------------------
\* An unknown outcome overtakes the check under way: what the check confirms was
\* known when it began.
LEMMA DoubtKept ==
    ASSUME DoubtProtected, DoubtCovered, OtherTypes, [AttachmentNext]_attachmentVars
    PROVE  DoubtProtected' /\ DoubtCovered'
<1>. USE DEF DoubtProtected, DoubtCovered, heldVars, idleVars
<1>0. check \in CheckRecords  BY DEF OtherTypes
<1>a. ASSUME NEW S PROVE Reset(S).current => Reset(S).covers /\ check.current
                         /\ Reset(S).of = check.of /\ Reset(S).of \notin S
  BY <1>0 DEF Reset, CheckRecords
<1>1. CASE UNCHANGED <<uncertain, doubt, check>>
  BY <1>1
<1>2. ASSUME NEW S, check' = Reset(S), UNCHANGED <<uncertain, doubt>>
      PROVE  DoubtProtected' /\ DoubtCovered'
  BY <1>2, <1>a
<1>3. ASSUME NEW s \in Sessions, NEW unknown \in BOOLEAN, OperationEnds(s, unknown)
      PROVE  DoubtProtected' /\ DoubtCovered'
  <2>. DEFINE doubtful == unknown /\ operation[s] = "running"
              covers == Reset({s}).covers /\ ~(doubtful /\ check.of = s)
  <2>1. check' = [Reset({s}) EXCEPT !.covers = covers]  BY <1>3 DEF OperationEnds
  <2>2. Reset({s}) \in CheckRecords  BY <1>0, ResetTyped
  <2>3. check'.current = Reset({s}).current /\ check'.covers = covers
    BY <2>1, <2>2 DEF CheckRecords
  <2>4. DoubtCovered'  BY <1>a, <2>3
  <2>5. DoubtProtected'  BY <1>3 DEF OperationEnds
  <2>. QED  BY <2>4, <2>5
<1>4. ASSUME NEW s \in Sessions, CheckStarts(s) PROVE DoubtProtected' /\ DoubtCovered'
  BY <1>4 DEF CheckStarts
<1>5. ASSUME NEW s \in Sessions, CheckConfirms(s) PROVE DoubtProtected' /\ DoubtCovered'
  BY <1>5 DEF CheckConfirms, CheckCurrent, NoCheck
<1>6. ASSUME NEW s \in Sessions, CheckFails(s) PROVE DoubtProtected' /\ DoubtCovered'
  BY <1>6 DEF CheckFails, NoCheck
<1>7. ASSUME NEW s \in Sessions, NEW joined, NEW ok \in BOOLEAN, EndsJob(s, joined, ok),
             UNCHANGED <<uncertain, doubt>>
      PROVE  DoubtProtected' /\ DoubtCovered'
  BY <1>2, <1>7 DEF EndsJob
<1>8. ASSUME NEW u \in Holders, NEW s \in Sessions, \/ AcquireSession(u, s) \/ BeginOperation(u, s)
      PROVE  DoubtProtected' /\ DoubtCovered'
  BY <1>2, <1>8 DEF AcquireSession, Acquires, BeginOperation
<1>9. ASSUME NEW u \in Holders, ReleaseLease(u) \/ AcquireProjects(u) \/ AcquireRefused(u)
      PROVE  DoubtProtected' /\ DoubtCovered'
  BY <1>1, <1>2, <1>9 DEF ReleaseLease, AcquireProjects, AcquireRefused
<1>10. ASSUME NEW s \in Sessions, JobGoes(s) \/ JobMeetsFailure(s) \/ ReleaseFailsJob(s)
       PROVE  DoubtProtected' /\ DoubtCovered'
  <2>1. CASE JobReattaches(s) \/ JobHoldsParent(s)
    BY <1>1, <2>1 DEF JobReattaches, JobHoldsParent
  <2>2. CASE JobFindsAgent(s) \/ JobAttaches(s) \/ ReleaseFailsJob(s)
    BY <1>7, <2>2 DEF JobFindsAgent, JobAttaches, JobEnds, ReleaseFailsJob
  <2>3. ASSUME JobFails(s) PROVE DoubtProtected' /\ DoubtCovered'
    BY <1>7, <2>3 DEF JobFails, JobEnds
  <2>4. CASE JobLeasesParent(s)
    BY <1>1, <1>2, <2>3, <2>4 DEF JobLeasesParent, Acquires
  <2>5. CASE JobOpens(s)
    BY <1>1, <2>3, <2>5 DEF JobOpens
  <2>. QED  BY <1>10, <2>1, <2>2, <2>3, <2>4, <2>5
       DEF JobGoes, JobLosesParent, JobFindsShut, JobMeetsFailure
<1>11. ASSUME NEW s \in Sessions, ReleaseFails(s) PROVE DoubtProtected' /\ DoubtCovered'
  BY <1>2, <1>11 DEF ReleaseFails
<1>12. ASSUME NEW s \in Sessions, \/ ReleaseEnds(s) \/ SweepReleases(s) \/ CommandReleases(s)
                                  \/ Handoff(s) \/ HandoffCloses(s) \/ \E a \in Agents : Attach(s, a)
       PROVE  DoubtProtected' /\ DoubtCovered'
  BY <1>1, <1>12 DEF ReleaseEnds, SweepReleases, CommandReleases, Handoff, HandoffCloses, Attach
<1>13. CASE HandoffGoesOn \/ BeginShutdown \/ Shut \/ UNCHANGED attachmentVars
  BY <1>1, <1>13 DEF HandoffGoesOn, BeginShutdown, Shut, attachmentVars
<1>14. ASSUME NEW value \in BOOLEAN, SetConnected(value) PROVE DoubtProtected' /\ DoubtCovered'
  BY <1>2, <1>14 DEF SetConnected
<1>. QED
  BY <1>3, <1>4, <1>5, <1>6, <1>8, <1>9, <1>10, <1>11, <1>12, <1>13, <1>14
  DEF AttachmentNext, AcquireGoes, Holders

-----------------------------------------------------------------------------
LEMMA TogetherInit == AttachmentInit => Together
<1>. SUFFICES ASSUME AttachmentInit PROVE Together
  OBVIOUS
<1>. USE DEF AttachmentInit
<1>1. OtherTypes
  BY Nobody, AttachmentAssumption DEF OtherTypes, AttachmentAssumption, Holders
<1>2. LeaseShape /\ JobShape
  BY Nobody DEF LeaseShape, JobShape, Holders, Bound
<1>3. UsersCounted
  <2>1. \A s \in Sessions : Keepers(s) = {}  BY Nobody DEF Keepers, Holders
  <2>. QED  BY <2>1, FS_EmptySet DEF UsersCounted, InUse
<1>4. OneIdentity /\ LeaseServed /\ FamilyTogether /\ OneGeneration /\ NothingLeftOpen
  BY Nobody DEF OneIdentity, LeaseServed, FamilyTogether, OneGeneration, NothingLeftOpen, Bound
<1>5. DoubtProtected /\ DoubtCovered
  BY DEF DoubtProtected, DoubtCovered, NoCheck
<1>. QED  BY <1>1, <1>2, <1>3, <1>4, <1>5 DEF Together

LEMMA TogetherKept == Together /\ [AttachmentNext]_attachmentVars => Together'
<1>. SUFFICES ASSUME Together, [AttachmentNext]_attachmentVars PROVE Together'
  OBVIOUS
<1>1. CASE AttachmentNext
  <2>1. OtherTypes'  BY <1>1, TypesKept DEF Together
  <2>2. DoubtProtected' /\ DoubtCovered'  BY DoubtKept DEF Together
  <2>. QED  BY <1>1, <2>1, <2>2, LeaseShapeKept, JobShapeKept, UsersCountedKept, OneIdentityKept,
            LeaseServedKept, FamilyTogetherKept, OneGenerationKept, NothingLeftOpenKept
       DEF Together
<1>2. CASE UNCHANGED attachmentVars
  BY <1>2 DEF Together, OtherTypes, LeaseShape, JobShape, UsersCounted, Keepers, InUse, OneIdentity,
     LeaseServed, FamilyTogether, OneGeneration, NothingLeftOpen, DoubtProtected, DoubtCovered, Bound,
     attachmentVars, heldVars, idleVars, hostVars, hostState
<1>. QED  BY <1>1, <1>2

\* Every session is published under one identity of its own; a lease keeps what it
\* has attached; a child's parent stays; nothing is attached during its detachment
\* or after the end.
THEOREM AttachmentSafe == AttachmentSpec => []AttachmentInv
<1>1. Together => AttachmentInv
  BY DEF Together, AttachmentInv, AttachmentTypeOK, OtherTypes, JobRecords, LeaseRecords, CheckRecords,
     Holders
<1>. QED  BY <1>1, TogetherInit, TogetherKept, PTL DEF AttachmentSpec

\* A session with an unknown outcome is protected until a later check confirms it.
THEOREM UnknownOutcomeProtects == AttachmentSpec => []DoubtProtected
<1>1. Together => DoubtProtected  BY DEF Together
<1>. QED  BY <1>1, TogetherInit, TogetherKept, PTL DEF AttachmentSpec

\* The users an idle entry counts are the leases that keep the session and its
\* operation: none is released twice, none is lost.
THEOREM UsersAccounted == AttachmentSpec => []UsersCounted
<1>1. Together => UsersCounted  BY DEF Together
<1>. QED  BY <1>1, TogetherInit, TogetherKept, PTL DEF AttachmentSpec
=============================================================================
