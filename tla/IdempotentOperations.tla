------------------------ MODULE IdempotentOperations ------------------------
(***************************************************************************)
(* What a caller of the operation cache may rely on, without the cache's   *)
(* limits, evidence handles or bookkeeping: an identity names one intent,  *)
(* is carried out at most once while it is remembered, is remembered for   *)
(* at least Ttl after it settled, and everybody who asks hears the same    *)
(* true verdict.                                                           *)
(***************************************************************************)
EXTENDS Integers

CONSTANTS Keys, Intents, None, Ttl

VARIABLES
    status,   \* "absent" is forgotten
    intent,
    native,   \* the fate of the native call: "idle", "called", "applied"
    calls,    \* native calls since the identity was fresh
    quiet,    \* ticks since it settled
    answers,  \* verdicts told since it was fresh
    retired   \* the service has closed

vars == <<status, intent, native, calls, quiet, answers, retired>>

Verdicts == {"completed", "rejected", "unknown"}
Open == {"validating", "dispatching"}

Init ==
    /\ status = [k \in Keys |-> "absent"]
    /\ intent = [k \in Keys |-> None]
    /\ native = [k \in Keys |-> "idle"]
    /\ calls = [k \in Keys |-> 0]
    /\ quiet = [k \in Keys |-> Ttl]
    /\ answers = [k \in Keys |-> {}]
    /\ retired = FALSE

\* An identity may be forgotten once it has been settled for Ttl.
Forgettable == {k \in Keys : status[k] \in Verdicts /\ quiet[k] = Ttl}
Forget(gone) ==
    /\ status' = [k \in Keys |-> IF k \in gone THEN "absent" ELSE status[k]]
    /\ intent' = [k \in Keys |-> IF k \in gone THEN None ELSE intent[k]]

Age ==
    /\ \E older \in SUBSET {k \in Keys : status[k] \notin Open /\ quiet[k] < Ttl} :
          quiet' = [k \in Keys |-> IF k \in older THEN quiet[k] + 1 ELSE quiet[k]]
    /\ UNCHANGED <<status, intent, native, calls, answers, retired>>

Lapse ==
    /\ \E gone \in SUBSET Forgettable : Forget(gone)
    /\ UNCHANGED <<native, calls, quiet, answers, retired>>

Accept(k, i) ==
    /\ ~retired
    /\ \E gone \in SUBSET Forgettable :
          /\ status[k] = "absent" \/ k \in gone
          /\ status' = [j \in Keys |-> IF j = k THEN "validating"
                                       ELSE IF j \in gone THEN "absent" ELSE status[j]]
          /\ intent' = [j \in Keys |-> IF j = k THEN i
                                       ELSE IF j \in gone THEN None ELSE intent[j]]
    /\ quiet[k] = Ttl
    /\ native' = [native EXCEPT ![k] = "idle"]
    /\ calls' = [calls EXCEPT ![k] = 0]
    /\ answers' = [answers EXCEPT ![k] = {}]
    /\ UNCHANGED <<quiet, retired>>

Call(k) ==
    /\ status[k] = "validating"
    /\ calls[k] = 0
    /\ status' = [status EXCEPT ![k] = "dispatching"]
    /\ calls' = [calls EXCEPT ![k] = 1]
    /\ native' = [native EXCEPT ![k] = "called"]
    /\ UNCHANGED <<intent, quiet, answers, retired>>

Apply(k) ==
    /\ native[k] = "called"
    /\ native' = [native EXCEPT ![k] = "applied"]
    /\ UNCHANGED <<status, intent, calls, quiet, answers, retired>>

\* A verdict is true: "rejected" of a call that cannot take effect, "completed"
\* of one that did; "unknown" may always be said of a call that was made.
Conclude(k, verdict) ==
    /\ status[k] \in Open
    /\ verdict = "completed" => status[k] = "dispatching" /\ native[k] = "applied"
    /\ verdict = "unknown" => status[k] = "dispatching"
    /\ verdict = "rejected" => native[k] # "applied"
    /\ native' = IF verdict = "rejected" THEN [native EXCEPT ![k] = "idle"] ELSE native
    /\ status' = [status EXCEPT ![k] = verdict]
    /\ answers' = [answers EXCEPT ![k] = @ \cup {<<intent[k], verdict>>}]
    /\ quiet' = [quiet EXCEPT ![k] = 0]
    /\ UNCHANGED <<intent, calls, retired>>

\* A retry hears the verdict that stands.
Answer(k) ==
    /\ status[k] \in Verdicts
    /\ \E gone \in SUBSET (Forgettable \ {k}) : Forget(gone)
    /\ answers' = [answers EXCEPT ![k] = @ \cup {<<intent[k], status[k]>>}]
    /\ UNCHANGED <<native, calls, quiet, retired>>

Retire ==
    /\ \A k \in Keys : status[k] \notin Open
    /\ Forget(Keys)
    /\ retired' = TRUE
    /\ UNCHANGED <<native, calls, quiet, answers>>

Next ==
    \/ Age \/ Lapse \/ Retire
    \/ \E k \in Keys : Call(k) \/ Apply(k) \/ Answer(k)
    \/ \E k \in Keys, i \in Intents : Accept(k, i)
    \/ \E k \in Keys, verdict \in Verdicts : Conclude(k, verdict)

Spec == Init /\ [][Next]_vars
=============================================================================
