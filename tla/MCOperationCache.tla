-------------------------- MODULE MCOperationCache --------------------------
(* Small instances of OperationCache.                                      *)
EXTENDS OperationCache, TLC

CONSTANTS k1, k2, k3, i1, i2, t1, h1, h2

\* Every intent touches the one target.
MCTargetsOf == [i \in Intents |-> Targets]

Symmetry == Permutations(HandleIds) \cup Permutations(Keys)

\* Conflicting intents and a third identity are of interest where nothing is
\* evidence; evidence, under two identities of one intent.
NoEvidence ==
    /\ \A h \in HandleIds : handles[h] = Unused
    /\ \A t \in Targets : enabledTargets[t] = 0
Known(k) == entries[k].state # "absent" \/ calls[k] > 0 \/ answers[k] # {}
OneIntent ==
    /\ \E k \in Keys : ~Known(k)
    /\ \A k \in Keys : entries[k].intent # i2 /\ answers[k] \subseteq {i1} \X Verdicts

OperationsNext == Next /\ (NoEvidence' \/ OneIntent')
OperationsSpec == Init /\ [][OperationsNext]_vars
=============================================================================
