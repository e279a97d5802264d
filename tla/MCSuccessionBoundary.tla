------------------------ MODULE MCSuccessionBoundary ------------------------
(* Small instances of SuccessionBoundary for TLC. *)
EXTENDS SuccessionBoundary

CONSTANTS m1, m2, h1, h2, s1, s2, s3, none

MCTwoMutations == {m1, m2}
MCOneMutation == {m1}
MCNoMutations == {}
MCOneHandoff == {h1}
MCTwoHandoffs == {h1, h2}
MCNoHandoffs == {}
MCOneSession == {s1}
MCTwoSessions == {s1, s2}
MCThreeSessions == {s1, s2, s3}

\* Two parts of one instance that is too large as a whole: two mutations, a
\* handoff and a crash; or one mutation, any handoffs, sessions and crashes.
MCHandoffs ==
    \/ phase[h2] = "idle" /\ s3 \notin {to[h] : h \in Handoffs} /\ restarts <= 1
    \/ stage[m1] = "idle"
=============================================================================
