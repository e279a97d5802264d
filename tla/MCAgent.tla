------------------------------ MODULE MCAgent -------------------------------
(* Small instances of three parts of an agent's life that share no state:  *)
(* the progress of the operation cache, the changes of settings and the    *)
(* attachment of its session.  A behavior runs one of them; the others     *)
(* keep their initial state.                                               *)
EXTENDS MCOperationCache, SettingChanges, SessionAttachments

CONSTANTS model, effort, u1, s1, s2, a1, a2

VARIABLE part
agentVars == <<part, vars, settingVars, attachmentVars>>

\* A native session and its child, whose attachment may be asked for under an
\* identity in use.
MCParent == (s1 :> NoSession) @@ (s2 :> s1)
MCAncestors == (s1 :> {}) @@ (s2 :> {s1})
MCProposals == {<<s1, a1>>, <<s2, a1>>, <<s2, a2>>}

AgentInit ==
    part \in {"cache", "settings", "attachments"} /\ Init /\ SettingInit /\ AttachmentInit

CacheStep == part = "cache" /\ Next /\ UNCHANGED <<part, settingVars, attachmentVars>>
SettingStep == part = "settings" /\ SettingNext /\ UNCHANGED <<part, vars, attachmentVars>>
AttachmentStep == part = "attachments" /\ AttachmentNext /\ UNCHANGED <<part, vars, settingVars>>

AgentNext == CacheStep \/ SettingStep \/ AttachmentStep

\* The fairness of FairSpec, SettingSpec and AttachmentSpec, for the part that runs.
CacheFairness ==
    LET on == part = "cache"
    IN  /\ WF_vars(on /\ Tick) /\ WF_vars(on /\ closing = "open" /\ Cleanup)
        /\ \A k \in Keys : WF_vars(on /\ RunOperation(k))
        /\ WF_vars(on /\ FinishClose)

SettingFairness == \A s \in Settings : WF_settingVars(part = "settings" /\ Expire(s))

\* Nothing can keep the check from the parent once neither session is needed: weak
\* fairness is enough for it.
AttachmentsFairness ==
    LET on == part = "attachments"
    IN  /\ \A u \in Clients : WF_attachmentVars(on /\ AcquireGoes(u))
        /\ \A s \in Sessions :
              /\ WF_attachmentVars(on /\ SessionGoes(s))
              /\ WF_attachmentVars(on /\ SweepReleases(s))
              /\ WF_attachmentVars(on /\ CheckConfirms(s))
        /\ WF_attachmentVars(on /\ CheckStarts(s1)) /\ SF_attachmentVars(on /\ CheckStarts(s2))

AgentSpec ==
    /\ AgentInit /\ [][AgentNext]_agentVars
    /\ CacheFairness /\ SettingFairness /\ AttachmentsFairness
=============================================================================
