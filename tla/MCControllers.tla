--------------------------- MODULE MCControllers ----------------------------
(* Small instances of three parts of Controllers that share no state: the  *)
(* ownership of a native session, the credentials for a hosted Relay and   *)
(* the delivery of Team messages.  A behavior runs one of them; the others *)
(* keep their initial state.                                               *)
EXTENDS NativeOwnership, DeviceCredentials, TeamDelivery, TLC

CONSTANTS g1, g2, g3, p1, p2, c1, c2, m1

VARIABLE part
controllersVars == <<part, ownershipVars, credentialVars, deliveryVars>>

\* Two attempts of one process and one of another.
MCProcessOf == (g1 :> p1) @@ (g2 :> p2) @@ (g3 :> p1)

\* A Controller with two connections at a time and one with a single one.
MCSockets == {<<c1, 1>>, <<c1, 2>>, <<c2, 1>>}

ControllersInit ==
    /\ part \in {"ownership", "credentials", "delivery"}
    /\ OwnershipInit /\ CredentialInit /\ DeliveryInit
    /\ part # "credentials" => recovered = {}

OwnershipRuns ==
    part = "ownership" /\ UNCHANGED <<part, credentialVars, deliveryVars>>
CredentialsRun ==
    part = "credentials" /\ UNCHANGED <<part, ownershipVars, deliveryVars>>
DeliveryRuns ==
    part = "delivery" /\ UNCHANGED <<part, ownershipVars, credentialVars>>

ControllersNext ==
    \/ OwnershipRuns /\ OwnershipNext
    \/ CredentialsRun /\ CredentialNext
    \/ DeliveryRuns /\ DeliveryNext

\* The fairness of OwnershipSpec, CredentialSpec and DeliverySpec, for
\* the part that runs.
OwnershipFairness == \A g \in Attempts : WF_ownershipVars(part = "ownership" /\ GoesOn(g))

CredentialFairness ==
    LET on == part = "credentials"
    IN  /\ WF_credentialVars(on /\ Serves)
        /\ \A k \in Controllers : WF_credentialVars(on /\ Continues(k))
        /\ \A c \in Sockets : WF_credentialVars(on /\ Proceeds(c))

DeliveryFairness ==
    LET on == part = "delivery"
    IN  /\ WF_deliveryVars(on /\ TickSteps) /\ SF_deliveryVars(on /\ ClaimNext)
        /\ WF_deliveryVars(on /\ RelayServes) /\ WF_deliveryVars(on /\ DiskWrites)
        /\ WF_deliveryVars(on /\ DispatchStep)

ControllersSpec ==
    /\ ControllersInit /\ [][ControllersNext]_controllersVars
    /\ OwnershipFairness /\ CredentialFairness /\ DeliveryFairness

\* Once the faults are over, every Controller is registered at the Relay or knows
\* that it is not authorized (Settles), where the credentials are what runs.
ControllersSettle == <>[](part = "credentials" => AllSettled)
=============================================================================
