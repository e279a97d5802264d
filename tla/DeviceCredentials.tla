-------------------------- MODULE DeviceCredentials --------------------------
(***************************************************************************)
(* How a Controller enrolls at a hosted Relay and keeps a credential to    *)
(* come back with: an invitation is exchanged for a device credential that *)
(* the Controller saves before it is put to use; the owner rotates or      *)
(* revokes it; connections, the Relay and the Controllers fail at any step.*)
(* From packages/agent-remote-hosted/src/broker.ts (register, receive,     *)
(* issueCredential, commit) and                                            *)
(* packages/agent-remote-relay/src/transport/remote-host-uplink-client.ts. *)
(*                                                                         *)
(* The Relay's credentials change in commits, one at a time: a commit is   *)
(* staged on a draft, stored, and then published.  Whatever is not a       *)
(* commit reads the published state, which is the stored one.              *)
(***************************************************************************)
EXTENDS Integers, Sequences

CONSTANTS
    Controllers,    \* installations, all given the same invitation
    Sockets,        \* connections that may coexist: pairs of Controller and number
    MaxKeys,        \* bound: device credentials that are ever issued
    MaxFaults,      \* bound: connections abandoned, failures of the Relay or its
                    \* store, restarts of Controllers and failed saves
    Revocable,      \* Controllers the owner may revoke
    Nothing, Nobody, Unheld

ASSUME CredentialAssumption ==
    /\ MaxFaults \in Nat /\ MaxKeys \in Nat \ {0}
    /\ \A c \in Sockets : Len(c) = 2 /\ c[1] \in Controllers
    /\ Revocable \subseteq Controllers
    /\ {Nobody, Unheld} \cap Controllers = {}
    /\ Nobody # Unheld
    /\ Nothing \notin Sockets /\ Nothing \notin 0..MaxKeys
    /\ Nothing \notin [key : 0..MaxKeys, conn : Sockets]
    /\ Nothing \notin [holder : [0..MaxKeys -> Controllers \cup {Nobody, Unheld}], claimed : BOOLEAN]

VARIABLES
    keys,           \* the Relay's credentials, as stored and published
    recovered,      \* installations that a recovery invitation re-enrolled
    revoked,        \* installations the owner asked to revoke
    fresh,          \* the next device credential
    relayUp,        \* the Relay serves, its store is known
    queue,          \* commits that wait, the first one perhaps staged
    staged,         \* the draft of the first commit while it is stored
    server,         \* the Relay's end of each connection
    hostSocket,     \* the connection that is the Host's
    client,         \* the Controller's end of each connection
    up, down,       \* what is on its way on each connection
    file,           \* the credential each Controller saved
    saving,         \* the offer it is saving, and the connection it came on
    refused,        \* why it stopped reconnecting
    faults          \* how many of them happened

relayVars == <<keys, revoked, fresh, relayUp, queue, staged>>
socketVars == <<server, hostSocket>>
wireVars == <<client, up, down>>
deviceVars == <<file, saving, refused>>
credentialVars ==
    <<relayVars, socketVars, wireVars, deviceVars, faults, recovered>>

SocketsOf(k) == {c \in Sockets : c[1] = k}
KeyIds == 0..MaxKeys
Invitation == 0

CredentialInit ==
    /\ recovered \in {{}} \cup {{k} : k \in Controllers}
    /\ \E who \in IF recovered = {} THEN {Nobody} ELSE recovered :
          keys = [holder |-> [j \in KeyIds |-> IF j = Invitation THEN who ELSE Unheld],
                  claimed |-> FALSE]
    /\ revoked = {} /\ fresh = 1
    /\ relayUp = TRUE /\ queue = <<>> /\ staged = Nothing
    /\ server = [c \in Sockets |-> [state |-> "none", key |-> Invitation, offer |-> Nothing]]
    /\ hostSocket = [k \in Controllers |-> Nothing]
    /\ client = [c \in Sockets |-> "gone"]
    /\ up = [c \in Sockets |-> <<>>] /\ down = [c \in Sockets |-> <<>>]
    /\ file = [k \in Controllers |-> Invitation]
    /\ saving = [k \in Controllers |-> Nothing]
    /\ refused = [k \in Controllers |-> "no"]
    /\ faults = 0

-----------------------------------------------------------------------------
(* What the Relay does to its credentials and connections.                 *)

Known(j) == keys.holder[j] # Unheld
\* A claimed invitation authorizes nothing any more.
Usable(j) == Known(j) /\ ~(j = Invitation /\ keys.claimed)
MayRegister(k, j) == Usable(j) /\ keys.holder[j] \in {Nobody, k}

Live(c) == server[c].state \notin {"none", "closed"}
\* Connection c still speaks for its Host with a credential that stands.
Current(c) == Live(c) /\ hostSocket[c[1]] = c /\ Known(server[c].key)

Close(ends, c) == [ends EXCEPT ![c].state = "closed", ![c].offer = Nothing]
\* Nothing reaches a Controller that left.
Frame(wires, c, f) == IF client[c] = "gone" THEN wires ELSE [wires EXCEPT ![c] = Append(@, f)]

\* Mutant: a registration leaves the installation's other credentials.
AllKeys(holder, k, j) == [holder EXCEPT ![j] = k]

\* Only the given credential of installation k is left.
OnlyKey(holder, k, j) ==
    [i \in KeyIds |-> IF i = j THEN k ELSE IF holder[i] = k THEN Unheld ELSE holder[i]]

\* "Reconnection proves possession of this key, not which overlapping recovery
\* key was saved": a recovered installation keeps them all.
RegisterDraft(k, j) ==
    [holder |-> IF j # Invitation /\ k \in recovered THEN keys.holder
                ELSE OnlyKey(keys.holder, k, j),
     claimed |-> keys.claimed \/ j = Invitation]

DeviceKeys(k) == {j \in KeyIds \ {Invitation} : keys.holder[j] = k}

Issued(k, j, consume) ==
    [keys EXCEPT !.holder = [i \in KeyIds |->
        IF i = fresh THEN k ELSE IF consume /\ i = j THEN Unheld ELSE keys.holder[i]]]

CommitOf(kind, c) == [kind |-> kind, conn |-> c]
Queued(c) == \E i \in DOMAIN queue : queue[i].conn = c

RegisterAdmitted(k, j) == MayRegister(k, j)

\* What each commit asks again when it is staged.  The keys are limited, and a
\* recovered installation with two of them has to be reconciled first.
Admitted(q) ==
    LET c == q.conn  k == c[1]  s == server[c]
    IN CASE q.kind = "register" -> RegisterAdmitted(k, s.key)
         [] q.kind = "invite"   -> Current(c)
         [] q.kind = "rotate"   -> /\ Current(c) /\ fresh <= MaxKeys
                                   /\ k \in recovered => \A i, j \in DeviceKeys(k) : i = j
         [] q.kind = "saved"    -> /\ Current(c) /\ s.offer # Nothing
                                   /\ keys.holder[s.offer] = k
         [] q.kind = "revoke"   -> TRUE

DraftOf(q) ==
    LET c == q.conn  k == c[1]  s == server[c]
    IN CASE q.kind = "register" -> RegisterDraft(k, s.key)
         [] q.kind = "invite"   -> Issued(k, s.key, TRUE)
         [] q.kind = "rotate"   -> Issued(k, s.key, FALSE)
         [] q.kind = "saved"    -> [keys EXCEPT !.holder = OnlyKey(@, k, s.offer)]
         [] q.kind = "revoke"   -> [keys EXCEPT !.holder =
                                       [i \in KeyIds |-> IF @[i] = k THEN Unheld ELSE @[i]]]

\* The owner's refused rotation answers the owner and leaves the connection.
AnswersOwner(q) == q.kind = "rotate"

\* The first commit starts: on a draft that is stored, or refused.  A refused
\* registration or acknowledgement closes its connection as unauthorized.
Stage ==
    /\ relayUp /\ queue # <<>> /\ staged = Nothing
    /\ LET q == Head(queue)  c == q.conn
       IN IF Admitted(q)
          THEN /\ staged' = DraftOf(q)
               /\ fresh' = IF q.kind \in {"invite", "rotate"} THEN fresh + 1 ELSE fresh
               /\ UNCHANGED <<queue, socketVars, down>>
          ELSE /\ queue' = Tail(queue)
               /\ IF AnswersOwner(q) \/ ~Live(c) THEN UNCHANGED <<socketVars, down>>
                  ELSE /\ server' = Close(server, c)
                       /\ down' = Frame(down, c, <<"unauthorized">>)
                       /\ hostSocket' = [hostSocket EXCEPT ![c[1]] = IF @ = c THEN Nothing ELSE @]
               /\ UNCHANGED <<staged, fresh>>
    /\ UNCHANGED <<keys, revoked, relayUp, client, up, deviceVars, faults, recovered>>

\* The draft is stored and published.  A registration replaces the Host's
\* connection even if its own closed while it waited; an invited Controller is
\* then offered its credential, any other one is registered at once.
PublishCommit(q) ==
    LET c == q.conn  k == c[1]  s == server[c]  old == hostSocket[k]
    IN CASE q.kind = "register" ->
              LET replaced == IF old \in {Nothing, c} THEN server ELSE Close(server, old)
                  told == IF old \in {Nothing, c} THEN down ELSE Frame(down, old, <<"closed">>)
              IN  /\ hostSocket' = [hostSocket EXCEPT ![k] = IF Live(c) THEN c ELSE Nothing]
                  /\ server' = IF Live(c) THEN [replaced EXCEPT ![c].state = "host"] ELSE replaced
                  /\ down' = IF Live(c) /\ s.key # Invitation
                             THEN Frame(told, c, <<"registered">>) ELSE told
                  /\ queue' = IF s.key = Invitation THEN Append(Tail(queue), CommitOf("invite", c))
                              ELSE Tail(queue)
         [] q.kind \in {"invite", "rotate"} ->
              LET new == fresh - 1
              IN  /\ server' = [server EXCEPT
                        ![c].offer = IF Live(c) THEN new ELSE Nothing,
                        ![c].key = IF q.kind = "invite" THEN new ELSE @]
                  /\ down' = IF Live(c) /\ old = c THEN Frame(down, c, <<"offer", new>>) ELSE down
                  /\ queue' = Tail(queue)
                  /\ UNCHANGED hostSocket
         [] q.kind = "saved" ->
              /\ server' = IF Live(c) THEN [server EXCEPT ![c].key = s.offer, ![c].offer = Nothing]
                           ELSE server
              /\ down' = IF Live(c) /\ old = c THEN Frame(down, c, <<"registered">>) ELSE down
              /\ queue' = Tail(queue)
              /\ UNCHANGED hostSocket
         [] q.kind = "revoke" ->
              /\ server' = IF old = Nothing THEN server ELSE Close(server, old)
              /\ down' = IF old = Nothing THEN down ELSE Frame(down, old, <<"unauthorized">>)
              /\ hostSocket' = [hostSocket EXCEPT ![k] = Nothing]
              /\ queue' = Tail(queue)

Stored ==
    /\ relayUp /\ staged # Nothing
    /\ keys' = staged
    /\ staged' = Nothing
    /\ PublishCommit(Head(queue))
    /\ UNCHANGED <<revoked, fresh, relayUp, client, up, deviceVars, faults, recovered>>

\* failClosed, or the process stops: a draft may have been stored or not.
RelayFails ==
    /\ relayUp /\ faults < MaxFaults
    /\ faults' = faults + 1
    /\ relayUp' = FALSE
    /\ keys' \in IF staged = Nothing THEN {keys} ELSE {keys, staged}
    /\ queue' = <<>> /\ staged' = Nothing
    /\ server' = [c \in Sockets |->
          IF Live(c) THEN [server[c] EXCEPT !.state = "closed", !.offer = Nothing] ELSE server[c]]
    /\ hostSocket' = [k \in Controllers |-> Nothing]
    /\ UNCHANGED <<revoked, fresh, wireVars, deviceVars, recovered>>

RelayRestarts ==
    /\ ~relayUp
    /\ relayUp' = TRUE
    /\ UNCHANGED <<keys, revoked, fresh, queue, staged, socketVars, wireVars, deviceVars,
                   faults, recovered>>

-----------------------------------------------------------------------------
(* The owner.                                                              *)

\* POST rotate: asks the Host's connection for a new credential.
Rotate(k) ==
    /\ relayUp /\ hostSocket[k] # Nothing
    /\ LET c == hostSocket[k]
       IN  /\ server[c].offer = Nothing /\ server[c].key # Invitation
           /\ ~\E i \in DOMAIN queue : queue[i] = CommitOf("rotate", c)
           /\ queue' = Append(queue, CommitOf("rotate", c))
    /\ UNCHANGED <<keys, revoked, fresh, relayUp, staged, socketVars, wireVars, deviceVars,
                   faults, recovered>>

\* POST revoke: the commit needs no connection of the Host.
Revoke(k) ==
    /\ relayUp /\ k \in Revocable \ revoked
    /\ \E j \in KeyIds : keys.holder[j] = k
    /\ revoked' = revoked \cup {k}
    /\ queue' = Append(queue, CommitOf("revoke", <<k, Nothing>>))
    /\ UNCHANGED <<keys, fresh, relayUp, staged, socketVars, wireVars, deviceVars,
                   faults, recovered>>

-----------------------------------------------------------------------------
(* The Relay's end of a connection.                                        *)

Accepting == [state |-> "accepted", key |-> Invitation, offer |-> Nothing]

\* upgrade: the credential is checked once; the Controller sends its
\* registration as soon as the connection opens.
AcceptUpgrade(c) ==
    /\ relayUp /\ client[c] = "connecting"
    /\ IF Usable(file[c[1]])
       THEN /\ server' = [server EXCEPT ![c] = [Accepting EXCEPT !.key = file[c[1]]]]
            /\ client' = [client EXCEPT ![c] = "open"]
            /\ up' = Frame(up, c, "register")
            /\ UNCHANGED refused
       ELSE /\ client' = [client EXCEPT ![c] = "gone"]
            /\ refused' = [refused EXCEPT ![c[1]] = "unauthorized"]
            /\ UNCHANGED <<server, up>>
    /\ UNCHANGED <<relayVars, hostSocket, down, file, saving, faults, recovered>>

Unauthorized(c) ==
    /\ server' = Close(server, c)
    /\ hostSocket' = [hostSocket EXCEPT ![c[1]] = IF @ = c THEN Nothing ELSE @]
    /\ down' = Frame(down, c, <<"unauthorized">>)

\* receive, the first message: registration waits for its turn to commit, and
\* no later message is looked at before it has.
ReceiveRegister(c) ==
    /\ relayUp /\ server[c].state = "accepted" /\ up[c] # <<>>
    /\ up' = [up EXCEPT ![c] = Tail(@)]
    /\ IF MayRegister(c[1], server[c].key)
       THEN /\ server' = [server EXCEPT ![c].state = "registering"]
            /\ queue' = Append(queue, CommitOf("register", c))
            /\ UNCHANGED <<hostSocket, down>>
       ELSE Unauthorized(c) /\ UNCHANGED queue
    /\ UNCHANGED <<keys, revoked, fresh, relayUp, staged, client, deviceVars, faults, recovered>>

\* receive, credential_saved: ignored on a connection that was replaced.
ReceiveSaved(c) ==
    /\ relayUp /\ server[c].state = "host" /\ up[c] # <<>>
    /\ up' = [up EXCEPT ![c] = Tail(@)]
    /\ IF ~Known(server[c].key) \/ (hostSocket[c[1]] = c /\ server[c].offer = Nothing)
       THEN Unauthorized(c) /\ UNCHANGED queue
       ELSE /\ queue' = IF hostSocket[c[1]] = c THEN Append(queue, CommitOf("saved", c)) ELSE queue
            /\ UNCHANGED <<server, hostSocket, down>>
    /\ UNCHANGED <<keys, revoked, fresh, relayUp, staged, client, deviceVars, faults, recovered>>

\* The Relay learns that the Controller is gone; what it had sent and the Relay
\* has not read is lost, a commit it asked for is not.
RelayNotices(c) ==
    /\ relayUp /\ Live(c) /\ client[c] = "gone"
    /\ server' = Close(server, c)
    /\ hostSocket' = [hostSocket EXCEPT ![c[1]] = IF @ = c THEN Nothing ELSE @]
    /\ up' = [up EXCEPT ![c] = <<>>]
    /\ UNCHANGED <<relayVars, client, down, deviceVars, faults, recovered>>

-----------------------------------------------------------------------------
(* The Controller.                                                         *)

Leaves(c) == client' = [client EXCEPT ![c] = "gone"] /\ down' = [down EXCEPT ![c] = <<>>]

\* Mutant: reconnects with the old credential while the new one is saved.
MayConnectSaving(k) == TRUE

\* connect waits for a save in progress: credentialWrite.then(connect).
MayConnect(k) == saving[k] = Nothing

\* One connection at a time; the Relay may still hold an earlier one.
Connect(k) ==
    /\ refused[k] = "no" /\ MayConnect(k)
    /\ \A c \in SocketsOf(k) : client[c] = "gone"
    /\ \E c \in {d \in SocketsOf(k) : ~Live(d) /\ ~Queued(d)} :
          /\ client' = [client EXCEPT ![c] = "connecting"]
          /\ server' = [server EXCEPT ![c] = [Accepting EXCEPT !.state = "none"]]
          /\ up' = [up EXCEPT ![c] = <<>>]
    /\ UNCHANGED <<relayVars, hostSocket, down, deviceVars, faults, recovered>>

\* credential_issued: a second offer during a save is a protocol error.
ReceiveOffer(c) ==
    /\ client[c] \in {"open", "registered"} /\ down[c] # <<>> /\ Head(down[c])[1] = "offer"
    /\ IF saving[c[1]] # Nothing THEN Leaves(c) /\ UNCHANGED saving
       ELSE /\ saving' = [saving EXCEPT ![c[1]] = [key |-> Head(down[c])[2], conn |-> c]]
            /\ down' = [down EXCEPT ![c] = Tail(@)]
            /\ UNCHANGED client
    /\ UNCHANGED <<relayVars, socketVars, up, file, refused, faults, recovered>>

ReceiveRegistered(c) ==
    /\ client[c] \in {"open", "registered"} /\ down[c] # <<>> /\ Head(down[c])[1] = "registered"
    /\ IF client[c] = "open" /\ saving[c[1]] # Nothing THEN Leaves(c)
       ELSE /\ client' = [client EXCEPT ![c] = "registered"]
            /\ down' = [down EXCEPT ![c] = Tail(@)]
    /\ UNCHANGED <<relayVars, socketVars, up, deviceVars, faults, recovered>>

\* The Relay closed: an authorization refusal (1008) is final, anything else is
\* followed by another connection.
ReceiveClose(c) ==
    /\ client[c] \in {"open", "registered"} /\ down[c] # <<>>
    /\ Head(down[c])[1] \in {"closed", "unauthorized"}
    /\ Leaves(c)
    /\ refused' = [refused EXCEPT ![c[1]] =
          IF Head(down[c])[1] = "unauthorized" /\ @ = "no" THEN "unauthorized" ELSE @]
    /\ UNCHANGED <<relayVars, socketVars, up, file, saving, faults, recovered>>

\* The Relay is gone without a word.
ControllerNotices(c) ==
    /\ client[c] \in {"open", "registered"} /\ server[c].state = "closed" /\ down[c] = <<>>
    /\ Leaves(c)
    /\ UNCHANGED <<relayVars, socketVars, up, deviceVars, faults, recovered>>

\* A deadline, a transport error or a lost network: retire.
Abandon(c) ==
    /\ client[c] # "gone" /\ faults < MaxFaults
    /\ faults' = faults + 1
    /\ Leaves(c)
    /\ UNCHANGED <<relayVars, socketVars, up, deviceVars, recovered>>

\* Mutant: the save is not acknowledged.
SaveDoneSilently(k) ==
    /\ saving[k] # Nothing
    /\ file' = [file EXCEPT ![k] = saving[k].key]
    /\ saving' = [saving EXCEPT ![k] = Nothing]
    /\ UNCHANGED <<relayVars, socketVars, wireVars, refused, faults, recovered>>

\* saveIssuedCredential replaced the file: "the saved key is authoritative even
\* when this connection disappeared during fsync".
SaveDone(k) ==
    /\ saving[k] # Nothing
    /\ file' = [file EXCEPT ![k] = saving[k].key]
    /\ saving' = [saving EXCEPT ![k] = Nothing]
    /\ LET c == saving[k].conn
       IN up' = IF client[c] # "gone" THEN Frame(up, c, "saved") ELSE up
    /\ UNCHANGED <<relayVars, socketVars, client, down, refused, faults, recovered>>

\* The save failed, before or after the file was replaced: final.
SaveFails(k) ==
    /\ saving[k] # Nothing /\ faults < MaxFaults
    /\ faults' = faults + 1
    /\ file' \in {file, [file EXCEPT ![k] = saving[k].key]}
    /\ saving' = [saving EXCEPT ![k] = Nothing]
    /\ refused' = [refused EXCEPT ![k] = "unsaved"]
    /\ Leaves(saving[k].conn)
    /\ UNCHANGED <<relayVars, socketVars, up, recovered>>

\* The Controller stops, perhaps during a save, and starts with what is saved.
ControllerRestarts(k) ==
    /\ faults < MaxFaults
    /\ faults' = faults + 1
    /\ file' \in {file} \cup (IF saving[k] = Nothing THEN {}
                             ELSE {[file EXCEPT ![k] = saving[k].key]})
    /\ saving' = [saving EXCEPT ![k] = Nothing]
    /\ refused' = [refused EXCEPT ![k] = "no"]
    /\ client' = [c \in Sockets |-> IF c[1] = k THEN "gone" ELSE client[c]]
    /\ down' = [c \in Sockets |-> IF c[1] = k THEN <<>> ELSE down[c]]
    /\ UNCHANGED <<relayVars, socketVars, up, recovered>>

-----------------------------------------------------------------------------
Receives(c) == ReceiveOffer(c) \/ ReceiveRegistered(c) \/ ReceiveClose(c) \/ ControllerNotices(c)
RelayReceives(c) == AcceptUpgrade(c) \/ ReceiveRegister(c) \/ ReceiveSaved(c)

CredentialNext ==
    \/ Stage \/ Stored \/ RelayFails \/ RelayRestarts
    \/ \E k \in Controllers :
          \/ Rotate(k) \/ Revoke(k) \/ Connect(k)
          \/ SaveDone(k) \/ SaveFails(k) \/ ControllerRestarts(k)
    \/ \E c \in Sockets : RelayReceives(c) \/ RelayNotices(c) \/ Receives(c) \/ Abandon(c)

Serves == Stage \/ Stored \/ RelayRestarts
Continues(k) == Connect(k) \/ SaveDone(k)
Proceeds(c) == RelayReceives(c) \/ RelayNotices(c) \/ Receives(c)

\* The Relay is restarted, its store answers, something that is due on a
\* connection happens, a save ends and the Controller reconnects on its timer.
\* Failures, drops, rotations and revocations need not come.
CredentialSpec ==
    /\ CredentialInit /\ [][CredentialNext]_credentialVars
    /\ WF_credentialVars(Serves)
    /\ \A k \in Controllers : WF_credentialVars(Continues(k))
    /\ \A c \in Sockets : WF_credentialVars(Proceeds(c))

-----------------------------------------------------------------------------
(* Properties.                                                             *)

\* Every variable has its type.
CredentialTypeOK ==
    /\ keys \in [holder : [KeyIds -> Controllers \cup {Nobody, Unheld}], claimed : BOOLEAN]
    /\ fresh \in 1..MaxKeys + 1 /\ relayUp \in BOOLEAN
    /\ \A i \in DOMAIN queue :
          queue[i].kind \in {"register", "invite", "rotate", "saved", "revoke"}
    /\ server \in [Sockets -> [state : {"none", "accepted", "registering", "host", "closed"},
                               key : KeyIds, offer : {Nothing} \cup KeyIds]]
    /\ hostSocket \in [Controllers -> {Nothing} \cup Sockets]
    /\ client \in [Sockets -> {"gone", "connecting", "open", "registered"}]
    /\ file \in [Controllers -> KeyIds]
    /\ saving \in [Controllers -> {Nothing} \cup [key : KeyIds, conn : Sockets]]
    /\ refused \in [Controllers -> {"no", "unauthorized", "unsaved"}]

\* A connection is the Host's only while it stands, and a Host whose
\* credential is not being replaced has that one credential.  "The prior
\* credential is retired when acknowledgement or replacement registration
\* commits" (security.md:38).
OldCredentialRetired ==
    \A k \in Controllers \ recovered : hostSocket[k] # Nothing =>
        LET s == server[hostSocket[k]]
        IN  /\ s.state = "host"
            /\ {j \in KeyIds : keys.holder[j] = k} \subseteq {s.key, s.offer}

\* One invitation enrolls one installation, whichever Controllers present it at
\* once and whatever fails in between (claimedAt, broker.ts:878).
InvitationOnce ==
    \A k, l \in {m \in Controllers : file[m] # Invitation \/ hostSocket[m] # Nothing} : k = l

\* A Controller is told that it is unauthorized only if its credential is of no
\* use any more: no replaced connection, lost frame or refused rotation is taken
\* for a refusal, which would stop the Controller for good.
RefusedRightly ==
    \A k \in Controllers : refused[k] = "unauthorized" /\ saving[k] = Nothing =>
        ~MayRegister(k, file[k])

\* The credentials that are in use are the ones the Relay means to be.
CredentialInv ==
    CredentialTypeOK /\ OldCredentialRetired /\ InvitationOnce /\ RefusedRightly

\* What Controller k has saved, is saving or is about to receive.
Promised(k) == {j \in KeyIds :
    \/ file[k] = j
    \/ saving[k] # Nothing /\ saving[k].key = j
    \/ \E c \in SocketsOf(k) : \E i \in DOMAIN down[c] : down[c][i] = <<"offer", j>>}

\* "An interrupted saved offer can reconnect" (security.md:37), as far as the code
\* keeps it: a promised device credential is lost only to the commit of a
\* registration that was sent on a connection which the Controller abandoned
\* since, and never by an installation that recovery re-enrolled.
SavedCredentialStays ==
    [][\A k \in Controllers \ revoked : \A j \in (Promised(k) \cap Promised(k)') \ {Invitation} :
          keys.holder[j] = k /\ keys'.holder[j] # k
            => /\ k \notin recovered
               /\ queue # <<>> /\ Head(queue).kind = "register"
               /\ client[Head(queue).conn] = "gone"]_credentialVars

\* Once the faults are over, every Controller is registered or knows that it is
\* not authorized: none waits for ever on a registration, an offer or a save.
AllSettled ==
    \A k \in Controllers : refused[k] # "no" \/
        (hostSocket[k] # Nothing /\ client[hostSocket[k]] = "registered")
Settles == <>[]AllSettled
=============================================================================
