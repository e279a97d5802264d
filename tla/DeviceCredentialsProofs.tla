---------------------- MODULE DeviceCredentialsProofs ----------------------
(***************************************************************************)
(* CredentialSpec keeps CredentialInv and SavedCredentialStays,            *)
(* for any installations, connections, credentials and number of faults.   *)
(*                                                                         *)
(* A commit is decided when it is staged and takes effect when it is       *)
(* stored; in between connections close, Controllers leave and the Relay   *)
(* may fail.  The invariant therefore says of each commit that waits what  *)
(* its connection still has to be (CommitFits), of the staged draft that   *)
(* it is what the commit makes of the credentials (DraftFits), and of the  *)
(* Host's connection that the offer, the frames, the save and the answer   *)
(* on their way are of one credential (HostFits).                          *)
(*                                                                         *)
(* Three kinds of steps are carried through by one lemma each: those that  *)
(* only take something away (QuietKeeps), those that use a connection or   *)
(* add a commit while the credentials stay (FixedKeeps, EnqueueKeeps), and *)
(* the publication of a commit (PublishKeeps), which concerns one          *)
(* installation.                                                           *)
(***************************************************************************)
EXTENDS DeviceCredentials, SequenceTheorems, TLAPS

Kinds == {"register", "invite", "rotate", "saved"}

Draft == [holder : [KeyIds -> Controllers \cup {Nobody, Unheld}], claimed : BOOLEAN]

Commits == [kind : Kinds, conn : Sockets]
               \cup {CommitOf("revoke", <<k, Nothing>>) : k \in Controllers}

Frames == {<<"closed">>, <<"registered">>, <<"unauthorized">>} \cup {<<"offer", j>> : j \in KeyIds}

End == [state : {"none", "accepted", "registering", "host", "closed"},
        key : KeyIds, offer : {Nothing} \cup KeyIds]

Typed ==
    /\ keys \in Draft /\ staged \in {Nothing} \cup Draft
    /\ fresh \in 1..MaxKeys + 1 /\ relayUp \in BOOLEAN
    /\ queue \in Seq(Commits)
    /\ server \in [Sockets -> End]
    /\ hostSocket \in [Controllers -> {Nothing} \cup Sockets]
    /\ client \in [Sockets -> {"gone", "connecting", "open", "registered"}]
    /\ up \in [Sockets -> Seq({"register", "saved"})]
    /\ down \in [Sockets -> Seq(Frames)]
    /\ file \in [Controllers -> KeyIds]
    /\ saving \in [Controllers -> {Nothing} \cup [key : KeyIds, conn : Sockets]]
    /\ refused \in [Controllers -> {"no", "unauthorized", "unsaved"}]

Issuing == staged # Nothing /\ Head(queue).kind \in {"invite", "rotate"}

\* The next credential to be published: all before it have been.
Upcoming == IF Issuing THEN fresh - 1 ELSE fresh

\* Element f is one of ws; the frames ws offer one credential at most.
Carries(ws, f) == \E i \in DOMAIN ws : ws[i] = f
OfferOnce(ws) == \A i, j \in DOMAIN ws : ws[i][1] = "offer" /\ ws[j][1] = "offer" => i = j

Sent(c, f) == Carries(down[c], f)
NoOffer(c) == \A j \in KeyIds : ~Sent(c, <<"offer", j>>)
NoOffers(k) == \A c \in SocketsOf(k) : NoOffer(c)

\* Credentials are given out in order, and only after the invitation was claimed.
KeysFit ==
    /\ \A j \in KeyIds : j >= Upcoming => keys.holder[j] = Unheld
    /\ \A j \in KeyIds : keys.holder[j] = Nobody => j = Invitation
    /\ ~keys.claimed => fresh = 1

KeysKnown ==
    /\ \A c \in Sockets : server[c].key < Upcoming
    /\ \A c \in Sockets : server[c].offer # Nothing => server[c].offer < Upcoming
    /\ \A k \in Controllers : file[k] < Upcoming
    /\ \A k \in Controllers : saving[k] # Nothing => saving[k].key \in 1..Upcoming - 1
    /\ \A c \in Sockets, j \in KeyIds : Sent(c, <<"offer", j>>) => j \in 1..Upcoming - 1

ClientFits(c) ==
    LET k == c[1]
    IN  /\ client[c] = "gone" => down[c] = <<>>
        /\ client[c] = "connecting" =>
              /\ server[c].state = "none" /\ up[c] = <<>> /\ down[c] = <<>>
              /\ saving[k] = Nothing
        /\ client[c] \in {"open", "registered"} => server[c].state # "none"
        /\ client[c] # "gone" =>
              /\ \A d \in SocketsOf(k) : client[d] # "gone" => d = c
              /\ refused[k] = "no"
              /\ saving[k] # Nothing => saving[k].conn = c

SavingFits == \A k \in Controllers : saving[k] # Nothing => saving[k].conn[1] = k

\* The Controller has had nothing on connection c yet.
Unopened(c) ==
    client[c] # "gone" => file[c[1]] = server[c].key /\ saving[c[1]] = Nothing /\ NoOffer(c)

\* It has saved what connection c offers it.
Saved(c) ==
    /\ server[c].offer # Nothing /\ file[c[1]] = server[c].offer
    /\ saving[c[1]] = Nothing /\ NoOffers(c[1])

CommitFits(q) ==
    LET c == q.conn  s == server[c]
    IN  /\ q.kind = "register" =>
              /\ s.state \in {"registering", "closed"} /\ Unopened(c)
              /\ s.state = "registering" => up[c] = <<>>
        /\ q.kind = "invite" =>
              /\ s.state \in {"host", "closed"} /\ s.key = Invitation /\ keys.claimed
              /\ Upcoming = 1 /\ ~Carries(queue, CommitOf("register", c))
        /\ q.kind = "rotate" =>
              /\ s.state \in {"host", "closed"} /\ s.key # Invitation /\ s.offer = Nothing
        /\ q.kind = "saved" =>
              /\ s.state \in {"host", "closed"}
              /\ s.state = "host" => Saved(c) /\ up[c] = <<>>
        /\ q.kind = "revoke" => c[1] \in revoked

\* No commit waits twice, and one invitation at most is to be exchanged.
Distinct(qs) ==
    /\ \A i, j \in DOMAIN qs : qs[i] = qs[j] => i = j
    /\ \A i, j \in DOMAIN qs : qs[i].kind = "invite" /\ qs[j].kind = "invite" => i = j

QueueFits == Distinct(queue) /\ \A q \in Commits : Carries(queue, q) => CommitFits(q)

HostFits(c) ==
    LET k == c[1]  s == server[c]
    IN  /\ s.state = "host" <=> hostSocket[k] = c
        /\ s.state # "host" => s.offer = Nothing
        /\ s.state = "accepted" => up[c] = <<"register">> /\ Unopened(c)
        /\ s.state = "host" =>
              /\ keys.holder[s.key] = k
              /\ s.offer # Nothing => keys.holder[s.offer] = k /\ s.offer # Invitation
              /\ s.key = Invitation => s.offer = Nothing
              /\ k \notin recovered =>
                    \A j \in KeyIds : keys.holder[j] = k => j = s.key \/ j = s.offer
              /\ up[c] # <<>> => up[c] = <<"saved">> /\ Saved(c)
              /\ saving[k] # Nothing /\ client[c] # "gone" =>
                    s.offer = saving[k].key /\ NoOffer(c)
              /\ \A j \in KeyIds : Sent(c, <<"offer", j>>) => s.offer = j
              /\ OfferOnce(down[c])

HostsOwn == \A k \in Controllers : hostSocket[k] # Nothing => hostSocket[k][1] = k

\* The draft is what commit q makes of the credentials, whatever happens meanwhile.
DraftFits(q) ==
    LET c == q.conn  k == c[1]
    IN  /\ q.kind = "register" =>
              MayRegister(k, server[c].key) /\ staged = RegisterDraft(k, server[c].key)
        /\ q.kind = "invite" =>
              /\ hostSocket[k] \in {Nothing, c} /\ keys.holder[Invitation] = k
              /\ staged = [keys EXCEPT !.holder = [i \in KeyIds |->
                     IF i = fresh - 1 THEN k ELSE IF i = Invitation THEN Unheld ELSE keys.holder[i]]]
        /\ q.kind = "rotate" =>
              /\ hostSocket[k] \in {Nothing, c}
              /\ staged = [keys EXCEPT !.holder = [i \in KeyIds |->
                     IF i = fresh - 1 THEN k ELSE keys.holder[i]]]
        /\ q.kind = "saved" => \E j \in KeyIds \ {Invitation} :
              /\ hostSocket[k] \in {Nothing, c} /\ keys.holder[j] = k
              /\ Live(c) => server[c].offer = j
              /\ staged = [keys EXCEPT !.holder = OnlyKey(keys.holder, k, j)]
              /\ file[k] = j /\ saving[k] = Nothing /\ NoOffers(k)
        /\ q.kind = "revoke" =>
              staged = [keys EXCEPT !.holder =
                           [i \in KeyIds |-> IF keys.holder[i] = k THEN Unheld ELSE keys.holder[i]]]

StagedFits == staged # Nothing => queue # <<>> /\ DraftFits(Head(queue))

Enrolled(k) ==
    \/ file[k] # Invitation \/ saving[k] # Nothing \/ hostSocket[k] # Nothing
    \/ \E c \in SocketsOf(k) : server[c].key # Invitation \/ ~NoOffer(c)
    \/ \E q \in Commits :
          Carries(queue, q) /\ q.kind \in {"invite", "rotate", "saved"} /\ q.conn[1] = k
    \/ keys.claimed /\ \E j \in KeyIds : keys.holder[j] = k

EnrollmentFits ==
    /\ \A k, l \in Controllers : Enrolled(k) /\ Enrolled(l) => k = l
    /\ ~keys.claimed => \A k \in Controllers : ~Enrolled(k)

Told(k) ==
    refused[k] = "unauthorized" \/ \E c \in SocketsOf(k) : Sent(c, <<"unauthorized">>)

Presented(k) == IF saving[k] = Nothing THEN file[k] ELSE saving[k].key

RefusalFits(k) ==
    /\ \A c \in SocketsOf(k) : Sent(c, <<"unauthorized">>) => server[c].state = "closed"
    /\ Told(k) =>
          /\ ~MayRegister(k, Presented(k))
          /\ \A c \in SocketsOf(k), j \in KeyIds : Sent(c, <<"offer", j>>) => ~MayRegister(k, j)

CredentialIInv ==
    /\ Typed /\ KeysFit /\ KeysKnown
    /\ \A c \in Sockets : ClientFits(c)
    /\ SavingFits /\ QueueFits
    /\ \A c \in Sockets : HostFits(c)
    /\ HostsOwn /\ StagedFits /\ EnrollmentFits
    /\ \A k \in Controllers : RefusalFits(k)

-----------------------------------------------------------------------------
(* Frames and commits in a row.                                            *)

\* A commit or a frame is added behind the others.
LEMMA Added ==
  ASSUME NEW S, NEW s \in Seq(S), NEW x \in S
  PROVE  /\ Append(s, x) \in Seq(S)
         /\ Len(s) \in Nat /\ DOMAIN s = 1..Len(s)
         /\ DOMAIN Append(s, x) = 1..Len(s) + 1
         /\ \A i \in 1..Len(s) : Append(s, x)[i] = s[i]
         /\ Append(s, x)[Len(s) + 1] = x
         /\ s # <<>> => Head(Append(s, x)) = Head(s)
         /\ Append(s, x) # <<>>
  OBVIOUS

\* The first one is taken.
LEMMA Taken ==
  ASSUME NEW S, NEW s \in Seq(S), s # <<>>
  PROVE  /\ Tail(s) \in Seq(S) /\ Head(s) = s[1] /\ Head(s) \in S
         /\ Len(s) \in Nat \ {0} /\ DOMAIN s = 1..Len(s)
         /\ DOMAIN Tail(s) = 1..Len(s) - 1
         /\ \A i \in 1..Len(s) - 1 : Tail(s)[i] = s[i + 1]
  OBVIOUS

\* What waits after a commit was added, and after the first was taken.
LEMMA CommitAdded ==
  ASSUME NEW qs \in Seq(Commits), Distinct(qs), NEW x \in Commits, ~Carries(qs, x),
         x.kind = "invite" => \A q \in Commits : Carries(qs, q) => q.kind # "invite",
         NEW t, t = Append(qs, x)
  PROVE  /\ t \in Seq(Commits) /\ Distinct(t)
         /\ \A q : Carries(t, q) <=> Carries(qs, q) \/ q = x
<1>1. /\ t \in Seq(Commits)
      /\ Len(qs) \in Nat /\ DOMAIN qs = 1..Len(qs)
      /\ DOMAIN t = 1..Len(qs) + 1
      /\ \A i \in 1..Len(qs) : t[i] = qs[i]
      /\ t[Len(qs) + 1] = x
  BY Added
<1>2. ASSUME NEW q PROVE Carries(t, q) <=> Carries(qs, q) \/ q = x
  BY <1>1 DEF Carries
<1>3. \A i \in 1..Len(qs) : qs[i] # x /\ qs[i] \in Commits
  BY <1>1 DEF Carries
<1>4. \A i, j \in DOMAIN t : t[i] = t[j] => i = j
  BY <1>1, <1>3 DEF Distinct
<1>5. \A i, j \in DOMAIN t : t[i].kind = "invite" /\ t[j].kind = "invite" => i = j
  <2>1. \A i \in 1..Len(qs) : x.kind = "invite" => qs[i].kind # "invite"
    BY <1>1, <1>3 DEF Carries
  <2>. QED
    BY <1>1, <2>1 DEF Distinct
<1>. QED
  BY <1>1, <1>2, <1>4, <1>5 DEF Distinct

\* What waits after the first commit was taken.
LEMMA CommitTaken ==
  ASSUME NEW qs \in Seq(Commits), Distinct(qs), qs # <<>>, NEW t, t = Tail(qs)
  PROVE  /\ t \in Seq(Commits) /\ Distinct(t)
         /\ Head(qs) \in Commits /\ Carries(qs, Head(qs))
         /\ \A q : Carries(t, q) <=> Carries(qs, q) /\ q # Head(qs)
         /\ Head(qs).kind = "invite" => \A q \in Commits : Carries(t, q) => q.kind # "invite"
<1>1. /\ t \in Seq(Commits) /\ Head(qs) = qs[1] /\ Head(qs) \in Commits
      /\ Len(qs) \in Nat \ {0} /\ DOMAIN qs = 1..Len(qs)
      /\ DOMAIN t = 1..Len(qs) - 1
      /\ \A i \in 1..Len(qs) - 1 : t[i] = qs[i + 1]
  BY Taken
<1>2. Carries(qs, Head(qs))
  BY <1>1 DEF Carries
<1>3. ASSUME NEW q, Carries(t, q) PROVE Carries(qs, q) /\ q # Head(qs)
  <2>1. PICK i \in DOMAIN t : t[i] = q
    BY <1>3 DEF Carries
  <2>2. i + 1 \in DOMAIN qs /\ qs[i + 1] = q /\ i + 1 # 1 /\ 1 \in DOMAIN qs
    BY <1>1, <2>1
  <2>. QED
    BY <1>1, <2>2 DEF Carries, Distinct
<1>4. ASSUME NEW q, Carries(qs, q), q # Head(qs) PROVE Carries(t, q)
  <2>1. PICK i \in DOMAIN qs : qs[i] = q
    BY <1>4 DEF Carries
  <2>2. i - 1 \in DOMAIN t /\ t[i - 1] = qs[(i - 1) + 1] /\ (i - 1) + 1 = i
    BY <1>1, <1>4, <2>1
  <2>. QED
    BY <2>1, <2>2 DEF Carries
<1>5. \A i, j \in DOMAIN t : t[i] = t[j] => i = j
  <2>1. \A i, j \in DOMAIN t : qs[i + 1] = qs[j + 1] => i + 1 = j + 1
    BY <1>1 DEF Distinct
  <2>. QED
    BY <1>1, <2>1
<1>6. \A i, j \in DOMAIN t : t[i].kind = "invite" /\ t[j].kind = "invite" => i = j
  <2>1. \A i, j \in DOMAIN t : qs[i + 1].kind = "invite" /\ qs[j + 1].kind = "invite" => i + 1 = j + 1
    BY <1>1 DEF Distinct
  <2>. QED
    BY <1>1, <2>1
<1>7. ASSUME Head(qs).kind = "invite", NEW q \in Commits, Carries(t, q), q.kind = "invite" PROVE FALSE
  <2>1. PICK i \in DOMAIN t : t[i] = q
    BY <1>7 DEF Carries
  <2>2. i + 1 \in DOMAIN qs /\ qs[i + 1].kind = "invite" /\ 1 \in DOMAIN qs /\ i + 1 # 1
    BY <1>1, <1>7, <2>1
  <2>. QED
    BY <1>1, <1>7, <2>2 DEF Distinct
<1>. QED
  BY <1>1, <1>2, <1>3, <1>4, <1>5, <1>6, <1>7 DEF Distinct

\* Nothing waits in an empty queue.
LEMMA NoCommits == <<>> \in Seq(Commits) /\ Distinct(<<>>) /\ \A q : ~Carries(<<>>, q)
  BY DEF Distinct, Carries

\* The frames are told apart, and an offer names its credential.
LEMMA FrameKinds ==
  /\ <<"closed">> \in Frames /\ <<"registered">> \in Frames /\ <<"unauthorized">> \in Frames
  /\ \A j \in KeyIds : <<"offer", j>> \in Frames
  /\ \A f \in Frames : f[1] = "offer" => \E j \in KeyIds : f = <<"offer", j>>
  /\ \A j, l : <<"offer", j>> = <<"offer", l>> => j = l
  /\ \A j : <<"offer", j>> \notin {<<"closed">>, <<"registered">>, <<"unauthorized">>}
  /\ \A j : <<"offer", j>>[1] = "offer" /\ <<"offer", j>>[2] = j
  /\ \A f \in {<<"closed">>, <<"registered">>, <<"unauthorized">>} : f[1] # "offer"
  /\ <<"closed">> # <<"unauthorized">> /\ <<"registered">> # <<"unauthorized">>
  BY DEF Frames

\* What a row of frames carries after one was sent, and after one was read.
LEMMA FrameSent ==
  ASSUME NEW ws \in Seq(Frames), NEW f \in Frames
  PROVE  /\ Append(ws, f) \in Seq(Frames)
         /\ \A g : Carries(Append(ws, f), g) <=> Carries(ws, g) \/ g = f
         /\ OfferOnce(ws) /\ f[1] # "offer" => OfferOnce(Append(ws, f))
         /\ (\A j \in KeyIds : ~Carries(ws, <<"offer", j>>)) => OfferOnce(Append(ws, f))
<1>. DEFINE t == Append(ws, f)
<1>1. /\ t \in Seq(Frames)
      /\ Len(ws) \in Nat /\ DOMAIN ws = 1..Len(ws)
      /\ DOMAIN t = 1..Len(ws) + 1
      /\ \A i \in 1..Len(ws) : t[i] = ws[i]
      /\ t[Len(ws) + 1] = f
  BY Added
<1>. HIDE DEF t
<1>2. ASSUME NEW g PROVE Carries(t, g) <=> Carries(ws, g) \/ g = f
  BY <1>1 DEF Carries
<1>3. ASSUME OfferOnce(ws), f[1] # "offer" PROVE OfferOnce(t)
  BY <1>1, <1>3 DEF OfferOnce
<1>4. ASSUME \A j \in KeyIds : ~Carries(ws, <<"offer", j>>) PROVE OfferOnce(t)
  <2>1. \A i \in DOMAIN ws : ws[i] \in Frames
    OBVIOUS
  <2>2. \A i \in DOMAIN ws : ws[i][1] # "offer"
    BY <1>4, <2>1, FrameKinds DEF Carries
  <2>. QED
    BY <2>2, <1>1 DEF OfferOnce
<1>. QED
  BY <1>1, <1>2, <1>3, <1>4 DEF t

\* What a row of frames carries after the first was read.
LEMMA FrameRead ==
  ASSUME NEW ws \in Seq(Frames), ws # <<>>
  PROVE  /\ Tail(ws) \in Seq(Frames) /\ Head(ws) \in Frames
         /\ \A g : Carries(Tail(ws), g) => Carries(ws, g)
         /\ Carries(ws, Head(ws))
         /\ OfferOnce(ws) => OfferOnce(Tail(ws))
         /\ OfferOnce(ws) /\ Head(ws)[1] = "offer" =>
               \A j \in KeyIds : ~Carries(Tail(ws), <<"offer", j>>)
<1>. DEFINE t == Tail(ws)
<1>1. /\ t \in Seq(Frames) /\ Head(ws) = ws[1] /\ Head(ws) \in Frames
      /\ Len(ws) \in Nat \ {0} /\ DOMAIN ws = 1..Len(ws)
      /\ DOMAIN t = 1..Len(ws) - 1
      /\ \A i \in 1..Len(ws) - 1 : t[i] = ws[i + 1]
  BY Taken
<1>. HIDE DEF t
<1>2. ASSUME NEW g, Carries(t, g) PROVE Carries(ws, g)
  BY <1>1, <1>2 DEF Carries
<1>3. Carries(ws, Head(ws))
  BY <1>1 DEF Carries
<1>4. ASSUME OfferOnce(ws) PROVE OfferOnce(t)
  <2>1. ASSUME NEW i \in DOMAIN t, NEW j \in DOMAIN t, t[i][1] = "offer", t[j][1] = "offer"
        PROVE  i = j
    <3>1. i + 1 = j + 1
      BY <1>1, <1>4, <2>1 DEF OfferOnce
    <3>. QED
      BY <1>1, <3>1
  <2>. QED
    BY <2>1 DEF OfferOnce
<1>5. ASSUME OfferOnce(ws), Head(ws)[1] = "offer", NEW j \in KeyIds, Carries(t, <<"offer", j>>)
      PROVE  FALSE
  <2>1. PICK i \in DOMAIN t : t[i] = <<"offer", j>>
    BY <1>5 DEF Carries
  <2>2. ws[i + 1][1] = "offer" /\ i + 1 \in DOMAIN ws /\ 1 \in DOMAIN ws /\ i + 1 # 1
    BY <1>1, <2>1
  <2>. QED
    BY <1>1, <1>5, <2>2 DEF OfferOnce
<1>. QED
  BY <1>1, <1>2, <1>3, <1>4, <1>5 DEF t

\* Nothing is on its way in an empty row.
LEMMA NoFrames == <<>> \in Seq(Frames) /\ OfferOnce(<<>>) /\ \A g : ~Carries(<<>>, g)
  BY DEF OfferOnce, Carries

-----------------------------------------------------------------------------
(* Steps on the wires that take something away: frames are read or lost,   *)
(* connections close or are left, saves end without a word to the Relay.   *)

\* What the assumptions say of connections, credentials and the special values.
LEMMA Constants ==
  /\ MaxKeys \in Nat \ {0} /\ Invitation \in KeyIds /\ Invitation = 0
  /\ \A c \in Sockets : c[1] \in Controllers /\ c # Nothing
  /\ \A j \in KeyIds : j # Nothing /\ j \in Nat
  /\ Nobody # Unheld /\ Nobody \notin Controllers /\ Unheld \notin Controllers
  /\ Nothing \notin Draft /\ Nothing \notin [key : KeyIds, conn : Sockets]
  /\ \A k \in Controllers : SocketsOf(k) \subseteq Sockets /\ \A c \in SocketsOf(k) : c[1] = k
  /\ \A c \in Sockets : c \in SocketsOf(c[1])
  BY CredentialAssumption DEF KeyIds, Invitation, Draft, SocketsOf

\* The credentials and the commits stay as they are, whether or not the Relay serves.
Steady == UNCHANGED <<keys, revoked, fresh, queue, staged, recovered>>

Quieter(c) ==
    /\ \/ client'[c] = client[c] \/ client'[c] = "gone"
       \/ client[c] = "open" /\ client'[c] = "registered"
    /\ client'[c] = "gone" => down'[c] = <<>>
    /\ \A g : Carries(down'[c], g) => Carries(down[c], g)
    /\ down[c] = <<>> => down'[c] = <<>>
    /\ OfferOnce(down[c]) => OfferOnce(down'[c])
    /\ \/ server'[c] = server[c] /\ up'[c] = up[c]
       \/ /\ server[c].state \in {"accepted", "registering", "host"}
          /\ server'[c].state = "closed" /\ server'[c].key = server[c].key
          /\ server'[c].offer = Nothing

HostEnds(k) ==
    /\ hostSocket'[k] \in {hostSocket[k], Nothing}
    /\ hostSocket[k] # Nothing =>
          (hostSocket'[k] = Nothing <=> server'[hostSocket[k]].state = "closed")

SavingEnds(k) ==
    /\ \/ file'[k] = file[k] /\ saving'[k] = saving[k]
       \/ /\ saving'[k] = Nothing
          /\ \/ file'[k] = file[k]
             \/ saving[k] # Nothing /\ file'[k] = saving[k].key
          /\ \A c \in SocketsOf(k) : client'[c] = "gone"
          /\ refused'[k] # "unauthorized"
    /\ refused'[k] = "unauthorized" => Told(k)
    /\ refused'[k] # "no" => refused[k] # "no" \/ \A c \in SocketsOf(k) : client'[c] = "gone"

Ended(k) == HostEnds(k) /\ SavingEnds(k)

Quiet ==
    /\ Typed' /\ Steady
    /\ \A c \in Sockets : Quieter(c)
    /\ \A k \in Controllers : Ended(k)

\* A step that takes something away keeps the invariant.
LEMMA QuietKeeps ==
  ASSUME CredentialIInv, Quiet
  PROVE  CredentialIInv'
<1>. USE DEF CredentialIInv
<1>0. Typed /\ Typed' /\ Steady /\ Upcoming' = Upcoming /\ Issuing' = Issuing
  BY DEF Quiet, Steady, Upcoming, Issuing
<1>1. KeysFit'
  BY <1>0 DEF KeysFit, Steady
<1>a. \A c \in Sockets : \A g : Sent(c, g)' => Sent(c, g)
  BY DEF Quiet, Quieter, Sent
<1>b. \A c \in Sockets : server'[c].key = server[c].key /\ server'[c].offer \in {server[c].offer, Nothing}
  BY DEF Quiet, Quieter
<1>c. \A c \in Sockets : NoOffer(c) => NoOffer(c)'
  BY <1>a DEF NoOffer
<1>d. \A k \in Controllers : NoOffers(k) => NoOffers(k)'
  BY <1>c, Constants DEF NoOffers, SocketsOf
<1>2. KeysKnown'
  <2>1. ASSUME NEW k \in Controllers PROVE file'[k] < Upcoming
    <3>1. \/ file'[k] = file[k]
          \/ saving[k] # Nothing /\ file'[k] = saving[k].key
      BY DEF Quiet, Ended, HostEnds, SavingEnds
    <3>. QED
      BY <3>1, <1>0, Constants DEF KeysKnown, Typed, Upcoming
  <2>2. \A k \in Controllers : saving'[k] \in {saving[k], Nothing}
    BY DEF Quiet, Ended, HostEnds, SavingEnds
  <2>. QED
    <3>1. ASSUME NEW c \in Sockets
          PROVE  server'[c].key < Upcoming /\ (server'[c].offer # Nothing => server'[c].offer < Upcoming)
      BY <1>b DEF KeysKnown
    <3>2. \A k \in Controllers : saving'[k] # Nothing => saving'[k].key \in 1..Upcoming - 1
      BY <2>2 DEF KeysKnown
    <3>3. \A c \in Sockets, j \in KeyIds : Sent(c, <<"offer", j>>)' => j \in 1..Upcoming - 1
      BY <1>a DEF KeysKnown
    <3>. QED
      BY <1>0, <2>1, <3>1, <3>2, <3>3 DEF KeysKnown
<1>3. ASSUME NEW c \in Sockets PROVE ClientFits(c)'
  <2>. DEFINE k == c[1]
  <2>0. k \in Controllers /\ \A d \in SocketsOf(k) : d \in Sockets /\ d[1] = k
    BY Constants
  <2>1. Quieter(c) /\ Ended(k) /\ ClientFits(c) /\ \A d \in SocketsOf(k) : Quieter(d)
    BY <2>0 DEF Quiet
  <2>2. client[c] \in {"gone", "connecting", "open", "registered"}
    BY <1>0 DEF Typed
  <2>. HIDE DEF k
  <2>3. client'[c] = "gone" => down'[c] = <<>>
    BY <2>1 DEF Quieter
  <2>4. client'[c] = "connecting" =>
           /\ server'[c].state = "none" /\ up'[c] = <<>> /\ down'[c] = <<>> /\ saving'[k] = Nothing
    BY <2>1, <2>2 DEF Quieter, Ended, HostEnds, SavingEnds, ClientFits, k
  <2>5. client'[c] \in {"open", "registered"} => server'[c].state # "none"
    BY <2>1, <2>2 DEF Quieter, ClientFits
  <2>6. client'[c] # "gone" =>
           /\ client[c] # "gone"
           /\ \A d \in SocketsOf(k) : client'[d] # "gone" => client[d] # "gone"
    <3>1. client'[c] # "gone" => client[c] # "gone"
      BY <2>1, <2>2 DEF Quieter
    <3>2. \A d \in SocketsOf(k) : client'[d] # "gone" => client[d] # "gone"
      BY <2>1, <2>0 DEF Quieter
    <3>. QED
      BY <3>1, <3>2
  <2>7. client'[c] # "gone" => \A d \in SocketsOf(k) : client'[d] # "gone" => d = c
    BY <2>6, <2>1 DEF ClientFits, k
  <2>8. client'[c] # "gone" => refused'[k] = "no"
    BY <2>6, <2>1, <2>0, Constants DEF ClientFits, k, Ended, HostEnds, SavingEnds
  <2>9. client'[c] # "gone" /\ saving'[k] # Nothing => saving'[k].conn = c
    BY <2>6, <2>1 DEF ClientFits, k, Ended, HostEnds, SavingEnds
  <2>. QED
    BY <2>3, <2>4, <2>5, <2>7, <2>8, <2>9 DEF ClientFits, k, SocketsOf
<1>4. SavingFits'
  BY DEF SavingFits, Quiet, Ended, HostEnds, SavingEnds
<1>e. ASSUME NEW c \in Sockets, Unopened(c) PROVE Unopened(c)'
  BY <1>e, <1>b, <1>c, Constants DEF Unopened, Quiet, Quieter, Ended, HostEnds, SavingEnds
<1>f. ASSUME NEW c \in Sockets, Saved(c), server'[c] = server[c] PROVE Saved(c)'
  BY <1>f, <1>d, Constants DEF Saved, Quiet, Ended, HostEnds, SavingEnds
<1>5. QueueFits'
  <2>1. ASSUME NEW q \in Commits, CommitFits(q) PROVE CommitFits(q)'
    BY <1>0, <1>b, <1>e, <1>f, <2>1 DEF CommitFits, Quiet, Quieter, Steady, Commits, CommitOf, Kinds
  <2>. QED
    BY <2>1, <1>0 DEF QueueFits, Steady
<1>6. ASSUME NEW c \in Sockets PROVE HostFits(c)'
  <2>1. CASE server'[c].state = "closed"
    BY <2>1, <1>0, Constants DEF HostFits, Quiet, Quieter, Ended, HostEnds, SavingEnds, HostsOwn
  <2>2. CASE server'[c].state # "closed"
    BY <2>2, <1>0, <1>a, <1>c, <1>e, <1>f, Constants DEF HostFits, Quiet, Quieter, Ended, HostEnds, SavingEnds, Steady, HostsOwn
  <2>. QED
    BY <2>1, <2>2
<1>7. HostsOwn'
  BY DEF HostsOwn, Quiet, Ended, HostEnds, SavingEnds
<1>8. StagedFits'
  <2>1. ASSUME NEW q \in Commits, DraftFits(q) PROVE DraftFits(q)'
    <3>. DEFINE c == q.conn  k == c[1]
    <3>1. staged' = staged /\ keys' = keys /\ recovered' = recovered /\ fresh' = fresh
      BY <1>0 DEF Steady
    <3>2. ASSUME q.kind \in Kinds
          PROVE  c \in Sockets /\ k \in Controllers /\ Quieter(c) /\ Ended(k) /\ server'[c].key = server[c].key
      BY <3>2, <1>b, Constants DEF Commits, CommitOf, Kinds, Quiet
    <3>3. CASE q.kind = "register"
      BY <2>1, <3>1, <3>2, <3>3 DEF DraftFits, Kinds, MayRegister, Usable, Known, RegisterDraft
    <3>4. CASE q.kind = "invite"
      BY <2>1, <3>1, <3>2, <3>4 DEF DraftFits, Kinds, Ended, HostEnds, SavingEnds
    <3>5. CASE q.kind = "rotate"
      BY <2>1, <3>1, <3>2, <3>5 DEF DraftFits, Kinds, Ended, HostEnds, SavingEnds
    <3>6. CASE q.kind = "saved"
      <4>1. PICK j \in KeyIds \ {Invitation} :
               /\ hostSocket[k] \in {Nothing, c} /\ keys.holder[j] = k
               /\ Live(c) => server[c].offer = j
               /\ staged = [keys EXCEPT !.holder = OnlyKey(keys.holder, k, j)]
               /\ file[k] = j /\ saving[k] = Nothing /\ NoOffers(k)
        BY <2>1, <3>6 DEF DraftFits
      <4>2. /\ c \in Sockets /\ k \in Controllers /\ Quieter(c) /\ Ended(k)
        BY <3>2, <3>6 DEF Kinds
      <4>3. NoOffers(k)'
        BY <4>1, <4>2, <1>d
      <4>4. hostSocket'[k] \in {Nothing, c} /\ file'[k] = j /\ saving'[k] = Nothing
        BY <4>1, <4>2 DEF Ended, HostEnds, SavingEnds
      <4>5. Live(c)' => server'[c].offer = j
        BY <4>1, <4>2 DEF Quieter, Live
      <4>. QED
        BY <3>1, <3>6, <4>1, <4>3, <4>4, <4>5 DEF DraftFits, OnlyKey
    <3>7. CASE q.kind = "revoke"
      BY <2>1, <3>1, <3>7 DEF DraftFits
    <3>. QED
      BY <3>3, <3>4, <3>5, <3>6, <3>7 DEF Commits, CommitOf, Kinds
  <2>2. staged' # Nothing => staged # Nothing /\ queue # <<>> /\ queue' = queue /\ Head(queue) \in Commits
    BY <1>0, Taken DEF Steady, StagedFits, Typed
  <2>. QED
    BY <2>1, <2>2 DEF StagedFits
<1>9. EnrollmentFits'
  <2>1. ASSUME NEW k \in Controllers, Enrolled(k)' PROVE Enrolled(k)
    BY <2>1, <1>0, <1>b, <1>c, Constants DEF Enrolled, Quiet, Ended, HostEnds, SavingEnds, Steady, SocketsOf
  <2>. QED
    BY <2>1, <1>0 DEF EnrollmentFits, Steady
<1>10. ASSUME NEW k \in Controllers PROVE RefusalFits(k)'
  <2>1. \A j : MayRegister(k, j)' = MayRegister(k, j)
    BY <1>0 DEF Steady, MayRegister, Usable, Known
  <2>2. RefusalFits(k) /\ Ended(k) /\ \A c \in SocketsOf(k) : Quieter(c) /\ c \in Sockets
    BY Constants DEF Quiet
  <2>3. \A c \in SocketsOf(k) : Sent(c, <<"unauthorized">>)' => server'[c].state = "closed"
    BY <2>2, <1>a DEF RefusalFits, Quieter
  <2>4. ASSUME Told(k)' PROVE Told(k) /\ Presented(k)' = Presented(k)
    <3>1. Told(k)
      BY <2>2, <2>4, <1>a DEF Told, Ended, HostEnds, SavingEnds, SocketsOf
    <3>2. refused'[k] = "unauthorized" \/ \E c \in SocketsOf(k) : Sent(c, <<"unauthorized">>)'
      BY <2>4 DEF Told, SocketsOf
    <3>3. ASSUME NEW c \in SocketsOf(k), Sent(c, <<"unauthorized">>)' PROVE client'[c] # "gone"
      BY <2>2, <3>3, NoFrames DEF Quieter, Sent
    <3>4. file'[k] = file[k] /\ saving'[k] = saving[k]
      BY <2>2, <3>2, <3>3 DEF Ended, HostEnds, SavingEnds
    <3>. QED
      BY <3>1, <3>4 DEF Presented
  <2>5. ASSUME Told(k)', NEW c \in SocketsOf(k), NEW j \in KeyIds, Sent(c, <<"offer", j>>)'
        PROVE  ~MayRegister(k, j)'
    BY <2>1, <2>2, <2>4, <2>5, <1>a DEF RefusalFits
  <2>6. Told(k)' => ~MayRegister(k, Presented(k))'
    <3>. SUFFICES ASSUME Told(k)' PROVE ~MayRegister(k, Presented(k))'
      OBVIOUS
    <3>1. ~MayRegister(k, Presented(k)) /\ Presented(k)' = Presented(k)
      BY <2>2, <2>4 DEF RefusalFits
    <3>. QED
      BY <3>1, <1>0 DEF Steady, MayRegister, Usable, Known
  <2>. QED
    BY <2>3, <2>5, <2>6 DEF RefusalFits, SocketsOf
<1>. QED
  BY <1>0, <1>1, <1>2, <1>3, <1>4, <1>5, <1>6, <1>7, <1>8, <1>9, <1>10

\* What becomes of the Relay's end when it closes.
LEMMA Closing ==
  ASSUME NEW ends \in [Sockets -> End], NEW c \in Sockets, NEW e, e = Close(ends, c)
  PROVE  /\ e \in [Sockets -> End]
         /\ e[c].state = "closed" /\ e[c].offer = Nothing /\ e[c].key = ends[c].key
         /\ \A d \in Sockets : d # c => e[d] = ends[d]
  BY DEF Close, End

\* The same of a step.
LEMMA EndCloses ==
  ASSUME server \in [Sockets -> End], NEW c \in Sockets, server' = Close(server, c)
  PROVE  /\ server' \in [Sockets -> End]
         /\ server'[c].state = "closed" /\ server'[c].offer = Nothing /\ server'[c].key = server[c].key
         /\ \A d \in Sockets : d # c => server'[d] = server[d]
  BY DEF Close, End

\* The Host's connections stay.
LEMMA HostsStand ==
  ASSUME CredentialIInv, UNCHANGED <<server, hostSocket>>, NEW k \in Controllers
  PROVE  HostEnds(k)
<1>1. CASE hostSocket[k] = Nothing
  BY <1>1 DEF HostEnds
<1>2. CASE hostSocket[k] # Nothing
  <2>. DEFINE c == hostSocket[k]
  <2>1. c \in Sockets /\ c[1] = k
    BY <1>2 DEF CredentialIInv, Typed, HostsOwn
  <2>2. server[c].state = "host"
    BY <2>1 DEF CredentialIInv, HostFits
  <2>. QED
    BY <1>2, <2>2 DEF HostEnds
<1>. QED
  BY <1>1, <1>2

\* The Relay closes connection c.
LEMMA HostLeaves ==
  ASSUME CredentialIInv, NEW c \in Sockets, NEW k \in Controllers,
         server' = Close(server, c),
         hostSocket' = [hostSocket EXCEPT ![c[1]] = IF @ = c THEN Nothing ELSE @]
  PROVE  HostEnds(k)
<1>0. Typed /\ server'[c].state = "closed" /\ \A d \in Sockets : d # c => server'[d] = server[d]
  BY DEF CredentialIInv, Close, Typed
<1>1. CASE hostSocket[k] = Nothing
  BY <1>0, <1>1 DEF HostEnds, Typed
<1>2. CASE hostSocket[k] # Nothing
  <2>. DEFINE d == hostSocket[k]
  <2>1. d \in Sockets /\ d[1] = k
    BY <1>2 DEF CredentialIInv, Typed, HostsOwn
  <2>2. server[d].state = "host"
    BY <2>1 DEF CredentialIInv, HostFits
  <2>3. CASE d = c
    BY <1>0, <1>2, <2>1, <2>3 DEF HostEnds, Typed
  <2>4. CASE d # c
    <3>1. hostSocket'[k] = d
      BY <1>0, <2>4, <2>1, Constants DEF Typed
    <3>. QED
      BY <1>0, <1>2, <2>1, <2>2, <2>4, <3>1 DEF HostEnds
  <2>. QED
    BY <2>3, <2>4
<1>. QED
  BY <1>1, <1>2

\* A connection that is not the Host's any more.
LEMMA NoticesQuiet ==
  ASSUME CredentialIInv, NEW c \in Sockets, RelayNotices(c)
  PROVE  Quiet
<1>. USE DEF CredentialIInv
<1>0. Typed /\ c[1] \in Controllers /\ HostsOwn /\ (\A d \in Sockets : HostFits(d) /\ ClientFits(d))
  BY Constants
<1>1. Typed'
  <2>1. server' \in [Sockets -> End]
    BY <1>0, Closing DEF RelayNotices, Typed
  <2>2. hostSocket' \in [Controllers -> {Nothing} \cup Sockets]
    BY <1>0 DEF RelayNotices, Typed
  <2>3. up' \in [Sockets -> Seq({"register", "saved"})]
    BY <1>0 DEF RelayNotices, Typed
  <2>. QED
    BY <1>0, <2>1, <2>2, <2>3 DEF RelayNotices, Typed, relayVars, deviceVars
<1>2. Steady
  BY DEF RelayNotices, Steady, relayVars
<1>3. ASSUME NEW d \in Sockets PROVE Quieter(d)
  BY <1>0, <1>3 DEF RelayNotices, Close, Typed, End, Live, Quieter, ClientFits
<1>4. ASSUME NEW k \in Controllers PROVE Ended(k)
  <2>1. HostEnds(k)
    BY HostLeaves DEF RelayNotices
  <2>. QED
    BY <2>1 DEF RelayNotices, Ended, SavingEnds, deviceVars, Told
<1>. QED
  BY <1>1, <1>2, <1>3, <1>4 DEF Quiet

\* The registration is acknowledged, or the Controller leaves.
LEMMA RegisteredQuiet ==
  ASSUME CredentialIInv, NEW c \in Sockets, ReceiveRegistered(c)
  PROVE  Quiet
<1>. USE DEF CredentialIInv
<1>0. /\ Typed /\ c[1] \in Controllers /\ HostsOwn /\ (\A d \in Sockets : HostFits(d) /\ ClientFits(d))
      /\ down[c] \in Seq(Frames) /\ down[c] # <<>>
  BY Constants DEF Typed, ReceiveRegistered
<1>1. Typed'
  BY <1>0, FrameRead, NoFrames DEF ReceiveRegistered, Leaves, Typed, relayVars, deviceVars, socketVars
<1>2. Steady
  BY DEF ReceiveRegistered, Steady, relayVars
<1>3. ASSUME NEW d \in Sockets PROVE Quieter(d)
  <2>0. server' = server /\ up' = up /\ ClientFits(d)
    BY <1>0 DEF ReceiveRegistered, socketVars
  <2>1. CASE d # c
    BY <1>0, <2>0, <2>1 DEF ReceiveRegistered, Leaves, Typed, Quieter, ClientFits
  <2>2. CASE d = c /\ Leaves(c)
    BY <1>0, <2>0, <2>2, NoFrames DEF Leaves, Typed, Quieter
  <2>3. CASE d = c /\ client' = [client EXCEPT ![c] = "registered"] /\ down' = [down EXCEPT ![c] = Tail(@)]
    <3>1. client'[c] = "registered" /\ down'[c] = Tail(down[c]) /\ client[c] \in {"open", "registered"}
      BY <1>0, <2>3 DEF Typed, ReceiveRegistered
    <3>2. /\ \A g : Carries(Tail(down[c]), g) => Carries(down[c], g)
          /\ OfferOnce(down[c]) => OfferOnce(Tail(down[c]))
      BY <1>0, FrameRead
    <3>. QED
      BY <1>0, <2>0, <2>3, <3>1, <3>2 DEF Quieter
  <2>. QED
    BY <2>1, <2>2, <2>3 DEF ReceiveRegistered
<1>4. ASSUME NEW k \in Controllers PROVE Ended(k)
  <2>1. HostEnds(k)
    BY HostsStand DEF ReceiveRegistered, socketVars
  <2>. QED
    BY <2>1 DEF ReceiveRegistered, Ended, SavingEnds, deviceVars, Told
<1>. QED
  BY <1>1, <1>2, <1>3, <1>4 DEF Quiet

\* The Relay closed the connection.
LEMMA ClosedQuiet ==
  ASSUME CredentialIInv, NEW c \in Sockets, ReceiveClose(c)
  PROVE  Quiet
<1>. USE DEF CredentialIInv
<1>0. /\ Typed /\ c[1] \in Controllers /\ HostsOwn /\ (\A d \in Sockets : HostFits(d) /\ ClientFits(d))
      /\ down[c] \in Seq(Frames) /\ down[c] # <<>>
  BY Constants DEF Typed, ReceiveClose
<1>1. Typed'
  BY <1>0, NoFrames DEF ReceiveClose, Leaves, Typed, relayVars, deviceVars, socketVars
<1>2. Steady
  BY DEF ReceiveClose, Steady, relayVars
<1>3. ASSUME NEW d \in Sockets PROVE Quieter(d)
  BY <1>0, <1>3, NoFrames DEF ReceiveClose, Leaves, Typed, Quieter, ClientFits, socketVars
<1>4. ASSUME NEW k \in Controllers PROVE Ended(k)
  <2>1. HostEnds(k)
    BY HostsStand DEF ReceiveClose, socketVars
  <2>2. file' = file /\ saving' = saving
    BY DEF ReceiveClose
  <2>3. CASE k # c[1]
    BY <1>0, <2>1, <2>2, <2>3 DEF ReceiveClose, Ended, SavingEnds, Told, Typed
  <2>4. CASE k = c[1]
    <3>1. \A d \in SocketsOf(k) : client'[d] = "gone"
      BY <1>0, <2>4, Constants DEF ReceiveClose, Leaves, ClientFits, Typed
    <3>2. ASSUME Head(down[c])[1] = "unauthorized" PROVE Told(k)
      <4>1. Head(down[c]) \in Frames /\ Carries(down[c], Head(down[c]))
        BY <1>0, FrameRead
      <4>2. Head(down[c]) = <<"unauthorized">>
        BY <4>1, <3>2 DEF Frames
      <4>. QED
        BY <4>1, <4>2, <2>4, Constants DEF Told, Sent
    <3>3. refused'[k] = "unauthorized" => Told(k)
      BY <1>0, <2>4, <3>2 DEF ReceiveClose, Typed, Told
    <3>. QED
      BY <2>1, <2>2, <3>1, <3>3 DEF Ended, SavingEnds
  <2>. QED
    BY <2>3, <2>4
<1>. QED
  BY <1>1, <1>2, <1>3, <1>4 DEF Quiet

\* A connection is found closed, or is abandoned.
LEMMA GoneQuiet ==
  ASSUME CredentialIInv, NEW c \in Sockets, ControllerNotices(c) \/ Abandon(c)
  PROVE  Quiet
<1>. USE DEF CredentialIInv
<1>0. /\ Typed /\ c[1] \in Controllers /\ HostsOwn /\ (\A d \in Sockets : HostFits(d) /\ ClientFits(d))
      /\ Leaves(c) /\ UNCHANGED <<relayVars, socketVars, up, deviceVars, recovered>>
  BY Constants DEF ControllerNotices, Abandon
<1>1. Typed'
  BY <1>0, NoFrames DEF Leaves, Typed, relayVars, deviceVars, socketVars
<1>2. Steady
  BY <1>0 DEF Steady, relayVars
<1>3. ASSUME NEW d \in Sockets PROVE Quieter(d)
  BY <1>0, <1>3, NoFrames DEF Leaves, Typed, Quieter, ClientFits, socketVars
<1>4. ASSUME NEW k \in Controllers PROVE Ended(k)
  <2>1. HostEnds(k)
    BY <1>0, HostsStand DEF socketVars
  <2>. QED
    BY <1>0, <2>1 DEF Ended, SavingEnds, deviceVars, Told
<1>. QED
  BY <1>1, <1>2, <1>3, <1>4 DEF Quiet

\* A save fails.
LEMMA FailureQuiet ==
  ASSUME CredentialIInv, NEW k \in Controllers, SaveFails(k)
  PROVE  Quiet
<1>. USE DEF CredentialIInv
<1>. DEFINE c == saving[k].conn
<1>0. /\ Typed /\ HostsOwn /\ (\A d \in Sockets : HostFits(d) /\ ClientFits(d))
      /\ c \in Sockets /\ c[1] = k
  BY DEF SavingFits, SaveFails, Typed
<1>1. Typed'
  BY <1>0, NoFrames DEF SaveFails, Leaves, Typed, relayVars, socketVars
<1>2. Steady
  BY DEF SaveFails, Steady, relayVars
<1>3. ASSUME NEW d \in Sockets PROVE Quieter(d)
  BY <1>0, <1>3, NoFrames DEF SaveFails, Leaves, Typed, Quieter, ClientFits, socketVars
<1>4. ASSUME NEW l \in Controllers PROVE Ended(l)
  <2>0. HostEnds(l)
    BY HostsStand DEF SaveFails, socketVars
  <2>1. CASE l = k
    <3>1. ASSUME NEW d \in SocketsOf(k) PROVE client'[d] = "gone"
      <4>1. d \in Sockets /\ d[1] = k /\ (client[d] # "gone" => d = c)
        BY <1>0, <3>1, Constants DEF ClientFits, SaveFails
      <4>. QED
        BY <1>0, <4>1 DEF SaveFails, Leaves, Typed
    <3>2. saving'[k] = Nothing /\ refused'[k] = "unsaved"
      BY <1>0 DEF SaveFails, Typed
    <3>3. file'[k] \in {file[k], saving[k].key} /\ saving[k] # Nothing
      BY <1>0 DEF SaveFails, Typed
    <3>. QED
      BY <2>0, <2>1, <3>1, <3>2, <3>3 DEF Ended, SavingEnds
  <2>2. CASE l # k
    <3>1. file'[l] = file[l] /\ saving'[l] = saving[l] /\ refused'[l] = refused[l]
      BY <1>0, <2>2 DEF SaveFails, Typed
    <3>. QED
      BY <2>0, <3>1 DEF Ended, SavingEnds, Told
  <2>. QED
    BY <2>1, <2>2
<1>. QED
  BY <1>1, <1>2, <1>3, <1>4 DEF Quiet

\* A Controller restarts.
LEMMA RestartQuiet ==
  ASSUME CredentialIInv, NEW k \in Controllers, ControllerRestarts(k)
  PROVE  Quiet
<1>. USE DEF CredentialIInv
<1>0. Typed /\ HostsOwn /\ (\A d \in Sockets : HostFits(d) /\ ClientFits(d))
  OBVIOUS
<1>1. Typed'
  <2>1. file' \in [Controllers -> KeyIds]
    BY <1>0 DEF ControllerRestarts, Typed
  <2>2. client' \in [Sockets -> {"gone", "connecting", "open", "registered"}] /\ down' \in [Sockets -> Seq(Frames)]
    BY <1>0, NoFrames DEF ControllerRestarts, Typed
  <2>. QED
    BY <1>0, <2>1, <2>2 DEF ControllerRestarts, Typed, relayVars, socketVars
<1>2. Steady
  BY DEF ControllerRestarts, Steady, relayVars
<1>3. ASSUME NEW d \in Sockets PROVE Quieter(d)
  BY <1>0, <1>3, NoFrames DEF ControllerRestarts, Typed, Quieter, ClientFits, socketVars
<1>4. ASSUME NEW l \in Controllers PROVE Ended(l)
  <2>0. HostEnds(l)
    BY HostsStand DEF ControllerRestarts, socketVars
  <2>1. CASE l = k
    <3>1. \A d \in SocketsOf(k) : client'[d] = "gone"
      BY <1>0, Constants DEF ControllerRestarts
    <3>2. saving'[k] = Nothing /\ refused'[k] = "no"
      BY <1>0 DEF ControllerRestarts, Typed
    <3>3. \/ file'[k] = file[k]
          \/ saving[k] # Nothing /\ file'[k] = saving[k].key
      BY <1>0 DEF ControllerRestarts, Typed
    <3>. QED
      BY <2>0, <2>1, <3>1, <3>2, <3>3 DEF Ended, SavingEnds
  <2>2. CASE l # k
    <3>1. file'[l] = file[l] /\ saving'[l] = saving[l] /\ refused'[l] = refused[l]
      BY <1>0, <2>2 DEF ControllerRestarts, Typed
    <3>. QED
      BY <2>0, <3>1 DEF Ended, SavingEnds, Told
  <2>. QED
    BY <2>1, <2>2
<1>. QED
  BY <1>1, <1>2, <1>3, <1>4 DEF Quiet

\* The Relay restarts.
LEMMA RelayBackQuiet ==
  ASSUME CredentialIInv, RelayRestarts
  PROVE  Quiet
<1>. USE DEF CredentialIInv
<1>0. Typed /\ HostsOwn /\ (\A d \in Sockets : HostFits(d) /\ ClientFits(d))
  OBVIOUS
<1>1. Typed' /\ Steady
  BY <1>0 DEF RelayRestarts, Typed, Steady, socketVars, wireVars, deviceVars
<1>2. ASSUME NEW d \in Sockets PROVE Quieter(d)
  BY <1>0, <1>2 DEF RelayRestarts, Quieter, ClientFits, socketVars, wireVars
<1>3. ASSUME NEW k \in Controllers PROVE Ended(k)
  <2>1. HostEnds(k)
    BY HostsStand DEF RelayRestarts, socketVars
  <2>. QED
    BY <2>1 DEF RelayRestarts, Ended, SavingEnds, deviceVars, Told
<1>. QED
  BY <1>1, <1>2, <1>3 DEF Quiet

-----------------------------------------------------------------------------
(* Steps that use a connection, while the credentials stay as they are.    *)

Fixed == UNCHANGED <<keys, fresh, staged, recovered>>

\* Nothing happens to what commit q was staged from, except that its connection closes.
DraftStands(q) == q.kind \in Kinds =>
    LET c == q.conn  k == c[1]
    IN  /\ server'[c].key = server[c].key
        /\ Live(c)' => Live(c) /\ server'[c].offer = server[c].offer
        /\ hostSocket'[k] \in {hostSocket[k], Nothing}
        /\ saving[k] = Nothing /\ NoOffers(k) =>
              file'[k] = file[k] /\ saving'[k] = Nothing /\ NoOffers(k)'

\* The draft still fits its commit when the step respects that commit's connection.
LEMMA DraftStays ==
  ASSUME CredentialIInv, Fixed, NEW q \in Commits, DraftFits(q), DraftStands(q)
  PROVE  DraftFits(q)'
<1>. DEFINE c == q.conn  k == c[1]
<1>1. staged' = staged /\ keys' = keys /\ recovered' = recovered /\ fresh' = fresh
  BY DEF Fixed
<1>3. CASE q.kind = "register"
  BY <1>1, <1>3 DEF DraftFits, DraftStands, Kinds, MayRegister, Usable, Known, RegisterDraft
<1>4. CASE q.kind = "invite"
  BY <1>1, <1>4 DEF DraftFits, DraftStands, Kinds
<1>5. CASE q.kind = "rotate"
  BY <1>1, <1>5 DEF DraftFits, DraftStands, Kinds
<1>6. CASE q.kind = "saved"
  <2>1. PICK j \in KeyIds \ {Invitation} :
           /\ hostSocket[k] \in {Nothing, c} /\ keys.holder[j] = k
           /\ Live(c) => server[c].offer = j
           /\ staged = [keys EXCEPT !.holder = OnlyKey(keys.holder, k, j)]
           /\ file[k] = j /\ saving[k] = Nothing /\ NoOffers(k)
    BY <1>6 DEF DraftFits
  <2>2. NoOffers(k)' /\ hostSocket'[k] \in {Nothing, c} /\ file'[k] = j /\ saving'[k] = Nothing
    BY <2>1, <1>6 DEF DraftStands, Kinds
  <2>3. Live(c)' => server'[c].offer = j
    BY <2>1, <1>6 DEF DraftStands, Kinds
  <2>. QED
    BY <1>1, <1>6, <2>1, <2>2, <2>3 DEF DraftFits, OnlyKey
<1>7. CASE q.kind = "revoke"
  BY <1>1, <1>7 DEF DraftFits
<1>. QED
  BY <1>3, <1>4, <1>5, <1>6, <1>7 DEF Commits, CommitOf, Kinds

\* What follows for the credentials when the queue is the same or gets longer.
LEMMA FixedKeeps ==
  ASSUME CredentialIInv, Fixed,
         queue' = queue \/ \E q \in Commits : queue' = Append(queue, q),
         \A q \in Commits : DraftFits(q) /\ Carries(queue, q) => DraftStands(q)
  PROVE  /\ KeysFit' /\ StagedFits' /\ Upcoming' = Upcoming
         /\ \A k, j : MayRegister(k, j)' = MayRegister(k, j)
<1>0. Typed /\ staged' = staged /\ fresh' = fresh /\ keys' = keys
  BY DEF Fixed, CredentialIInv
<1>1. ASSUME staged # Nothing
      PROVE  queue # <<>> /\ queue' # <<>> /\ Head(queue') = Head(queue) /\ Head(queue) \in Commits /\ Head(queue) = queue[1] /\ 1 \in DOMAIN queue
  <2>1. queue # <<>>
    BY <1>1 DEF CredentialIInv, StagedFits
  <2>2. queue \in Seq(Commits)
    BY <1>0 DEF Typed
  <2>3. Head(queue) \in Commits /\ Head(queue) = queue[1] /\ 1 \in DOMAIN queue
    BY <2>1, <2>2, Taken
  <2>4. queue' # <<>> /\ Head(queue') = Head(queue)
    BY <2>1, <2>2, Added
  <2>. QED
    BY <2>1, <2>3, <2>4
<1>2. Issuing' = Issuing /\ Upcoming' = Upcoming
  BY <1>0, <1>1 DEF Issuing, Upcoming
<1>3. KeysFit'
  BY <1>0, <1>2 DEF CredentialIInv, KeysFit
<1>4. StagedFits'
  <2>. SUFFICES ASSUME staged # Nothing PROVE StagedFits'
    BY <1>0 DEF StagedFits
  <2>. DEFINE h == Head(queue)
  <2>1. DraftFits(h)
    BY DEF CredentialIInv, StagedFits
  <2>2. PICK q \in Commits : q = Head(queue) /\ Carries(queue, q)
    BY <1>1 DEF Carries
  <2>3. DraftFits(q) /\ DraftStands(q)
    BY <2>1, <2>2
  <2>4. DraftFits(q)'
    BY <2>3, DraftStays
  <2>5. q = Head(queue') /\ queue' # <<>>
    BY <2>2, <1>1
  <2>. QED
    BY <2>4, <2>5 DEF StagedFits
<1>. QED
  BY <1>0, <1>2, <1>3, <1>4 DEF MayRegister, Usable, Known

\* The end of an upgraded connection.
LEMMA AcceptingEnd ==
  ASSUME NEW j \in KeyIds, NEW e, e = [Accepting EXCEPT !.key = j]
  PROVE  e \in End /\ e.state = "accepted" /\ e.key = j /\ e.offer = Nothing
  BY Constants DEF Accepting, End

\* The Relay accepts the connection, or refuses the credential.
LEMMA UpgradeKeeps ==
  ASSUME CredentialIInv, NEW c \in Sockets, AcceptUpgrade(c)
  PROVE  CredentialIInv'
<1>. USE DEF CredentialIInv
<1>. DEFINE k == c[1]
<1>0. /\ Typed /\ k \in Controllers /\ ClientFits(c) /\ HostFits(c) /\ client[c] = "connecting"
      /\ keys' = keys /\ fresh' = fresh /\ staged' = staged /\ recovered' = recovered /\ queue' = queue
      /\ revoked' = revoked /\ hostSocket' = hostSocket /\ down' = down /\ file' = file /\ saving' = saving
  BY Constants DEF AcceptUpgrade, relayVars
<1>a. /\ server[c].state = "none" /\ up[c] = <<>> /\ down[c] = <<>> /\ saving[k] = Nothing
      /\ \A d \in SocketsOf(k) : client[d] # "gone" => d = c
  BY <1>0 DEF ClientFits
<1>b. \A d \in Sockets : d # c => server'[d] = server[d] /\ up'[d] = up[d] /\ client'[d] = client[d]
  BY <1>0 DEF AcceptUpgrade, Typed, Frame
<1>c. \/ /\ server'[c] \in End /\ server'[c].state = "accepted" /\ server'[c].key = file[k]
         /\ server'[c].offer = Nothing
         /\ client'[c] = "open" /\ up'[c] = <<"register">> /\ refused' = refused
      \/ /\ server'[c] = server[c] /\ client'[c] = "gone" /\ up'[c] = up[c]
         /\ refused' = [refused EXCEPT ![k] = "unauthorized"] /\ ~Usable(file[k])
  <2>1. CASE Usable(file[k])
    <3>. DEFINE e == [Accepting EXCEPT !.key = file[k]]
    <3>1. e \in End /\ e.state = "accepted" /\ e.key = file[k] /\ e.offer = Nothing
      BY <1>0, AcceptingEnd DEF Typed
    <3>. HIDE DEF e
    <3>2. server' = [server EXCEPT ![c] = e] /\ client' = [client EXCEPT ![c] = "open"] /\ refused' = refused
      BY <2>1 DEF AcceptUpgrade, e
    <3>3. up' = [up EXCEPT ![c] = Append(@, "register")]
      BY <2>1, <1>0 DEF AcceptUpgrade, Frame
    <3>4. up'[c] = <<"register">>
      BY <1>0, <1>a, <3>3 DEF Typed
    <3>. QED
      BY <1>0, <3>1, <3>2, <3>4 DEF Typed
  <2>2. CASE ~Usable(file[k])
    BY <1>0, <2>2 DEF AcceptUpgrade, Typed
  <2>. QED
    BY <2>1, <2>2
<1>d. \A q \in Commits : Carries(queue, q) /\ q.kind \in Kinds => q.conn # c
  BY <1>a DEF QueueFits, CommitFits, Kinds
<1>e. hostSocket[k] # c /\ \A d \in Sockets : NoOffer(d)' = NoOffer(d)
  BY <1>0, <1>a DEF HostFits, NoOffer, Sent
<1>f. \A l \in Controllers : NoOffers(l)' = NoOffers(l)
  BY <1>0 DEF NoOffers, NoOffer, Sent, SocketsOf
<1>1. Typed'
  <2>1. server' \in [Sockets -> End]
    <3>1. server' = [d \in Sockets |-> server'[d]]
      BY <1>0 DEF AcceptUpgrade, Typed
    <3>2. \A d \in Sockets : server'[d] \in End
      BY <1>0, <1>b, <1>c DEF Typed
    <3>. QED
      BY <3>1, <3>2
  <2>2. up' \in [Sockets -> Seq({"register", "saved"})]
    <3>1. up' = [up EXCEPT ![c] = up'[c]]
      BY <1>0 DEF AcceptUpgrade, Typed, Frame
    <3>2. up'[c] \in Seq({"register", "saved"})
      <4>1. up[c] \in Seq({"register", "saved"}) /\ <<"register">> \in Seq({"register", "saved"})
        BY <1>0 DEF Typed
      <4>. QED
        BY <1>c, <4>1
    <3>. QED
      BY <1>0, <3>1, <3>2 DEF Typed
  <2>. QED
    BY <1>0, <2>1, <2>2 DEF AcceptUpgrade, Typed, relayVars
<1>2. /\ KeysFit' /\ StagedFits' /\ Upcoming' = Upcoming
      /\ \A l, j : MayRegister(l, j)' = MayRegister(l, j)
  <2>1. ASSUME NEW q \in Commits, Carries(queue, q) PROVE DraftStands(q)
    <3>1. q.kind \in Kinds => q.conn \in Sockets /\ q.conn # c /\ q.conn[1] \in Controllers
      BY <2>1, <1>d, Constants DEF Commits, CommitOf, Kinds
    <3>. QED
      BY <3>1, <1>0, <1>b, <1>f DEF DraftStands, Live
  <2>. QED
    BY <2>1, <1>0, FixedKeeps DEF Fixed
<1>3. KeysKnown'
  BY <1>0, <1>b, <1>c, <1>2 DEF KeysKnown, Sent
<1>4. ASSUME NEW d \in Sockets PROVE ClientFits(d)'
  <2>0. d[1] \in Controllers /\ ClientFits(d) /\ down'[d] = down[d] /\ saving' = saving
    BY <1>0, Constants
  <2>1. CASE d = c
    BY <1>0, <1>a, <1>b, <1>c, <2>0, <2>1 DEF ClientFits, SocketsOf
  <2>2. CASE d # c
    <3>1. client[d] # "gone" /\ d[1] = k => FALSE
      BY <1>0, <1>a, <2>2 DEF ClientFits, SocketsOf
    <3>2. d[1] # k => refused'[d[1]] = refused[d[1]]
      BY <1>0, <1>c, <2>0 DEF Typed
    <3>3. \A e \in SocketsOf(d[1]) : e # c => client'[e] = client[e]
      BY <1>b, <2>0, Constants
    <3>4. d[1] # k => c \notin SocketsOf(d[1])
      BY DEF SocketsOf
    <3>. QED
      BY <1>b, <2>0, <2>2, <3>1, <3>2, <3>3, <3>4 DEF ClientFits
  <2>. QED
    BY <2>1, <2>2
<1>5. SavingFits'
  BY <1>0 DEF SavingFits
<1>6. ASSUME NEW d \in Sockets, d # c, Unopened(d) PROVE Unopened(d)'
  BY <1>0, <1>b, <1>e, <1>6 DEF Unopened
<1>7. ASSUME NEW d \in Sockets, d # c, Saved(d) PROVE Saved(d)'
  BY <1>0, <1>b, <1>f, <1>7, Constants DEF Saved
<1>8. QueueFits'
  <2>1. ASSUME NEW q \in Commits, Carries(queue, q), CommitFits(q) PROVE CommitFits(q)'
    <3>1. q.kind \in Kinds => q.conn \in Sockets /\ q.conn # c
      BY <2>1, <1>d DEF Commits, CommitOf, Kinds
    <3>. QED
      BY <2>1, <3>1, <1>0, <1>2, <1>b, <1>6, <1>7 DEF CommitFits, Commits, CommitOf, Kinds
  <2>. QED
    BY <2>1, <1>0 DEF QueueFits
<1>9. ASSUME NEW d \in Sockets PROVE HostFits(d)'
  <2>1. CASE d = c
    BY <1>0, <1>a, <1>c, <1>e, <2>1 DEF HostFits, Unopened, NoOffer, Sent, Carries
  <2>2. CASE d # c
    BY <1>0, <1>b, <1>e, <1>6, <1>7, <1>9, <2>2 DEF HostFits, Sent
  <2>. QED
    BY <2>1, <2>2
<1>10. HostsOwn'
  BY <1>0 DEF HostsOwn
<1>11. EnrollmentFits'
  <2>1. ASSUME NEW l \in Controllers, Enrolled(l)' PROVE Enrolled(l)
    BY <1>0, <1>b, <1>c, <1>e, <2>1, Constants DEF Enrolled, SocketsOf
  <2>. QED
    BY <2>1, <1>0 DEF EnrollmentFits
<1>12. ASSUME NEW l \in Controllers PROVE RefusalFits(l)'
  <2>1. CASE l = k
    <3>1. ASSUME NEW d \in SocketsOf(k), NEW g PROVE ~Sent(d, g)'
      BY <1>0, <1>a, <3>1, NoFrames, Constants DEF ClientFits, Sent
    <3>2. Told(k)' => refused'[k] = "unauthorized"
      BY <3>1 DEF Told, SocketsOf
    <3>3. refused[k] = "no"
      BY <1>0 DEF ClientFits
    <3>4. Told(k)' => ~Usable(file[k])
      BY <1>c, <3>2, <3>3
    <3>5. Told(k)' => ~MayRegister(k, Presented(k))'
      BY <1>0, <1>a, <1>2, <3>4 DEF Presented, MayRegister
    <3>. QED
      BY <2>1, <3>1, <3>5 DEF RefusalFits, SocketsOf
  <2>2. CASE l # k
    <3>1. \A d \in SocketsOf(l) : d \in Sockets /\ d # c
      BY <2>2 DEF SocketsOf
    <3>2. /\ \A d \in SocketsOf(l) : \A g : Sent(d, g)' = Sent(d, g)
          /\ Presented(l)' = Presented(l)
      BY <1>0 DEF Sent, Presented
    <3>3. refused'[l] = refused[l]
      BY <1>0, <1>c, <2>2 DEF Typed
    <3>4. Told(l)' = Told(l)
      BY <3>2, <3>3 DEF Told, SocketsOf
    <3>5. RefusalFits(l) /\ \A d \in SocketsOf(l) : server'[d] = server[d]
      BY <1>b, <3>1
    <3>6. ~MayRegister(l, Presented(l)) => ~MayRegister(l, Presented(l))'
      BY <1>2, <3>2 DEF MayRegister, Usable, Known
    <3>. QED
      BY <1>2, <3>2, <3>4, <3>5, <3>6 DEF RefusalFits, SocketsOf
  <2>. QED
    BY <2>1, <2>2
<1>. QED
  BY <1>1, <1>2, <1>3, <1>4, <1>5, <1>8, <1>9, <1>10, <1>11, <1>12

\* The end of a connection that is being opened.
LEMMA NoneEnd ==
  ASSUME NEW e, e = [Accepting EXCEPT !.state = "none"]
  PROVE  e \in End /\ e.state = "none" /\ e.key = Invitation /\ e.offer = Nothing
  BY Constants DEF Accepting, End

\* A Controller connects, on a connection of which the Relay knows nothing.
LEMMA ConnectKeeps ==
  ASSUME CredentialIInv, NEW k \in Controllers, Connect(k)
  PROVE  CredentialIInv'
<1>. USE DEF CredentialIInv
<1>. PICK c \in SocketsOf(k) :
        /\ ~Live(c) /\ ~Queued(c)
        /\ client' = [client EXCEPT ![c] = "connecting"]
        /\ server' = [server EXCEPT ![c] = [Accepting EXCEPT !.state = "none"]]
        /\ up' = [up EXCEPT ![c] = <<>>]
  BY DEF Connect
<1>0. /\ Typed /\ c \in Sockets /\ c[1] = k /\ ClientFits(c) /\ HostFits(c)
      /\ saving[k] = Nothing /\ refused[k] = "no" /\ \A d \in SocketsOf(k) : client[d] = "gone"
      /\ keys' = keys /\ fresh' = fresh /\ staged' = staged /\ recovered' = recovered /\ queue' = queue
      /\ revoked' = revoked /\ relayUp' = relayUp
      /\ hostSocket' = hostSocket /\ down' = down /\ file' = file /\ saving' = saving /\ refused' = refused
  BY Constants DEF Connect, MayConnect, relayVars, deviceVars
<1>b. \A d \in Sockets : d # c => server'[d] = server[d] /\ up'[d] = up[d] /\ client'[d] = client[d]
  BY <1>0 DEF Typed
<1>c. /\ server'[c] \in End /\ server'[c].state = "none" /\ server'[c].key = Invitation
      /\ server'[c].offer = Nothing /\ client'[c] = "connecting" /\ up'[c] = <<>> /\ down[c] = <<>>
  <2>1. server'[c] = [Accepting EXCEPT !.state = "none"]
    BY <1>0 DEF Typed
  <2>2. /\ server'[c] \in End /\ server'[c].state = "none" /\ server'[c].key = Invitation
        /\ server'[c].offer = Nothing
    BY <2>1, NoneEnd
  <2>. QED
    BY <1>0, <2>2 DEF Typed, ClientFits
<1>d. \A q \in Commits : Carries(queue, q) => q.conn # c
  BY DEF Queued, Carries
<1>e. hostSocket[k] # c /\ \A d \in Sockets : NoOffer(d)' = NoOffer(d)
  BY <1>0 DEF HostFits, NoOffer, Sent, Live
<1>f. \A l \in Controllers : NoOffers(l)' = NoOffers(l)
  BY <1>0 DEF NoOffers, NoOffer, Sent, SocketsOf
<1>1. Typed'
  <2>1. server' \in [Sockets -> End]
    BY <1>0, <1>c DEF Typed
  <2>2. up' \in [Sockets -> Seq({"register", "saved"})]
    BY <1>0 DEF Typed
  <2>. QED
    BY <1>0, <2>1, <2>2 DEF Typed
<1>2. /\ KeysFit' /\ StagedFits' /\ Upcoming' = Upcoming
      /\ \A l, j : MayRegister(l, j)' = MayRegister(l, j)
  <2>1. ASSUME NEW q \in Commits, Carries(queue, q) PROVE DraftStands(q)
    <3>1. q.kind \in Kinds => q.conn \in Sockets /\ q.conn # c /\ q.conn[1] \in Controllers
      BY <2>1, <1>d, Constants DEF Commits, CommitOf, Kinds
    <3>. QED
      BY <3>1, <1>0, <1>b, <1>f DEF DraftStands, Live
  <2>. QED
    BY <2>1, <1>0, FixedKeeps DEF Fixed
<1>3. KeysKnown'
  <2>1. Invitation < Upcoming
    BY <1>0, Constants DEF KeysKnown, Typed, Upcoming
  <2>2. \A d \in Sockets : server'[d].key < Upcoming /\ (server'[d].offer # Nothing => server'[d].offer < Upcoming)
    BY <1>b, <1>c, <2>1 DEF KeysKnown
  <2>. QED
    BY <1>0, <1>2, <2>2 DEF KeysKnown, Sent
<1>4. ASSUME NEW d \in Sockets PROVE ClientFits(d)'
  BY <1>0, <1>b, <1>c, <1>4, Constants DEF ClientFits, Typed, SocketsOf
<1>5. SavingFits'
  BY <1>0 DEF SavingFits
<1>6. ASSUME NEW d \in Sockets, d # c, Unopened(d) PROVE Unopened(d)'
  BY <1>0, <1>b, <1>e, <1>6 DEF Unopened
<1>7. ASSUME NEW d \in Sockets, d # c, Saved(d) PROVE Saved(d)'
  BY <1>0, <1>b, <1>f, <1>7, Constants DEF Saved
<1>8. QueueFits'
  <2>1. ASSUME NEW q \in Commits, Carries(queue, q), CommitFits(q) PROVE CommitFits(q)'
    <3>1. q.kind \in Kinds => q.conn \in Sockets /\ q.conn # c
      BY <2>1, <1>d DEF Commits, CommitOf, Kinds
    <3>. QED
      BY <2>1, <3>1, <1>0, <1>2, <1>b, <1>6, <1>7 DEF CommitFits, Commits, CommitOf, Kinds
  <2>. QED
    BY <2>1, <1>0 DEF QueueFits
<1>9. ASSUME NEW d \in Sockets PROVE HostFits(d)'
  <2>1. CASE d = c
    BY <1>0, <1>c, <1>e, <2>1 DEF HostFits
  <2>2. CASE d # c
    BY <1>0, <1>b, <1>e, <1>6, <1>7, <1>9, <2>2 DEF HostFits, Sent
  <2>. QED
    BY <2>1, <2>2
<1>10. HostsOwn'
  BY <1>0 DEF HostsOwn
<1>11. EnrollmentFits'
  <2>1. ASSUME NEW l \in Controllers, Enrolled(l)' PROVE Enrolled(l)
    BY <1>0, <1>b, <1>c, <1>e, <2>1, Constants DEF Enrolled, SocketsOf
  <2>. QED
    BY <2>1, <1>0 DEF EnrollmentFits
<1>12. ASSUME NEW l \in Controllers PROVE RefusalFits(l)'
  <2>1. /\ \A d \in SocketsOf(l) : \A g : Sent(d, g)' = Sent(d, g)
        /\ Presented(l)' = Presented(l) /\ refused'[l] = refused[l]
    BY <1>0 DEF Sent, Presented
  <2>2. Told(l)' = Told(l)
    BY <2>1 DEF Told, SocketsOf
  <2>3. \A d \in SocketsOf(l) : Sent(d, <<"unauthorized">>) => server'[d] = server[d]
    BY <1>b, <1>c, NoFrames, Constants DEF Sent
  <2>4. ~MayRegister(l, Presented(l)) => ~MayRegister(l, Presented(l))'
    BY <1>0, <2>1 DEF MayRegister, Usable, Known
  <2>. QED
    <3>1. \A d \in SocketsOf(l) : Sent(d, <<"unauthorized">>)' => server'[d].state = "closed"
      BY <2>1, <2>3 DEF RefusalFits
    <3>2. \A d \in SocketsOf(l), j \in KeyIds : Told(l)' /\ Sent(d, <<"offer", j>>)' => ~MayRegister(l, j)'
      BY <1>2, <2>1, <2>2 DEF RefusalFits
    <3>3. Told(l)' => ~MayRegister(l, Presented(l))'
      BY <2>2, <2>4 DEF RefusalFits
    <3>. QED
      BY <3>1, <3>2, <3>3 DEF RefusalFits, SocketsOf
<1>. QED
  BY <1>1, <1>2, <1>3, <1>4, <1>5, <1>8, <1>9, <1>10, <1>11, <1>12

\* The Controller gets a credential: nothing else was on offer, or it leaves.
LEMMA OfferKeeps ==
  ASSUME CredentialIInv, NEW c \in Sockets, ReceiveOffer(c)
  PROVE  CredentialIInv'
<1>. USE DEF CredentialIInv
<1>. DEFINE k == c[1]
<1>0. /\ Typed /\ k \in Controllers /\ ClientFits(c) /\ HostFits(c)
      /\ client[c] \in {"open", "registered"} /\ down[c] \in Seq(Frames) /\ down[c] # <<>>
      /\ keys' = keys /\ fresh' = fresh /\ staged' = staged /\ recovered' = recovered /\ queue' = queue
      /\ revoked' = revoked /\ relayUp' = relayUp /\ server' = server /\ up' = up
      /\ hostSocket' = hostSocket /\ file' = file /\ refused' = refused
  BY Constants DEF ReceiveOffer, Typed, relayVars, socketVars
<1>a. CASE saving[k] # Nothing
  <2>1. Leaves(c) /\ saving' = saving
    BY <1>a DEF ReceiveOffer
  <2>2. Typed'
    BY <1>0, <2>1, NoFrames DEF Leaves, Typed
  <2>3. Steady
    BY <1>0 DEF Steady
  <2>4. ASSUME NEW d \in Sockets PROVE Quieter(d)
    BY <1>0, <2>1, <2>4, NoFrames DEF Leaves, Typed, Quieter, ClientFits
  <2>5. ASSUME NEW l \in Controllers PROVE Ended(l)
    <3>1. HostEnds(l)
      BY <1>0, HostsStand
    <3>. QED
      BY <1>0, <2>1, <3>1 DEF Ended, SavingEnds, Told
  <2>. QED
    BY <2>2, <2>3, <2>4, <2>5, QuietKeeps DEF Quiet
<1>b. CASE saving[k] = Nothing
  <2>1. PICK j \in KeyIds : Head(down[c]) = <<"offer", j>>
    BY <1>0, FrameRead, FrameKinds DEF ReceiveOffer
  <2>2. /\ saving' = [saving EXCEPT ![k] = [key |-> j, conn |-> c]] /\ client' = client
        /\ down' = [down EXCEPT ![c] = Tail(down[c])]
    BY <1>b, <2>1, FrameKinds DEF ReceiveOffer
  <2>3. /\ down'[c] \in Seq(Frames) /\ \A g : Sent(c, g)' => Sent(c, g)
        /\ Sent(c, <<"offer", j>>) /\ down'[c] = Tail(down[c])
        /\ OfferOnce(down[c]) => OfferOnce(down'[c]) /\ NoOffer(c)'
    BY <1>0, <2>1, <2>2, FrameRead, FrameKinds DEF Typed, Sent, NoOffer
  <2>4. \A d \in Sockets : d # c => down'[d] = down[d]
    BY <1>0, <2>2 DEF Typed
  <2>5. \A d \in Sockets : \A g : Sent(d, g)' => Sent(d, g)
    BY <2>3, <2>4 DEF Sent
  <2>6. /\ [key |-> j, conn |-> c] # Nothing /\ saving'[k].key = j /\ saving'[k].conn = c
        /\ saving'[k] # Nothing
        /\ \A l \in Controllers : l # k => saving'[l] = saving[l]
    BY <1>0, <2>2, Constants DEF Typed
  <2>7. ~NoOffer(c) /\ ~NoOffers(k) /\ c \in SocketsOf(k)
    BY <2>3, Constants DEF NoOffer, NoOffers
  <2>8. \A d \in Sockets : d # c /\ d[1] = k => client[d] = "gone"
    BY <1>0 DEF ClientFits, SocketsOf
  <2>9. \A l \in Controllers : NoOffers(l) => l # k /\ NoOffers(l)'
    BY <2>5, <2>7, Constants DEF NoOffers, NoOffer, SocketsOf
  <2>10. Typed'
    <3>1. down' \in [Sockets -> Seq(Frames)]
      BY <1>0, <2>2, <2>3 DEF Typed
    <3>2. saving' \in [Controllers -> {Nothing} \cup [key : KeyIds, conn : Sockets]]
      BY <1>0, <2>2 DEF Typed
    <3>. QED
      BY <1>0, <2>2, <3>1, <3>2 DEF Typed
  <2>11. /\ KeysFit' /\ StagedFits' /\ Upcoming' = Upcoming
         /\ \A l, i : MayRegister(l, i)' = MayRegister(l, i)
    <3>1. ASSUME NEW q \in Commits PROVE DraftStands(q)
      <4>1. q.kind \in Kinds => q.conn \in Sockets /\ q.conn[1] \in Controllers
        BY Constants DEF Commits, CommitOf, Kinds
      <4>. QED
        BY <4>1, <1>0, <2>6, <2>9 DEF DraftStands, Live
    <3>. QED
      BY <3>1, <1>0, FixedKeeps DEF Fixed
  <2>12. KeysKnown'
    <3>1. j \in 1..Upcoming - 1
      BY <2>3 DEF KeysKnown
    <3>2. \A l \in Controllers : saving'[l] # Nothing => saving'[l].key \in 1..Upcoming - 1
      BY <2>6, <3>1 DEF KeysKnown
    <3>3. \A d \in Sockets, i \in KeyIds : Sent(d, <<"offer", i>>)' => i \in 1..Upcoming - 1
      BY <2>5 DEF KeysKnown
    <3>. QED
      BY <1>0, <2>11, <3>2, <3>3 DEF KeysKnown
  <2>13. ASSUME NEW d \in Sockets PROVE ClientFits(d)'
    <3>1. CASE d = c
      BY <1>0, <2>2, <2>6, <2>8, <3>1 DEF ClientFits, SocketsOf
    <3>2. CASE d # c
      BY <1>0, <2>2, <2>4, <2>6, <2>8, <3>2, Constants DEF ClientFits, SocketsOf
    <3>. QED
      BY <3>1, <3>2
  <2>14. SavingFits'
    BY <2>6 DEF SavingFits
  <2>15. ASSUME NEW d \in Sockets, Unopened(d) PROVE Unopened(d)'
    <3>1. CASE d[1] = k
      BY <1>0, <2>2, <2>7, <2>8, <2>15, <3>1 DEF Unopened
    <3>2. CASE d[1] # k
      BY <1>0, <2>2, <2>5, <2>6, <2>15, <3>2, Constants DEF Unopened, NoOffer
    <3>. QED
      BY <3>1, <3>2
  <2>16. ASSUME NEW d \in Sockets, Saved(d) PROVE Saved(d)'
    BY <1>0, <2>6, <2>9, <2>16, Constants DEF Saved
  <2>17. QueueFits'
    <3>1. ASSUME NEW q \in Commits, CommitFits(q) PROVE CommitFits(q)'
      BY <3>1, <1>0, <2>11, <2>15, <2>16 DEF CommitFits, Commits, CommitOf, Kinds
    <3>. QED
      BY <3>1, <1>0 DEF QueueFits
  <2>18. ASSUME NEW d \in Sockets PROVE HostFits(d)'
    <3>1. CASE d = c
      <4>1. server[c].state = "host" => server[c].offer = j /\ OfferOnce(down[c])
        BY <1>0, <2>3 DEF HostFits
      <4>. QED
        BY <1>0, <2>2, <2>3, <2>5, <2>6, <2>15, <2>16, <3>1, <4>1 DEF HostFits
    <3>2. CASE d # c
      <4>1. saving'[d[1]] # Nothing /\ client'[d] # "gone" => saving'[d[1]] = saving[d[1]]
        BY <2>2, <2>6, <2>8, <3>2, Constants
      <4>2. NoOffer(d)' = NoOffer(d) /\ \A g : Sent(d, g)' = Sent(d, g)
        BY <2>4, <3>2 DEF NoOffer, Sent
      <4>. QED
        BY <1>0, <2>2, <2>4, <2>15, <2>16, <3>2, <4>1, <4>2 DEF HostFits
    <3>. QED
      BY <3>1, <3>2
  <2>19. HostsOwn'
    BY <1>0 DEF HostsOwn
  <2>20. EnrollmentFits'
    <3>1. ASSUME NEW l \in Controllers, Enrolled(l)' PROVE Enrolled(l)
      <4>1. CASE l = k
        BY <2>7, <4>1 DEF Enrolled
      <4>2. CASE l # k
        <5>1. \A d \in Sockets : NoOffer(d) => NoOffer(d)'
          BY <2>5 DEF NoOffer
        <5>. QED
          BY <1>0, <2>6, <3>1, <4>2, <5>1, Constants DEF Enrolled, SocketsOf
      <4>. QED
        BY <4>1, <4>2
    <3>. QED
      BY <3>1, <1>0 DEF EnrollmentFits
  <2>21. ASSUME NEW l \in Controllers PROVE RefusalFits(l)'
    <3>1. Told(l)' => Told(l)
      BY <1>0, <2>5, Constants DEF Told, SocketsOf
    <3>2. ASSUME Told(l)' PROVE ~MayRegister(l, Presented(l))'
      <4>1. CASE l = k
        <5>1. ~MayRegister(k, j)
          BY <3>1, <3>2, <4>1, <2>3, <2>7 DEF RefusalFits
        <5>2. Presented(k)' = j
          BY <2>6 DEF Presented
        <5>. QED
          BY <1>0, <4>1, <5>1, <5>2 DEF MayRegister, Usable, Known
      <4>2. CASE l # k
        <5>1. ~MayRegister(l, Presented(l)) /\ Presented(l)' = Presented(l)
          BY <1>0, <2>6, <3>1, <3>2, <4>2 DEF RefusalFits, Presented
        <5>. QED
          BY <1>0, <5>1 DEF MayRegister, Usable, Known
      <4>. QED
        BY <4>1, <4>2
    <3>. QED
      BY <1>0, <2>5, <2>11, <3>1, <3>2, Constants DEF RefusalFits, SocketsOf
  <2>. QED
    BY <2>10, <2>11, <2>12, <2>13, <2>14, <2>17, <2>18, <2>19, <2>20, <2>21
<1>. QED
  BY <1>a, <1>b

\* A save ends: what the Controller has is what it was offered.
LEMMA SaveKeeps ==
  ASSUME CredentialIInv, NEW k \in Controllers, SaveDone(k)
  PROVE  CredentialIInv'
<1>. USE DEF CredentialIInv
<1>. PICK c \in Sockets : saving[k].conn = c
  BY DEF SaveDone, Typed
<1>0. /\ Typed /\ saving[k] # Nothing /\ c \in Sockets /\ c[1] = k
      /\ ClientFits(c) /\ HostFits(c) /\ saving[k].key \in KeyIds
      /\ keys' = keys /\ fresh' = fresh /\ staged' = staged /\ recovered' = recovered /\ queue' = queue
      /\ revoked' = revoked /\ relayUp' = relayUp /\ server' = server /\ down' = down /\ client' = client
      /\ hostSocket' = hostSocket /\ refused' = refused
      /\ file' = [file EXCEPT ![k] = saving[k].key] /\ saving' = [saving EXCEPT ![k] = Nothing]
  BY DEF SaveDone, Typed, relayVars, socketVars, SavingFits
<1>a. /\ up' = up \/ up' = [up EXCEPT ![c] = Append(up[c], "saved")]
      /\ \/ up'[c] = up[c]
         \/ client[c] # "gone" /\ up'[c] = Append(up[c], "saved")
      /\ \A d \in Sockets : d # c => up'[d] = up[d]
  <2>1. CASE client[c] = "gone"
    <3>1. up' = up
      BY <1>0, <2>1 DEF SaveDone
    <3>. QED
      BY <3>1
  <2>2. CASE client[c] # "gone"
    <3>1. up' = [up EXCEPT ![c] = Append(@, "saved")]
      BY <2>2 DEF SaveDone, Frame
    <3>. QED
      BY <1>0, <2>2, <3>1 DEF Typed
  <2>. QED
    BY <2>1, <2>2
<1>b. \A d \in SocketsOf(k) : client[d] # "gone" => d = c
  BY <1>0, Constants DEF ClientFits
<1>c. \A l \in Controllers : l # k => file'[l] = file[l] /\ saving'[l] = saving[l]
  BY <1>0 DEF Typed
<1>d. file'[k] = saving[k].key /\ saving'[k] = Nothing
  BY <1>0 DEF Typed
<1>e. \A d \in Sockets : NoOffer(d)' = NoOffer(d) /\ \A g : Sent(d, g)' = Sent(d, g)
  BY <1>0 DEF NoOffer, Sent
<1>f. \A l \in Controllers : NoOffers(l)' = NoOffers(l)
  BY <1>0 DEF NoOffers, NoOffer, Sent, SocketsOf
<1>1. Typed'
  <2>1. up' \in [Sockets -> Seq({"register", "saved"})]
    <3>1. up[c] \in Seq({"register", "saved"}) /\ "saved" \in {"register", "saved"}
      BY <1>0 DEF Typed
    <3>2. Append(up[c], "saved") \in Seq({"register", "saved"})
      BY <3>1
    <3>. QED
      BY <1>0, <1>a, <3>2 DEF Typed
  <2>2. file' \in [Controllers -> KeyIds]
    BY <1>0 DEF Typed
  <2>3. saving' \in [Controllers -> {Nothing} \cup [key : KeyIds, conn : Sockets]]
    BY <1>0 DEF Typed
  <2>. QED
    BY <1>0, <2>1, <2>2, <2>3 DEF Typed
<1>2. /\ KeysFit' /\ StagedFits' /\ Upcoming' = Upcoming
      /\ \A l, j : MayRegister(l, j)' = MayRegister(l, j)
  <2>1. ASSUME NEW q \in Commits PROVE DraftStands(q)
    <3>1. q.kind \in Kinds => q.conn \in Sockets /\ q.conn[1] \in Controllers
      BY Constants DEF Commits, CommitOf, Kinds
    <3>. QED
      BY <3>1, <1>0, <1>c, <1>f DEF DraftStands, Live
  <2>. QED
    BY <2>1, <1>0, FixedKeeps DEF Fixed
<1>3. KeysKnown'
  <2>1. saving[k].key < Upcoming
    BY <1>0 DEF KeysKnown, Typed, Upcoming
  <2>2. \A l \in Controllers : file'[l] < Upcoming
    BY <1>c, <1>d, <2>1 DEF KeysKnown
  <2>3. \A l \in Controllers : saving'[l] # Nothing => saving'[l].key \in 1..Upcoming - 1
    BY <1>c, <1>d DEF KeysKnown
  <2>4. \A d \in Sockets : server'[d].key < Upcoming /\ (server'[d].offer # Nothing => server'[d].offer < Upcoming)
    BY <1>0 DEF KeysKnown
  <2>5. \A d \in Sockets, j \in KeyIds : Sent(d, <<"offer", j>>)' => j \in 1..Upcoming - 1
    BY <1>e DEF KeysKnown
  <2>. QED
    BY <1>2, <2>2, <2>3, <2>4, <2>5 DEF KeysKnown
<1>4. ASSUME NEW d \in Sockets PROVE ClientFits(d)'
  <2>1. client[d] = "connecting" => d # c /\ d[1] # k
    BY <1>0, <1>b, <1>4 DEF ClientFits, SocketsOf
  <2>. QED
    BY <2>1, <1>0, <1>a, <1>c, <1>d, <1>4, Constants DEF ClientFits, SocketsOf
<1>5. SavingFits'
  BY <1>c, <1>d DEF SavingFits
<1>6. ASSUME NEW d \in Sockets, Unopened(d) PROVE Unopened(d)'
  <2>1. CASE d[1] = k
    BY <1>0, <2>1, <1>6 DEF Unopened
  <2>2. CASE d[1] # k
    BY <1>0, <1>c, <1>e, <1>6, <2>2, Constants DEF Unopened
  <2>. QED
    BY <2>1, <2>2
<1>7. ASSUME NEW d \in Sockets, Saved(d) PROVE Saved(d)' /\ d # c
  BY <1>0, <1>c, <1>f, <1>7, Constants DEF Saved
<1>8. QueueFits'
  <2>1. ASSUME NEW q \in Commits, CommitFits(q) PROVE CommitFits(q)'
    <3>1. CASE q.kind = "register"
      <4>1. q.conn = c => client[c] = "gone"
        BY <1>0, <2>1, <3>1 DEF CommitFits, Unopened
      <4>2. q.conn \in Sockets /\ up'[q.conn] = up[q.conn]
        BY <4>1, <1>a, <3>1 DEF Commits, CommitOf, Kinds
      <4>. QED
        BY <2>1, <3>1, <4>2, <1>0, <1>6 DEF CommitFits
    <3>2. CASE q.kind \in {"invite", "rotate"}
      BY <2>1, <3>2, <1>0, <1>2 DEF CommitFits
    <3>3. CASE q.kind = "saved"
      <4>1. q.conn \in Sockets
        BY <3>3 DEF Commits, CommitOf, Kinds
      <4>2. server[q.conn].state = "host" => Saved(q.conn)' /\ q.conn # c /\ up[q.conn] = <<>>
        BY <2>1, <3>3, <4>1, <1>7 DEF CommitFits
      <4>. QED
        BY <2>1, <3>3, <4>1, <4>2, <1>0, <1>a DEF CommitFits
    <3>4. CASE q.kind = "revoke"
      BY <2>1, <3>4, <1>0 DEF CommitFits
    <3>. QED
      BY <3>1, <3>2, <3>3, <3>4 DEF Commits, CommitOf, Kinds
  <2>. QED
    BY <2>1, <1>0 DEF QueueFits
<1>9. ASSUME NEW d \in Sockets PROVE HostFits(d)'
  <2>1. CASE d = c
    <3>1. server[c].state = "accepted" => client[c] = "gone"
      BY <1>0 DEF HostFits, Unopened
    <3>2. server[c].state = "host" => up[c] = <<>>
      BY <1>0, <1>7 DEF HostFits
    <3>3. ASSUME server[c].state = "host", client[c] # "gone" PROVE Saved(c)'
      <4>1. server[c].offer = saving[k].key /\ NoOffer(c)
        BY <1>0, <3>3 DEF HostFits
      <4>2. ASSUME NEW e \in SocketsOf(k) PROVE NoOffer(e)'
        <5>1. CASE e = c
          BY <4>1, <5>1, <1>0, <1>e
        <5>2. CASE e # c
          <6>1. e \in Sockets /\ client[e] = "gone"
            BY <1>b, <1>0, <4>2, <5>2, Constants
          <6>2. down[e] = <<>>
            BY <6>1 DEF ClientFits
          <6>. QED
            BY <6>1, <6>2, <1>e, NoFrames DEF NoOffer, Sent
        <5>. QED
          BY <5>1, <5>2
      <4>3. NoOffers(k)'
        BY <4>2 DEF NoOffers, SocketsOf
      <4>4. saving[k].key # Nothing
        BY <1>0, Constants
      <4>. QED
        BY <1>0, <1>d, <4>1, <4>3, <4>4 DEF Saved
    <3>4. Append(<<>>, "saved") = <<"saved">>
      OBVIOUS
    <3>. QED
      BY <1>0, <1>a, <1>d, <1>e, <1>6, <2>1, <3>1, <3>2, <3>3, <3>4 DEF HostFits
  <2>2. CASE d # c
    <3>1. d[1] = k => client[d] = "gone"
      BY <1>b, <2>2 DEF SocketsOf
    <3>. QED
      BY <1>0, <1>a, <1>c, <1>e, <1>6, <1>7, <1>9, <2>2, <3>1, Constants DEF HostFits
  <2>. QED
    BY <2>1, <2>2
<1>10. HostsOwn'
  BY <1>0 DEF HostsOwn
<1>11. EnrollmentFits'
  <2>1. ASSUME NEW l \in Controllers, Enrolled(l)' PROVE Enrolled(l)
    <3>1. CASE l = k
      BY <1>0, <3>1 DEF Enrolled
    <3>2. CASE l # k
      BY <1>0, <1>c, <1>e, <2>1, <3>2, Constants DEF Enrolled, SocketsOf
    <3>. QED
      BY <3>1, <3>2
  <2>. QED
    BY <2>1, <1>0 DEF EnrollmentFits
<1>12. ASSUME NEW l \in Controllers PROVE RefusalFits(l)'
  <2>1. Presented(l)' = Presented(l) /\ Told(l)' = Told(l)
    BY <1>0, <1>c, <1>d, <1>e, Constants DEF Presented, Told, SocketsOf
  <2>2. ~MayRegister(l, Presented(l)) => ~MayRegister(l, Presented(l))'
    BY <1>0, <2>1 DEF MayRegister, Usable, Known
  <2>. QED
    BY <1>0, <1>2, <1>e, <2>1, <2>2, Constants DEF RefusalFits, SocketsOf
<1>. QED
  BY <1>1, <1>2, <1>3, <1>4, <1>5, <1>8, <1>9, <1>10, <1>11, <1>12

-----------------------------------------------------------------------------
(* Commits that are asked for.                                             *)

\* The Relay's end of connection d stays, or its message is taken.
EndStands(d) ==
    \/ server'[d] = server[d] /\ up'[d] = up[d]
    \/ server'[d] = server[d] /\ server[d].state = "host" /\ up'[d] = <<>>
    \/ /\ server[d].state = "accepted" /\ server'[d].state = "registering"
       /\ server'[d].key = server[d].key /\ server'[d].offer = server[d].offer /\ up'[d] = <<>>

\* A commit joins the queue.
LEMMA EnqueueKeeps ==
  ASSUME CredentialIInv, Fixed, NEW x \in Commits, ~Carries(queue, x), x.kind # "invite",
         queue' = Append(queue, x),
         UNCHANGED <<relayUp, hostSocket, client, down, file, saving, refused>>,
         revoked \subseteq revoked',
         server' \in [Sockets -> End], up' \in [Sockets -> Seq({"register", "saved"})],
         \A d \in Sockets : EndStands(d),
         CommitFits(x)',
         x.kind = "register" => server[x.conn].state = "accepted",
         x.kind \in {"rotate", "saved"} => Enrolled(x.conn[1])
  PROVE  CredentialIInv'
<1>. USE DEF CredentialIInv
<1>0. /\ Typed /\ queue \in Seq(Commits) /\ Distinct(queue)
      /\ keys' = keys /\ fresh' = fresh /\ staged' = staged /\ recovered' = recovered
      /\ hostSocket' = hostSocket /\ down' = down /\ client' = client
      /\ file' = file /\ saving' = saving /\ refused' = refused
  BY DEF Fixed, Typed, QueueFits
<1>a. /\ queue' \in Seq(Commits) /\ Distinct(queue')
      /\ \A q : Carries(queue', q) <=> Carries(queue, q) \/ q = x
  BY <1>0, CommitAdded
<1>b. \A d \in Sockets :
         /\ server'[d].key = server[d].key /\ server'[d].offer = server[d].offer
         /\ server'[d].state \in {server[d].state, "registering"}
         /\ server'[d].state # server[d].state => server[d].state = "accepted"
         /\ Live(d)' <=> Live(d)
  BY DEF EndStands, Live
<1>c. \A d \in Sockets : NoOffer(d)' = NoOffer(d) /\ \A g : Sent(d, g)' = Sent(d, g)
  BY <1>0 DEF NoOffer, Sent
<1>d. \A l \in Controllers : NoOffers(l)' = NoOffers(l)
  BY <1>0 DEF NoOffers, NoOffer, Sent, SocketsOf
<1>1. Typed'
  BY <1>0, <1>a DEF Typed
<1>2. /\ KeysFit' /\ StagedFits' /\ Upcoming' = Upcoming
      /\ \A l, j : MayRegister(l, j)' = MayRegister(l, j)
  <2>1. ASSUME NEW q \in Commits PROVE DraftStands(q)
    <3>1. q.kind \in Kinds => q.conn \in Sockets /\ q.conn[1] \in Controllers
      BY Constants DEF Commits, CommitOf, Kinds
    <3>. QED
      BY <3>1, <1>0, <1>b, <1>d DEF DraftStands
  <2>2. queue' = queue \/ \E q \in Commits : queue' = Append(queue, q)
    OBVIOUS
  <2>. QED
    BY <2>1, <2>2, FixedKeeps
<1>3. KeysKnown'
  BY <1>0, <1>b, <1>c, <1>2 DEF KeysKnown
<1>4. ASSUME NEW d \in Sockets PROVE ClientFits(d)'
  BY <1>0, <1>4 DEF ClientFits, EndStands, SocketsOf
<1>5. SavingFits'
  BY <1>0 DEF SavingFits
<1>6. ASSUME NEW d \in Sockets, Unopened(d) PROVE Unopened(d)'
  BY <1>0, <1>b, <1>c, <1>6 DEF Unopened
<1>7. ASSUME NEW d \in Sockets, Saved(d) PROVE Saved(d)'
  BY <1>0, <1>b, <1>d, <1>7, Constants DEF Saved
<1>8. QueueFits'
  <2>1. ASSUME NEW q \in Commits, CommitFits(q) PROVE CommitFits(q)'
    <3>1. CASE q.kind \in Kinds
      <4>1. q.conn \in Sockets /\ EndStands(q.conn)
        BY <3>1 DEF Commits, CommitOf, Kinds
      <4>2. q.kind = "invite" => ~Carries(queue', CommitOf("register", q.conn))
        BY <1>a, <2>1 DEF CommitFits, CommitOf
      <4>. QED
        BY <2>1, <3>1, <4>1, <4>2, <1>0, <1>2, <1>6, <1>7 DEF CommitFits, EndStands, Kinds
    <3>2. CASE q.kind = "revoke"
      BY <2>1, <3>2 DEF CommitFits
    <3>. QED
      BY <3>1, <3>2 DEF Commits, CommitOf, Kinds
  <2>. QED
    BY <2>1, <1>a DEF QueueFits
<1>9. ASSUME NEW d \in Sockets PROVE HostFits(d)'
  <2>1. EndStands(d) /\ HostFits(d)
    OBVIOUS
  <2>2. CASE server'[d] = server[d] /\ up'[d] = up[d]
    BY <1>0, <1>c, <1>6, <1>7, <2>1, <2>2 DEF HostFits
  <2>3. CASE server'[d] = server[d] /\ server[d].state = "host" /\ up'[d] = <<>>
    BY <1>0, <1>c, <1>6, <1>7, <2>1, <2>3 DEF HostFits
  <2>4. CASE server[d].state = "accepted" /\ server'[d].state = "registering"
    BY <1>0, <1>b, <2>1, <2>4 DEF HostFits
  <2>. QED
    BY <2>1, <2>2, <2>3, <2>4 DEF EndStands
<1>10. HostsOwn'
  BY <1>0 DEF HostsOwn
<1>11. EnrollmentFits'
  <2>1. ASSUME NEW l \in Controllers, Enrolled(l)' PROVE Enrolled(l)
    <3>1. \A d \in SocketsOf(l) : server'[d].key = server[d].key /\ NoOffer(d)' = NoOffer(d)
      BY <1>b, <1>c, Constants
    <3>2. \A q \in Commits : Carries(queue', q) /\ q.kind \in {"invite", "rotate", "saved"} /\ q.conn[1] = l =>
             Enrolled(l)
      <4>1. x.kind \in {"rotate", "saved"} => Enrolled(x.conn[1])
        OBVIOUS
      <4>2. \A q \in Commits : Carries(queue', q) => Carries(queue, q) \/ q = x
        BY <1>a
      <4>3. \A q \in Commits : Carries(queue, q) /\ q.kind \in {"invite", "rotate", "saved"} /\ q.conn[1] = l =>
               Enrolled(l)
        BY DEF Enrolled
      <4>. QED
        BY <4>1, <4>2, <4>3
    <3>. QED
      BY <1>0, <2>1, <3>1, <3>2 DEF Enrolled, SocketsOf
  <2>. QED
    BY <2>1, <1>0 DEF EnrollmentFits
<1>12. ASSUME NEW l \in Controllers PROVE RefusalFits(l)'
  <2>1. Presented(l)' = Presented(l) /\ Told(l)' = Told(l)
    BY <1>0 DEF Presented, Told, SocketsOf, Sent
  <2>2. ~MayRegister(l, Presented(l)) => ~MayRegister(l, Presented(l))'
    BY <1>0, <2>1 DEF MayRegister, Usable, Known
  <2>3. \A d \in SocketsOf(l) : server[d].state = "closed" => server'[d].state = "closed"
    BY <1>b, Constants
  <2>4. \A d \in SocketsOf(l) : \A g : Sent(d, g)' <=> Sent(d, g)
    BY <1>c, Constants
  <2>. QED
    BY <1>2, <2>1, <2>2, <2>3, <2>4 DEF RefusalFits, SocketsOf
<1>. QED
  BY <1>1, <1>2, <1>3, <1>4, <1>5, <1>8, <1>9, <1>10, <1>11, <1>12

\* The owner rotates.
LEMMA RotateKeeps ==
  ASSUME CredentialIInv, NEW k \in Controllers, Rotate(k)
  PROVE  CredentialIInv'
<1>. USE DEF CredentialIInv
<1>. PICK c \in Sockets : c = hostSocket[k]
  BY DEF Rotate, Typed
<1>1. c[1] = k /\ server[c].state = "host"
  BY Constants DEF HostsOwn, HostFits
<1>2. /\ server[c].offer = Nothing /\ server[c].key # Invitation
      /\ ~Carries(queue, CommitOf("rotate", c)) /\ queue' = Append(queue, CommitOf("rotate", c))
  BY DEF Rotate, Carries
<1>3. CommitOf("rotate", c) \in Commits
  BY DEF Commits, CommitOf, Kinds
<1>4. \A d \in Sockets : EndStands(d)
  BY DEF Rotate, EndStands, socketVars, wireVars
<1>5. CommitFits(CommitOf("rotate", c))'
  BY <1>1, <1>2 DEF CommitFits, CommitOf, Rotate, socketVars
<1>6. Enrolled(k)
  BY <1>1, Constants DEF Enrolled, Rotate
<1>. QED
  BY <1>1, <1>2, <1>3, <1>4, <1>5, <1>6, EnqueueKeeps
  DEF Rotate, Fixed, CommitOf, socketVars, wireVars, deviceVars, Typed

\* The owner revokes.
LEMMA RevokeKeeps ==
  ASSUME CredentialIInv, NEW k \in Controllers, Revoke(k)
  PROVE  CredentialIInv'
<1>. USE DEF CredentialIInv
<1>. DEFINE x == CommitOf("revoke", <<k, Nothing>>)
<1>1. x \in Commits /\ x.kind = "revoke" /\ x.conn[1] = k
  BY DEF Commits, CommitOf
<1>2. ~Carries(queue, x)
  BY <1>1 DEF QueueFits, CommitFits, Revoke
<1>3. queue' = Append(queue, x) /\ revoked' = revoked \cup {k}
  BY DEF Revoke
<1>. HIDE DEF x
<1>4. CommitFits(x)'
  BY <1>1, <1>3 DEF CommitFits
<1>5. \A d \in Sockets : EndStands(d)
  BY DEF Revoke, EndStands, socketVars, wireVars
<1>. QED
  BY <1>1, <1>2, <1>3, <1>4, <1>5, EnqueueKeeps
  DEF Revoke, Fixed, socketVars, wireVars, deviceVars, Typed

\* An acknowledgement is received.
LEMMA SavedKeeps ==
  ASSUME CredentialIInv, NEW c \in Sockets, ReceiveSaved(c)
  PROVE  CredentialIInv'
<1>. USE DEF CredentialIInv
<1>. DEFINE x == CommitOf("saved", c)
<1>1. /\ Typed /\ c[1] \in Controllers /\ server[c].state = "host" /\ up[c] # <<>> /\ HostFits(c)
      /\ hostSocket[c[1]] = c
  BY Constants DEF ReceiveSaved, HostFits
<1>2. up[c] = <<"saved">> /\ Saved(c) /\ Known(server[c].key)
  BY <1>1, Constants DEF HostFits, Known
<1>3. queue' = Append(queue, x) /\ server' = server /\ hostSocket' = hostSocket /\ down' = down
  BY <1>1, <1>2 DEF ReceiveSaved, Saved
<1>4. up' = [up EXCEPT ![c] = <<>>]
  <2>1. Tail(<<"saved">>) = <<>>
    OBVIOUS
  <2>. QED
    BY <1>1, <1>2, <2>1 DEF ReceiveSaved
<1>5. x \in Commits /\ x.kind = "saved" /\ x.conn = c
  BY DEF Commits, CommitOf, Kinds
<1>6. ~Carries(queue, x)
  BY <1>1, <1>5 DEF QueueFits, CommitFits
<1>. HIDE DEF x
<1>7. up' \in [Sockets -> Seq({"register", "saved"})] /\ up'[c] = <<>>
  BY <1>1, <1>4 DEF Typed
<1>8. Saved(c)'
  BY <1>2, <1>3 DEF Saved, NoOffers, NoOffer, Sent, SocketsOf, ReceiveSaved, deviceVars
<1>9. CommitFits(x)'
  BY <1>1, <1>3, <1>5, <1>7, <1>8 DEF CommitFits
<1>10. \A d \in Sockets : EndStands(d)
  BY <1>1, <1>3, <1>4 DEF EndStands, Typed
<1>11. Enrolled(c[1])
  BY <1>1, Constants DEF Enrolled
<1>. QED
  BY <1>1, <1>3, <1>5, <1>6, <1>7, <1>9, <1>10, <1>11, EnqueueKeeps
  DEF ReceiveSaved, Fixed, deviceVars, Typed

\* A registration is refused, when it arrives or at its turn: the credential that was
\* presented is of no use, and it is the one the Controller has.
LEMMA RefusalKeeps ==
  ASSUME CredentialIInv, Fixed, NEW c \in Sockets, Unauthorized(c),
         server[c].state \in {"accepted", "registering"}, Unopened(c),
         ~MayRegister(c[1], server[c].key),
         UNCHANGED <<relayUp, revoked, client, file, saving, refused>>,
         up' \in [Sockets -> Seq({"register", "saved"})],
         \A d \in Sockets : d # c => up'[d] = up[d],
         \/ queue' = queue
         \/ queue # <<>> /\ queue' = Tail(queue) /\ staged = Nothing
  PROVE  CredentialIInv'
<1>. USE DEF CredentialIInv
<1>. DEFINE k == c[1]
<1>0. /\ Typed /\ queue \in Seq(Commits) /\ Distinct(queue) /\ k \in Controllers
      /\ ClientFits(c) /\ HostFits(c)
      /\ keys' = keys /\ fresh' = fresh /\ staged' = staged /\ recovered' = recovered
      /\ client' = client /\ file' = file /\ saving' = saving /\ refused' = refused /\ revoked' = revoked
  BY Constants DEF Fixed, Typed, QueueFits
<1>a. /\ queue' \in Seq(Commits) /\ Distinct(queue')
      /\ \A q : Carries(queue', q) => Carries(queue, q)
  BY <1>0, CommitTaken
<1>b. /\ server' \in [Sockets -> End] /\ server'[c].state = "closed" /\ server'[c].offer = Nothing
      /\ server'[c].key = server[c].key
      /\ \A d \in Sockets : d # c => server'[d] = server[d]
  <2>1. server \in [Sockets -> End] /\ server' = Close(server, c)
    BY <1>0 DEF Unauthorized, Typed
  <2>. QED
    BY <2>1, EndCloses
<1>c. hostSocket' = hostSocket /\ hostSocket[k] # c
  <2>1. hostSocket[k] # c
    BY <1>0 DEF HostFits
  <2>2. hostSocket' = [hostSocket EXCEPT ![k] = IF @ = c THEN Nothing ELSE @]
    BY DEF Unauthorized
  <2>. QED
    BY <1>0, <2>1, <2>2 DEF Typed
<1>d. /\ down' \in [Sockets -> Seq(Frames)]
      /\ \A d \in Sockets : d # c => down'[d] = down[d]
      /\ client[c] = "gone" => down'[c] = down[c]
      /\ client[c] # "gone" => down'[c] = Append(down[c], <<"unauthorized">>)
  <2>1. down' = Frame(down, c, <<"unauthorized">>) /\ down[c] \in Seq(Frames)
    BY <1>0 DEF Unauthorized, Typed
  <2>2. Append(down[c], <<"unauthorized">>) \in Seq(Frames)
    BY <2>1, FrameSent, FrameKinds
  <2>. QED
    BY <1>0, <2>1, <2>2 DEF Frame, Typed
<1>e. \A d \in Sockets : \A g : Sent(d, g)' <=> Sent(d, g) \/ (d = c /\ client[c] # "gone" /\ g = <<"unauthorized">>)
  <2>1. down[c] \in Seq(Frames) /\ <<"unauthorized">> \in Frames
    BY <1>0, FrameKinds DEF Typed
  <2>2. \A g : Carries(Append(down[c], <<"unauthorized">>), g) <=> Carries(down[c], g) \/ g = <<"unauthorized">>
    BY <2>1, FrameSent
  <2>3. \A g : Sent(c, g)' <=> Sent(c, g) \/ (client[c] # "gone" /\ g = <<"unauthorized">>)
    BY <1>d, <2>2 DEF Sent
  <2>4. \A d \in Sockets : d # c => \A g : Sent(d, g)' <=> Sent(d, g)
    BY <1>d DEF Sent
  <2>. QED
    BY <2>3, <2>4
<1>f. \A d \in Sockets : NoOffer(d)' = NoOffer(d)
  BY <1>e, FrameKinds DEF NoOffer
<1>g. \A l \in Controllers : NoOffers(l)' = NoOffers(l)
  BY <1>f, Constants DEF NoOffers, SocketsOf
<1>1. Typed'
  BY <1>0, <1>a, <1>b, <1>c, <1>d DEF Typed
<1>2. /\ KeysFit' /\ StagedFits' /\ Upcoming' = Upcoming
      /\ \A l, j : MayRegister(l, j)' = MayRegister(l, j)
  <2>1. CASE queue' = queue
    <3>1. ASSUME NEW q \in Commits PROVE DraftStands(q)
      <4>1. q.kind \in Kinds => q.conn \in Sockets /\ q.conn[1] \in Controllers
        BY Constants DEF Commits, CommitOf, Kinds
      <4>. QED
        BY <4>1, <1>0, <1>b, <1>c, <1>g DEF DraftStands, Live
    <3>. QED
      BY <2>1, <3>1, FixedKeeps
  <2>2. CASE staged = Nothing
    BY <1>0, <2>2 DEF KeysFit, StagedFits, Upcoming, Issuing, MayRegister, Usable, Known
  <2>. QED
    BY <2>1, <2>2
<1>3. KeysKnown'
  <2>1. \A d \in Sockets : server'[d].key = server[d].key /\ server'[d].offer \in {server[d].offer, Nothing}
    BY <1>b
  <2>2. \A d \in Sockets, j \in KeyIds : Sent(d, <<"offer", j>>)' => Sent(d, <<"offer", j>>)
    BY <1>e, FrameKinds
  <2>3. \A d \in Sockets : server'[d].key < Upcoming /\ (server'[d].offer # Nothing => server'[d].offer < Upcoming)
    BY <2>1 DEF KeysKnown
  <2>. QED
    BY <1>0, <1>2, <2>2, <2>3 DEF KeysKnown
<1>4. ASSUME NEW d \in Sockets PROVE ClientFits(d)'
  <2>1. client[c] # "connecting"
    BY <1>0 DEF ClientFits
  <2>2. CASE d = c
    BY <1>0, <1>b, <1>d, <2>1, <2>2 DEF ClientFits, SocketsOf
  <2>3. CASE d # c
    <3>1. server'[d] = server[d] /\ up'[d] = up[d] /\ down'[d] = down[d]
      BY <1>b, <1>d, <2>3
    <3>. QED
      BY <1>0, <3>1 DEF ClientFits, SocketsOf
  <2>. QED
    BY <2>2, <2>3
<1>5. SavingFits'
  BY <1>0 DEF SavingFits
<1>6. ASSUME NEW d \in Sockets, Unopened(d) PROVE Unopened(d)'
  BY <1>0, <1>b, <1>f, <1>6 DEF Unopened
<1>7. ASSUME NEW d \in Sockets, d # c, Saved(d) PROVE Saved(d)'
  BY <1>0, <1>b, <1>g, <1>7, Constants DEF Saved
<1>8. QueueFits'
  <2>1. ASSUME NEW q \in Commits, CommitFits(q) PROVE CommitFits(q)'
    <3>0. q.kind = "invite" => ~Carries(queue', CommitOf("register", q.conn))
      BY <1>a, <2>1 DEF CommitFits
    <3>1. CASE q.kind \in Kinds /\ q.conn # c
      <4>1. q.conn \in Sockets
        BY <3>1 DEF Commits, CommitOf, Kinds
      <4>. QED
        BY <2>1, <3>0, <3>1, <4>1, <1>0, <1>b, <1>2, <1>6, <1>7 DEF CommitFits, Kinds
    <3>2. CASE q.kind \in Kinds /\ q.conn = c
      BY <2>1, <3>0, <3>2, <1>0, <1>b, <1>2, <1>6 DEF CommitFits, Kinds
    <3>3. CASE q.kind = "revoke"
      BY <2>1, <3>3, <1>0 DEF CommitFits
    <3>. QED
      BY <3>1, <3>2, <3>3 DEF Commits, CommitOf, Kinds
  <2>. QED
    BY <2>1, <1>a DEF QueueFits
<1>9. ASSUME NEW d \in Sockets PROVE HostFits(d)'
  <2>1. CASE d = c
    BY <1>0, <1>b, <1>c, <2>1 DEF HostFits
  <2>2. CASE d # c
    <3>1. down'[d] = down[d] /\ server'[d] = server[d] /\ up'[d] = up[d] /\ HostFits(d)
      BY <1>b, <1>d, <2>2
    <3>2. /\ NoOffer(d)' <=> NoOffer(d)
          /\ \A j \in KeyIds : Sent(d, <<"offer", j>>)' <=> Sent(d, <<"offer", j>>)
      BY <3>1 DEF NoOffer, Sent
    <3>3. /\ Unopened(d) => Unopened(d)'
          /\ Saved(d) => Saved(d)'
      BY <1>6, <1>7, <2>2
    <3>. QED
      BY <1>0, <1>c, <3>1, <3>2, <3>3 DEF HostFits
  <2>. QED
    BY <2>1, <2>2
<1>10. HostsOwn'
  BY <1>c DEF HostsOwn
<1>11. EnrollmentFits'
  <2>1. ASSUME NEW l \in Controllers, Enrolled(l)' PROVE Enrolled(l)
    <3>1. \A d \in SocketsOf(l) : server'[d].key = server[d].key /\ (NoOffer(d)' <=> NoOffer(d))
      BY <1>b, <1>f, Constants
    <3>. QED
      BY <1>0, <1>a, <1>c, <2>1, <3>1 DEF Enrolled, SocketsOf
  <2>. QED
    BY <2>1, <1>0 DEF EnrollmentFits
<1>12. ASSUME NEW l \in Controllers PROVE RefusalFits(l)'
  <2>0. Presented(l)' = Presented(l)
    BY <1>0 DEF Presented
  <2>1. \A d \in SocketsOf(l) : Sent(d, <<"unauthorized">>)' => server'[d].state = "closed"
    <3>1. \A d \in SocketsOf(l) : d # c => (Sent(d, <<"unauthorized">>)' => Sent(d, <<"unauthorized">>))
      BY <1>e, Constants
    <3>2. \A d \in SocketsOf(l) : d # c => server'[d] = server[d]
      BY <1>b, Constants
    <3>3. \A d \in SocketsOf(l) : Sent(d, <<"unauthorized">>) => server[d].state = "closed"
      BY DEF RefusalFits
    <3>. QED
      BY <1>b, <3>1, <3>2, <3>3
  <2>2. ASSUME Told(l)', ~Told(l)
        PROVE  ~MayRegister(l, Presented(l)) /\ NoOffers(l)
    <3>1. l = k /\ client[c] # "gone"
      BY <1>0, <1>e, <2>2, Constants DEF Told, SocketsOf
    <3>2. file[k] = server[c].key /\ saving[k] = Nothing /\ NoOffer(c)
      BY <3>1 DEF Unopened
    <3>3. ASSUME NEW d \in SocketsOf(k), d # c PROVE NoOffer(d)
      <4>1. d \in Sockets /\ client[d] = "gone"
        BY <1>0, <3>1, <3>3, Constants DEF ClientFits
      <4>2. down[d] = <<>>
        BY <4>1 DEF ClientFits
      <4>. QED
        BY <4>2, NoFrames DEF NoOffer, Sent
    <3>. QED
      BY <3>1, <3>2, <3>3 DEF Presented, NoOffers
  <2>3. ASSUME Told(l)' PROVE ~MayRegister(l, Presented(l))'
    <3>1. ~MayRegister(l, Presented(l))
      BY <2>2, <2>3 DEF RefusalFits
    <3>. QED
      BY <1>0, <2>0, <3>1 DEF MayRegister, Usable, Known
  <2>4. ASSUME Told(l)', NEW d \in SocketsOf(l), NEW j \in KeyIds, Sent(d, <<"offer", j>>)'
        PROVE  ~MayRegister(l, j)'
    <3>1. Sent(d, <<"offer", j>>)
      BY <1>e, <2>4, Constants, FrameKinds
    <3>2. Told(l)
      BY <2>2, <2>4, <3>1 DEF NoOffers, NoOffer
    <3>. QED
      BY <1>2, <2>4, <3>1, <3>2 DEF RefusalFits
  <2>. QED
    BY <2>1, <2>3, <2>4 DEF RefusalFits, SocketsOf
<1>. QED
  BY <1>1, <1>2, <1>3, <1>4, <1>5, <1>8, <1>9, <1>10, <1>11, <1>12

\* A registration is received.
LEMMA RegisterKeeps ==
  ASSUME CredentialIInv, NEW c \in Sockets, ReceiveRegister(c)
  PROVE  CredentialIInv'
<1>. USE DEF CredentialIInv
<1>. DEFINE x == CommitOf("register", c)
<1>1. /\ Typed /\ c[1] \in Controllers /\ server[c].state = "accepted" /\ HostFits(c)
      /\ up[c] = <<"register">> /\ Unopened(c) /\ Fixed
      /\ UNCHANGED <<relayUp, revoked, client, file, saving, refused>>
  BY Constants DEF ReceiveRegister, HostFits, Fixed, deviceVars
<1>2. up' = [up EXCEPT ![c] = <<>>]
  <2>1. Tail(<<"register">>) = <<>>
    OBVIOUS
  <2>. QED
    BY <1>1, <2>1 DEF ReceiveRegister
<1>3. up' \in [Sockets -> Seq({"register", "saved"})] /\ up'[c] = <<>> /\ \A d \in Sockets : d # c => up'[d] = up[d]
  BY <1>1, <1>2 DEF Typed
<1>4. CASE MayRegister(c[1], server[c].key)
  <2>1. queue' = Append(queue, x) /\ server' = [server EXCEPT ![c].state = "registering"] /\ hostSocket' = hostSocket /\ down' = down
    BY <1>4 DEF ReceiveRegister
  <2>2. x \in Commits /\ x.kind = "register" /\ x.conn = c
    BY DEF Commits, CommitOf, Kinds
  <2>3. ~Carries(queue, x)
    BY <1>1, <2>2 DEF QueueFits, CommitFits
  <2>. HIDE DEF x
  <2>4. /\ server' \in [Sockets -> End] /\ server'[c].state = "registering"
        /\ server'[c].key = server[c].key /\ server'[c].offer = server[c].offer
        /\ \A d \in Sockets : d # c => server'[d] = server[d]
    BY <1>1, <2>1 DEF Typed, End
  <2>5. \A d \in Sockets : EndStands(d)
    BY <1>1, <1>3, <2>4 DEF EndStands
  <2>6. Unopened(c)'
    BY <1>1, <2>1, <2>4 DEF Unopened, NoOffer, Sent
  <2>7. CommitFits(x)'
    BY <1>3, <2>2, <2>4, <2>6 DEF CommitFits
  <2>. QED
    BY <1>1, <1>3, <2>1, <2>2, <2>3, <2>4, <2>5, <2>7, EnqueueKeeps
<1>5. CASE ~MayRegister(c[1], server[c].key)
  <2>1. Unauthorized(c) /\ queue' = queue
    BY <1>5 DEF ReceiveRegister
  <2>. QED
    BY <1>1, <1>3, <1>5, <2>1, RefusalKeeps
<1>. QED
  BY <1>4, <1>5

-----------------------------------------------------------------------------
(* A commit starts.                                                        *)

\* A draft has the type of the credentials.
LEMMA DraftTyped ==
  ASSUME Typed, NEW q \in Commits, q.kind = "saved" => server[q.conn].offer \in KeyIds
  PROVE  DraftOf(q) \in Draft
<1>. DEFINE c == q.conn  k == c[1]
<1>1. /\ keys \in Draft /\ keys.holder \in [KeyIds -> Controllers \cup {Nobody, Unheld}] /\ keys.claimed \in BOOLEAN
      /\ k \in Controllers
  BY Constants DEF Typed, Draft, Commits, CommitOf
<1>2. \A j : OnlyKey(keys.holder, k, j) \in [KeyIds -> Controllers \cup {Nobody, Unheld}]
  BY <1>1 DEF OnlyKey
<1>3. CASE q.kind = "register"
  BY <1>1, <1>2, <1>3 DEF DraftOf, RegisterDraft, Draft
<1>4. CASE q.kind = "invite"
  BY <1>1, <1>4 DEF DraftOf, Issued, Draft
<1>5. CASE q.kind = "rotate"
  BY <1>1, <1>5 DEF DraftOf, Issued, Draft
<1>6. CASE q.kind = "saved"
  BY <1>1, <1>2, <1>6 DEF DraftOf, Draft
<1>7. CASE q.kind = "revoke"
  BY <1>1, <1>7 DEF DraftOf, Draft
<1>. QED
  BY <1>3, <1>4, <1>5, <1>6, <1>7 DEF Commits, CommitOf, Kinds

\* A refused commit that answers nobody is dropped.
LEMMA DropKeeps ==
  ASSUME CredentialIInv, queue # <<>>, staged = Nothing, queue' = Tail(queue),
         UNCHANGED <<keys, fresh, staged, recovered, relayUp, revoked, server, hostSocket,
                     wireVars, deviceVars>>
  PROVE  CredentialIInv'
<1>. USE DEF CredentialIInv, wireVars, deviceVars
<1>0. queue \in Seq(Commits) /\ Distinct(queue)
  BY DEF Typed, QueueFits
<1>1. /\ queue' \in Seq(Commits) /\ Distinct(queue')
      /\ \A q : Carries(queue', q) => Carries(queue, q)
  BY <1>0, CommitTaken
<1>2. Typed'
  BY <1>1 DEF Typed
<1>3. Upcoming' = Upcoming /\ KeysFit' /\ StagedFits'
  BY DEF KeysFit, StagedFits, Upcoming, Issuing
<1>4. \A c \in Sockets : \A g : Sent(c, g)' <=> Sent(c, g)
  BY DEF Sent
<1>5. \A c \in Sockets : NoOffer(c)' <=> NoOffer(c)
  BY DEF NoOffer, Sent
<1>6. KeysKnown'
  BY <1>3, <1>4 DEF KeysKnown
<1>7. ASSUME NEW c \in Sockets PROVE ClientFits(c)'
  BY <1>7 DEF ClientFits, SocketsOf
<1>8. SavingFits' /\ HostsOwn'
  BY DEF SavingFits, HostsOwn
<1>9. ASSUME NEW c \in Sockets PROVE (Unopened(c) => Unopened(c)') /\ (Saved(c) => Saved(c)')
  BY <1>9 DEF Unopened, Saved, NoOffers, NoOffer, Sent, SocketsOf
<1>10. QueueFits'
  <2>1. ASSUME NEW q \in Commits, CommitFits(q) PROVE CommitFits(q)'
    <3>1. q.kind = "invite" => ~Carries(queue', CommitOf("register", q.conn))
      BY <1>1, <2>1 DEF CommitFits
    <3>2. q.kind \in Kinds => q.conn \in Sockets
      BY DEF Commits, CommitOf, Kinds
    <3>. QED
      BY <2>1, <3>1, <3>2, <1>3, <1>9 DEF CommitFits, Kinds
  <2>. QED
    BY <2>1, <1>1 DEF QueueFits
<1>11. ASSUME NEW c \in Sockets PROVE HostFits(c)'
  BY <1>4, <1>5, <1>9, <1>11 DEF HostFits
<1>12. EnrollmentFits'
  <2>1. ASSUME NEW l \in Controllers, Enrolled(l)' PROVE Enrolled(l)
    BY <1>1, <1>5, <2>1, Constants DEF Enrolled, SocketsOf
  <2>. QED
    BY <2>1 DEF EnrollmentFits
<1>13. ASSUME NEW l \in Controllers PROVE RefusalFits(l)'
  BY <1>13 DEF RefusalFits, Told, Sent, Presented, MayRegister, Usable, Known, SocketsOf
<1>. QED
  BY <1>2, <1>3, <1>6, <1>7, <1>8, <1>10, <1>11, <1>12, <1>13

\* A commit is staged: the next credential is reserved and not yet published.
LEMMA StagingKeeps ==
  ASSUME CredentialIInv, queue # <<>>, staged = Nothing, NEW q \in Commits, q = Head(queue),
         Admitted(q), staged' = DraftOf(q),
         fresh' = IF q.kind \in {"invite", "rotate"} THEN fresh + 1 ELSE fresh,
         UNCHANGED <<keys, recovered, relayUp, revoked, queue, server, hostSocket, wireVars, deviceVars>>
  PROVE  CredentialIInv'
<1>. USE DEF CredentialIInv, wireVars, deviceVars
<1>. DEFINE c == q.conn  k == c[1]
<1>0. Typed /\ Carries(queue, q) /\ CommitFits(q) /\ k \in Controllers
  <2>1. Typed /\ Carries(queue, q) /\ CommitFits(q)
    BY CommitTaken DEF Typed, QueueFits
  <2>2. k \in Controllers
    BY Constants DEF Commits, CommitOf
  <2>. QED
    BY <2>1, <2>2
<1>a. ASSUME q.kind \in {"invite", "rotate"}
      PROVE  /\ c \in Sockets /\ hostSocket[k] = c /\ server[c].state = "host" /\ HostFits(c)
             /\ keys.claimed /\ fresh \in 1..MaxKeys /\ keys.holder[server[c].key] = k
  <2>1. c \in Sockets
    BY <1>a DEF Commits, CommitOf, Kinds
  <2>2. Current(c)
    BY <1>a DEF Admitted
  <2>3. hostSocket[k] = c /\ server[c].state = "host" /\ HostFits(c)
    BY <2>1, <2>2 DEF Current, HostFits
  <2>4. Enrolled(k)
    BY <1>0, <2>1, <2>3, Constants DEF Enrolled
  <2>5. keys.claimed
    BY <1>0, <2>4 DEF EnrollmentFits
  <2>6. fresh \in 1..MaxKeys
    <3>1. CASE q.kind = "rotate"
      <4>1. fresh <= MaxKeys
        BY <3>1 DEF Admitted
      <4>2. fresh \in 1..MaxKeys + 1
        BY <1>0 DEF Typed
      <4>. QED
        BY <4>1, <4>2, Constants
    <3>2. CASE q.kind = "invite"
      BY <1>0, <3>2, Constants DEF CommitFits, Upcoming, Issuing
    <3>. QED
      BY <1>a, <3>1, <3>2
  <2>7. keys.holder[server[c].key] = k
    BY <2>3 DEF HostFits
  <2>. QED
    BY <2>1, <2>3, <2>5, <2>6, <2>7
<1>b. ASSUME q.kind = "saved"
      PROVE  c \in Sockets /\ hostSocket[k] = c /\ server[c].state = "host" /\ HostFits(c) /\ Saved(c)
  <2>1. c \in Sockets
    BY <1>b DEF Commits, CommitOf, Kinds
  <2>2. Current(c)
    BY <1>b DEF Admitted
  <2>3. hostSocket[k] = c /\ server[c].state = "host" /\ HostFits(c)
    BY <2>1, <2>2 DEF Current, HostFits
  <2>. QED
    BY <1>0, <1>b, <2>1, <2>3 DEF CommitFits
<1>c. staged' \in Draft /\ staged' # Nothing
  <2>1. q.kind = "saved" => server[c].offer \in KeyIds
    BY <1>0, <1>b DEF Saved, Typed, End
  <2>. QED
    BY <1>0, <2>1, DraftTyped, Constants
<1>1. Typed'
  BY <1>0, <1>a, <1>c, Constants DEF Typed
<1>2. Upcoming' = Upcoming
  BY <1>0, <1>c DEF Upcoming, Issuing, Typed
<1>3. KeysFit'
  BY <1>0, <1>a, <1>2 DEF KeysFit
<1>d. DraftFits(q)'
  <2>1. CASE q.kind = "register"
    BY <2>1 DEF DraftOf, Admitted, RegisterAdmitted, DraftFits, MayRegister, Usable, Known, RegisterDraft
  <2>2. CASE q.kind = "invite"
    <3>1. server[c].key = Invitation /\ fresh' - 1 = fresh
      BY <1>0, <1>a, <2>2 DEF CommitFits
    <3>2. Issued(k, server[c].key, TRUE) =
             [keys EXCEPT !.holder = [i \in KeyIds |->
                 IF i = fresh' - 1 THEN k ELSE IF i = Invitation THEN Unheld ELSE keys.holder[i]]]
      BY <3>1 DEF Issued
    <3>3. staged' = Issued(k, server[c].key, TRUE)
      BY <2>2 DEF DraftOf
    <3>4. hostSocket[k] = c /\ keys.holder[Invitation] = k
      BY <1>a, <2>2, <3>1
    <3>. QED
      BY <2>2, <3>2, <3>3, <3>4 DEF DraftFits
  <2>3. CASE q.kind = "rotate"
    <3>1. fresh' - 1 = fresh
      BY <1>a, <2>3
    <3>2. Issued(k, server[c].key, FALSE) =
             [keys EXCEPT !.holder = [i \in KeyIds |-> IF i = fresh' - 1 THEN k ELSE keys.holder[i]]]
      BY <3>1 DEF Issued
    <3>3. staged' = Issued(k, server[c].key, FALSE)
      BY <2>3 DEF DraftOf
    <3>. QED
      <4>1. hostSocket[k] = c
        BY <1>a, <2>3
      <4>. QED
        BY <2>3, <3>2, <3>3, <4>1 DEF DraftFits
  <2>4. CASE q.kind = "saved"
    <3>1. PICK j \in KeyIds : j = server[c].offer
      BY <1>0, <1>b, <2>4 DEF Saved, Typed, End
    <3>2. j # Invitation /\ keys.holder[j] = k
      BY <1>b, <2>4, <3>1 DEF HostFits, Saved
    <3>3. file[k] = j /\ saving[k] = Nothing /\ NoOffers(k)
      BY <1>b, <2>4, <3>1 DEF Saved
    <3>4. NoOffers(k)'
      BY <3>3 DEF NoOffers, NoOffer, Sent, SocketsOf
    <3>5. staged' = [keys EXCEPT !.holder = OnlyKey(keys.holder, k, j)]
      BY <2>4, <3>1 DEF DraftOf
    <3>6. hostSocket[k] = c
      BY <1>b, <2>4
    <3>7. OnlyKey(keys.holder, k, j)' = OnlyKey(keys.holder, k, j)
      BY DEF OnlyKey
    <3>. QED
      BY <2>4, <3>1, <3>2, <3>3, <3>4, <3>5, <3>6, <3>7 DEF DraftFits
  <2>5. CASE q.kind = "revoke"
    BY <2>5 DEF DraftOf, DraftFits
  <2>. QED
    BY <2>1, <2>2, <2>3, <2>4, <2>5 DEF Commits, CommitOf, Kinds
<1>4. StagedFits'
  <2>1. q = Head(queue') /\ queue' # <<>>
    OBVIOUS
  <2>. QED
    BY <1>d, <2>1 DEF StagedFits
<1>5. \A d \in Sockets : \A g : Sent(d, g)' <=> Sent(d, g)
  BY DEF Sent
<1>6. \A d \in Sockets : NoOffer(d)' <=> NoOffer(d)
  BY DEF NoOffer, Sent
<1>7. KeysKnown'
  BY <1>2, <1>5 DEF KeysKnown
<1>8. ASSUME NEW d \in Sockets PROVE ClientFits(d)'
  BY <1>8 DEF ClientFits, SocketsOf
<1>9. SavingFits' /\ HostsOwn'
  BY DEF SavingFits, HostsOwn
<1>10. ASSUME NEW d \in Sockets PROVE (Unopened(d) => Unopened(d)') /\ (Saved(d) => Saved(d)')
  BY <1>10 DEF Unopened, Saved, NoOffers, NoOffer, Sent, SocketsOf
<1>11. QueueFits'
  <2>1. ASSUME NEW p \in Commits, CommitFits(p) PROVE CommitFits(p)'
    BY <2>1, <1>2, <1>10 DEF CommitFits, Commits, CommitOf, Kinds
  <2>. QED
    BY <2>1 DEF QueueFits
<1>12. ASSUME NEW d \in Sockets PROVE HostFits(d)'
  BY <1>5, <1>6, <1>10, <1>12 DEF HostFits
<1>13. EnrollmentFits'
  <2>1. ASSUME NEW l \in Controllers, Enrolled(l)' PROVE Enrolled(l)
    BY <1>6, <2>1, Constants DEF Enrolled, SocketsOf
  <2>. QED
    BY <2>1 DEF EnrollmentFits
<1>14. ASSUME NEW l \in Controllers PROVE RefusalFits(l)'
  BY <1>14 DEF RefusalFits, Told, Sent, Presented, MayRegister, Usable, Known, SocketsOf
<1>. QED
  BY <1>1, <1>3, <1>4, <1>7, <1>8, <1>9, <1>11, <1>12, <1>13, <1>14

\* The first commit starts: it is staged, dropped or refused.
LEMMA StageKeeps ==
  ASSUME CredentialIInv, Stage
  PROVE  CredentialIInv'
<1>. USE DEF CredentialIInv
<1>1. PICK q \in Commits : q = Head(queue) /\ Carries(queue, q) /\ CommitFits(q)
  BY CommitTaken DEF Stage, Typed, QueueFits
<1>2. queue # <<>> /\ staged = Nothing
  BY DEF Stage
<1>3. CASE Admitted(q)
  BY <1>1, <1>2, <1>3, StagingKeeps DEF Stage, socketVars, wireVars, deviceVars
<1>4. CASE ~Admitted(q)
  <2>. DEFINE c == q.conn
  <2>1. /\ queue' = Tail(queue)
        /\ UNCHANGED <<keys, revoked, relayUp, client, up, deviceVars, recovered, staged, fresh>>
    BY <1>1, <1>4 DEF Stage
  <2>2. CASE AnswersOwner(q) \/ ~Live(c)
    BY <1>1, <1>2, <1>4, <2>1, <2>2, DropKeeps DEF Stage, socketVars, wireVars
  <2>3. CASE ~AnswersOwner(q) /\ Live(c)
    <3>1. q.kind # "revoke" /\ q.kind # "rotate"
      BY <1>4, <2>3 DEF Admitted, AnswersOwner
    <3>2. c \in Sockets /\ c[1] \in Controllers /\ HostFits(c)
      BY <3>1, Constants DEF Commits, CommitOf, Kinds
    <3>3. ASSUME server[c].state = "host" PROVE Current(c)
      BY <2>3, <3>2, <3>3, Constants DEF Current, HostFits, Known
    <3>4. q.kind # "invite"
      BY <1>1, <1>4, <2>3, <3>3 DEF Admitted, CommitFits, Live
    <3>5. q.kind # "saved"
      BY <1>1, <1>4, <2>3, <3>2, <3>3 DEF Admitted, CommitFits, Live, Saved, HostFits
    <3>6. q.kind = "register"
      BY <3>1, <3>4, <3>5 DEF Commits, CommitOf, Kinds
    <3>7. ~MayRegister(c[1], server[c].key) /\ Unopened(c) /\ server[c].state = "registering"
      BY <1>1, <1>4, <2>3, <3>6 DEF Admitted, RegisterAdmitted, CommitFits, Live
    <3>8. Unauthorized(c)
      BY <1>1, <1>4, <2>3 DEF Stage, Unauthorized
    <3>9. Fixed /\ up' = up /\ up \in [Sockets -> Seq({"register", "saved"})]
      BY <2>1 DEF Fixed, Typed
    <3>. QED
      BY <1>2, <2>1, <3>2, <3>7, <3>8, <3>9, RefusalKeeps DEF deviceVars
  <2>. QED
    BY <2>2, <2>3
<1>. QED
  BY <1>3, <1>4

-----------------------------------------------------------------------------
(* A commit is stored and published.                                       *)

\* What a commit for installation k may make of the credentials: k loses some, and
\* it gets one that it may register with, or the next one.
Evolves(k, new) ==
    /\ new \in Draft
    /\ keys.claimed => new.claimed
    /\ \A j \in KeyIds :
          \/ new.holder[j] = keys.holder[j]
          \/ keys.holder[j] = k /\ new.holder[j] = Unheld
          \/ new.holder[j] = k /\ (MayRegister(k, j) \/ (j = Upcoming /\ j < fresh))

\* That is what the draft makes of them.
LEMMA DraftEvolves ==
  ASSUME CredentialIInv, NEW q \in Commits, staged # Nothing, q = Head(queue),
         NEW k \in Controllers, k = q.conn[1]
  PROVE  Evolves(k, staged)
<1>. USE DEF CredentialIInv
<1>. DEFINE c == q.conn
<1>1. DraftFits(q) /\ staged \in Draft /\ keys.holder \in [KeyIds -> Controllers \cup {Nobody, Unheld}]
  BY DEF StagedFits, Typed, Draft
<1>2. CASE q.kind = "register"
  <2>1. MayRegister(k, server[c].key) /\ staged = RegisterDraft(k, server[c].key)
    BY <1>1, <1>2 DEF DraftFits
  <2>. QED
    BY <1>1, <2>1 DEF Evolves, RegisterDraft, OnlyKey
<1>3. CASE q.kind \in {"invite", "rotate"}
  <2>1. Upcoming = fresh - 1 /\ fresh \in Int
    BY <1>1, <1>3 DEF Upcoming, Issuing, Typed
  <2>2. staged.claimed = keys.claimed
    BY <1>1, <1>3 DEF DraftFits, Typed, Draft
  <2>3. ASSUME NEW j \in KeyIds
        PROVE  \/ j = fresh - 1 /\ staged.holder[j] = k
               \/ keys.holder[j] = k /\ staged.holder[j] = Unheld
               \/ staged.holder[j] = keys.holder[j]
    BY <1>1, <1>3 DEF DraftFits, Typed, Draft
  <2>. QED
    BY <1>1, <2>1, <2>2, <2>3 DEF Evolves
<1>4. CASE q.kind = "saved"
  <2>1. PICK j \in KeyIds \ {Invitation} :
           keys.holder[j] = k /\ staged = [keys EXCEPT !.holder = OnlyKey(keys.holder, k, j)]
    BY <1>1, <1>4 DEF DraftFits
  <2>2. staged.claimed = keys.claimed /\ staged.holder = OnlyKey(keys.holder, k, j)
    BY <2>1 DEF Typed, Draft
  <2>. QED
    BY <1>1, <2>1, <2>2 DEF Evolves, OnlyKey
<1>5. CASE q.kind = "revoke"
  <2>1. /\ staged.claimed = keys.claimed
        /\ staged.holder = [i \in KeyIds |-> IF keys.holder[i] = k THEN Unheld ELSE keys.holder[i]]
    BY <1>1, <1>5 DEF DraftFits, Typed, Draft
  <2>. QED
    BY <1>1, <2>1 DEF Evolves
<1>. QED
  BY <1>2, <1>3, <1>4, <1>5 DEF Commits, CommitOf, Kinds

\* No other installation is affected, and nobody may come back with a credential
\* that was of no use to it.
LEMMA KeysEvolved ==
  ASSUME CredentialIInv, NEW k, k \in Controllers \/ keys' = keys, Evolves(k, keys'),
         fresh' = fresh, staged' = Nothing
  PROVE  /\ KeysFit' /\ Upcoming' = fresh /\ Upcoming <= fresh /\ fresh \in Nat /\ Upcoming \in Int
         /\ \A l \in Controllers, j \in KeyIds : l # k => (keys'.holder[j] = l <=> keys.holder[j] = l)
         /\ \A l \in Controllers, j \in KeyIds : j < Upcoming /\ MayRegister(l, j)' => MayRegister(l, j)
         /\ \A j \in KeyIds : keys.holder[j] = Unheld => j >= Upcoming \/ keys'.holder[j] = Unheld
<1>. USE DEF CredentialIInv
<1>0. Typed /\ keys' \in Draft /\ fresh \in Nat /\ \A j \in KeyIds : j \in Nat
  BY Constants DEF Typed, Evolves
<1>1. Upcoming \in Int /\ Upcoming <= fresh /\ Upcoming' = fresh
  BY <1>0 DEF Upcoming, Issuing
<1>2. \A j \in KeyIds : MayRegister(k, j) => j < Upcoming /\ keys.holder[j] # Unheld
  BY <1>0, <1>1 DEF MayRegister, Usable, Known, KeysFit
<1>3. ASSUME NEW j \in KeyIds
      PROVE  /\ j >= fresh => keys'.holder[j] = Unheld
             /\ keys'.holder[j] = Nobody => j = Invitation
             /\ keys.holder[j] = Unheld => j >= Upcoming \/ keys'.holder[j] = Unheld
  <2>1. CASE keys'.holder[j] = keys.holder[j]
    BY <1>0, <1>1, <2>1 DEF KeysFit
  <2>2. CASE keys.holder[j] = k /\ keys'.holder[j] = Unheld
    BY <2>2, Constants
  <2>3. CASE keys'.holder[j] = k /\ keys' # keys /\ (MayRegister(k, j) \/ (j = Upcoming /\ j < fresh))
    <3>1. keys'.holder[j] # Nobody
      BY <2>3, Constants
    <3>2. j < fresh /\ (keys.holder[j] = Unheld => j >= Upcoming)
      BY <1>0, <1>1, <1>2, <2>3
    <3>3. ~(j >= fresh)
      BY <1>0, <3>2
    <3>. QED
      BY <3>1, <3>2, <3>3
  <2>. QED
    BY <2>1, <2>2, <2>3 DEF Evolves
<1>4. ~keys'.claimed => fresh = 1
  BY <1>0 DEF Evolves, KeysFit, Draft
<1>5. KeysFit'
  BY <1>1, <1>3, <1>4 DEF KeysFit
<1>6. ASSUME NEW l \in Controllers, NEW j \in KeyIds, l # k
      PROVE  keys'.holder[j] = l <=> keys.holder[j] = l
  <2>1. CASE keys'.holder[j] = keys.holder[j]
    BY <2>1
  <2>2. CASE keys.holder[j] = k /\ keys'.holder[j] = Unheld
    BY <1>6, <2>2, Constants
  <2>3. CASE keys'.holder[j] = k /\ (MayRegister(k, j) \/ (j = Upcoming /\ j < fresh))
    <3>1. keys.holder[j] \in {Nobody, k, Unheld}
      BY <2>3, <1>0, <1>1 DEF MayRegister, KeysFit
    <3>. QED
      BY <1>6, <2>3, <3>1, Constants
  <2>. QED
    BY <2>1, <2>2, <2>3 DEF Evolves
<1>7. ASSUME NEW l \in Controllers, NEW j \in KeyIds, j < Upcoming, MayRegister(l, j)'
      PROVE  MayRegister(l, j)
  <2>1. /\ keys'.holder[j] # Unheld /\ ~(j = Invitation /\ keys'.claimed)
        /\ keys'.holder[j] \in {Nobody, l}
    BY <1>7 DEF MayRegister, Usable, Known
  <2>2. ~(j = Invitation /\ keys.claimed)
    BY <2>1 DEF Evolves
  <2>3. CASE keys'.holder[j] = keys.holder[j]
    BY <2>1, <2>2, <2>3 DEF MayRegister, Usable, Known
  <2>4. CASE keys'.holder[j] = k /\ MayRegister(k, j) /\ keys' # keys
    BY <2>1, <2>2, <2>4, Constants
  <2>. QED
    BY <1>0, <1>1, <1>7, <2>1, <2>3, <2>4 DEF Evolves
<1>. QED
  BY <1>0, <1>1, <1>3, <1>5, <1>6, <1>7

\* Connection d is not the one that the commit of installation k is about.
Aside(d, k) ==
    \/ server'[d] = server[d] /\ down'[d] = down[d]
    \/ /\ d[1] = k /\ server[d].state = "host" /\ server'[d].state = "closed"
       /\ server'[d].key = server[d].key /\ server'[d].offer = Nothing
       /\ client[d] = "gone" => down'[d] = down[d]
       /\ \A j \in KeyIds : Sent(d, <<"offer", j>>)' <=> Sent(d, <<"offer", j>>)

\* Such a connection keeps its credential and what it offers.
LEMMA AsideStands ==
  ASSUME NEW d, NEW k, Aside(d, k)
  PROVE  /\ server'[d].key = server[d].key /\ server'[d].offer \in {server[d].offer, Nothing}
         /\ server[d].state = "closed" => server'[d].state = "closed"
         /\ \A j \in KeyIds : Sent(d, <<"offer", j>>)' <=> Sent(d, <<"offer", j>>)
         /\ NoOffer(d)' <=> NoOffer(d)
<1>1. /\ server'[d].key = server[d].key /\ server'[d].offer \in {server[d].offer, Nothing}
      /\ server[d].state = "closed" => server'[d].state = "closed"
  BY DEF Aside
<1>2. \A j \in KeyIds : Sent(d, <<"offer", j>>)' <=> Sent(d, <<"offer", j>>)
  BY DEF Aside, Sent
<1>3. NoOffer(d)' <=> NoOffer(d)
  BY <1>2 DEF NoOffer
<1>. QED
  BY <1>1, <1>2, <1>3

\* Connection c is.
Served(c) ==
    /\ server[c].state \in {"registering", "host", "closed"}
    /\ server'[c].state \in {"host", "closed"}
    /\ server[c].state = "closed" => server'[c].state = "closed"
    /\ server'[c].key < fresh
    /\ server'[c].offer # Nothing => server'[c].offer < fresh
    /\ client[c] = "gone" => down'[c] = down[c]
    /\ \A j \in KeyIds : Sent(c, <<"offer", j>>)' => Sent(c, <<"offer", j>>) \/ j \in 1..fresh - 1

\* The step publishes a commit of installation k about connection c.
Publishes(k, c) ==
    /\ Evolves(k, keys') /\ staged' = Nothing
    /\ UNCHANGED <<revoked, fresh, relayUp, client, up, file, saving, refused, recovered>>
    /\ server' \in [Sockets -> End] /\ down' \in [Sockets -> Seq(Frames)]
    /\ hostSocket' \in [Controllers -> {Nothing} \cup Sockets]
    /\ hostSocket'[k] \in {Nothing, c}
    /\ \A l \in Controllers : l # k => hostSocket'[l] = hostSocket[l]
    /\ \A d \in Sockets : d # c => Aside(d, k) /\ (d[1] = k => server'[d].state # "host")
    /\ c \in Sockets => c[1] = k /\ Served(c) /\ HostFits(c)'
    /\ queue' \in Seq(Commits) /\ Distinct(queue')
    /\ \A p \in Commits : Carries(queue', p) =>
          \/ CommitFits(p)'
          \/ /\ Carries(queue, p) /\ (p.kind \in Kinds => p.conn # c)
             /\ p.kind = "invite" => fresh = 1 /\ ~Carries(queue', CommitOf("register", p.conn))
    /\ \A p \in Commits : Carries(queue', p) /\ p.conn[1] # k => Carries(queue, p)
    /\ keys.claimed /\ Enrolled(k)' => Enrolled(k)
    /\ ~keys.claimed /\ ~keys'.claimed => ~Enrolled(k)'
    /\ ~keys.claimed /\ keys'.claimed =>
          \A j \in KeyIds, l \in Controllers : keys.holder[j] = l => l = k
    /\ RefusalFits(k)'

\* A published commit keeps the invariant if it keeps the part of its own connection.
LEMMA PublishKeeps ==
  ASSUME CredentialIInv, NEW k \in Controllers, NEW c, Publishes(k, c)
  PROVE  CredentialIInv'
<1>. USE DEF CredentialIInv, Publishes
<1>0. /\ Typed /\ fresh' = fresh /\ client' = client /\ up' = up /\ file' = file /\ saving' = saving
      /\ refused' = refused /\ recovered' = recovered /\ revoked' = revoked /\ keys' \in Draft
  BY DEF Evolves
<1>1. Typed'
  BY <1>0 DEF Typed
<1>2. /\ KeysFit' /\ Upcoming' = fresh /\ Upcoming <= fresh /\ fresh \in Nat /\ Upcoming \in Int
      /\ \A l \in Controllers, j \in KeyIds : l # k => (keys'.holder[j] = l <=> keys.holder[j] = l)
      /\ \A l \in Controllers, j \in KeyIds : j < Upcoming /\ MayRegister(l, j)' => MayRegister(l, j)
  BY <1>0, KeysEvolved
<1>a. \A d \in Sockets : d # c =>
         /\ server'[d].key = server[d].key /\ server'[d].offer \in {server[d].offer, Nothing}
         /\ \A j \in KeyIds : Sent(d, <<"offer", j>>)' <=> Sent(d, <<"offer", j>>)
  BY DEF Aside, Sent
<1>b. \A d \in Sockets : d # c => (NoOffer(d)' <=> NoOffer(d))
  BY <1>a DEF NoOffer
<1>c. \A l \in Controllers : l # k =>
         /\ \A d \in SocketsOf(l) : d \in Sockets /\ d # c /\ d[1] = l /\ server'[d] = server[d] /\ down'[d] = down[d]
         /\ NoOffers(l)' <=> NoOffers(l)
  <2>1. ASSUME NEW l \in Controllers, l # k, NEW d \in SocketsOf(l)
        PROVE  d \in Sockets /\ d # c /\ d[1] = l /\ server'[d] = server[d] /\ down'[d] = down[d]
    BY <2>1, Constants DEF Aside
  <2>2. ASSUME NEW l \in Controllers, l # k PROVE NoOffers(l)' <=> NoOffers(l)
    BY <1>b, <2>1, <2>2 DEF NoOffers, SocketsOf
  <2>. QED
    BY <2>1, <2>2
<1>3. KeysKnown'
  <2>1. ASSUME NEW d \in Sockets
        PROVE  server'[d].key < fresh /\ (server'[d].offer # Nothing => server'[d].offer < fresh)
    <3>1. CASE d = c
      BY <3>1 DEF Served
    <3>2. CASE d # c
      <4>1. server[d].key \in Int /\ (server[d].offer # Nothing => server[d].offer \in Int)
        <5>1. server[d].key \in KeyIds /\ server[d].offer \in {Nothing} \cup KeyIds
          BY <1>0 DEF Typed, End
        <5>. QED
          BY <5>1, Constants
      <4>2. server[d].key < Upcoming /\ (server[d].offer # Nothing => server[d].offer < Upcoming)
        BY DEF KeysKnown
      <4>3. server[d].key < fresh /\ (server[d].offer # Nothing => server[d].offer < fresh)
        BY <1>2, <4>1, <4>2
      <4>. QED
        BY <1>a, <3>2, <4>3
    <3>. QED
      BY <3>1, <3>2
  <2>2. ASSUME NEW l \in Controllers
        PROVE  file[l] < fresh /\ (saving[l] # Nothing => saving[l].key \in 1..fresh - 1)
    <3>1. file[l] \in Int /\ file[l] < Upcoming
      BY <1>0, Constants DEF Typed, KeysKnown
    <3>2. saving[l] # Nothing => saving[l].key \in 1..Upcoming - 1
      BY DEF KeysKnown
    <3>. QED
      BY <1>2, <3>1, <3>2
  <2>3. ASSUME NEW d \in Sockets, NEW j \in KeyIds, Sent(d, <<"offer", j>>)' PROVE j \in 1..fresh - 1
    <3>1. Sent(d, <<"offer", j>>) => j \in 1..Upcoming - 1
      BY DEF KeysKnown
    <3>2. Sent(d, <<"offer", j>>) \/ j \in 1..fresh - 1
      BY <1>a, <2>3 DEF Served
    <3>. QED
      BY <1>2, <3>1, <3>2
  <2>. QED
    BY <1>0, <1>2, <2>1, <2>2, <2>3 DEF KeysKnown
<1>4. ASSUME NEW d \in Sockets PROVE ClientFits(d)'
  <2>1. client[d] = "gone" => down'[d] = down[d]
    BY DEF Aside, Served
  <2>2. server[d].state = "none" => server'[d] = server[d] /\ down'[d] = down[d]
    BY DEF Aside, Served
  <2>3. server[d].state # "none" => server'[d].state # "none"
    BY DEF Aside, Served
  <2>. QED
    BY <1>0, <1>4, <2>1, <2>2, <2>3 DEF ClientFits, SocketsOf
<1>5. SavingFits'
  BY <1>0 DEF SavingFits
<1>6. ASSUME NEW d \in Sockets, d # c, Unopened(d) PROVE Unopened(d)'
  BY <1>0, <1>a, <1>b, <1>6 DEF Unopened
<1>7. ASSUME NEW d \in Sockets, d[1] # k, Saved(d) PROVE Saved(d)'
  <2>1. d[1] \in Controllers /\ d \in SocketsOf(d[1])
    BY Constants
  <2>. QED
    BY <1>0, <1>c, <1>7, <2>1 DEF Saved
<1>8. QueueFits'
  <2>1. ASSUME NEW p \in Commits, Carries(queue', p), Carries(queue, p), p.kind \in Kinds => p.conn # c,
               p.kind = "invite" => fresh = 1 /\ ~Carries(queue', CommitOf("register", p.conn))
        PROVE  CommitFits(p)'
    <3>1. CommitFits(p)
      BY <2>1 DEF QueueFits
    <3>2. CASE p.kind = "revoke"
      BY <1>0, <3>1, <3>2 DEF CommitFits
    <3>3. CASE p.kind \in Kinds
      <4>1. p.conn \in Sockets /\ p.conn # c /\ Aside(p.conn, k) /\ (p.conn[1] = k => server'[p.conn].state # "host")
        BY <2>1, <3>3 DEF Commits, CommitOf, Kinds
      <4>2. CASE p.kind = "register"
        BY <1>0, <1>6, <3>1, <4>1, <4>2 DEF CommitFits, Aside
      <4>3. CASE p.kind = "invite"
        <5>1. keys'.claimed
          BY <3>1, <4>3 DEF CommitFits, Evolves
        <5>. QED
          BY <1>0, <1>2, <2>1, <3>1, <4>1, <4>3, <5>1 DEF CommitFits, Aside
      <4>4. CASE p.kind = "rotate"
        BY <1>0, <3>1, <4>1, <4>4 DEF CommitFits, Aside
      <4>5. CASE p.kind = "saved"
        <5>1. server'[p.conn].state \in {"host", "closed"}
          BY <3>1, <4>1, <4>5 DEF CommitFits, Aside
        <5>2. server'[p.conn].state = "host" => server[p.conn].state = "host" /\ p.conn[1] # k
          BY <3>1, <4>1 DEF Aside
        <5>3. server'[p.conn].state = "host" => Saved(p.conn)' /\ up[p.conn] = <<>>
          BY <1>7, <3>1, <4>1, <4>5, <5>2 DEF CommitFits
        <5>. QED
          BY <1>0, <4>5, <5>1, <5>3 DEF CommitFits
      <4>. QED
        BY <3>3, <4>2, <4>3, <4>4, <4>5 DEF Kinds
    <3>. QED
      BY <3>2, <3>3 DEF Commits, CommitOf, Kinds
  <2>2. \A p \in Commits : Carries(queue', p) => CommitFits(p)'
    BY <2>1
  <2>. QED
    BY <2>2 DEF QueueFits
<1>9. ASSUME NEW d \in Sockets PROVE HostFits(d)'
  <2>0. HostFits(d) /\ d[1] \in Controllers /\ d \in SocketsOf(d[1])
    BY Constants
  <2>1. CASE d = c
    BY <2>1
  <2>2. CASE d # c /\ d[1] # k
    <3>1. server'[d] = server[d] /\ down'[d] = down[d] /\ hostSocket'[d[1]] = hostSocket[d[1]]
      BY <1>c, <2>0, <2>2
    <3>2. /\ NoOffer(d)' <=> NoOffer(d)
          /\ \A j \in KeyIds : Sent(d, <<"offer", j>>)' <=> Sent(d, <<"offer", j>>)
      BY <1>a, <1>b, <2>2
    <3>3. (Unopened(d) => Unopened(d)') /\ (Saved(d) => Saved(d)')
      BY <1>6, <1>7, <2>2
    <3>4. \A j \in KeyIds : keys'.holder[j] = d[1] <=> keys.holder[j] = d[1]
      BY <1>2, <2>0, <2>2
    <3>5. server[d].key \in KeyIds /\ server[d].offer \in {Nothing} \cup KeyIds
      BY <1>0 DEF Typed, End
    <3>. QED
      BY <1>0, <2>0, <3>1, <3>2, <3>3, <3>4, <3>5 DEF HostFits
  <2>3. CASE d # c /\ d[1] = k
    <3>1. server'[d].state # "host" /\ hostSocket'[d[1]] # d /\ Aside(d, k)
      BY <2>3, Constants
    <3>2. server'[d].offer = Nothing
      BY <2>0, <3>1 DEF HostFits, Aside
    <3>3. server'[d].state = "accepted" => server[d].state = "accepted" /\ Unopened(d)'
      BY <2>0, <2>3, <3>1, <1>6 DEF HostFits, Aside
    <3>. QED
      BY <1>0, <2>0, <3>1, <3>2, <3>3 DEF HostFits
  <2>. QED
    BY <2>1, <2>2, <2>3
<1>10. HostsOwn'
  <2>1. /\ hostSocket'[k] \in {Nothing, c} /\ hostSocket'[k] \in {Nothing} \cup Sockets
        /\ c \in Sockets => c[1] = k
    OBVIOUS
  <2>2. \A l \in Controllers : l # k => hostSocket'[l] = hostSocket[l]
    OBVIOUS
  <2>. QED
    BY <2>1, <2>2 DEF HostsOwn
<1>11. StagedFits'
  BY DEF StagedFits
<1>12. EnrollmentFits'
  <2>1. ASSUME NEW l \in Controllers, l # k, Enrolled(l)', ~(~keys.claimed /\ keys'.claimed) PROVE Enrolled(l)
    <3>1. \A d \in SocketsOf(l) : server'[d].key = server[d].key /\ (NoOffer(d)' <=> NoOffer(d))
      BY <1>b, <1>c, <2>1
    <3>2. keys'.claimed /\ (\E j \in KeyIds : keys'.holder[j] = l) => keys.claimed /\ \E j \in KeyIds : keys.holder[j] = l
      BY <1>2, <2>1
    <3>. QED
      BY <1>0, <2>1, <3>1, <3>2 DEF Enrolled, SocketsOf
  <2>2. ASSUME NEW l \in Controllers, l # k, Enrolled(l)', ~keys.claimed /\ keys'.claimed PROVE Enrolled(l)
    <3>1. \A d \in SocketsOf(l) : server'[d].key = server[d].key /\ (NoOffer(d)' <=> NoOffer(d))
      BY <1>b, <1>c, <2>2
    <3>2. ~\E j \in KeyIds : keys'.holder[j] = l
      BY <1>2, <2>2
    <3>. QED
      BY <1>0, <2>2, <3>1, <3>2 DEF Enrolled, SocketsOf
  <2>3. \A l \in Controllers : l # k /\ Enrolled(l)' => Enrolled(l)
    BY <2>1, <2>2
  <2>4. keys.claimed => keys'.claimed
    BY DEF Evolves
  <2>. QED
    BY <2>3, <2>4 DEF EnrollmentFits
<1>13. ASSUME NEW l \in Controllers PROVE RefusalFits(l)'
  <2>1. CASE l = k
    BY <2>1
  <2>2. CASE l # k
    <3>1. \A d \in SocketsOf(l) : server'[d] = server[d] /\ \A g : Sent(d, g)' <=> Sent(d, g)
      BY <1>c, <2>2 DEF Sent
    <3>2. Presented(l)' = Presented(l) /\ (Told(l)' <=> Told(l))
      BY <1>0, <3>1 DEF Presented, Told, SocketsOf
    <3>3. Presented(l) \in KeyIds /\ Presented(l) < Upcoming
      BY <1>0, <1>2 DEF Presented, Typed, KeysKnown
    <3>4. ASSUME NEW j \in KeyIds, j < Upcoming, ~MayRegister(l, j) PROVE ~MayRegister(l, j)'
      BY <1>2, <3>4
    <3>5. Told(l) => ~MayRegister(l, Presented(l))'
      <4>1. PICK j \in KeyIds : j = Presented(l) /\ j < Upcoming
        BY <3>3
      <4>2. Told(l) => ~MayRegister(l, j)
        BY <4>1 DEF RefusalFits
      <4>3. j = Presented(l)'
        BY <3>2, <4>1
      <4>. QED
        BY <3>4, <4>1, <4>2, <4>3 DEF MayRegister, Usable, Known
    <3>6. ASSUME Told(l), NEW d \in SocketsOf(l), NEW j \in KeyIds, Sent(d, <<"offer", j>>)
          PROVE  ~MayRegister(l, j)'
      <4>1. ~MayRegister(l, j) /\ j < Upcoming
        <5>1. d \in Sockets /\ RefusalFits(l)
          BY Constants
        <5>2. j \in 1..Upcoming - 1
          BY <3>6, <5>1 DEF KeysKnown
        <5>. QED
          BY <1>2, <3>6, <5>1, <5>2 DEF RefusalFits
      <4>. QED
        BY <3>4, <4>1
    <3>7. \A d \in SocketsOf(l) : Sent(d, <<"unauthorized">>)' => server'[d].state = "closed"
      BY <3>1 DEF RefusalFits
    <3>8. \A d \in SocketsOf(l), j \in KeyIds : Told(l)' /\ Sent(d, <<"offer", j>>)' => ~MayRegister(l, j)'
      BY <3>1, <3>2, <3>6
    <3>. QED
      BY <3>2, <3>5, <3>7, <3>8 DEF RefusalFits, SocketsOf
  <2>. QED
    BY <2>1, <2>2
<1>. QED
  BY <1>1, <1>2, <1>3, <1>4, <1>5, <1>8, <1>9, <1>10, <1>11, <1>12, <1>13

\* What is known of the commit that is published, and of the others that wait.
LEMMA CommitDue ==
  ASSUME CredentialIInv, Stored, NEW q \in Commits, q = Head(queue), NEW k, k = q.conn[1]
  PROVE  /\ k \in Controllers /\ queue # <<>> /\ staged # Nothing /\ Typed
         /\ DraftFits(q) /\ CommitFits(q) /\ Carries(queue, q)
         /\ Evolves(k, staged) /\ keys' = staged
         /\ q.kind \in Kinds => q.conn \in Sockets /\ HostFits(q.conn) /\ ClientFits(q.conn)
         /\ Tail(queue) \in Seq(Commits) /\ Distinct(Tail(queue))
         /\ \A p : Carries(Tail(queue), p) <=> Carries(queue, p) /\ p # q
         /\ \A p \in Commits : Carries(queue, p) /\ p # q /\ p.kind = "invite" =>
               fresh = 1 /\ ~Carries(queue, CommitOf("register", p.conn))
<1>. USE DEF CredentialIInv
<1>1. k \in Controllers
  BY Constants DEF Commits, CommitOf
<1>2. queue # <<>> /\ staged # Nothing /\ DraftFits(q) /\ keys' = staged
  BY DEF Stored, StagedFits
<1>3. queue \in Seq(Commits) /\ Distinct(queue)
  BY DEF Typed, QueueFits
<1>4. /\ Tail(queue) \in Seq(Commits) /\ Distinct(Tail(queue)) /\ Carries(queue, q)
      /\ \A p : Carries(Tail(queue), p) <=> Carries(queue, p) /\ p # q
      /\ q.kind = "invite" => \A p \in Commits : Carries(Tail(queue), p) => p.kind # "invite"
  BY <1>2, <1>3, CommitTaken
<1>5. CommitFits(q)
  BY <1>4 DEF QueueFits
<1>6. Evolves(k, staged)
  BY <1>1, <1>2, DraftEvolves
<1>7. ASSUME NEW p \in Commits, Carries(queue, p), p # q, p.kind = "invite"
      PROVE  fresh = 1 /\ ~Carries(queue, CommitOf("register", p.conn))
  <2>1. Upcoming = 1 /\ ~Carries(queue, CommitOf("register", p.conn))
    BY <1>7 DEF QueueFits, CommitFits
  <2>2. q.kind # "invite"
    BY <1>4, <1>7
  <2>3. CASE q.kind = "rotate"
    <3>1. q.conn \in Sockets
      BY <2>3 DEF Commits, CommitOf, Kinds
    <3>2. server[q.conn].key \in KeyIds /\ server[q.conn].key < 1
      BY <2>1, <3>1 DEF KeysKnown, Typed, End
    <3>3. \A j \in KeyIds : j < 1 => j = Invitation
      BY Constants
    <3>4. server[q.conn].key = Invitation
      BY <3>2, <3>3
    <3>. QED
      BY <1>5, <2>3, <3>4 DEF CommitFits
  <2>4. CASE q.kind # "rotate"
    BY <2>1, <2>2, <2>4 DEF Upcoming, Issuing
  <2>. QED
    BY <2>1, <2>3, <2>4
<1>8. q.kind \in Kinds => q.conn \in Sockets
  BY DEF Commits, CommitOf, Kinds
<1>. QED
  BY <1>1, <1>2, <1>4, <1>5, <1>6, <1>7, <1>8

\* A commit other than a revocation tells nobody that it is unauthorized.
LEMMA RefusalStands ==
  ASSUME CredentialIInv, NEW k \in Controllers, Evolves(k, keys'), staged' = Nothing,
         UNCHANGED <<fresh, client, file, saving, refused>>,
         \A d \in SocketsOf(k) :
            /\ server[d].state = "closed" => server'[d].state = "closed"
            /\ Sent(d, <<"unauthorized">>)' => Sent(d, <<"unauthorized">>)
            /\ \A j \in KeyIds : Sent(d, <<"offer", j>>)' =>
                  Sent(d, <<"offer", j>>) \/ (client[d] # "gone" /\ server[d].state # "closed")
  PROVE  RefusalFits(k)'
<1>. USE DEF CredentialIInv
<1>1. /\ \A j \in KeyIds : j < Upcoming /\ MayRegister(k, j)' => MayRegister(k, j)
      /\ Upcoming \in Int
  BY KeysEvolved
<1>2. Typed /\ RefusalFits(k)
  OBVIOUS
<1>3. Presented(k)' = Presented(k) /\ (Told(k)' => Told(k))
  BY DEF Presented, Told, SocketsOf
<1>4. Told(k) => ~MayRegister(k, Presented(k))'
  <2>1. Presented(k) \in KeyIds /\ Presented(k) < Upcoming
    BY <1>1, <1>2 DEF Presented, Typed, KeysKnown
  <2>2. PICK j \in KeyIds : j = Presented(k) /\ j < Upcoming
    BY <2>1
  <2>3. Told(k) => ~MayRegister(k, j)
    BY <1>2, <2>2 DEF RefusalFits
  <2>4. j = Presented(k)'
    BY <1>3, <2>2
  <2>. QED
    BY <1>1, <2>2, <2>3, <2>4 DEF MayRegister, Usable, Known
<1>5. ASSUME Told(k), NEW d \in SocketsOf(k), NEW j \in KeyIds, Sent(d, <<"offer", j>>)'
      PROVE  ~MayRegister(k, j)'
  <2>0. d \in Sockets /\ d[1] = k /\ ClientFits(d)
    BY Constants
  <2>1. CASE Sent(d, <<"offer", j>>)
    <3>1. ~MayRegister(k, j) /\ j \in 1..Upcoming - 1
      BY <1>2, <1>5, <2>0, <2>1 DEF RefusalFits, KeysKnown
    <3>. QED
      BY <1>1, <3>1
  <2>2. CASE client[d] # "gone" /\ server[d].state # "closed"
    <3>1. refused[k] = "no"
      BY <2>0, <2>2 DEF ClientFits
    <3>2. PICK e \in SocketsOf(k) : Sent(e, <<"unauthorized">>)
      BY <1>5, <3>1 DEF Told
    <3>3. e \in Sockets /\ client[e] # "gone" /\ server[e].state = "closed"
      BY <1>2, <3>2, NoFrames, Constants DEF ClientFits, Sent, RefusalFits
    <3>4. e = d
      BY <2>0, <2>2, <3>2, <3>3 DEF ClientFits
    <3>. QED
      BY <2>2, <3>3, <3>4
  <2>. QED
    BY <1>5, <2>1, <2>2
<1>6. \A d \in SocketsOf(k) : Sent(d, <<"unauthorized">>)' => server'[d].state = "closed"
  BY <1>2 DEF RefusalFits
<1>7. \A d \in SocketsOf(k), j \in KeyIds : Told(k)' /\ Sent(d, <<"offer", j>>)' => ~MayRegister(k, j)'
  BY <1>3, <1>5
<1>. QED
  BY <1>3, <1>4, <1>6, <1>7 DEF RefusalFits, SocketsOf

\* The revoked installation's connection closes; it is told so.
LEMMA RevokeStored ==
  ASSUME CredentialIInv, Stored, NEW q \in Commits, q = Head(queue), q.kind = "revoke"
  PROVE  CredentialIInv'
<1>. USE DEF CredentialIInv
<1>. PICK k : k = q.conn[1]
  OBVIOUS
<1>0. /\ k \in Controllers /\ queue # <<>> /\ staged # Nothing /\ Typed
      /\ DraftFits(q) /\ Evolves(k, keys') /\ keys' = staged /\ keys.holder \in [KeyIds -> Controllers \cup {Nobody, Unheld}]
      /\ Tail(queue) \in Seq(Commits) /\ Distinct(Tail(queue))
      /\ \A p : Carries(Tail(queue), p) <=> Carries(queue, p) /\ p # q
      /\ \A p \in Commits : Carries(queue, p) /\ p # q /\ p.kind = "invite" =>
            fresh = 1 /\ ~Carries(queue, CommitOf("register", p.conn))
  BY CommitDue DEF Typed, Draft
<1>. PICK old : old = hostSocket[k]
  OBVIOUS
<1>1. /\ queue' = Tail(queue) /\ hostSocket' = [hostSocket EXCEPT ![k] = Nothing] /\ staged' = Nothing
      /\ server' = IF old = Nothing THEN server ELSE Close(server, old)
      /\ down' = IF old = Nothing THEN down ELSE Frame(down, old, <<"unauthorized">>)
      /\ UNCHANGED <<revoked, fresh, relayUp, client, up, file, saving, refused, recovered>>
  BY DEF Stored, PublishCommit, deviceVars
<1>2. old # Nothing => old \in Sockets /\ old[1] = k /\ server[old].state = "host"
  BY <1>0, Constants DEF Typed, HostsOwn, HostFits
<1>3. /\ server' \in [Sockets -> End] /\ down' \in [Sockets -> Seq(Frames)]
      /\ \A d \in Sockets : d # old => server'[d] = server[d] /\ down'[d] = down[d]
      /\ old # Nothing =>
            /\ server'[old].state = "closed" /\ server'[old].offer = Nothing
            /\ server'[old].key = server[old].key
            /\ client[old] = "gone" => down'[old] = down[old]
            /\ \A g : Sent(old, g)' <=> Sent(old, g) \/ (client[old] # "gone" /\ g = <<"unauthorized">>)
  <2>0. server \in [Sockets -> End] /\ down \in [Sockets -> Seq(Frames)]
    BY <1>0 DEF Typed
  <2>1. CASE old = Nothing
    BY <1>1, <2>0, <2>1
  <2>2. CASE old # Nothing
    <3>. PICK f \in Frames : f = <<"unauthorized">>
      BY FrameKinds
    <3>0. old \in Sockets
      BY <1>2, <2>2
    <3>1. server' = Close(server, old)
      BY <1>1, <2>2
    <3>4. down' = IF client[old] = "gone" THEN down ELSE [down EXCEPT ![old] = Append(@, f)]
      BY <1>1, <2>2 DEF Frame
    <3>2. /\ server' \in [Sockets -> End] /\ server'[old].state = "closed" /\ server'[old].offer = Nothing
          /\ server'[old].key = server[old].key
          /\ \A d \in Sockets : d # old => server'[d] = server[d]
      BY <2>0, <3>0, <3>1, EndCloses
    <3>3. /\ down' \in [Sockets -> Seq(Frames)]
          /\ \A d \in Sockets : d # old => down'[d] = down[d]
          /\ client[old] = "gone" => down'[old] = down[old]
          /\ \A g : Carries(down'[old], g) <=> Carries(down[old], g) \/ (client[old] # "gone" /\ g = f)
      <4>1. /\ down[old] \in Seq(Frames) /\ Append(down[old], f) \in Seq(Frames)
            /\ \A g : Carries(Append(down[old], f), g) <=> Carries(down[old], g) \/ g = f
        BY <2>0, <3>0, FrameSent
      <4>2. down' \in [Sockets -> Seq(Frames)] /\ \A d \in Sockets : d # old => down'[d] = down[d]
        BY <2>0, <3>0, <3>4, <4>1
      <4>3. down'[old] = IF client[old] = "gone" THEN down[old] ELSE Append(down[old], f)
        BY <2>0, <3>0, <3>4
      <4>4. \A g : Carries(down'[old], g) <=> Carries(down[old], g) \/ (~(client[old] = "gone") /\ g = f)
        BY <4>1, <4>3
      <4>. QED
        BY <4>2, <4>3, <4>4
    <3>. QED
      BY <2>2, <3>2, <3>3 DEF Sent
  <2>. QED
    BY <2>1, <2>2
<1>4. ASSUME NEW d \in Sockets PROVE Aside(d, k) /\ (d[1] = k => server'[d].state # "host")
  <2>1. CASE d = old
    <3>1. old # Nothing /\ old[1] = k /\ server[old].state = "host"
      BY <1>2, <2>1, Constants
    <3>2. \A j \in KeyIds : Sent(old, <<"offer", j>>)' <=> Sent(old, <<"offer", j>>)
      <4>1. \A g : Sent(old, g)' <=> Sent(old, g) \/ (client[old] # "gone" /\ g = <<"unauthorized">>)
        BY <1>3, <3>1
      <4>2. \A j \in KeyIds : <<"offer", j>> # <<"unauthorized">>
        BY FrameKinds
      <4>. QED
        BY <4>1, <4>2
    <3>3. /\ server'[old].state = "closed" /\ server'[old].offer = Nothing
          /\ server'[old].key = server[old].key
          /\ client[old] = "gone" => down'[old] = down[old]
      BY <1>3, <3>1
    <3>. QED
      BY <2>1, <3>1, <3>2, <3>3 DEF Aside
  <2>2. CASE d # old
    <3>1. d[1] = k => server[d].state # "host"
      BY <2>2 DEF HostFits
    <3>. QED
      BY <1>3, <2>2, <3>1 DEF Aside
  <2>. QED
    BY <2>1, <2>2
<1>5. \A j \in KeyIds : keys'.holder[j] # k
  <2>1. staged.holder = [i \in KeyIds |-> IF keys.holder[i] = k THEN Unheld ELSE keys.holder[i]]
    BY <1>0 DEF DraftFits, Typed, Draft
  <2>. QED
    BY <1>0, <2>1, Constants
<1>6. keys'.claimed = keys.claimed
  BY <1>0 DEF DraftFits, Typed, Draft
<1>a. hostSocket'[k] = Nothing /\ hostSocket' \in [Controllers -> {Nothing} \cup Sockets]
      /\ \A l \in Controllers : l # k => hostSocket'[l] = hostSocket[l]
  BY <1>0, <1>1 DEF Typed
<1>7. Enrolled(k)' => Enrolled(k)
  <2>1. \A d \in SocketsOf(k) : server'[d].key = server[d].key /\ (NoOffer(d)' <=> NoOffer(d))
    BY <1>0, <1>4, AsideStands, Constants
  <2>. QED
    BY <1>0, <1>1, <1>5, <1>a, <2>1 DEF Enrolled, SocketsOf
<1>8. RefusalFits(k)'
  <2>0. RefusalFits(k)
    BY <1>0
  <2>1. \A d \in SocketsOf(k) : Sent(d, <<"unauthorized">>)' => server'[d].state = "closed"
    <3>1. ASSUME NEW d \in SocketsOf(k), Sent(d, <<"unauthorized">>)' PROVE server'[d].state = "closed"
      <4>0. d \in Sockets /\ d # Nothing
        BY <1>0, Constants
      <4>1. CASE d = old
        BY <1>3, <4>0, <4>1
      <4>2. CASE d # old
        <5>1. server'[d] = server[d] /\ Sent(d, <<"unauthorized">>)
          BY <1>3, <3>1, <4>0, <4>2 DEF Sent
        <5>. QED
          BY <2>0, <5>1 DEF RefusalFits
      <4>. QED
        BY <4>1, <4>2
    <3>. QED
      BY <3>1
  <2>2. ASSUME Told(k)', NEW j \in KeyIds, Told(k) => ~MayRegister(k, j) /\ j < Upcoming PROVE ~MayRegister(k, j)'
    <3>1. CASE Told(k)
      BY <1>0, <1>1, <2>2, <3>1, KeysEvolved
    <3>2. CASE ~Told(k)
      <4>1. old # Nothing
        BY <1>1, <1>3, <2>2, <3>2, Constants DEF Told, Sent, SocketsOf
      <4>2. keys.claimed
        BY <1>0, <4>1 DEF Enrolled, EnrollmentFits
      <4>3. keys'.holder[j] = Nobody => j = Invitation
        BY <1>0, <1>1, KeysEvolved DEF KeysFit
      <4>. QED
        BY <1>5, <1>6, <4>2, <4>3 DEF MayRegister, Usable, Known
    <3>. QED
      BY <3>1, <3>2
  <2>3. ASSUME Told(k)' PROVE ~MayRegister(k, Presented(k))'
    <3>1. Presented(k) \in KeyIds /\ Presented(k) < Upcoming
      <4>1. Upcoming \in Int
        BY <1>0, <1>1, KeysEvolved
      <4>. QED
        BY <1>0, <4>1 DEF Presented, Typed, KeysKnown
    <3>2. PICK j \in KeyIds : j = Presented(k) /\ j < Upcoming
      BY <3>1
    <3>3. ~MayRegister(k, j)'
      BY <2>0, <2>2, <2>3, <3>2 DEF RefusalFits
    <3>4. j = Presented(k)'
      BY <1>1, <3>2 DEF Presented
    <3>. QED
      BY <3>3, <3>4 DEF MayRegister, Usable, Known
  <2>4. ASSUME Told(k)', NEW d \in SocketsOf(k), NEW j \in KeyIds, Sent(d, <<"offer", j>>)'
        PROVE  ~MayRegister(k, j)'
    <3>1. d \in Sockets /\ Sent(d, <<"offer", j>>)
      BY <1>0, <1>4, <2>4, AsideStands, Constants
    <3>2. Upcoming \in Int /\ j \in 1..Upcoming - 1
      BY <1>0, <1>1, <3>1, KeysEvolved DEF KeysKnown
    <3>. QED
      BY <2>0, <2>2, <2>4, <3>1, <3>2 DEF RefusalFits
  <2>. QED
    BY <2>1, <2>3, <2>4 DEF RefusalFits, SocketsOf
<1>9. ASSUME NEW p \in Commits, Carries(queue', p)
      PROVE  /\ Carries(queue, p) /\ (p.kind \in Kinds => p.conn # Nothing)
             /\ p.kind = "invite" => fresh = 1 /\ ~Carries(queue', CommitOf("register", p.conn))
  BY <1>0, <1>1, <1>9, Constants DEF Commits, CommitOf, Kinds
<1>10. ~keys.claimed => ~Enrolled(k)
  BY <1>0 DEF EnrollmentFits
<1>11. Nothing \notin Sockets
  BY Constants
<1>12. queue' \in Seq(Commits) /\ Distinct(queue')
  BY <1>0, <1>1
<1>13. \A p \in Commits : Carries(queue', p) =>
          /\ Carries(queue, p) /\ (p.kind \in Kinds => p.conn # Nothing)
          /\ p.kind = "invite" => fresh = 1 /\ ~Carries(queue', CommitOf("register", p.conn))
  BY <1>9
<1>14. Publishes(k, Nothing)
  BY <1>0, <1>1, <1>3, <1>4, <1>6, <1>7, <1>8, <1>10, <1>11, <1>12, <1>13, <1>a DEF Publishes
<1>. QED
  BY <1>0, <1>14, PublishKeeps

\* What connection d carries after frame f was sent on it.
LEMMA RowSent ==
  ASSUME Typed, NEW d \in Sockets, NEW f \in Frames,
         down'[d] = IF client[d] = "gone" THEN down[d] ELSE Append(down[d], f)
  PROVE  /\ \A g : Sent(d, g)' <=> Sent(d, g) \/ (client[d] # "gone" /\ g = f)
         /\ client[d] = "gone" => down'[d] = down[d]
         /\ OfferOnce(down[d]) /\ f[1] # "offer" => OfferOnce(down'[d])
         /\ NoOffer(d) /\ OfferOnce(down[d]) => OfferOnce(down'[d])
<1>1. /\ \A g : Carries(Append(down[d], f), g) <=> Carries(down[d], g) \/ g = f
      /\ OfferOnce(down[d]) /\ f[1] # "offer" => OfferOnce(Append(down[d], f))
      /\ (\A j \in KeyIds : ~Carries(down[d], <<"offer", j>>)) => OfferOnce(Append(down[d], f))
  BY FrameSent DEF Typed
<1>2. CASE client[d] = "gone"
  BY <1>2 DEF Sent
<1>3. CASE client[d] # "gone"
  <2>1. down'[d] = Append(down[d], f)
    BY <1>3
  <2>. QED
    BY <1>1, <1>3, <2>1 DEF Sent, NoOffer
<1>. QED
  BY <1>2, <1>3

\* A registration takes the place of the Host's connection.
LEMMA RegisterStored ==
  ASSUME CredentialIInv, Stored, NEW q \in Commits, q = Head(queue), q.kind = "register"
  PROVE  CredentialIInv'
<1>. USE DEF CredentialIInv
<1>. PICK c : c = q.conn
  OBVIOUS
<1>. PICK k : k = c[1]
  OBVIOUS
<1>0. /\ k \in Controllers /\ queue # <<>> /\ Typed /\ c \in Sockets /\ HostFits(c) /\ ClientFits(c)
      /\ DraftFits(q) /\ CommitFits(q) /\ Carries(queue, q) /\ Evolves(k, keys') /\ keys' = staged
      /\ Tail(queue) \in Seq(Commits) /\ Distinct(Tail(queue))
      /\ \A p : Carries(Tail(queue), p) <=> Carries(queue, p) /\ p # q
      /\ \A p \in Commits : Carries(queue, p) /\ p # q /\ p.kind = "invite" =>
            fresh = 1 /\ ~Carries(queue, CommitOf("register", p.conn))
  BY CommitDue DEF Kinds
<1>. PICK old : old = hostSocket[k]
  OBVIOUS
<1>. PICK key \in KeyIds : key = server[c].key
  BY <1>0 DEF Typed, End
<1>1. /\ server[c].state \in {"registering", "closed"} /\ server[c].offer = Nothing /\ Unopened(c)
      /\ server[c].state = "registering" => up[c] = <<>>
      /\ MayRegister(k, key) /\ staged = RegisterDraft(k, key)
      /\ Live(c) <=> server[c].state = "registering"
  <2>1. /\ server[c].state \in {"registering", "closed"} /\ Unopened(c)
        /\ server[c].state = "registering" => up[c] = <<>>
    BY <1>0 DEF CommitFits
  <2>2. server[c].offer = Nothing
    BY <1>0, <2>1 DEF HostFits
  <2>3. MayRegister(k, key) /\ staged = RegisterDraft(k, key)
    BY <1>0 DEF DraftFits
  <2>. QED
    BY <2>1, <2>2, <2>3 DEF Live
<1>2. old # c /\ (old # Nothing => old \in Sockets /\ old[1] = k /\ server[old].state = "host")
  <2>1. old # c
    BY <1>0, <1>1 DEF HostFits
  <2>2. old # Nothing => old \in Sockets /\ old[1] = k
    BY <1>0 DEF Typed, HostsOwn
  <2>. QED
    BY <2>1, <2>2 DEF HostFits
<1>3. /\ staged' = Nothing
      /\ UNCHANGED <<revoked, fresh, relayUp, client, up, file, saving, refused, recovered>>
      /\ hostSocket' = [hostSocket EXCEPT ![k] = IF Live(c) THEN c ELSE Nothing]
      /\ queue' = IF key = Invitation THEN Append(Tail(queue), CommitOf("invite", c)) ELSE Tail(queue)
  BY DEF Stored, PublishCommit, deviceVars
<1>. PICK ends : ends = IF old = Nothing THEN server ELSE Close(server, old)
  OBVIOUS
<1>. PICK told : told = IF old = Nothing THEN down ELSE Frame(down, old, <<"closed">>)
  OBVIOUS
<1>4. /\ server' = IF Live(c) THEN [ends EXCEPT ![c].state = "host"] ELSE ends
      /\ down' = IF Live(c) /\ key # Invitation THEN Frame(told, c, <<"registered">>) ELSE told
  BY <1>2 DEF Stored, PublishCommit
<1>5. /\ ends \in [Sockets -> End] /\ \A d \in Sockets : d # old => ends[d] = server[d]
      /\ old # Nothing =>
            ends[old].state = "closed" /\ ends[old].offer = Nothing /\ ends[old].key = server[old].key
  <2>1. server \in [Sockets -> End]
    BY <1>0 DEF Typed
  <2>2. CASE old = Nothing
    BY <2>1, <2>2
  <2>3. CASE old # Nothing
    <3>1. ends = Close(server, old) /\ old \in Sockets
      BY <1>2, <2>3
    <3>. QED
      <4>1. server[old] \in End /\ ends = [server EXCEPT ![old] = [server[old] EXCEPT !.state = "closed", !.offer = Nothing]]
        BY <2>1, <3>1 DEF Close
      <4>. PICK e \in End : e = server[old]
        BY <4>1
      <4>. PICK h : h = [e EXCEPT !.state = "closed", !.offer = Nothing]
        OBVIOUS
      <4>2. h \in End /\ h.state = "closed" /\ h.offer = Nothing /\ h.key = e.key
        BY DEF End
      <4>3. ends = [server EXCEPT ![old] = h]
        BY <4>1
      <4>4. old \in Sockets /\ h \in End
        BY <3>1, <4>2
      <4>5. ends = [d \in Sockets |-> IF d = old THEN h ELSE server[d]]
        BY <2>1, <4>3, <4>4
      <4>6. \A d \in Sockets : d # old => ends[d] = server[d]
        BY <4>5
      <4>7. ends[old] = h /\ ends \in [Sockets -> End]
        BY <2>1, <4>4, <4>5
      <4>. QED
        BY <4>2, <4>6, <4>7
  <2>. QED
    BY <2>2, <2>3
<1>6. /\ server' \in [Sockets -> End] /\ \A d \in Sockets : d # c => server'[d] = ends[d]
      /\ server'[c].key = key /\ server'[c].offer = Nothing
      /\ server'[c].state = IF Live(c) THEN "host" ELSE server[c].state
  <2>1. ends[c] = server[c] /\ ends[c] \in End
    BY <1>0, <1>2, <1>5
  <2>. PICK e \in End : e = ends[c]
    BY <2>1
  <2>. PICK h : h = [e EXCEPT !.state = "host"]
    OBVIOUS
  <2>4. h \in End /\ h.state = "host" /\ h.key = key /\ h.offer = server[c].offer
    <3>1. h \in End /\ h.state = "host" /\ h.key = e.key /\ h.offer = e.offer
      BY DEF End
    <3>. QED
      BY <2>1, <3>1
  <2>2. CASE Live(c)
    <3>1. server' = [ends EXCEPT ![c] = h]
      BY <1>4, <2>2
    <3>2. server' \in [Sockets -> End] /\ server'[c] = h /\ \A d \in Sockets : d # c => server'[d] = ends[d]
      BY <1>0, <1>5, <2>4, <3>1
    <3>. QED
      BY <1>1, <2>2, <2>4, <3>2
  <2>3. CASE ~Live(c)
    BY <1>1, <1>4, <1>5, <2>1, <2>3
  <2>. QED
    BY <2>2, <2>3
<1>. PICK f \in Frames : f = <<"closed">> /\ f[1] # "offer" /\ f # <<"unauthorized">> /\ \A j : <<"offer", j>> # f
  BY FrameKinds
<1>. PICK r \in Frames : r = <<"registered">> /\ r[1] # "offer" /\ r # <<"unauthorized">> /\ \A j : <<"offer", j>> # r
  BY FrameKinds
<1>7. /\ told \in [Sockets -> Seq(Frames)] /\ \A d \in Sockets : d # old => told[d] = down[d]
      /\ old # Nothing => told[old] = IF client[old] = "gone" THEN down[old] ELSE Append(down[old], f)
  <2>1. down \in [Sockets -> Seq(Frames)]
    BY <1>0 DEF Typed
  <2>2. CASE old = Nothing
    BY <2>1, <2>2
  <2>3. CASE old # Nothing
    <3>1. told = IF client[old] = "gone" THEN down ELSE [down EXCEPT ![old] = Append(down[old], f)]
      BY <2>3 DEF Frame
    <3>2. Append(down[old], f) \in Seq(Frames) /\ old \in Sockets
      BY <1>2, <2>1, <2>3, FrameSent
    <3>. QED
      BY <2>1, <2>3, <3>1, <3>2
  <2>. QED
    BY <2>2, <2>3
<1>8. /\ down' \in [Sockets -> Seq(Frames)] /\ \A d \in Sockets : d # c => down'[d] = told[d]
      /\ \/ down'[c] = down[c]
         \/ down'[c] = IF client[c] = "gone" THEN down[c] ELSE Append(down[c], r)
  <2>1. told[c] = down[c] /\ Append(told[c], r) \in Seq(Frames)
    BY <1>0, <1>2, <1>7, FrameSent
  <2>2. CASE Live(c) /\ key # Invitation
    <3>1. down' = IF client[c] = "gone" THEN told ELSE [told EXCEPT ![c] = Append(told[c], r)]
      BY <1>4, <2>2 DEF Frame
    <3>. QED
      BY <1>0, <1>7, <2>1, <3>1
  <2>3. CASE ~(Live(c) /\ key # Invitation)
    BY <1>4, <1>7, <2>1, <2>3
  <2>. QED
    BY <2>2, <2>3
<1>9. /\ client[c] = "gone" => down'[c] = down[c]
      /\ \A j \in KeyIds : Sent(c, <<"offer", j>>)' <=> Sent(c, <<"offer", j>>)
      /\ Sent(c, <<"unauthorized">>)' <=> Sent(c, <<"unauthorized">>)
      /\ OfferOnce(down[c]) => OfferOnce(down'[c])
  <2>1. CASE down'[c] = down[c]
    BY <2>1 DEF Sent
  <2>2. CASE down'[c] = IF client[c] = "gone" THEN down[c] ELSE Append(down[c], r)
    <3>1. /\ \A g : Sent(c, g)' <=> Sent(c, g) \/ (client[c] # "gone" /\ g = r)
          /\ client[c] = "gone" => down'[c] = down[c]
          /\ OfferOnce(down[c]) => OfferOnce(down'[c])
      BY <1>0, <2>2, RowSent
    <3>. QED
      BY <3>1
  <2>. QED
    BY <1>8, <2>1, <2>2
<1>10. ASSUME NEW d \in Sockets, d # c
       PROVE  /\ Aside(d, k) /\ (d[1] = k => server'[d].state # "host")
              /\ Sent(d, <<"unauthorized">>)' <=> Sent(d, <<"unauthorized">>)
  <2>1. CASE d = old
    <3>1. old # Nothing /\ old[1] = k /\ server[old].state = "host" /\ server'[old] = ends[old]
      BY <1>2, <1>6, <1>10, <2>1, Constants
    <3>2. down'[old] = IF client[old] = "gone" THEN down[old] ELSE Append(down[old], f)
      BY <1>7, <1>8, <1>10, <2>1, <3>1
    <3>3. /\ \A g : Sent(old, g)' <=> Sent(old, g) \/ (client[old] # "gone" /\ g = f)
          /\ client[old] = "gone" => down'[old] = down[old]
      <4>1. Typed /\ old \in Sockets
        BY <1>0, <2>1
      <4>. QED
        BY <3>2, <4>1, RowSent
    <3>4. /\ server'[d].state = "closed" /\ server'[d].offer = Nothing /\ server'[d].key = server[d].key
          /\ client[d] = "gone" => down'[d] = down[d]
      <4>1. ends[old].state = "closed" /\ ends[old].offer = Nothing /\ ends[old].key = server[old].key
        BY <1>5, <3>1
      <4>. QED
        BY <2>1, <3>1, <3>3, <4>1
    <3>5. /\ \A j \in KeyIds : Sent(d, <<"offer", j>>)' <=> Sent(d, <<"offer", j>>)
          /\ Sent(d, <<"unauthorized">>)' <=> Sent(d, <<"unauthorized">>)
      BY <2>1, <3>3
    <3>. QED
      BY <2>1, <3>1, <3>4, <3>5 DEF Aside
  <2>2. CASE d # old
    <3>1. server'[d] = server[d] /\ down'[d] = down[d]
      <4>1. server'[d] = server[d]
        <5>1. server'[d] = ends[d]
          BY <1>6, <1>10
        <5>2. ends[d] = server[d]
          BY <1>5, <2>2
        <5>. QED
          BY <5>1, <5>2
      <4>2. down'[d] = down[d]
        BY <1>7, <1>8, <1>10, <2>2
      <4>. QED
        BY <4>1, <4>2
    <3>2. d[1] = k => server[d].state # "host"
      BY <2>2 DEF HostFits
    <3>. QED
      BY <3>1, <3>2 DEF Aside, Sent
  <2>. QED
    BY <2>1, <2>2
<1>11. /\ hostSocket' \in [Controllers -> {Nothing} \cup Sockets] /\ hostSocket'[k] \in {Nothing, c}
       /\ hostSocket'[k] = c <=> Live(c)
       /\ \A l \in Controllers : l # k => hostSocket'[l] = hostSocket[l]
  BY <1>0, <1>3, Constants DEF Typed
<1>12. /\ keys'.claimed = (keys.claimed \/ key = Invitation)
       /\ keys'.holder[key] = k
       /\ k \notin recovered => \A j \in KeyIds : keys'.holder[j] = k => j = key
  <2>0. keys' = RegisterDraft(k, key) /\ keys.holder \in [KeyIds -> Controllers \cup {Nobody, Unheld}]
    BY <1>0, <1>1 DEF Typed, Draft
  <2>1. keys'.claimed = (keys.claimed \/ key = Invitation)
    BY <2>0 DEF RegisterDraft
  <2>2. CASE key # Invitation /\ k \in recovered
    <3>1. keys'.holder = keys.holder
      BY <2>0, <2>2 DEF RegisterDraft
    <3>2. keys.holder[key] \in {Nobody, k} /\ keys.holder[key] # Nobody
      BY <1>1, <2>2 DEF MayRegister, KeysFit
    <3>. QED
      BY <2>1, <2>2, <3>1, <3>2
  <2>3. CASE ~(key # Invitation /\ k \in recovered)
    <3>1. keys'.holder = OnlyKey(keys.holder, k, key)
      BY <2>0, <2>3 DEF RegisterDraft
    <3>. QED
      BY <1>0, <2>1, <3>1, Constants DEF OnlyKey
  <2>. QED
    BY <2>2, <2>3
<1>13. HostFits(c)'
  <2>1. c[1] = k /\ file' = file /\ saving' = saving /\ client' = client /\ up' = up /\ recovered' = recovered
    BY <1>3
  <2>2. CASE Live(c)
    <3>1. server'[c].state = "host" /\ hostSocket'[k] = c /\ up[c] = <<>>
      BY <1>1, <1>6, <1>11, <2>2
    <3>2. NoOffer(c) /\ OfferOnce(down[c])
      <4>1. CASE client[c] = "gone"
        <5>1. down[c] = <<>>
          BY <1>0, <4>1 DEF ClientFits
        <5>. QED
          BY <5>1, NoFrames DEF NoOffer, Sent
      <4>2. CASE client[c] # "gone"
        <5>1. NoOffer(c) /\ down[c] \in Seq(Frames)
          BY <1>0, <1>1, <4>2 DEF Unopened, Typed
        <5>2. \A i \in DOMAIN down[c] : down[c][i] \in Frames /\ Carries(down[c], down[c][i])
          BY <5>1 DEF Carries
        <5>3. \A i \in DOMAIN down[c] : down[c][i][1] # "offer"
          BY <5>1, <5>2, FrameKinds DEF NoOffer, Sent
        <5>. QED
          BY <5>1, <5>3 DEF OfferOnce
      <4>. QED
        BY <4>1, <4>2
    <3>3. \A j \in KeyIds : ~Sent(c, <<"offer", j>>)'
      BY <1>9, <3>2 DEF NoOffer
    <3>4. client[c] # "gone" => saving[k] = Nothing
      BY <1>1 DEF Unopened
    <3>. QED
      <4>1. server'[c].key = key /\ server'[c].offer = Nothing /\ OfferOnce(down'[c])
        BY <1>6, <1>9, <3>2
      <4>2. keys'.holder[key] = k /\ (k \notin recovered => \A j \in KeyIds : keys'.holder[j] = k => j = key)
        BY <1>12
      <4>. QED
        BY <2>1, <3>1, <3>3, <3>4, <4>1, <4>2 DEF HostFits
  <2>3. CASE ~Live(c)
    <3>1. server'[c].state = "closed" /\ hostSocket'[k] = Nothing
      BY <1>1, <1>6, <1>11, <2>3
    <3>. QED
      <4>1. hostSocket'[c[1]] # c /\ server'[c].offer = Nothing
        BY <1>0, <1>6, <2>1, <3>1, Constants
      <4>. QED
        BY <3>1, <4>1 DEF HostFits
  <2>. QED
    BY <2>2, <2>3
<1>14. Served(c)
  <2>1. key < Upcoming /\ Upcoming \in Int /\ Upcoming <= fresh /\ fresh \in Nat
    BY <1>0, <1>3, KeysEvolved DEF KeysKnown
  <2>2. key < fresh
    BY <2>1, Constants
  <2>. QED
    BY <1>1, <1>6, <1>9, <2>2 DEF Served
<1>15. key = Invitation => fresh = 1 /\ ~keys.claimed /\ keys'.claimed /\ Upcoming' = 1
  <2>1. key = Invitation => ~keys.claimed
    BY <1>1 DEF MayRegister, Usable
  <2>. QED
    BY <1>0, <1>3, <1>12, <2>1, KeysEvolved DEF KeysFit
<1>b. CommitOf("invite", c) \in Commits /\ CommitOf("invite", c).kind = "invite" /\ CommitOf("invite", c).conn = c
  BY <1>0 DEF Commits, CommitOf, Kinds
<1>. PICK x \in Commits : x = CommitOf("invite", c) /\ x.kind = "invite" /\ x.conn = c
  BY <1>b
<1>16. /\ queue' \in Seq(Commits) /\ Distinct(queue')
       /\ \A p : Carries(queue', p) => (Carries(queue, p) /\ p # q) \/ (p = x /\ key = Invitation)
  <2>1. CASE key # Invitation
    BY <1>0, <1>3, <2>1
  <2>2. CASE key = Invitation
    <3>1. \A p \in Commits : Carries(Tail(queue), p) => p.kind # "invite"
      BY <1>0, <1>15, <2>2 DEF QueueFits, CommitFits
    <3>2. ~Carries(Tail(queue), x)
      BY <3>1
    <3>3. queue' = Append(Tail(queue), x)
      BY <1>3, <2>2
    <3>. PICK w \in Seq(Commits) : w = Tail(queue) /\ Distinct(w)
      BY <1>0
    <3>5. /\ ~Carries(w, x) /\ queue' = Append(w, x)
          /\ \A p \in Commits : Carries(w, p) => p.kind # "invite"
      BY <3>1, <3>2, <3>3
    <3>4. /\ queue' \in Seq(Commits) /\ Distinct(queue')
          /\ \A p : Carries(queue', p) <=> Carries(w, p) \/ p = x
      BY <3>5, CommitAdded
    <3>. QED
      BY <1>0, <2>2, <3>4
  <2>. QED
    BY <2>1, <2>2
<1>17. q = CommitOf("register", c)
  BY <1>0 DEF Commits, CommitOf, Kinds
<1>18. key = Invitation => CommitFits(x)'
  <2>1. ~Carries(queue', q)
    <3>1. x # q
      OBVIOUS
    <3>. QED
      BY <1>16, <3>1
  <2>2. server'[c].state \in {"host", "closed"}
    BY <1>1, <1>6
  <2>. QED
    BY <1>6, <1>15, <1>17, <2>1, <2>2 DEF CommitFits
<1>19. ASSUME NEW p \in Commits, Carries(queue', p)
       PROVE  \/ CommitFits(p)'
              \/ /\ Carries(queue, p) /\ (p.kind \in Kinds => p.conn # c)
                 /\ p.kind = "invite" => fresh = 1 /\ ~Carries(queue', CommitOf("register", p.conn))
  <2>1. CASE p = x /\ key = Invitation
    BY <1>18, <2>1 DEF CommitFits
  <2>2. CASE Carries(queue, p) /\ p # q
    <3>1. CommitFits(p)
      BY <2>2 DEF QueueFits
    <3>2. CASE p.kind \in Kinds /\ p.conn = c
      <4>1. p.kind # "register"
        BY <1>17, <2>2, <3>2 DEF Commits, CommitOf, Kinds
      <4>2. p.kind # "invite"
        BY <1>0, <1>17, <2>2, <3>2
      <4>3. server[c].state = "closed" /\ ~Live(c)
        BY <1>1, <3>1, <3>2, <4>1, <4>2 DEF CommitFits, Kinds
      <4>4. server'[c] = server[c]
        <5>1. server' = ends
          BY <1>4, <4>3
        <5>. QED
          BY <1>0, <1>2, <1>5, <5>1
      <4>. QED
        BY <1>3, <3>1, <3>2, <4>1, <4>2, <4>3, <4>4 DEF CommitFits, Kinds
    <3>3. p.kind = "invite" => fresh = 1 /\ ~Carries(queue', CommitOf("register", p.conn))
      <4>1. x # CommitOf("register", p.conn)
        BY DEF CommitOf
      <4>. QED
        BY <1>0, <1>16, <2>2, <4>1
    <3>. QED
      BY <2>2, <3>2, <3>3
  <2>. QED
    BY <1>16, <1>19, <2>1, <2>2
<1>20. /\ keys.claimed => Enrolled(k)
       /\ ~keys.claimed /\ ~keys'.claimed => ~Enrolled(k)'
  <2>1. key # Invitation => Enrolled(k)
    BY <1>0, Constants DEF Enrolled
  <2>2. keys.claimed => key # Invitation
    BY <1>1 DEF MayRegister, Usable
  <2>3. ~keys.claimed /\ ~keys'.claimed => FALSE
    BY <1>0, <1>12, <2>1 DEF EnrollmentFits
  <2>. QED
    BY <2>1, <2>2, <2>3
<1>21. ASSUME ~keys.claimed, keys'.claimed, NEW j \in KeyIds, NEW l \in Controllers, keys.holder[j] = l
       PROVE  l = k
  <2>1. key = Invitation /\ keys.holder[key] \in {Nobody, k}
    BY <1>1, <1>12, <1>21 DEF MayRegister
  <2>2. Upcoming = 1
    BY <1>0, <1>15, <2>1 DEF Upcoming, Issuing
  <2>3. j < 1
    BY <1>21, <2>2, Constants DEF KeysFit
  <2>4. \A i \in KeyIds : i < 1 => i = Invitation
    BY Constants
  <2>. QED
    BY <1>21, <2>1, <2>3, <2>4, Constants
<1>22. RefusalFits(k)'
  <2>1. ASSUME NEW d \in SocketsOf(k)
        PROVE  /\ server[d].state = "closed" => server'[d].state = "closed"
               /\ Sent(d, <<"unauthorized">>)' => Sent(d, <<"unauthorized">>)
               /\ \A j \in KeyIds : Sent(d, <<"offer", j>>)' => Sent(d, <<"offer", j>>)
    <3>0. d \in Sockets
      BY <1>0, Constants
    <3>1. CASE d = c
      BY <1>1, <1>6, <1>9, <3>1
    <3>2. CASE d # c
      BY <1>10, <3>0, <3>2, AsideStands
    <3>. QED
      BY <3>1, <3>2
  <2>2. UNCHANGED <<fresh, client, file, saving, refused>>
    BY <1>3
  <2>. QED
    BY <1>0, <1>3, <2>1, <2>2, RefusalStands
<1>23. \A p \in Commits : Carries(queue', p) /\ p.conn[1] # k => Carries(queue, p)
  BY <1>16
<1>24. \A d \in Sockets : d # c => Aside(d, k) /\ (d[1] = k => server'[d].state # "host")
  BY <1>10
<1>25. \A p \in Commits : Carries(queue', p) =>
          \/ CommitFits(p)'
          \/ /\ Carries(queue, p) /\ (p.kind \in Kinds => p.conn # c)
             /\ p.kind = "invite" => fresh = 1 /\ ~Carries(queue', CommitOf("register", p.conn))
  BY <1>19
<1>26. ~keys.claimed /\ keys'.claimed => \A j \in KeyIds, l \in Controllers : keys.holder[j] = l => l = k
  BY <1>21
<1>27. Publishes(k, c)
  BY <1>0, <1>3, <1>6, <1>8, <1>11, <1>13, <1>14, <1>16, <1>20, <1>22, <1>23, <1>24, <1>25, <1>26 DEF Publishes
<1>. QED
  BY <1>0, <1>27, PublishKeeps

\* A commit of an enrolled installation changes its own connection only.
LEMMA OwnEndKeeps ==
  ASSUME CredentialIInv, Stored, NEW q \in Commits, q = Head(queue),
         q.kind \in {"invite", "rotate", "saved"},
         NEW c \in Sockets, c = q.conn, NEW k, k = c[1],
         server' \in [Sockets -> End], down' \in [Sockets -> Seq(Frames)],
         \A d \in Sockets : d # c => server'[d] = server[d] /\ down'[d] = down[d],
         server'[c].state = server[c].state, Served(c), HostFits(c)',
         \A p \in Commits :
            Carries(queue, p) /\ p # q /\ p.kind \in Kinds /\ p.conn = c => CommitFits(p)',
         Sent(c, <<"unauthorized">>)' => Sent(c, <<"unauthorized">>),
         \A j \in KeyIds : Sent(c, <<"offer", j>>)' =>
            Sent(c, <<"offer", j>>) \/ (client[c] # "gone" /\ server[c].state # "closed")
  PROVE  CredentialIInv'
<1>. USE DEF CredentialIInv
<1>0. /\ k \in Controllers /\ queue # <<>> /\ Typed /\ DraftFits(q) /\ Carries(queue, q)
      /\ Evolves(k, keys')
      /\ Tail(queue) \in Seq(Commits) /\ Distinct(Tail(queue))
      /\ \A p : Carries(Tail(queue), p) <=> Carries(queue, p) /\ p # q
      /\ \A p \in Commits : Carries(queue, p) /\ p # q /\ p.kind = "invite" =>
            fresh = 1 /\ ~Carries(queue, CommitOf("register", p.conn))
  BY CommitDue DEF Kinds
<1>1. /\ staged' = Nothing /\ queue' = Tail(queue) /\ hostSocket' = hostSocket
      /\ UNCHANGED <<revoked, fresh, relayUp, client, up, file, saving, refused, recovered>>
  BY DEF Stored, PublishCommit, deviceVars
<1>2. hostSocket[k] \in {Nothing, c}
  BY <1>0 DEF DraftFits
<1>3. Enrolled(k) /\ keys.claimed
  <2>1. Enrolled(k)
    BY <1>0 DEF Enrolled
  <2>. QED
    BY <1>0, <2>1 DEF EnrollmentFits
<1>4. \A d \in Sockets : d # c => Aside(d, k) /\ (d[1] = k => server'[d].state # "host")
  <2>1. ASSUME NEW d \in Sockets, d # c PROVE Aside(d, k) /\ (d[1] = k => server'[d].state # "host")
    <3>1. HostFits(d) /\ server'[d] = server[d]
      BY <2>1
    <3>2. d[1] = k => hostSocket[d[1]] # d
      BY <1>2, <2>1, Constants
    <3>. QED
      BY <2>1, <3>1, <3>2 DEF Aside, HostFits
  <2>. QED
    BY <2>1
<1>5. RefusalFits(k)'
  <2>1. ASSUME NEW d \in SocketsOf(k)
        PROVE  /\ server[d].state = "closed" => server'[d].state = "closed"
               /\ Sent(d, <<"unauthorized">>)' => Sent(d, <<"unauthorized">>)
               /\ \A j \in KeyIds : Sent(d, <<"offer", j>>)' =>
                     Sent(d, <<"offer", j>>) \/ (client[d] # "gone" /\ server[d].state # "closed")
    <3>1. CASE d = c
      BY <3>1
    <3>2. CASE d # c
      <4>1. d \in Sockets
        BY <1>0, Constants
      <4>. QED
        BY <3>2, <4>1 DEF Sent
    <3>. QED
      BY <3>1, <3>2
  <2>2. UNCHANGED <<fresh, client, file, saving, refused>>
    BY <1>1
  <2>. QED
    BY <1>0, <1>1, <2>1, <2>2, RefusalStands
<1>6. \A p \in Commits : Carries(queue', p) =>
         \/ CommitFits(p)'
         \/ /\ Carries(queue, p) /\ (p.kind \in Kinds => p.conn # c)
            /\ p.kind = "invite" => fresh = 1 /\ ~Carries(queue', CommitOf("register", p.conn))
  BY <1>0, <1>1
<1>7. \A p \in Commits : Carries(queue', p) => Carries(queue, p)
  BY <1>0, <1>1
<1>8. hostSocket \in [Controllers -> {Nothing} \cup Sockets]
  BY <1>0 DEF Typed
<1>9. queue' \in Seq(Commits) /\ Distinct(queue')
  BY <1>0, <1>1
<1>10. Publishes(k, c)
  BY <1>0, <1>1, <1>2, <1>3, <1>4, <1>5, <1>6, <1>7, <1>8, <1>9 DEF Publishes
<1>. QED
  BY <1>0, <1>10, PublishKeeps

\* The next credential is offered.
LEMMA IssueStored ==
  ASSUME CredentialIInv, Stored, NEW q \in Commits, q = Head(queue), q.kind \in {"invite", "rotate"}
  PROVE  CredentialIInv'
<1>. USE DEF CredentialIInv
<1>. PICK c : c = q.conn
  OBVIOUS
<1>. PICK k : k = c[1]
  OBVIOUS
<1>0. /\ k \in Controllers /\ queue # <<>> /\ Typed /\ c \in Sockets /\ HostFits(c) /\ ClientFits(c)
      /\ DraftFits(q) /\ CommitFits(q) /\ Carries(queue, q) /\ keys' = staged /\ staged # Nothing
      /\ \A p : Carries(Tail(queue), p) <=> Carries(queue, p) /\ p # q
  BY CommitDue DEF Kinds
<1>. PICK key \in KeyIds : key = server[c].key
  BY <1>0 DEF Typed, End
<1>1. /\ server[c].state \in {"host", "closed"} /\ server[c].offer = Nothing
      /\ q.kind = "invite" => key = Invitation /\ ~Carries(queue, CommitOf("register", c))
      /\ q.kind = "rotate" => key # Invitation
      /\ Live(c) <=> server[c].state = "host"
      /\ server[c].state = "host" <=> hostSocket[k] = c
  <2>1. /\ server[c].state \in {"host", "closed"}
        /\ q.kind = "invite" => key = Invitation /\ ~Carries(queue, CommitOf("register", c))
        /\ q.kind = "rotate" => key # Invitation /\ server[c].offer = Nothing
    BY <1>0 DEF CommitFits
  <2>2. q.kind = "invite" => server[c].offer = Nothing
    BY <1>0, <2>1 DEF HostFits
  <2>3. server[c].state = "host" <=> hostSocket[k] = c
    BY <1>0 DEF HostFits
  <2>. QED
    BY <2>1, <2>2, <2>3 DEF Live
<1>a. fresh - 1 \in KeyIds
  <2>1. fresh \in 1..MaxKeys + 1 /\ MaxKeys \in Nat
    BY <1>0, Constants DEF Typed
  <2>. QED
    BY <2>1 DEF KeyIds
<1>. PICK new \in KeyIds : new = fresh - 1
  BY <1>a
<1>2. Upcoming = new /\ key < new /\ new # Invitation /\ new # key
  <2>1. Upcoming = new
    BY <1>0 DEF Upcoming, Issuing
  <2>2. key < new
    BY <1>0, <2>1 DEF KeysKnown
  <2>3. \A i, j \in KeyIds : i < j => j # Invitation /\ j # i
    BY Constants
  <2>. QED
    BY <2>1, <2>2, <2>3
<1>3. /\ staged' = Nothing /\ queue' = Tail(queue) /\ hostSocket' = hostSocket
      /\ UNCHANGED <<revoked, fresh, relayUp, client, up, file, saving, refused, recovered>>
  BY DEF Stored, PublishCommit, deviceVars
<1>4. /\ server' = [server EXCEPT ![c].offer = IF Live(c) THEN new ELSE Nothing,
                                  ![c].key = IF q.kind = "invite" THEN new ELSE @]
      /\ down' = IF Live(c) THEN Frame(down, c, <<"offer", new>>) ELSE down
  BY <1>1 DEF Stored, PublishCommit
<1>5. /\ server' \in [Sockets -> End] /\ \A d \in Sockets : d # c => server'[d] = server[d]
      /\ server'[c].state = server[c].state
      /\ server'[c].offer = IF Live(c) THEN new ELSE Nothing
      /\ server'[c].key = IF q.kind = "invite" THEN new ELSE key
  <2>. PICK e \in End : e = server[c]
    BY <1>0 DEF Typed
  <2>. PICK o \in {Nothing} \cup KeyIds : o = IF Live(c) THEN new ELSE Nothing
    OBVIOUS
  <2>. PICK n \in KeyIds : n = IF q.kind = "invite" THEN new ELSE key
    OBVIOUS
  <2>. PICK h : h = [e EXCEPT !.offer = o, !.key = n]
    OBVIOUS
  <2>1. h \in End /\ h.state = e.state /\ h.offer = o /\ h.key = n
    BY DEF End
  <2>2. server' = [server EXCEPT ![c] = h]
    BY <1>0, <1>4 DEF Typed
  <2>. QED
    BY <1>0, <2>1, <2>2 DEF Typed
<1>. PICK f \in Frames : f = <<"offer", new>> /\ f # <<"unauthorized">> /\ \A j : <<"offer", j>> = f => j = new
  BY FrameKinds
<1>6. /\ down' \in [Sockets -> Seq(Frames)] /\ \A d \in Sockets : d # c => down'[d] = down[d]
      /\ Live(c) => down'[c] = IF client[c] = "gone" THEN down[c] ELSE Append(down[c], f)
      /\ ~Live(c) => down' = down
  <2>1. Append(down[c], f) \in Seq(Frames) /\ down \in [Sockets -> Seq(Frames)]
    BY <1>0, FrameSent DEF Typed
  <2>2. CASE Live(c)
    <3>1. down' = IF client[c] = "gone" THEN down ELSE [down EXCEPT ![c] = Append(down[c], f)]
      BY <1>4, <2>2 DEF Frame
    <3>. QED
      BY <1>0, <2>1, <2>2, <3>1
  <2>3. CASE ~Live(c)
    BY <1>4, <2>1, <2>3
  <2>. QED
    BY <2>2, <2>3
<1>7. /\ client[c] = "gone" => down'[c] = down[c]
      /\ \A j \in KeyIds : Sent(c, <<"offer", j>>)' =>
            Sent(c, <<"offer", j>>) \/ (j = new /\ client[c] # "gone" /\ server[c].state # "closed")
      /\ Sent(c, <<"unauthorized">>)' => Sent(c, <<"unauthorized">>)
      /\ Live(c) /\ NoOffer(c) /\ OfferOnce(down[c]) => OfferOnce(down'[c])
  <2>1. CASE ~Live(c)
    BY <1>6, <2>1 DEF Sent
  <2>2. CASE Live(c)
    <3>1. /\ \A g : Sent(c, g)' <=> Sent(c, g) \/ (client[c] # "gone" /\ g = f)
          /\ client[c] = "gone" => down'[c] = down[c]
          /\ NoOffer(c) /\ OfferOnce(down[c]) => OfferOnce(down'[c])
      BY <1>0, <1>6, <2>2, RowSent
    <3>. QED
      BY <1>1, <2>2, <3>1
  <2>. QED
    BY <2>1, <2>2
<1>8. /\ keys'.holder[new] = k
      /\ q.kind = "invite" => keys'.holder[Invitation] = Unheld
      /\ \A j \in KeyIds : j # new => keys'.holder[j] \in {keys.holder[j], Unheld}
      /\ \A j \in KeyIds : j # new /\ (q.kind = "invite" => j # Invitation) => keys'.holder[j] = keys.holder[j]
  <2>0. keys.holder \in [KeyIds -> Controllers \cup {Nobody, Unheld}] /\ Invitation \in KeyIds
    BY <1>0, Constants DEF Typed, Draft
  <2>1. CASE q.kind = "invite"
    <3>1. staged = [keys EXCEPT !.holder = [i \in KeyIds |->
                      IF i = fresh - 1 THEN k ELSE IF i = Invitation THEN Unheld ELSE keys.holder[i]]]
      BY <1>0, <2>1 DEF DraftFits
    <3>2. staged.holder = [i \in KeyIds |->
                      IF i = fresh - 1 THEN k ELSE IF i = Invitation THEN Unheld ELSE keys.holder[i]]
      BY <1>0, <3>1 DEF Typed, Draft
    <3>. PICK g : g = staged.holder
      OBVIOUS
    <3>3. \A i \in KeyIds : g[i] = IF i = new THEN k ELSE IF i = Invitation THEN Unheld ELSE keys.holder[i]
      BY <3>2
    <3>4. \A i \in KeyIds : keys'.holder[i] = g[i]
      BY <1>0
    <3>5. g[new] = k /\ g[Invitation] = Unheld
      BY <1>2, <2>0, <3>3
    <3>6. \A j \in KeyIds : j # new => g[j] \in {keys.holder[j], Unheld}
      BY <3>3
    <3>7. \A j \in KeyIds : j # new /\ j # Invitation => g[j] = keys.holder[j]
      BY <3>3
    <3>. QED
      BY <2>0, <2>1, <3>4, <3>5, <3>6, <3>7
  <2>2. CASE q.kind = "rotate"
    <3>1. staged = [keys EXCEPT !.holder = [i \in KeyIds |-> IF i = fresh - 1 THEN k ELSE keys.holder[i]]]
      BY <1>0, <2>2 DEF DraftFits
    <3>2. staged.holder = [i \in KeyIds |-> IF i = fresh - 1 THEN k ELSE keys.holder[i]]
      BY <1>0, <3>1 DEF Typed, Draft
    <3>3. \A i \in KeyIds : keys'.holder[i] = IF i = new THEN k ELSE keys.holder[i]
      BY <1>0, <3>2
    <3>. QED
      BY <2>2, <3>3
  <2>. QED
    BY <2>1, <2>2
<1>9. HostFits(c)'
  <2>1. c[1] = k /\ file' = file /\ saving' = saving /\ client' = client /\ up' = up /\ recovered' = recovered
    BY <1>3
  <2>2. CASE Live(c)
    <3>1. /\ keys.holder[key] = k /\ (k \notin recovered => \A j \in KeyIds : keys.holder[j] = k => j = key)
          /\ up[c] = <<>> /\ ~(saving[k] # Nothing /\ client[c] # "gone") /\ NoOffer(c) /\ OfferOnce(down[c])
      <4>1. keys.holder[key] = k /\ (k \notin recovered => \A j \in KeyIds : keys.holder[j] = k => j = key) /\ OfferOnce(down[c])
        BY <1>0, <1>1, <2>2, Constants DEF HostFits
      <4>2. up[c] = <<>>
        BY <1>0, <1>1, <2>2 DEF HostFits, Saved
      <4>3. saving[k] # Nothing => saving[k].key # Nothing
        BY <1>0, Constants DEF Typed
      <4>4. ~(saving[k] # Nothing /\ client[c] # "gone")
        BY <1>0, <1>1, <2>2, <4>3 DEF HostFits
      <4>5. NoOffer(c)
        BY <1>0, <1>1, <2>2, Constants DEF HostFits, NoOffer
      <4>. QED
        BY <4>1, <4>2, <4>4, <4>5
    <3>2. server'[c].state = "host" /\ hostSocket'[k] = c /\ server'[c].offer = new
      BY <1>1, <1>3, <1>5, <2>2
    <3>3. server'[c].key # Invitation /\ keys'.holder[server'[c].key] = k
      BY <1>1, <1>2, <1>5, <1>8, <3>1
    <3>4. k \notin recovered => \A j \in KeyIds : keys'.holder[j] = k => j = server'[c].key \/ j = new
      <4>1. CASE q.kind = "invite"
        <5>1. k # Unheld
          BY <1>0, Constants
        <5>2. \A j \in KeyIds : j # new /\ j # Invitation => keys'.holder[j] = keys.holder[j]
          BY <1>8
        <5>3. keys'.holder[Invitation] # k /\ key = Invitation
          BY <1>1, <1>8, <4>1, <5>1
        <5>. QED
          BY <3>1, <5>2, <5>3
      <4>2. CASE q.kind = "rotate"
        <5>1. \A j \in KeyIds : j # new => keys'.holder[j] = keys.holder[j]
          BY <1>8, <4>2
        <5>2. server'[c].key = key
          BY <1>5, <4>2
        <5>. QED
          BY <3>1, <5>1, <5>2
      <4>. QED
        BY <4>1, <4>2
    <3>5. \A j \in KeyIds : Sent(c, <<"offer", j>>)' => j = new
      BY <1>7, <3>1 DEF NoOffer
    <3>6. new # Nothing /\ OfferOnce(down'[c])
      BY <1>7, <2>2, <3>1, Constants
    <3>. QED
      <4>1. keys'.holder[new] = k /\ new # Invitation
        BY <1>2, <1>8
      <4>2. up[c] = <<>> /\ ~(saving[k] # Nothing /\ client[c] # "gone")
        BY <3>1
      <4>. QED
        BY <2>1, <3>2, <3>3, <3>4, <3>5, <3>6, <4>1, <4>2 DEF HostFits
  <2>3. CASE ~Live(c)
    <3>1. server'[c].state = "closed" /\ hostSocket'[k] # c /\ server'[c].offer = Nothing
      BY <1>1, <1>3, <1>5, <2>3
    <3>. QED
      BY <2>1, <3>1 DEF HostFits
  <2>. QED
    BY <2>2, <2>3
<1>10. Served(c)
  <2>1. fresh \in Nat /\ \A j \in KeyIds : j <= new => j < fresh
    BY <1>0, Constants DEF Typed
  <2>2. new < fresh /\ key < fresh /\ new \in 1..fresh - 1
    BY <1>2, <2>1, Constants
  <2>. QED
    BY <1>1, <1>5, <1>7, <2>2 DEF Served
<1>11. ASSUME NEW p \in Commits, Carries(queue, p), p # q, p.kind \in Kinds, p.conn = c
       PROVE  CommitFits(p)'
  <2>1. CommitFits(p)
    BY <1>11 DEF QueueFits
  <2>2. p = CommitOf(p.kind, c) /\ q = CommitOf(q.kind, c)
    BY <1>0, <1>11 DEF Commits, CommitOf, Kinds
  <2>3. CASE p.kind = "register"
    <3>1. q.kind = "rotate" /\ server[c].state = "closed"
      BY <1>1, <1>11, <2>1, <2>2, <2>3 DEF CommitFits
    <3>2. server'[c].key = key /\ down' = down
      BY <1>1, <1>5, <1>6, <3>1
    <3>. QED
      BY <1>3, <1>5, <1>11, <2>1, <2>3, <3>1, <3>2 DEF CommitFits, Unopened, NoOffer, Sent
  <2>4. CASE p.kind \in {"invite", "rotate"}
    <3>1. p.kind # q.kind
      BY <1>11, <2>2
    <3>. QED
      BY <1>1, <1>11, <2>1, <2>4, <3>1 DEF CommitFits
  <2>5. CASE p.kind = "saved"
    <3>1. server[c].state = "closed"
      BY <1>1, <1>11, <2>1, <2>5 DEF CommitFits, Saved
    <3>. QED
      BY <1>5, <1>11, <2>5, <3>1 DEF CommitFits
  <2>. QED
    BY <1>11, <2>3, <2>4, <2>5 DEF Kinds
<1>12. \A p \in Commits :
          Carries(queue, p) /\ p # q /\ p.kind \in Kinds /\ p.conn = c => CommitFits(p)'
  BY <1>11
<1>13. server'[c].state = server[c].state
  BY <1>5
<1>14. /\ Sent(c, <<"unauthorized">>)' => Sent(c, <<"unauthorized">>)
       /\ \A j \in KeyIds : Sent(c, <<"offer", j>>)' =>
             Sent(c, <<"offer", j>>) \/ (client[c] # "gone" /\ server[c].state # "closed")
  BY <1>7
<1>15. \A d \in Sockets : d # c => server'[d] = server[d] /\ down'[d] = down[d]
  BY <1>5, <1>6
<1>. QED
  BY <1>0, <1>5, <1>6, <1>9, <1>10, <1>12, <1>13, <1>14, <1>15, OwnEndKeeps

\* The saved credential is the only one that is left.
LEMMA SavedStored ==
  ASSUME CredentialIInv, Stored, NEW q \in Commits, q = Head(queue), q.kind = "saved"
  PROVE  CredentialIInv'
<1>. USE DEF CredentialIInv
<1>. PICK c : c = q.conn
  OBVIOUS
<1>. PICK k : k = c[1]
  OBVIOUS
<1>0. /\ k \in Controllers /\ queue # <<>> /\ Typed /\ c \in Sockets /\ HostFits(c) /\ ClientFits(c)
      /\ DraftFits(q) /\ CommitFits(q) /\ Carries(queue, q) /\ keys' = staged /\ staged # Nothing
      /\ \A p : Carries(Tail(queue), p) <=> Carries(queue, p) /\ p # q
      /\ \A p \in Commits : Carries(queue, p) /\ p # q /\ p.kind = "invite" =>
            fresh = 1 /\ ~Carries(queue, CommitOf("register", p.conn))
  BY CommitDue DEF Kinds
<1>. PICK j \in KeyIds \ {Invitation} :
        /\ hostSocket[k] \in {Nothing, c} /\ keys.holder[j] = k
        /\ Live(c) => server[c].offer = j
        /\ staged = [keys EXCEPT !.holder = OnlyKey(keys.holder, k, j)]
        /\ file[k] = j /\ saving[k] = Nothing /\ NoOffers(k)
  BY <1>0 DEF DraftFits
<1>1. /\ server[c].state \in {"host", "closed"}
      /\ Live(c) <=> server[c].state = "host"
      /\ server[c].state = "host" <=> hostSocket[k] = c
      /\ server[c].state = "host" => up[c] = <<>>
      /\ ~Live(c) => server[c].offer = Nothing
  BY <1>0 DEF CommitFits, HostFits, Live
<1>2. /\ staged' = Nothing /\ queue' = Tail(queue) /\ hostSocket' = hostSocket
      /\ UNCHANGED <<revoked, fresh, relayUp, client, up, file, saving, refused, recovered>>
  BY DEF Stored, PublishCommit, deviceVars
<1>3. /\ server' = IF Live(c) THEN [server EXCEPT ![c].key = server[c].offer, ![c].offer = Nothing]
                   ELSE server
      /\ down' = IF Live(c) THEN Frame(down, c, <<"registered">>) ELSE down
  BY <1>1 DEF Stored, PublishCommit
<1>4. /\ server' \in [Sockets -> End] /\ \A d \in Sockets : d # c => server'[d] = server[d]
      /\ server'[c].state = server[c].state /\ server'[c].offer = Nothing
      /\ Live(c) => server'[c].key = j
      /\ ~Live(c) => server' = server
  <2>1. CASE Live(c)
    <3>. PICK e \in End : e = server[c]
      BY <1>0 DEF Typed
    <3>. PICK h : h = [e EXCEPT !.key = j, !.offer = Nothing]
      OBVIOUS
    <3>1. h \in End /\ h.state = e.state /\ h.offer = Nothing /\ h.key = j
      BY DEF End
    <3>2. server' = [server EXCEPT ![c] = h]
      BY <1>0, <1>3, <2>1 DEF Typed
    <3>. QED
      BY <1>0, <2>1, <3>1, <3>2 DEF Typed
  <2>2. CASE ~Live(c)
    BY <1>0, <1>1, <1>3, <2>2 DEF Typed
  <2>. QED
    BY <2>1, <2>2
<1>. PICK f \in Frames : f = <<"registered">> /\ f # <<"unauthorized">> /\ f[1] # "offer" /\ \A i : <<"offer", i>> # f
  BY FrameKinds
<1>5. /\ down' \in [Sockets -> Seq(Frames)] /\ \A d \in Sockets : d # c => down'[d] = down[d]
      /\ Live(c) => down'[c] = IF client[c] = "gone" THEN down[c] ELSE Append(down[c], f)
      /\ ~Live(c) => down' = down
  <2>1. Append(down[c], f) \in Seq(Frames) /\ down \in [Sockets -> Seq(Frames)]
    BY <1>0, FrameSent DEF Typed
  <2>2. CASE Live(c)
    <3>1. down' = IF client[c] = "gone" THEN down ELSE [down EXCEPT ![c] = Append(down[c], f)]
      BY <1>3, <2>2 DEF Frame
    <3>. QED
      BY <1>0, <2>1, <2>2, <3>1
  <2>3. CASE ~Live(c)
    BY <1>3, <2>1, <2>3
  <2>. QED
    BY <2>2, <2>3
<1>6. /\ client[c] = "gone" => down'[c] = down[c]
      /\ \A i \in KeyIds : Sent(c, <<"offer", i>>)' => Sent(c, <<"offer", i>>)
      /\ Sent(c, <<"unauthorized">>)' => Sent(c, <<"unauthorized">>)
      /\ OfferOnce(down[c]) => OfferOnce(down'[c])
  <2>1. CASE ~Live(c)
    BY <1>5, <2>1 DEF Sent
  <2>2. CASE Live(c)
    <3>1. /\ \A g : Sent(c, g)' <=> Sent(c, g) \/ (client[c] # "gone" /\ g = f)
          /\ client[c] = "gone" => down'[c] = down[c]
          /\ OfferOnce(down[c]) /\ f[1] # "offer" => OfferOnce(down'[c])
      BY <1>0, <1>5, <2>2, RowSent
    <3>. QED
      BY <3>1
  <2>. QED
    BY <2>1, <2>2
<1>7. /\ keys'.claimed = keys.claimed
      /\ \A i \in KeyIds : keys'.holder[i] = IF i = j THEN k ELSE IF keys.holder[i] = k THEN Unheld ELSE keys.holder[i]
  <2>1. keys' = [keys EXCEPT !.holder = [i \in KeyIds |->
                    IF i = j THEN k ELSE IF keys.holder[i] = k THEN Unheld ELSE keys.holder[i]]]
    BY <1>0 DEF OnlyKey
  <2>2. keys'.holder = [i \in KeyIds |->
                    IF i = j THEN k ELSE IF keys.holder[i] = k THEN Unheld ELSE keys.holder[i]]
    BY <1>0, <2>1 DEF Typed, Draft
  <2>3. keys'.claimed = keys.claimed
    BY <1>0, <2>1 DEF Typed, Draft
  <2>. QED
    BY <2>2, <2>3
<1>8. NoOffer(c)
  BY <1>0, Constants DEF NoOffers
<1>9. HostFits(c)'
  <2>1. c[1] = k /\ file' = file /\ saving' = saving /\ client' = client /\ up' = up /\ recovered' = recovered
    BY <1>2
  <2>2. CASE Live(c)
    <3>1. /\ server'[c].state = "host" /\ hostSocket'[k] = c /\ server'[c].offer = Nothing
          /\ server'[c].key = j /\ up[c] = <<>> /\ saving[k] = Nothing
      BY <1>1, <1>2, <1>4, <2>2
    <3>2. keys'.holder[j] = k /\ \A i \in KeyIds : keys'.holder[i] = k => i = j
      <4>1. k # Unheld
        BY <1>0, Constants
      <4>. QED
        BY <1>7, <4>1
    <3>3. \A i \in KeyIds : ~Sent(c, <<"offer", i>>)'
      BY <1>6, <1>8 DEF NoOffer
    <3>4. OfferOnce(down'[c])
      BY <1>0, <1>1, <1>6, <2>2 DEF HostFits
    <3>. QED
      BY <2>1, <3>1, <3>2, <3>3, <3>4 DEF HostFits
  <2>3. CASE ~Live(c)
    <3>1. server'[c].state = "closed" /\ hostSocket'[k] # c /\ server'[c].offer = Nothing
      BY <1>1, <1>2, <1>4, <2>3
    <3>. QED
      BY <2>1, <3>1 DEF HostFits
  <2>. QED
    BY <2>2, <2>3
<1>10. Served(c)
  <2>1. Upcoming = fresh
    BY <1>0 DEF Upcoming, Issuing
  <2>2. server[c].key < fresh /\ (server[c].offer # Nothing => server[c].offer < fresh)
    BY <1>0, <2>1 DEF KeysKnown
  <2>3. server'[c].key < fresh
    <3>1. CASE Live(c)
      BY <1>4, <2>2, <3>1, Constants
    <3>2. CASE ~Live(c)
      BY <1>4, <2>2, <3>2
    <3>. QED
      BY <3>1, <3>2
  <2>. QED
    BY <1>1, <1>4, <1>6, <2>3 DEF Served
<1>11. ASSUME NEW p \in Commits, Carries(queue, p), p # q, p.kind \in Kinds, p.conn = c
       PROVE  CommitFits(p)'
  <2>1. CommitFits(p)
    BY <1>11 DEF QueueFits
  <2>2. p = CommitOf(p.kind, c) /\ q = CommitOf("saved", c)
    BY <1>0, <1>11 DEF Commits, CommitOf, Kinds
  <2>3. p.kind # "saved"
    BY <1>11, <2>2
  <2>4. CASE p.kind = "register"
    <3>1. server[c].state = "closed" /\ ~Live(c)
      BY <1>1, <1>11, <2>1, <2>4 DEF CommitFits
    <3>2. server' = server /\ down' = down
      BY <1>4, <1>5, <3>1
    <3>. QED
      BY <1>2, <1>11, <2>1, <2>4, <3>1, <3>2 DEF CommitFits, Unopened, NoOffer, Sent
  <2>5. CASE p.kind \in {"invite", "rotate"}
    <3>1. server[c].state = "closed"
      <4>1. SUFFICES ASSUME server[c].state = "host" PROVE FALSE
        BY <1>1
      <4>2. server[c].offer = Nothing
        BY <1>0, <1>11, <2>1, <2>5, <4>1 DEF CommitFits, HostFits
      <4>. QED
        BY <1>1, <4>1, <4>2, Constants
    <3>2. server' = server
      BY <1>1, <1>4, <3>1
    <3>3. CASE p.kind = "rotate"
      BY <1>11, <2>1, <3>2, <3>3 DEF CommitFits
    <3>4. CASE p.kind = "invite"
      <4>1. fresh = 1 /\ ~Carries(queue', CommitOf("register", c))
        BY <1>0, <1>2, <1>11, <3>4
      <4>2. Upcoming' = 1
        BY <1>2, <4>1 DEF Upcoming, Issuing
      <4>. QED
        BY <1>7, <1>11, <2>1, <3>2, <3>4, <4>1, <4>2 DEF CommitFits
    <3>. QED
      BY <2>5, <3>3, <3>4
  <2>. QED
    BY <1>11, <2>3, <2>4, <2>5 DEF Kinds
<1>12. \A p \in Commits :
          Carries(queue, p) /\ p # q /\ p.kind \in Kinds /\ p.conn = c => CommitFits(p)'
  BY <1>11
<1>13. server'[c].state = server[c].state
  BY <1>4
<1>14. /\ Sent(c, <<"unauthorized">>)' => Sent(c, <<"unauthorized">>)
       /\ \A i \in KeyIds : Sent(c, <<"offer", i>>)' =>
             Sent(c, <<"offer", i>>) \/ (client[c] # "gone" /\ server[c].state # "closed")
  BY <1>6
<1>15. \A d \in Sockets : d # c => server'[d] = server[d] /\ down'[d] = down[d]
  BY <1>4, <1>5
<1>. QED
  BY <1>0, <1>4, <1>5, <1>9, <1>10, <1>12, <1>13, <1>14, <1>15, OwnEndKeeps

\* A commit is stored and published.
LEMMA StoredKeeps ==
  ASSUME CredentialIInv, Stored
  PROVE  CredentialIInv'
<1>1. queue # <<>> /\ queue \in Seq(Commits) /\ Distinct(queue)
  BY DEF CredentialIInv, Stored, StagedFits, Typed, QueueFits
<1>2. Head(queue) \in Commits
  BY <1>1, CommitTaken
<1>3. PICK q \in Commits : q = Head(queue)
  BY <1>2
<1>4. q.kind \in {"register", "invite", "rotate", "saved", "revoke"}
  BY DEF Commits, CommitOf, Kinds
<1>5. CASE q.kind = "register"
  BY <1>3, <1>5, RegisterStored
<1>6. CASE q.kind \in {"invite", "rotate"}
  BY <1>3, <1>6, IssueStored
<1>7. CASE q.kind = "saved"
  BY <1>3, <1>7, SavedStored
<1>8. CASE q.kind = "revoke"
  BY <1>3, <1>8, RevokeStored
<1>. QED
  BY <1>4, <1>5, <1>6, <1>7, <1>8

\* A draft gives credentials to an enrolled installation, or enrolls the first one.
LEMMA DraftEnrolls ==
  ASSUME CredentialIInv, NEW q \in Commits, staged # Nothing, q = Head(queue),
         NEW k \in Controllers, k = q.conn[1]
  PROVE  /\ keys.claimed /\ (\E j \in KeyIds : staged.holder[j] = k) => Enrolled(k)
         /\ ~keys.claimed /\ staged.claimed =>
               \A j \in KeyIds, l \in Controllers : keys.holder[j] = l => l = k
<1>. USE DEF CredentialIInv
<1>0. /\ Typed /\ DraftFits(q) /\ queue # <<>> /\ queue \in Seq(Commits) /\ Distinct(queue)
  BY DEF StagedFits, Typed, QueueFits
<1>1. Carries(queue, q)
  BY <1>0, CommitTaken
<1>2. keys.holder \in [KeyIds -> Controllers \cup {Nobody, Unheld}] /\ k # Unheld
  BY <1>0, Constants DEF Typed, Draft
<1>3. CASE q.kind = "register"
  <2>. PICK c \in Sockets : c = q.conn
    BY <1>3 DEF Commits, CommitOf, Kinds
  <2>. PICK key \in KeyIds : key = server[c].key
    BY <1>0 DEF Typed, End
  <2>1. MayRegister(k, key) /\ staged = RegisterDraft(k, key)
    BY <1>0, <1>3 DEF DraftFits
  <2>2. keys.claimed => key # Invitation
    BY <2>1 DEF MayRegister, Usable
  <2>3. key # Invitation => Enrolled(k)
    BY Constants DEF Enrolled
  <2>4. ASSUME ~keys.claimed, staged.claimed, NEW j \in KeyIds, NEW l \in Controllers, keys.holder[j] = l
        PROVE  l = k
    <3>1. key = Invitation /\ keys.holder[key] \in {Nobody, k}
      BY <2>1, <2>4 DEF MayRegister, RegisterDraft
    <3>2. Upcoming = 1
      BY <1>3, <2>4 DEF KeysFit, Upcoming, Issuing
    <3>3. j < 1
      BY <2>4, <3>2, Constants DEF KeysFit
    <3>4. \A i \in KeyIds : i < 1 => i = Invitation
      BY Constants
    <3>. QED
      BY <2>4, <3>1, <3>3, <3>4, Constants
  <2>. QED
    BY <2>2, <2>3, <2>4
<1>4. CASE q.kind \in {"invite", "rotate", "saved"}
  <2>1. Enrolled(k)
    BY <1>1, <1>4 DEF Enrolled
  <2>2. keys.claimed
    BY <2>1 DEF EnrollmentFits
  <2>. QED
    BY <2>1, <2>2
<1>5. CASE q.kind = "revoke"
  <2>1. staged = [keys EXCEPT !.holder = [i \in KeyIds |-> IF keys.holder[i] = k THEN Unheld ELSE keys.holder[i]]]
    BY <1>0, <1>5 DEF DraftFits
  <2>2. /\ staged.claimed = keys.claimed
        /\ staged.holder = [i \in KeyIds |-> IF keys.holder[i] = k THEN Unheld ELSE keys.holder[i]]
    BY <1>0, <2>1 DEF Typed, Draft
  <2>3. \A i \in KeyIds : staged.holder[i] # k
    BY <1>2, <2>2
  <2>. QED
    BY <2>2, <2>3
<1>. QED
  BY <1>3, <1>4, <1>5 DEF Commits, CommitOf, Kinds

\* The Relay fails: its connections and commits are lost, the draft may be stored.
LEMMA FailKeeps ==
  ASSUME CredentialIInv, RelayFails
  PROVE  CredentialIInv'
<1>. USE DEF CredentialIInv
<1>0. /\ Typed /\ queue' = <<>> /\ staged' = Nothing /\ relayUp' = FALSE
      /\ keys' = keys \/ (staged # Nothing /\ keys' = staged)
      /\ hostSocket' = [k \in Controllers |-> Nothing]
      /\ server' = [c \in Sockets |->
            IF Live(c) THEN [server[c] EXCEPT !.state = "closed", !.offer = Nothing] ELSE server[c]]
      /\ UNCHANGED <<revoked, fresh, client, up, down, file, saving, refused, recovered>>
  BY DEF RelayFails, wireVars, deviceVars
<1>1. \E k \in Controllers \cup {Nobody} :
         /\ k \in Controllers \/ keys' = keys
         /\ Evolves(k, keys')
         /\ keys.claimed /\ (\E j \in KeyIds : keys'.holder[j] = k) => (keys' = keys \/ Enrolled(k))
         /\ ~keys.claimed /\ keys'.claimed =>
               \A j \in KeyIds, l \in Controllers : keys.holder[j] = l => l = k
  <2>1. CASE keys' = keys
    <3>1. Evolves(Nobody, keys') /\ keys'.claimed = keys.claimed
      BY <1>0, <2>1 DEF Evolves, Typed
    <3>. QED
      BY <2>1, <3>1
  <2>2. CASE staged # Nothing /\ keys' = staged
    <3>1. queue # <<>> /\ queue \in Seq(Commits) /\ Distinct(queue)
      BY <2>2 DEF StagedFits, Typed, QueueFits
    <3>2. Head(queue) \in Commits
      BY <3>1, CommitTaken
    <3>. PICK q \in Commits : q = Head(queue)
      BY <3>2
    <3>. PICK k \in Controllers : k = q.conn[1]
      BY Constants DEF Commits, CommitOf
    <3>3. Evolves(k, staged)
      BY <2>2, DraftEvolves
    <3>4. /\ keys.claimed /\ (\E j \in KeyIds : staged.holder[j] = k) => Enrolled(k)
          /\ ~keys.claimed /\ staged.claimed =>
                \A j \in KeyIds, l \in Controllers : keys.holder[j] = l => l = k
      BY <2>2, DraftEnrolls
    <3>5. Evolves(k, keys')
      BY <2>2, <3>3
    <3>6. /\ keys.claimed /\ (\E j \in KeyIds : keys'.holder[j] = k) => Enrolled(k)
          /\ ~keys.claimed /\ keys'.claimed =>
                \A j \in KeyIds, l \in Controllers : keys.holder[j] = l => l = k
      BY <2>2, <3>4
    <3>. QED
      BY <3>5, <3>6
  <2>. QED
    BY <1>0, <2>1, <2>2
<1>. PICK k \in Controllers \cup {Nobody} :
         /\ k \in Controllers \/ keys' = keys
         /\ Evolves(k, keys')
         /\ keys.claimed /\ (\E j \in KeyIds : keys'.holder[j] = k) => (keys' = keys \/ Enrolled(k))
         /\ ~keys.claimed /\ keys'.claimed =>
               \A j \in KeyIds, l \in Controllers : keys.holder[j] = l => l = k
  BY <1>1
<1>2. /\ KeysFit' /\ Upcoming' = fresh /\ Upcoming <= fresh /\ fresh \in Nat /\ Upcoming \in Int
      /\ \A l \in Controllers, j \in KeyIds : l # k => (keys'.holder[j] = l <=> keys.holder[j] = l)
      /\ \A l \in Controllers, j \in KeyIds : j < Upcoming /\ MayRegister(l, j)' => MayRegister(l, j)
  <2>1. k \in Controllers \/ keys' = keys
    OBVIOUS
  <2>2. Evolves(k, keys') /\ fresh' = fresh /\ staged' = Nothing
    BY <1>0
  <2>. QED
    BY <2>1, <2>2, KeysEvolved
<1>3. /\ server' \in [Sockets -> End]
      /\ \A c \in Sockets :
            /\ server'[c].key = server[c].key /\ server'[c].state \notin {"host", "accepted", "registering"}
            /\ server'[c].state = "none" <=> server[c].state = "none"
            /\ server[c].state = "closed" => server'[c].state = "closed"
            /\ server'[c].offer = Nothing
  <2>1. ASSUME NEW c \in Sockets
        PROVE  /\ server'[c] \in End
               /\ server'[c].key = server[c].key /\ server'[c].state \notin {"host", "accepted", "registering"}
               /\ server'[c].state = "none" <=> server[c].state = "none"
               /\ server[c].state = "closed" => server'[c].state = "closed"
               /\ server'[c].offer = Nothing
    <3>. PICK e \in End : e = server[c]
      BY <1>0 DEF Typed
    <3>1. server'[c] = IF Live(c) THEN [e EXCEPT !.state = "closed", !.offer = Nothing] ELSE e
      BY <1>0
    <3>2. Live(c) <=> e.state \notin {"none", "closed"}
      BY DEF Live
    <3>3. e.state # "host" => e.offer = Nothing
      BY DEF HostFits
    <3>. PICK h : h = [e EXCEPT !.state = "closed", !.offer = Nothing]
      OBVIOUS
    <3>4. h \in End /\ h.state = "closed" /\ h.offer = Nothing /\ h.key = e.key
      BY DEF End
    <3>. QED
      BY <3>1, <3>2, <3>3, <3>4 DEF End
  <2>. QED
    BY <1>0, <2>1
<1>4. Typed'
  <2>1. keys' \in Draft
    BY DEF Evolves
  <2>2. hostSocket' \in [Controllers -> {Nothing} \cup Sockets] /\ queue' \in Seq(Commits)
    <3>1. hostSocket' = [l \in Controllers |-> Nothing] /\ queue' = <<>>
      BY <1>0
    <3>2. hostSocket' \in [Controllers -> {Nothing} \cup Sockets]
      BY <3>1
    <3>3. queue' \in Seq(Commits)
      BY <3>1, NoCommits
    <3>. QED
      BY <3>2, <3>3
  <2>3. UNCHANGED <<fresh, client, up, down, file, saving, refused>> /\ relayUp' \in BOOLEAN
    BY <1>0
  <2>. QED
    BY <1>0, <1>3, <2>1, <2>2, <2>3 DEF Typed
<1>5. /\ \A c \in Sockets : \A f : Sent(c, f)' <=> Sent(c, f)
      /\ \A c \in Sockets : NoOffer(c)' <=> NoOffer(c)
  BY <1>0 DEF NoOffer, Sent
<1>6. KeysKnown'
  <2>1. \A c \in Sockets : server'[c].key < fresh
    <3>1. \A c \in Sockets : server[c].key \in KeyIds /\ server[c].key < Upcoming
      BY <1>0 DEF Typed, End, KeysKnown
    <3>2. \A j \in KeyIds : j < Upcoming => j < fresh
      BY <1>2, Constants
    <3>. QED
      BY <1>3, <3>1, <3>2
  <2>2. \A l \in Controllers : file[l] < fresh
    <3>1. \A l \in Controllers : file[l] \in KeyIds /\ file[l] < Upcoming
      BY <1>0 DEF Typed, KeysKnown
    <3>2. \A j \in KeyIds : j < Upcoming => j < fresh
      BY <1>2, Constants
    <3>. QED
      BY <3>1, <3>2
  <2>3. \A l \in Controllers : saving[l] # Nothing => saving[l].key \in 1..fresh - 1
    <3>1. \A l \in Controllers : saving[l] # Nothing => saving[l].key \in 1..Upcoming - 1
      BY DEF KeysKnown
    <3>. QED
      BY <1>2, <3>1
  <2>4. \A c \in Sockets, j \in KeyIds : Sent(c, <<"offer", j>>) => j \in 1..fresh - 1
    <3>1. \A c \in Sockets, j \in KeyIds : Sent(c, <<"offer", j>>) => j \in 1..Upcoming - 1
      BY DEF KeysKnown
    <3>. QED
      BY <1>2, <3>1
  <2>. QED
    BY <1>0, <1>2, <1>3, <1>5, <2>1, <2>2, <2>3, <2>4 DEF KeysKnown
<1>7. ASSUME NEW c \in Sockets PROVE ClientFits(c)'
  BY <1>0, <1>3 DEF ClientFits, SocketsOf
<1>8. SavingFits'
  BY <1>0 DEF SavingFits
<1>9. QueueFits' /\ \A q : ~Carries(queue', q)
  <2>1. queue' = <<>>
    BY <1>0
  <2>2. \A q : ~Carries(queue', q)
    BY <2>1, NoCommits
  <2>3. Distinct(queue')
    BY <2>1, NoCommits
  <2>. QED
    BY <2>2, <2>3 DEF QueueFits
<1>10. ASSUME NEW c \in Sockets PROVE HostFits(c)'
  <2>1. hostSocket'[c[1]] # c
    BY <1>0, Constants
  <2>. QED
    BY <1>3, <2>1 DEF HostFits
<1>11. HostsOwn' /\ StagedFits'
  BY <1>0 DEF HostsOwn, StagedFits
<1>12. EnrollmentFits'
  <2>1. ASSUME NEW l \in Controllers, Enrolled(l)', l # k \/ keys.claimed PROVE Enrolled(l)
    <3>1. \A d \in SocketsOf(l) : server'[d].key = server[d].key /\ (NoOffer(d)' <=> NoOffer(d))
      BY <1>3, <1>5, Constants
    <3>2. ASSUME keys'.claimed, NEW j \in KeyIds, keys'.holder[j] = l PROVE Enrolled(l)
      <4>1. CASE l # k
        BY <1>2, <3>2, <4>1 DEF Enrolled
      <4>2. CASE l = k /\ keys.claimed
        BY <3>2, <4>2 DEF Enrolled
      <4>. QED
        BY <2>1, <4>1, <4>2
    <3>. QED
      BY <1>0, <1>9, <2>1, <3>1, <3>2 DEF Enrolled, SocketsOf
  <2>2. ASSUME ~keys'.claimed, NEW l \in Controllers, Enrolled(l)' PROVE FALSE
    <3>1. ~keys.claimed
      BY <2>2 DEF Evolves
    <3>2. \A d \in SocketsOf(l) : server'[d].key = server[d].key /\ (NoOffer(d)' <=> NoOffer(d))
      BY <1>3, <1>5, Constants
    <3>3. Enrolled(l)
      BY <1>0, <1>9, <2>2, <3>2 DEF Enrolled, SocketsOf
    <3>. QED
      BY <3>1, <3>3 DEF EnrollmentFits
  <2>3. ASSUME NEW l \in Controllers, NEW m \in Controllers, Enrolled(l)', Enrolled(m)' PROVE l = m
    <3>1. CASE l # k /\ m # k
      BY <2>1, <2>3, <3>1 DEF EnrollmentFits
    <3>2. CASE l = k /\ m # k
      BY <2>1, <2>3, <3>2 DEF EnrollmentFits
    <3>3. CASE l # k /\ m = k
      BY <2>1, <2>3, <3>3 DEF EnrollmentFits
    <3>. QED
      BY <3>1, <3>2, <3>3
  <2>. QED
    BY <2>2, <2>3 DEF EnrollmentFits
<1>13. ASSUME NEW l \in Controllers PROVE RefusalFits(l)'
  <2>1. \A d \in SocketsOf(l) : d \in Sockets /\ (server[d].state = "closed" => server'[d].state = "closed")
    BY <1>3, Constants
  <2>2. Presented(l)' = Presented(l) /\ (Told(l)' <=> Told(l))
    BY <1>0, <1>5, <2>1 DEF Presented, Told, SocketsOf
  <2>3. Presented(l) \in KeyIds /\ Presented(l) < Upcoming
    <3>1. CASE saving[l] = Nothing
      BY <1>0, <3>1 DEF Presented, Typed, KeysKnown
    <3>2. CASE saving[l] # Nothing
      <4>1. saving[l].key \in KeyIds /\ saving[l].key \in 1..Upcoming - 1
        BY <1>0, <3>2 DEF Typed, KeysKnown
      <4>. QED
        BY <1>2, <3>2, <4>1 DEF Presented
    <3>. QED
      BY <3>1, <3>2
  <2>4. ASSUME NEW j \in KeyIds, j < Upcoming, ~MayRegister(l, j) PROVE ~MayRegister(l, j)'
    BY <1>2, <2>4
  <2>5. Told(l) => ~MayRegister(l, Presented(l))'
    <3>1. PICK j \in KeyIds : j = Presented(l) /\ j < Upcoming
      BY <2>3
    <3>2. Told(l) => ~MayRegister(l, j)
      BY <3>1 DEF RefusalFits
    <3>3. j = Presented(l)'
      BY <2>2, <3>1
    <3>. QED
      BY <2>4, <3>1, <3>2, <3>3 DEF MayRegister, Usable, Known
  <2>6. ASSUME Told(l), NEW d \in SocketsOf(l), NEW j \in KeyIds, Sent(d, <<"offer", j>>)
        PROVE  ~MayRegister(l, j)'
    <3>1. ~MayRegister(l, j) /\ j < Upcoming
      <4>1. d \in Sockets /\ RefusalFits(l)
        BY <2>1
      <4>2. j \in 1..Upcoming - 1
        BY <2>6, <4>1 DEF KeysKnown
      <4>. QED
        BY <1>2, <2>6, <4>1, <4>2 DEF RefusalFits
    <3>. QED
      BY <2>4, <3>1
  <2>7. \A d \in SocketsOf(l) : Sent(d, <<"unauthorized">>)' => server'[d].state = "closed"
    BY <1>5, <2>1 DEF RefusalFits
  <2>8. \A d \in SocketsOf(l), j \in KeyIds : Told(l)' /\ Sent(d, <<"offer", j>>)' => ~MayRegister(l, j)'
    BY <1>5, <2>1, <2>2, <2>6
  <2>. QED
    BY <2>2, <2>5, <2>7, <2>8 DEF RefusalFits, SocketsOf
<1>. QED
  BY <1>2, <1>4, <1>6, <1>7, <1>8, <1>9, <1>10, <1>11, <1>12, <1>13

-----------------------------------------------------------------------------
(* The invariant holds in every state.                                     *)

\* The invariant holds at first.
LEMMA CredentialStarts ==
  ASSUME CredentialInit
  PROVE  CredentialIInv
<1>0. /\ staged = Nothing /\ fresh = 1 /\ queue = <<>> /\ relayUp = TRUE /\ revoked = {}
      /\ server = [c \in Sockets |-> [state |-> "none", key |-> Invitation, offer |-> Nothing]]
      /\ hostSocket = [k \in Controllers |-> Nothing]
      /\ client = [c \in Sockets |-> "gone"]
      /\ up = [c \in Sockets |-> <<>>] /\ down = [c \in Sockets |-> <<>>]
      /\ file = [k \in Controllers |-> Invitation]
      /\ saving = [k \in Controllers |-> Nothing]
      /\ refused = [k \in Controllers |-> "no"]
      /\ recovered \in {{}} \cup {{k} : k \in Controllers}
  BY DEF CredentialInit
<1>. PICK who \in IF recovered = {} THEN {Nobody} ELSE recovered :
        keys = [holder |-> [j \in KeyIds |-> IF j = Invitation THEN who ELSE Unheld], claimed |-> FALSE]
  BY DEF CredentialInit
<1>1. who \in Controllers \cup {Nobody}
  BY <1>0
<1>2. /\ keys.claimed = FALSE
      /\ \A j \in KeyIds : keys.holder[j] = IF j = Invitation THEN who ELSE Unheld
      /\ keys \in Draft
  BY <1>1 DEF Draft
<1>3. Upcoming = 1
  BY <1>0 DEF Upcoming, Issuing
<1>4. \A j \in KeyIds : j >= 1 => j # Invitation
  BY Constants
<1>5. /\ \A c \in Sockets : \A f : ~Sent(c, f)
      /\ \A c \in Sockets : NoOffer(c)
      /\ \A q : ~Carries(queue, q)
  BY <1>0 DEF Sent, Carries, NoOffer
<1>6. Typed
  <2>1. fresh \in 1..MaxKeys + 1 /\ Invitation \in KeyIds
    BY <1>0, Constants
  <2>2. \A c \in Sockets : [state |-> "none", key |-> Invitation, offer |-> Nothing] \in End
    BY <2>1 DEF End
  <2>3. queue \in Seq(Commits) /\ <<>> \in Seq({"register", "saved"}) /\ <<>> \in Seq(Frames)
    BY <1>0
  <2>. QED
    BY <1>0, <1>2, <2>1, <2>2, <2>3 DEF Typed
<1>7. KeysFit
  BY <1>0, <1>1, <1>2, <1>3, <1>4, Constants DEF KeysFit
<1>8. KeysKnown
  <2>1. Invitation < 1
    BY Constants
  <2>. QED
    BY <1>0, <1>3, <1>5, <2>1 DEF KeysKnown
<1>9. ASSUME NEW c \in Sockets PROVE ClientFits(c) /\ HostFits(c)
  <2>1. c[1] \in Controllers /\ c # Nothing
    BY Constants
  <2>. QED
    BY <1>0, <2>1 DEF ClientFits, HostFits
<1>10. SavingFits /\ HostsOwn /\ StagedFits
  BY <1>0 DEF SavingFits, HostsOwn, StagedFits
<1>11. QueueFits
  BY <1>0, <1>5 DEF QueueFits, Distinct
<1>12. ASSUME NEW k \in Controllers PROVE ~Enrolled(k) /\ RefusalFits(k)
  <2>1. \A c \in SocketsOf(k) : c \in Sockets
    BY Constants
  <2>2. ~Told(k)
    BY <1>0, <1>5, <2>1 DEF Told
  <2>. QED
    BY <1>0, <1>2, <1>5, <2>1, <2>2 DEF Enrolled, RefusalFits
<1>13. EnrollmentFits
  BY <1>12 DEF EnrollmentFits
<1>. QED
  BY <1>6, <1>7, <1>8, <1>9, <1>10, <1>11, <1>12, <1>13 DEF CredentialIInv

\* Every step keeps it.
LEMMA CredentialSteps ==
  ASSUME CredentialIInv, CredentialNext
  PROVE  CredentialIInv'
<1>1. CASE Stage
  BY <1>1, StageKeeps
<1>2. CASE Stored
  BY <1>2, StoredKeeps
<1>3. CASE RelayFails
  BY <1>3, FailKeeps
<1>4. CASE RelayRestarts
  BY <1>4, RelayBackQuiet, QuietKeeps
<1>5. ASSUME NEW k \in Controllers, Rotate(k) PROVE CredentialIInv'
  BY <1>5, RotateKeeps
<1>6. ASSUME NEW k \in Controllers, Revoke(k) PROVE CredentialIInv'
  BY <1>6, RevokeKeeps
<1>7. ASSUME NEW k \in Controllers, Connect(k) PROVE CredentialIInv'
  BY <1>7, ConnectKeeps
<1>8. ASSUME NEW k \in Controllers, SaveDone(k) PROVE CredentialIInv'
  BY <1>8, SaveKeeps
<1>9. ASSUME NEW k \in Controllers, SaveFails(k) PROVE CredentialIInv'
  BY <1>9, FailureQuiet, QuietKeeps
<1>10. ASSUME NEW k \in Controllers, ControllerRestarts(k) PROVE CredentialIInv'
  BY <1>10, RestartQuiet, QuietKeeps
<1>11. ASSUME NEW c \in Sockets, AcceptUpgrade(c) PROVE CredentialIInv'
  BY <1>11, UpgradeKeeps
<1>12. ASSUME NEW c \in Sockets, ReceiveRegister(c) PROVE CredentialIInv'
  BY <1>12, RegisterKeeps
<1>13. ASSUME NEW c \in Sockets, ReceiveSaved(c) PROVE CredentialIInv'
  BY <1>13, SavedKeeps
<1>14. ASSUME NEW c \in Sockets, RelayNotices(c) PROVE CredentialIInv'
  BY <1>14, NoticesQuiet, QuietKeeps
<1>15. ASSUME NEW c \in Sockets, ReceiveOffer(c) PROVE CredentialIInv'
  BY <1>15, OfferKeeps
<1>16. ASSUME NEW c \in Sockets, ReceiveRegistered(c) PROVE CredentialIInv'
  BY <1>16, RegisteredQuiet, QuietKeeps
<1>17. ASSUME NEW c \in Sockets, ReceiveClose(c) PROVE CredentialIInv'
  BY <1>17, ClosedQuiet, QuietKeeps
<1>18. ASSUME NEW c \in Sockets, ControllerNotices(c) \/ Abandon(c) PROVE CredentialIInv'
  BY <1>18, GoneQuiet, QuietKeeps
<1>. QED
  BY <1>1, <1>2, <1>3, <1>4, <1>5, <1>6, <1>7, <1>8, <1>9, <1>10, <1>11, <1>12, <1>13, <1>14,
     <1>15, <1>16, <1>17, <1>18 DEF CredentialNext, Receives, RelayReceives

\* So does a step that changes nothing.
LEMMA CredentialStutters ==
  ASSUME CredentialIInv, UNCHANGED credentialVars
  PROVE  CredentialIInv'
<1>1. UNCHANGED <<keys, recovered, revoked, fresh, relayUp, queue, staged, server, hostSocket, client,
                  up, down, file, saving, refused>>
  BY DEF credentialVars, relayVars, socketVars, wireVars, deviceVars
<1>2. Typed'
  BY <1>1 DEF CredentialIInv, Typed
<1>3. ASSUME NEW c \in Sockets PROVE Quieter(c)
  BY <1>1 DEF Quieter, CredentialIInv, ClientFits
<1>4. ASSUME NEW k \in Controllers PROVE Ended(k)
  <2>1. HostEnds(k)
    BY <1>1, HostsStand
  <2>2. SavingEnds(k)
    BY <1>1 DEF SavingEnds, Told
  <2>. QED
    BY <2>1, <2>2 DEF Ended
<1>5. Quiet
  BY <1>1, <1>2, <1>3, <1>4 DEF Quiet, Steady
<1>. QED
  BY <1>5, QuietKeeps

\* The invariant that the others rest on.
THEOREM CredentialInduction == CredentialSpec => []CredentialIInv
<1>1. CredentialInit => CredentialIInv
  BY CredentialStarts
<1>2. CredentialIInv /\ [CredentialNext]_credentialVars => CredentialIInv'
  BY CredentialSteps, CredentialStutters
<1>. QED
  BY <1>1, <1>2, PTL DEF CredentialSpec

\* What the runs check follows from the invariant.
LEMMA CredentialFits ==
  ASSUME CredentialIInv
  PROVE  CredentialInv
<1>. USE DEF CredentialIInv
<1>1. CredentialTypeOK
  <2>1. \A i \in DOMAIN queue : queue[i] \in Commits
    BY DEF Typed
  <2>2. \A q \in Commits : q.kind \in {"register", "invite", "rotate", "saved", "revoke"}
    BY DEF Commits, CommitOf, Kinds
  <2>. QED
    BY <2>1, <2>2 DEF CredentialTypeOK, Typed, Draft, End
<1>2. OldCredentialRetired
  <2>1. ASSUME NEW k \in Controllers, k \notin recovered, hostSocket[k] # Nothing
        PROVE  LET s == server[hostSocket[k]]
               IN  /\ s.state = "host"
                   /\ {j \in KeyIds : keys.holder[j] = k} \subseteq {s.key, s.offer}
    <3>. PICK c \in Sockets : c = hostSocket[k]
      BY <2>1 DEF Typed
    <3>1. c[1] = k /\ HostFits(c)
      BY <2>1 DEF HostsOwn
    <3>2. server[c].state = "host" /\ \A j \in KeyIds : keys.holder[j] = k => j = server[c].key \/ j = server[c].offer
      BY <2>1, <3>1 DEF HostFits
    <3>. QED
      BY <3>2
  <2>. QED
    BY <2>1 DEF OldCredentialRetired
<1>3. InvitationOnce
  BY DEF InvitationOnce, EnrollmentFits, Enrolled
<1>4. RefusedRightly
  BY DEF RefusedRightly, RefusalFits, Told, Presented
<1>. QED
  BY <1>1, <1>2, <1>3, <1>4 DEF CredentialInv

\* For any installations, connections, credentials and faults: a Host has no other
\* credential than its current one and the offered one, one invitation enrolls one
\* installation, and who is told that it is unauthorized is (commit and receive in
\* broker.ts, the close codes in remote-host-uplink-client.ts).
THEOREM CredentialSafe == CredentialSpec => []CredentialInv
<1>1. CredentialIInv => CredentialInv
  BY CredentialFits
<1>. QED
  BY <1>1, CredentialInduction, PTL

-----------------------------------------------------------------------------
(* Which credentials a step takes from an installation.                    *)

\* Only a commit changes the credentials, and it changes nothing that it depends on.
LEMMA KeysChange ==
  ASSUME [CredentialNext]_credentialVars, keys' # keys
  PROVE  staged # Nothing /\ keys' = staged
<1>1. Stored \/ RelayFails
  BY DEF CredentialNext, Stage, RelayRestarts, Rotate, Revoke, Connect, SaveDone, SaveFails,
         ControllerRestarts, RelayReceives, AcceptUpgrade, ReceiveRegister, ReceiveSaved,
         RelayNotices, Receives, ReceiveOffer, ReceiveRegistered, ReceiveClose, ControllerNotices,
         Abandon, credentialVars, relayVars
<1>. QED
  BY <1>1 DEF Stored, RelayFails

\* A connection that nothing was read from carries no promise, and no other one does.
LEMMA NothingPromised ==
  ASSUME CredentialIInv, NEW c \in Sockets, client[c] # "gone", Unopened(c),
         NEW j \in Promised(c[1])
  PROVE  j = server[c].key
<1>. USE DEF CredentialIInv
<1>1. file[c[1]] = server[c].key /\ saving[c[1]] = Nothing /\ NoOffer(c) /\ j \in KeyIds
  BY DEF Unopened, Promised
<1>2. ASSUME NEW d \in SocketsOf(c[1]), Sent(d, <<"offer", j>>) PROVE FALSE
  <2>1. d # c
    BY <1>1, <1>2 DEF NoOffer
  <2>2. d \in Sockets /\ client[d] = "gone"
    BY <2>1, Constants DEF ClientFits
  <2>3. down[d] = <<>>
    BY <2>2 DEF ClientFits
  <2>. QED
    BY <1>2, <2>3, NoFrames DEF Sent
<1>. QED
  BY <1>1, <1>2 DEF Promised, Sent, Carries

\* A draft takes a promised credential only from a Controller that left.
LEMMA DraftSpares ==
  ASSUME CredentialIInv, staged # Nothing, NEW k \in Controllers \ revoked,
         NEW j \in Promised(k) \ {Invitation}, keys.holder[j] = k, staged.holder[j] # k
  PROVE  /\ k \notin recovered
         /\ queue # <<>> /\ Head(queue).kind = "register"
         /\ client[Head(queue).conn] = "gone"
<1>. USE DEF CredentialIInv
<1>0. /\ Typed /\ queue # <<>> /\ queue \in Seq(Commits) /\ Distinct(queue) /\ DraftFits(Head(queue))
      /\ j \in KeyIds
  BY DEF StagedFits, Typed, QueueFits, Promised
<1>1. Head(queue) \in Commits /\ Carries(queue, Head(queue))
  BY <1>0, CommitTaken
<1>. PICK q \in Commits : q = Head(queue)
  BY <1>1
<1>2. DraftFits(q) /\ CommitFits(q) /\ q.conn[1] \in Controllers
  BY <1>0, <1>1, Constants DEF QueueFits, Commits, CommitOf
<1>. PICK h \in Controllers : h = q.conn[1]
  BY <1>2
<1>3. k # Unheld /\ k # Nobody
  BY Constants
<1>4. h = k /\ staged.holder[j] = Unheld
  <2>1. Evolves(h, staged)
    BY DraftEvolves
  <2>2. j < Upcoming
    <3>1. j \in Int /\ Upcoming \in Int
      BY <1>0, Constants DEF Typed, Upcoming
    <3>. QED
      BY <1>0, <1>3, <3>1 DEF KeysFit
  <2>3. j # Upcoming
    BY <1>0, <2>2, Constants
  <2>4. staged.holder[j] = h => h = k
    BY <1>0, <1>3, <2>1, <2>3 DEF Evolves, MayRegister
  <2>. QED
    BY <1>0, <2>1, <2>3, <2>4 DEF Evolves
<1>5. CASE q.kind = "register"
  <2>. PICK c \in Sockets : c = q.conn
    BY <1>5 DEF Commits, CommitOf, Kinds
  <2>. PICK key \in KeyIds : key = server[c].key
    BY <1>0 DEF Typed, End
  <2>1. MayRegister(k, key) /\ staged = RegisterDraft(k, key)
    BY <1>2, <1>4, <1>5 DEF DraftFits
  <2>2. key # Invitation
    <3>1. SUFFICES ASSUME key = Invitation PROVE FALSE
      OBVIOUS
    <3>2. Upcoming = 1
      BY <1>5, <2>1, <3>1 DEF MayRegister, Usable, KeysFit, Upcoming, Issuing
    <3>3. j < 1
      <4>1. j \in Int
        BY <1>0, Constants
      <4>. QED
        BY <1>0, <1>3, <3>2, <4>1 DEF KeysFit
    <3>4. \A i \in KeyIds : i < 1 => i = Invitation
      BY Constants
    <3>. QED
      BY <1>0, <3>3, <3>4
  <2>3. k \notin recovered
    BY <1>3, <1>4, <2>1, <2>2 DEF RegisterDraft
  <2>4. j # key
    BY <1>3, <1>4, <2>1, <2>2, <2>3 DEF RegisterDraft, OnlyKey
  <2>5. client[c] = "gone"
    <3>1. Unopened(c) /\ c[1] = k
      BY <1>2, <1>4, <1>5 DEF CommitFits
    <3>2. j \in Promised(c[1])
      BY <3>1
    <3>. QED
      BY <2>4, <3>1, <3>2, NothingPromised
  <2>. QED
    BY <1>0, <1>5, <2>3, <2>5
<1>6. CASE q.kind \in {"invite", "rotate"}
  <2>1. \/ staged = [keys EXCEPT !.holder = [i \in KeyIds |->
              IF i = fresh - 1 THEN k ELSE IF i = Invitation THEN Unheld ELSE keys.holder[i]]]
        \/ staged = [keys EXCEPT !.holder = [i \in KeyIds |->
              IF i = fresh - 1 THEN k ELSE keys.holder[i]]]
    BY <1>2, <1>4, <1>6 DEF DraftFits
  <2>2. staged.holder[j] \in {k, keys.holder[j]}
    BY <1>0, <2>1 DEF Typed, Draft
  <2>. QED
    BY <1>3, <1>4, <2>2
<1>7. CASE q.kind = "saved"
  <2>. PICK i \in KeyIds : /\ staged = [keys EXCEPT !.holder = OnlyKey(keys.holder, k, i)]
                           /\ file[k] = i /\ saving[k] = Nothing /\ NoOffers(k)
    BY <1>2, <1>4, <1>7 DEF DraftFits
  <2>1. staged.holder = OnlyKey(keys.holder, k, i)
    BY <1>0 DEF Typed, Draft
  <2>2. j # i
    BY <1>0, <1>3, <1>4, <2>1 DEF OnlyKey
  <2>. QED
    BY <1>0, <2>2 DEF Promised, NoOffers, NoOffer, Sent, Carries
<1>8. CASE q.kind = "revoke"
  BY <1>2, <1>4, <1>8 DEF CommitFits
<1>. QED
  BY <1>5, <1>6, <1>7, <1>8 DEF Commits, CommitOf, Kinds

\* A device credential that a Controller has saved, is saving or is about to receive
\* is taken from it only by revocation, or by a registration that was sent on a
\* connection the Controller has left (register, broker.ts).
THEOREM CredentialKept == CredentialSpec => SavedCredentialStays
<1>. DEFINE Spares ==
        \A k \in Controllers \ revoked : \A j \in (Promised(k) \cap Promised(k)') \ {Invitation} :
          keys.holder[j] = k /\ keys'.holder[j] # k
            => /\ k \notin recovered
               /\ queue # <<>> /\ Head(queue).kind = "register"
               /\ client[Head(queue).conn] = "gone"
<1>1. CredentialIInv /\ [CredentialNext]_credentialVars => Spares
  <2>1. SUFFICES ASSUME CredentialIInv, [CredentialNext]_credentialVars,
                        NEW k \in Controllers \ revoked, NEW j \in Promised(k) \ {Invitation},
                        keys.holder[j] = k, keys'.holder[j] # k
                 PROVE  /\ k \notin recovered
                        /\ queue # <<>> /\ Head(queue).kind = "register"
                        /\ client[Head(queue).conn] = "gone"
    OBVIOUS
  <2>2. keys' # keys
    BY <2>1
  <2>3. staged # Nothing /\ keys' = staged
    BY <2>1, <2>2, KeysChange
  <2>. QED
    BY <2>1, <2>3, DraftSpares
<1>2. CredentialIInv /\ [CredentialNext]_credentialVars => [Spares]_credentialVars
  BY <1>1
<1>. QED
  BY <1>2, CredentialInduction, PTL DEF CredentialSpec, SavedCredentialStays
=============================================================================
