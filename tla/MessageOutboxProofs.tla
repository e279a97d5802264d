------------------------ MODULE MessageOutboxProofs ------------------------
(***************************************************************************)
(* OutboxSpec keeps OutboxInv, for any texts, windows and bounds: an echo  *)
(* settles one message and none that is older than it, and a message       *)
(* passes an echo over only behind one that settled another.               *)
(*                                                                         *)
(* Nearly every action ends in Replace, which reconciles what the action   *)
(* made of the timeline and of the outbox.  The invariant is stated of     *)
(* such a timeline and outbox, so that one lemma carries it through        *)
(* Replace and an action has to show it of what it hands over.             *)
(***************************************************************************)
EXTENDS MessageOutbox, NaturalsInduction, WellFoundedInduction, TLAPS

Statuses == {"none", "sending", "awaiting_echo", "unconfirmed", "failed", "gone"}

Outgoing ==
    [status : Statuses, text : Texts \cup {Unknown}, attempt : 0..MaxAttempts,
     retryRequiresNewOperation : BOOLEAN, submitted : Texts \cup {Unknown},
     epoch : Nat, afterSeq : Nat, consumed : SUBSET Nat]

Operation ==
    [verdict : {"none", "sent", "accepted", "prepared", "handled", "refused", "unknown"},
     echo : {"none", "due", "logged"}, text : Texts \cup {Unknown}]

Row == [text : Texts, digest : {"none", "pending", "done", "failed"}]

Claims == [message : Messages, attempt : 0..MaxAttempts, epoch : Nat, seq : Nat]

\* The message is in the box.
Live(b) == b.status \notin {"none", "gone"}

-----------------------------------------------------------------------------
(* The inductive invariant.                                                *)

\* Entries of timeline v show rows of the log as they are, below its cursor.
ViewFits(v, rows) ==
    /\ v = [epoch |-> v.epoch, entries |-> v.entries, nextSeq |-> v.nextSeq]
    /\ v.epoch \in Nat \ {0} /\ v.nextSeq \in 1..Len(rows) + 1
    /\ DOMAIN v.entries \subseteq 1..v.nextSeq - 1
    /\ v.entries \in [DOMAIN v.entries -> Row]
    /\ \A s \in DOMAIN v.entries : v.entries[s].text = rows[s]

\* What operations did has a text; who has sent nothing has none.
OpsFit(os) ==
    /\ os \in [Operations -> Operation]
    /\ \A o \in Operations : os[o].verdict # "none" => os[o].text \in Texts
    /\ \A o \in Operations : os[o].echo = "due" => os[o].text \in Texts

\* Messages know their text, their operation, and what it submitted if the Host
\* prepared it; who waits for an answer is pending.
BoxFits(bs, w, os) ==
    /\ bs \in [Messages -> Outgoing]
    /\ w \subseteq Messages
    /\ \A m \in Messages : Live(bs[m]) =>
          /\ bs[m].text \in Texts /\ bs[m].attempt \in Attempts
          /\ bs[m].submitted # Unknown =>
                /\ os[<<m, bs[m].attempt>>].verdict = "prepared"
                /\ os[<<m, bs[m].attempt>>].text = bs[m].submitted
    /\ \A m \in w : Pending(bs[m]) \/ bs[m].status = "gone"

\* Claims are of rows shown, newer than the operation, one to a row, and end the message.
ClaimsFit(cs, bs, bn, v) ==
    /\ cs \subseteq Claims
    /\ bn \in [Messages -> Nat]
    /\ \A c \in cs :
          /\ c.epoch <= v.epoch
          /\ c.epoch = v.epoch => c.seq \in 1..v.nextSeq - 1
          /\ c.seq > bn[c.message]
          /\ bs[c.message].status = "gone"
    /\ \A c, d \in cs : c.epoch = d.epoch /\ c.seq = d.seq => c = d

\* Row s of the epoch of timeline v is claimed.
ClaimedIn(cs, v, s) == \E c \in cs : c.epoch = v.epoch /\ c.seq = s

\* The cursor and the consumed rows of a pending message account for the claims of
\* its epoch: it looks at no claimed row, and its cursor left the place where it was
\* when the operation was created for a claimed row of its text only.
CursorFits(b, since, cs, v, rows) ==
    /\ b.epoch <= v.epoch
    /\ b.afterSeq >= since
    /\ Here(b, v) =>
          /\ \A s \in Nat : ClaimedIn(cs, v, s) => s <= b.afterSeq \/ s \in b.consumed
          /\ \A s \in b.consumed : ClaimedIn(cs, v, s)
          /\ b.afterSeq > since =>
                ClaimedIn(cs, v, b.afterSeq) /\ rows[b.afterSeq] \in {b.text, b.submitted}

CursorsFit(bs, bn, cs, v, rows) ==
    \A m \in Messages : Pending(bs[m]) => CursorFits(bs[m], bn[m], cs, v, rows)

\* No pending message looks at a row on display that would be its echo.
Scanned(bs, v) ==
    (\A r \in DOMAIN v.entries : v.entries[r].digest # "pending")
        => \A m \in Messages : Echoes(v, bs[m]) = {}

\* What holds of the outbox, of the timeline it is about and of the operations and
\* the rows behind them.
Fits(v, bs, w, cs, bn, rows, os) ==
    /\ ViewFits(v, rows)
    /\ BoxFits(bs, w, os)
    /\ ClaimsFit(cs, bs, bn, v)
    /\ CursorsFit(bs, bn, cs, v, rows)

OutboxIInv ==
    /\ log \in Seq(Texts) /\ OpsFit(ops) /\ upsets \in 0..MaxUpsets
    /\ Fits(view, box, waiting, claims, born, log, ops)
    /\ Scanned(box, view)

-----------------------------------------------------------------------------
(* Greatest members.                                                       *)

\* A set of numbers has a least one.
LEMMA LeastOf ==
    ASSUME NEW T \in SUBSET Nat, T # {}
    PROVE  \E n \in T : \A m \in T : n <= m
<1>. DEFINE Less == {pair \in Nat \X Nat : pair[1] < pair[2]}
<1>1. IsWellFoundedOn(Less, Nat)
  BY NatLessThanWellFounded DEF OpToRel
<1>2. PICK n \in T : \A m \in T : ~(<<m, n>> \in Less)
  <2>. HIDE DEF Less
  <2>. QED
    BY <1>1, WFMin
<1>3. ASSUME NEW m \in T PROVE n <= m
  <2>1. <<m, n>> \in Nat \X Nat /\ <<m, n>>[1] = m /\ <<m, n>>[2] = n
    OBVIOUS
  <2>2. m < n => <<m, n>> \in Less
    BY <2>1
  <2>. QED
    BY <1>2, <2>2
<1>. QED
  BY <1>3

\* A bounded set of numbers has a greatest one.
LEMMA GreatestOf ==
    ASSUME NEW S \in SUBSET Nat, S # {}, NEW n \in Nat, \A s \in S : s <= n
    PROVE  Greatest(S) \in S /\ \A s \in S : s <= Greatest(S)
<1>. DEFINE T == {n - s : s \in S}
<1>1. T \in SUBSET Nat /\ T # {}
  <2>1. \A s \in S : n - s \in Nat
    OBVIOUS
  <2>. QED
    BY <2>1
<1>2. PICK k \in T : \A m \in T : k <= m
  BY <1>1, LeastOf
<1>3. PICK g \in S : k = n - g
  OBVIOUS
<1>4. \A s \in S : g >= s
  BY <1>2, <1>3
<1>. QED
  BY <1>4 DEF Greatest

-----------------------------------------------------------------------------
(* Reconciliation.                                                         *)

\* A message that was never sent, or is gone.
LEMMA BlankMessages == NoMessage \in Outgoing /\ Gone \in Outgoing
<1>1. 0 \in 0..MaxAttempts
  BY OutboxAssumption
<1>2. NoMessage \in Outgoing
  BY <1>1 DEF NoMessage, Outgoing, Statuses
<1>. QED
  BY <1>2 DEF Gone, Outgoing, Statuses

\* Of message b, passing over the taken rows left p: its cursor is at one of them that
\* would have matched, or where it was, and the later ones are remembered.
Passed(v, b, taken, p) ==
    /\ p \in Outgoing
    /\ p = [b EXCEPT !.afterSeq = p.afterSeq, !.consumed = p.consumed]
    /\ p.afterSeq >= b.afterSeq
    /\ p.afterSeq = b.afterSeq
         \/ /\ p.afterSeq \in taken /\ p.afterSeq \in DOMAIN v.entries
            /\ Matches(b, v.entries[p.afterSeq])
    /\ p.consumed = {s \in b.consumed \cup taken : s > p.afterSeq}

\* That is what passing over does (reconcile).
LEMMA PassedOver ==
    ASSUME NEW v, NEW b \in Outgoing, NEW taken \in SUBSET Nat,
           NEW n \in Nat, \A s \in taken : s <= n,
           NEW p, p = PassOver(v, b, taken)
    PROVE  Passed(v, b, taken, p)
<1>. DEFINE would == {s \in taken : s \in DOMAIN v.entries /\ Matches(b, v.entries[s])}
            S == {b.afterSeq} \cup would
            g == Greatest(S)
<1>1. b.afterSeq \in Nat /\ b.consumed \subseteq Nat
  BY DEF Outgoing
<1>2. would \subseteq taken
  OBVIOUS
<1>3. g \in S /\ \A s \in S : s <= g
  <2>. HIDE DEF would
  <2>1. S \in SUBSET Nat /\ S # {}
    BY <1>1, <1>2
  <2>2. ASSUME NEW s \in S PROVE s <= n + b.afterSeq
    <3>1. CASE s = b.afterSeq
      BY <1>1, <3>1
    <3>2. CASE s \in would
      <4>1. s \in Nat /\ s <= n
        BY <1>2, <3>2
      <4>. QED
        BY <1>1, <4>1
    <3>. QED
      BY <3>1, <3>2
  <2>3. n + b.afterSeq \in Nat
    BY <1>1
  <2>. HIDE DEF S
  <2>. QED
    BY <2>1, <2>2, <2>3, GreatestOf
<1>5. p = [b EXCEPT !.afterSeq = g, !.consumed = {s \in b.consumed \cup taken : s > g}]
  BY DEF PassOver, Outgoing
<1>6. p.afterSeq = g /\ p.consumed = {s \in b.consumed \cup taken : s > g}
  BY <1>5 DEF Outgoing
<1>7. g \in Nat /\ g >= b.afterSeq
  <2>. HIDE DEF would
  <2>. QED
    BY <1>1, <1>2, <1>3
<1>8. {s \in b.consumed \cup taken : s > g} \in SUBSET Nat
  BY <1>1
<1>9. p \in Outgoing
  <2>. HIDE DEF g
  <2>. QED
    BY <1>5, <1>7, <1>8 DEF Outgoing
<1>10. p = [b EXCEPT !.afterSeq = p.afterSeq, !.consumed = p.consumed]
  BY <1>5, <1>6
<1>11. g = b.afterSeq \/ (g \in taken /\ g \in DOMAIN v.entries /\ Matches(b, v.entries[g]))
  BY <1>3
<1>. QED
  BY <1>6, <1>7, <1>9, <1>10, <1>11 DEF Passed

\* What a message is settled by is its echo and nobody else's; what would be the
\* echo of one that is left was taken (Assigned).
LEMMA AssignedEchoes ==
    ASSUME NEW v, NEW bs, NEW echo \in [Messages -> 0..MaxInputs], Assigned(v, bs, echo),
           0 \notin DOMAIN v.entries
    PROVE  /\ \A m \in Messages : echo[m] # 0 => echo[m] \in Echoes(v, bs[m])
           /\ \A m, k \in Messages : echo[m] # 0 /\ echo[m] = echo[k] => m = k
           /\ \A m \in Messages : \A s \in Echoes(v, bs[m]) :
                 echo[m] = 0 => \E k \in Messages : echo[k] = s /\ s # 0
<1>. MaxInputs \in Nat /\ MaxMessages \in Nat
  BY OutboxAssumption
<1>1. ASSUME NEW m \in Messages
      PROVE  LET left == Echoes(v, bs[m]) \ {echo[k] : k \in 1..(m - 1)}
             IN  IF left = {} THEN echo[m] = 0 ELSE Least(echo[m], left)
  BY DEF Assigned
<1>2. ASSUME NEW m \in Messages, echo[m] # 0
      PROVE  echo[m] \in Echoes(v, bs[m]) /\ \A k \in 1..(m - 1) : echo[k] # echo[m]
  BY <1>1, <1>2 DEF Least
<1>3. ASSUME NEW m \in Messages, NEW k \in Messages, echo[m] # 0, echo[m] = echo[k]
      PROVE  m = k
  <2>1. m \in 1..MaxMessages /\ k \in 1..MaxMessages
    BY DEF Messages
  <2>2. m < k => m \in 1..(k - 1)
    BY <2>1
  <2>3. k < m => k \in 1..(m - 1)
    BY <2>1
  <2>. QED
    BY <1>2, <1>3, <2>1, <2>2, <2>3
<1>4. ASSUME NEW m \in Messages, NEW s \in Echoes(v, bs[m]), echo[m] = 0
      PROVE  \E k \in Messages : echo[k] = s /\ s # 0
  <2>1. s # 0 /\ 0 \notin Echoes(v, bs[m])
    BY DEF Echoes
  <2>2. s \in {echo[k] : k \in 1..(m - 1)}
    BY <1>1, <1>4, <2>1 DEF Least
  <2>3. 1..(m - 1) \subseteq Messages
    BY DEF Messages
  <2>. QED
    BY <2>1, <2>2, <2>3
<1>. QED
  BY <1>2, <1>3, <1>4

\* What is reconciled fits the timeline it was reconciled with, and looks at no echo
\* (reconcile).
LEMMA ReconcileKeeps ==
    ASSUME NEW v, NEW bs, NEW w, NEW cs, NEW bn, NEW rows, NEW os,
           NEW echo \in [Messages -> 0..MaxInputs],
           Fits(v, bs, w, cs, bn, rows, os), Assigned(v, bs, echo)
    PROVE  LET after == Reconciled(v, bs, echo)
               claimed == cs \cup {Claim(v, bs, m, echo[m]) : m \in {k \in Messages : echo[k] # 0}}
           IN  /\ Fits(v, after, w, claimed, bn, rows, os)
               /\ \A m \in Messages : Echoes(v, after[m]) = {}
<1>. MaxInputs \in Nat
  BY OutboxAssumption
<1>1. /\ v.epoch \in Nat /\ v.nextSeq \in Nat
      /\ DOMAIN v.entries \subseteq 1..v.nextSeq - 1
      /\ 0 \notin DOMAIN v.entries
      /\ \A s \in DOMAIN v.entries : v.entries[s].text = rows[s]
      /\ v.entries \in [DOMAIN v.entries -> Row]
  BY DEF Fits, ViewFits
<1>2. bs \in [Messages -> Outgoing]
  BY DEF Fits, BoxFits
<1>3. /\ \A m \in Messages : echo[m] # 0 => echo[m] \in Echoes(v, bs[m])
      /\ \A m, k \in Messages : echo[m] # 0 /\ echo[m] = echo[k] => m = k
      /\ \A m \in Messages : \A s \in Echoes(v, bs[m]) :
            echo[m] = 0 => \E k \in Messages : echo[k] = s /\ s # 0
  <2>1. 0 \notin DOMAIN v.entries
    BY <1>1
  <2>. QED
    BY <2>1, AssignedEchoes
<1>. DEFINE after == Reconciled(v, bs, echo)
            taken == {echo[m] : m \in Messages} \ {0}
            new == {Claim(v, bs, m, echo[m]) : m \in {k \in Messages : echo[k] # 0}}
            claimed == cs \cup new
<1>4. taken \in SUBSET Nat /\ \A s \in taken : s <= MaxInputs
  OBVIOUS
<1>5. ASSUME NEW m \in Messages, echo[m] # 0
      PROVE  /\ after[m] = Gone
             /\ Here(bs[m], v) /\ Unclaimed(bs[m], echo[m])
             /\ echo[m] \in DOMAIN v.entries /\ echo[m] \in taken
  <2>1. after[m] = Gone
    BY <1>5 DEF Reconciled
  <2>2. echo[m] \in Echoes(v, bs[m])
    BY <1>3, <1>5
  <2>3. echo[m] \in taken
    BY <1>5
  <2>. QED
    BY <2>1, <2>2, <2>3 DEF Echoes
<1>6. ASSUME NEW m \in Messages, echo[m] = 0, Here(bs[m], v), taken # {}
      PROVE  after[m] = PassOver(v, bs[m], taken)
  BY <1>6 DEF Reconciled, Here, Pending
<1>7. ASSUME NEW m \in Messages, echo[m] = 0, Pending(bs[m]), bs[m].epoch # v.epoch
      PROVE  after[m] = [bs[m] EXCEPT !.status = "unconfirmed"]
  BY <1>7 DEF Reconciled, Here
<1>8. ASSUME NEW m \in Messages, echo[m] = 0,
             ~Pending(bs[m]) \/ (Here(bs[m], v) /\ taken = {})
      PROVE  after[m] = bs[m]
  BY <1>8 DEF Reconciled, Here
<1>. HIDE DEF after, taken
<1>. HIDE DEF new
\* Every message is settled, or is what it was with its cursor moved.
<1>9. ASSUME NEW m \in Messages
      PROVE  /\ after[m] \in Outgoing
             /\ \/ after[m] = Gone /\ echo[m] # 0
                \/ /\ echo[m] = 0
                   /\ after[m].text = bs[m].text /\ after[m].attempt = bs[m].attempt
                   /\ after[m].submitted = bs[m].submitted /\ after[m].epoch = bs[m].epoch
                   /\ Pending(after[m]) <=> Pending(bs[m])
                   /\ Live(after[m]) <=> Live(bs[m])
                   /\ after[m].status = "gone" <=> bs[m].status = "gone"
                   /\ after[m].afterSeq >= bs[m].afterSeq
                   /\ after[m].afterSeq = bs[m].afterSeq
                        \/ /\ after[m].afterSeq \in taken /\ after[m].afterSeq \in DOMAIN v.entries
                           /\ Matches(bs[m], v.entries[after[m].afterSeq])
                   /\ after[m].consumed \subseteq bs[m].consumed \cup taken
                   /\ Here(bs[m], v) => \A s \in bs[m].consumed \cup taken :
                                           s > after[m].afterSeq => s \in after[m].consumed
  <2>. bs[m] \in Outgoing
    BY <1>2
  <2>. DEFINE b == bs[m]
              a == after[m]
  <2>1. CASE echo[m] # 0
    BY <1>5, <2>1, BlankMessages
  <2>2. CASE echo[m] = 0 /\ Here(b, v) /\ taken # {}
    <3>1. a = PassOver(v, b, taken)
      BY <1>6, <2>2
    <3>3. /\ a \in Outgoing
          /\ a = [b EXCEPT !.afterSeq = a.afterSeq, !.consumed = a.consumed]
          /\ a.afterSeq >= b.afterSeq
          /\ a.afterSeq = b.afterSeq
               \/ /\ a.afterSeq \in taken /\ a.afterSeq \in DOMAIN v.entries
                  /\ Matches(b, v.entries[a.afterSeq])
          /\ a.consumed = {s \in b.consumed \cup taken : s > a.afterSeq}
      <4>1. Passed(v, b, taken, a)
        BY <1>4, <3>1, PassedOver
      <4>. QED
        BY <4>1 DEF Passed
    <3>. HIDE DEF a
    <3>4. /\ a.text = b.text /\ a.attempt = b.attempt /\ a.submitted = b.submitted
          /\ a.epoch = b.epoch /\ a.status = b.status
      BY <3>3 DEF Outgoing
    <3>5. /\ Pending(a) <=> Pending(b)
          /\ Live(a) <=> Live(b)
      BY <3>4 DEF Pending, Live
    <3>. QED
      BY <2>2, <3>3, <3>4, <3>5 DEF a
  <2>3. CASE echo[m] = 0 /\ Pending(b) /\ b.epoch # v.epoch
    <3>1. a = [b EXCEPT !.status = "unconfirmed"]
      BY <1>7, <2>3
    <3>. HIDE DEF a
    <3>2. a \in Outgoing
      BY <3>1 DEF Outgoing, Statuses
    <3>3. /\ a.text = b.text /\ a.attempt = b.attempt /\ a.submitted = b.submitted
          /\ a.epoch = b.epoch /\ a.status = "unconfirmed"
          /\ a.afterSeq = b.afterSeq /\ a.consumed = b.consumed
      BY <3>1 DEF Outgoing
    <3>4. /\ Pending(a) <=> Pending(b)
          /\ Live(a) <=> Live(b)
          /\ a.status = "gone" <=> b.status = "gone"
          /\ ~Here(b, v)
      BY <3>3, <2>3 DEF Pending, Live, Here
    <3>5. a.afterSeq >= b.afterSeq
      BY <3>3 DEF Outgoing
    <3>. QED
      BY <2>3, <3>2, <3>3, <3>4, <3>5 DEF a
  <2>4. CASE echo[m] = 0 /\ (~Pending(b) \/ (Here(b, v) /\ taken = {}))
    <3>1. a = b
      BY <1>8, <2>4
    <3>2. b.afterSeq >= b.afterSeq
      BY DEF Outgoing
    <3>3. Here(b, v) => taken = {}
      BY <2>4 DEF Here
    <3>. QED
      BY <2>4, <3>1, <3>2, <3>3
  <2>. QED
    BY <2>1, <2>2, <2>3, <2>4 DEF Here
<1>10. after \in [Messages -> Outgoing]
  <2>1. after = [m \in Messages |-> after[m]]
    BY DEF after, Reconciled
  <2>. QED
    BY <1>9, <2>1
<1>11. BoxFits(after, w, os)
  <2>1. ASSUME NEW m \in Messages, Live(after[m])
        PROVE  /\ after[m].text \in Texts /\ after[m].attempt \in Attempts
               /\ after[m].submitted # Unknown =>
                     /\ os[<<m, after[m].attempt>>].verdict = "prepared"
                     /\ os[<<m, after[m].attempt>>].text = after[m].submitted
    <3>1. ~Live(Gone)
      BY DEF Live, Gone, NoMessage
    <3>2. /\ Live(bs[m]) /\ after[m].text = bs[m].text
          /\ after[m].attempt = bs[m].attempt /\ after[m].submitted = bs[m].submitted
      BY <1>9, <2>1, <3>1
    <3>. QED
      BY <3>2 DEF Fits, BoxFits
  <2>2. ASSUME NEW m \in w PROVE Pending(after[m]) \/ after[m].status = "gone"
    <3>1. m \in Messages /\ (Pending(bs[m]) \/ bs[m].status = "gone")
      BY DEF Fits, BoxFits
    <3>2. Gone.status = "gone"
      BY DEF Gone, NoMessage
    <3>. QED
      BY <1>9, <3>1, <3>2
  <2>3. w \subseteq Messages
    BY DEF Fits, BoxFits
  <2>. QED
    BY <1>10, <2>1, <2>2, <2>3 DEF BoxFits
<1>12. /\ cs \subseteq Claims /\ bn \in [Messages -> Nat]
       /\ \A c \in cs :
             /\ c.epoch <= v.epoch
             /\ c.epoch = v.epoch => c.seq \in 1..v.nextSeq - 1
             /\ c.seq > bn[c.message]
             /\ bs[c.message].status = "gone"
       /\ \A c, d \in cs : c.epoch = d.epoch /\ c.seq = d.seq => c = d
  BY DEF Fits, ClaimsFit
<1>13. ASSUME NEW m \in Messages, Here(bs[m], v)
       PROVE  CursorFits(bs[m], bn[m], cs, v, rows)
  BY <1>13 DEF Fits, CursorsFit, Here
\* A new claim is of a row no other claim is of.
<1>14. ASSUME NEW c \in new
       PROVE  \E m \in Messages :
                 /\ echo[m] # 0 /\ c = Claim(v, bs, m, echo[m])
                 /\ c.message = m /\ c.epoch = v.epoch /\ c.seq = echo[m]
                 /\ c \in Claims /\ c.seq \in taken
                 /\ c.seq \in 1..v.nextSeq - 1 /\ c.seq > bn[m]
                 /\ after[m].status = "gone"
                 /\ ~ClaimedIn(cs, v, c.seq)
  <2>1. PICK m \in Messages : echo[m] # 0 /\ c = Claim(v, bs, m, echo[m])
    BY DEF new
  <2>2. c = [message |-> m, attempt |-> bs[m].attempt, epoch |-> v.epoch, seq |-> echo[m]]
    BY <2>1 DEF Claim
  <2>3. bs[m].attempt \in 0..MaxAttempts /\ bs[m].afterSeq \in Nat /\ bn[m] \in Nat
    BY <1>2, <1>12 DEF Outgoing
  <2>4. c \in Claims
    BY <1>1, <2>2, <2>3 DEF Claims
  <2>5. Here(bs[m], v) /\ Unclaimed(bs[m], echo[m]) /\ echo[m] \in 1..v.nextSeq - 1 /\ echo[m] \in taken
    BY <1>1, <1>5, <2>1
  <2>6. bs[m].afterSeq >= bn[m] /\ ~ClaimedIn(cs, v, echo[m])
    <3>1. CursorFits(bs[m], bn[m], cs, v, rows)
      BY <1>13, <2>5
    <3>2. echo[m] > bs[m].afterSeq /\ echo[m] \notin bs[m].consumed
      BY <2>5 DEF Unclaimed
    <3>. QED
      BY <2>3, <2>5, <3>1, <3>2 DEF CursorFits
  <2>7. echo[m] > bn[m]
    BY <2>3, <2>5, <2>6 DEF Unclaimed
  <2>8. after[m].status = "gone"
    BY <1>5, <2>1 DEF Gone, NoMessage
  <2>9. c.message = m /\ c.epoch = v.epoch /\ c.seq = echo[m]
    BY <2>2
  <2>. QED
    BY <2>1, <2>4, <2>5, <2>6, <2>7, <2>8, <2>9
<1>15. ClaimsFit(claimed, after, bn, v)
  <2>1. claimed \subseteq Claims
    BY <1>12, <1>14
  <2>2. ASSUME NEW c \in claimed
        PROVE  /\ c.epoch <= v.epoch
               /\ c.epoch = v.epoch => c.seq \in 1..v.nextSeq - 1
               /\ c.seq > bn[c.message]
               /\ after[c.message].status = "gone"
    <3>1. CASE c \in cs
      <4>1. c.message \in Messages
        BY <1>12, <3>1 DEF Claims
      <4>2. after[c.message].status = "gone"
        <5>1. Gone.status = "gone"
          BY DEF Gone, NoMessage
        <5>. QED
          BY <1>9, <1>12, <3>1, <4>1, <5>1
      <4>. QED
        BY <1>12, <3>1, <4>2
    <3>2. CASE c \in new
      BY <1>1, <1>14, <3>2
    <3>. QED
      BY <3>1, <3>2
  <2>3. ASSUME NEW c \in claimed, NEW d \in claimed, c.epoch = d.epoch, c.seq = d.seq
        PROVE  c = d
    <3>1. CASE c \in cs /\ d \in cs
      BY <1>12, <2>3, <3>1
    <3>2. CASE c \in new /\ d \in new
      BY <1>3, <1>14, <2>3, <3>2
    <3>3. CASE c \in cs /\ d \in new
      BY <1>14, <2>3, <3>3 DEF ClaimedIn
    <3>4. CASE c \in new /\ d \in cs
      BY <1>14, <2>3, <3>4 DEF ClaimedIn
    <3>. QED
      BY <3>1, <3>2, <3>3, <3>4
  <2>. QED
    BY <1>12, <2>1, <2>2, <2>3 DEF ClaimsFit
<1>16. \A s : ClaimedIn(claimed, v, s) <=> (ClaimedIn(cs, v, s) \/ s \in taken)
  <2>1. ASSUME NEW s, ClaimedIn(claimed, v, s) PROVE ClaimedIn(cs, v, s) \/ s \in taken
    <3>1. PICK c \in claimed : c.epoch = v.epoch /\ c.seq = s
      BY <2>1 DEF ClaimedIn
    <3>. QED
      BY <1>14, <3>1 DEF ClaimedIn
  <2>2. ASSUME NEW s, ClaimedIn(cs, v, s) PROVE ClaimedIn(claimed, v, s)
    BY <2>2 DEF ClaimedIn
  <2>3. ASSUME NEW s \in taken PROVE ClaimedIn(claimed, v, s)
    <3>1. PICK m \in Messages : echo[m] = s /\ s # 0
      BY DEF taken
    <3>2. Claim(v, bs, m, s) \in new
      BY <3>1 DEF new
    <3>3. Claim(v, bs, m, s).epoch = v.epoch /\ Claim(v, bs, m, s).seq = s
      BY DEF Claim
    <3>. QED
      BY <3>2, <3>3 DEF ClaimedIn
  <2>. QED
    BY <2>1, <2>2, <2>3
<1>. HIDE DEF claimed
<1>17. ASSUME NEW m \in Messages, Pending(after[m])
       PROVE  CursorFits(after[m], bn[m], claimed, v, rows)
  <2>. DEFINE b == bs[m]
              a == after[m]
  <2>1. /\ Pending(b) /\ echo[m] = 0
        /\ a.text = b.text /\ a.submitted = b.submitted /\ a.epoch = b.epoch
        /\ a.afterSeq >= b.afterSeq
        /\ a.afterSeq = b.afterSeq
             \/ /\ a.afterSeq \in taken /\ a.afterSeq \in DOMAIN v.entries
                /\ Matches(b, v.entries[a.afterSeq])
        /\ a.consumed \subseteq b.consumed \cup taken
        /\ Here(b, v) => \A s \in b.consumed \cup taken : s > a.afterSeq => s \in a.consumed
    <3>1. ~Pending(Gone)
      BY DEF Pending, Gone, NoMessage
    <3>. QED
      BY <1>9, <1>17, <3>1
  <2>2. CursorFits(b, bn[m], cs, v, rows)
    BY <2>1 DEF Fits, CursorsFit
  <2>3. a.epoch <= v.epoch /\ a.afterSeq >= bn[m] /\ a.afterSeq \in Nat /\ b.afterSeq \in Nat
    <3>1. bn[m] \in Nat /\ a.afterSeq \in Nat /\ b.afterSeq \in Nat
      BY <1>2, <1>9, <1>12 DEF Outgoing
    <3>. QED
      BY <2>1, <2>2, <3>1 DEF CursorFits
  <2>4. Here(a, v) <=> Here(b, v)
    BY <1>17, <2>1 DEF Here
  <2>5. ASSUME Here(a, v), NEW s \in Nat, ClaimedIn(claimed, v, s)
        PROVE  s <= a.afterSeq \/ s \in a.consumed
    <3>1. CASE s \in taken
      BY <2>1, <2>3, <2>4, <2>5, <3>1
    <3>2. CASE ClaimedIn(cs, v, s)
      <4>1. s <= b.afterSeq \/ s \in b.consumed
        BY <2>2, <2>4, <2>5, <3>2 DEF CursorFits
      <4>. QED
        BY <2>1, <2>3, <2>4, <2>5, <4>1
    <3>. QED
      BY <1>16, <2>5, <3>1, <3>2
  <2>6. ASSUME Here(a, v), NEW s \in a.consumed
        PROVE  ClaimedIn(claimed, v, s)
    BY <1>16, <2>1, <2>2, <2>4, <2>6 DEF CursorFits
  <2>7. ASSUME Here(a, v), a.afterSeq > bn[m]
        PROVE  ClaimedIn(claimed, v, a.afterSeq) /\ rows[a.afterSeq] \in {a.text, a.submitted}
    <3>1. CASE a.afterSeq = b.afterSeq
      BY <1>16, <2>1, <2>2, <2>4, <2>7, <3>1 DEF CursorFits
    <3>2. CASE /\ a.afterSeq \in taken /\ a.afterSeq \in DOMAIN v.entries
               /\ Matches(b, v.entries[a.afterSeq])
      <4>1. v.entries[a.afterSeq].text = rows[a.afterSeq]
        BY <1>1, <3>2
      <4>2. v.entries[a.afterSeq].text \in {b.text, b.submitted}
        BY <3>2 DEF Matches
      <4>. QED
        BY <1>16, <2>1, <3>2, <4>1, <4>2
    <3>. QED
      BY <2>1, <3>1, <3>2
  <2>. QED
    BY <2>3, <2>5, <2>6, <2>7 DEF CursorFits
<1>18. ASSUME NEW m \in Messages PROVE Echoes(v, after[m]) = {}
  <2>. DEFINE b == bs[m]
              a == after[m]
  <2>1. CASE a = Gone
    BY <2>1 DEF Echoes, Here, Pending, Gone, NoMessage
  <2>2. ASSUME a # Gone, NEW s \in Echoes(v, a) PROVE FALSE
    <3>1. /\ echo[m] = 0 /\ (Pending(a) <=> Pending(b))
          /\ a.text = b.text /\ a.submitted = b.submitted /\ a.epoch = b.epoch
          /\ a.afterSeq >= b.afterSeq
          /\ Here(b, v) => \A r \in b.consumed \cup taken : r > a.afterSeq => r \in a.consumed
      BY <1>9, <2>2
    <3>2. s \in DOMAIN v.entries /\ Here(a, v) /\ Unclaimed(a, s) /\ Matches(a, v.entries[s])
      BY <2>2 DEF Echoes
    <3>3. Here(b, v) /\ Matches(b, v.entries[s])
      BY <3>1, <3>2 DEF Here, Matches
    <3>4. s > a.afterSeq /\ s \notin b.consumed /\ s \notin taken
      BY <3>1, <3>2, <3>3 DEF Unclaimed
    <3>5. s \in Nat /\ a.afterSeq \in Nat /\ b.afterSeq \in Nat
      BY <1>1, <1>2, <1>9, <3>2 DEF Outgoing
    <3>6. s \in Echoes(v, b)
      BY <3>1, <3>2, <3>3, <3>4, <3>5 DEF Echoes, Unclaimed
    <3>. QED
      BY <1>3, <3>1, <3>4, <3>6 DEF taken
  <2>. QED
    BY <2>1, <2>2
<1>. QED
  <2>1. CursorsFit(after, bn, claimed, v, rows)
    BY <1>17 DEF CursorsFit
  <2>2. ViewFits(v, rows)
    BY DEF Fits
  <2>3. Fits(v, after, w, claimed, bn, rows, os)
    BY <1>11, <1>15, <2>1, <2>2 DEF Fits
  <2>. QED
    BY <1>18, <2>3 DEF claimed, new, after

\* Whatever an action makes of the timeline and the outbox, Replace leaves the like of
\* it, reconciled if no digest is awaited (AgentReplica.replace).
LEMMA ReplaceKeeps ==
    ASSUME NEW v, NEW bs, NEW w, NEW bn, NEW rows, NEW os, Len(rows) \in Nat,
           Replace(v, bs), Fits(v, bs, w, claims, bn, rows, os)
    PROVE  /\ Fits(view', box', w, claims', bn, rows, os)
           /\ Scanned(box', view')
<1>. DEFINE u == DigestsStarted(v, bs)
<1>1. ViewFits(v, rows)
  BY DEF Fits
<1>2. /\ u.epoch = v.epoch /\ u.nextSeq = v.nextSeq /\ DOMAIN u.entries = DOMAIN v.entries
      /\ u = [epoch |-> u.epoch, entries |-> u.entries, nextSeq |-> u.nextSeq]
      /\ u.entries = [s \in DOMAIN v.entries |->
                         IF Hashed(v, bs, s) /\ v.entries[s].digest = "none"
                         THEN [v.entries[s] EXCEPT !.digest = "pending"] ELSE v.entries[s]]
  <2>. DEFINE shown == [s \in DOMAIN v.entries |->
                           IF Hashed(v, bs, s) /\ v.entries[s].digest = "none"
                           THEN [v.entries[s] EXCEPT !.digest = "pending"] ELSE v.entries[s]]
  <2>1. u = [v EXCEPT !.entries = shown]
    BY DEF DigestsStarted
  <2>2. v = [epoch |-> v.epoch, entries |-> v.entries, nextSeq |-> v.nextSeq]
    BY <1>1 DEF ViewFits
  <2>3. DOMAIN shown = DOMAIN v.entries
    OBVIOUS
  <2>. HIDE DEF shown, u
  <2>4. u = [epoch |-> v.epoch, entries |-> shown, nextSeq |-> v.nextSeq]
    BY <2>1, <2>2
  <2>5. u.epoch = v.epoch /\ u.nextSeq = v.nextSeq /\ u.entries = shown
    BY <2>4
  <2>. QED
    BY <2>3, <2>4, <2>5 DEF shown
<1>3. ASSUME NEW s \in DOMAIN v.entries
      PROVE  u.entries[s] \in Row /\ u.entries[s].text = v.entries[s].text
  <2>1. v.entries[s] \in Row
    BY <1>1 DEF ViewFits
  <2>2. [v.entries[s] EXCEPT !.digest = "pending"] \in Row
    BY <2>1 DEF Row
  <2>3. [v.entries[s] EXCEPT !.digest = "pending"].text = v.entries[s].text
    BY <2>1 DEF Row
  <2>. HIDE DEF u
  <2>. QED
    BY <1>2, <2>1, <2>2, <2>3
<1>4. view' = u
  BY DEF Replace
<1>. HIDE DEF u
<1>5. ViewFits(u, rows)
  <2>1. u.entries \in [DOMAIN u.entries -> Row]
    BY <1>2, <1>3
  <2>. QED
    BY <1>1, <1>2, <1>3, <2>1 DEF ViewFits
<1>6. \A b : Here(b, u) <=> Here(b, v)
  BY <1>2 DEF Here
<1>7. \A cs, s : ClaimedIn(cs, u, s) <=> ClaimedIn(cs, v, s)
  BY <1>2 DEF ClaimedIn
<1>8. ClaimsFit(claims, bs, bn, u)
  BY <1>2 DEF Fits, ClaimsFit
<1>9. CursorsFit(bs, bn, claims, u, rows)
  BY <1>2, <1>6, <1>7 DEF Fits, CursorsFit, CursorFits
<1>10. Fits(u, bs, w, claims, bn, rows, os)
  BY <1>5, <1>8, <1>9 DEF Fits
<1>11. CASE DigestsReady(u, bs)
  <2>1. PICK echo \in [Messages -> 0..MaxInputs] :
           /\ Assigned(u, bs, echo)
           /\ box' = Reconciled(u, bs, echo)
           /\ claims' = claims \cup {Claim(u, bs, m, echo[m]) : m \in {k \in Messages : echo[k] # 0}}
    BY <1>11 DEF Replace, u
  <2>2. Fits(u, box', w, claims', bn, rows, os) /\ \A m \in Messages : Echoes(u, box'[m]) = {}
    BY <1>10, <2>1, ReconcileKeeps
  <2>. QED
    BY <1>4, <2>2 DEF Scanned
<1>12. CASE ~DigestsReady(u, bs)
  <2>1. box' = bs /\ claims' = claims
    BY <1>12 DEF Replace, u
  <2>2. \E s \in DOMAIN u.entries : u.entries[s].digest = "pending"
    BY <1>12 DEF DigestsReady
  <2>. QED
    BY <1>4, <1>10, <2>1, <2>2 DEF Scanned
<1>. QED
  BY <1>11, <1>12

-----------------------------------------------------------------------------
(* Timelines of the page.                                                  *)

\* The latest page of history shows its rows as they are (applyTimelineReplacement).
LEMMA LatestPageFits ==
    ASSUME NEW epoch \in Nat \ {0}, NEW rows \in Seq(Texts)
    PROVE  /\ ViewFits(LatestPage(epoch, rows), rows)
           /\ LatestPage(epoch, rows).epoch = epoch
           /\ LatestPage(epoch, rows).nextSeq = Len(rows) + 1
<1>. DEFINE shown == [s \in {r \in 1..Len(rows) : r > Len(rows) - Window} |->
                         [text |-> rows[s], digest |-> "none"]]
<1>1. LatestPage(epoch, rows) = [epoch |-> epoch, nextSeq |-> Len(rows) + 1, entries |-> shown]
  BY DEF LatestPage
<1>2. Len(rows) \in Nat
  OBVIOUS
<1>3. DOMAIN shown \subseteq 1..Len(rows)
  OBVIOUS
<1>4. ASSUME NEW s \in DOMAIN shown
      PROVE  shown[s] \in Row /\ shown[s].text = rows[s]
  <2>1. rows[s] \in Texts
    BY <1>3
  <2>. QED
    BY <2>1 DEF Row
<1>5. shown \in [DOMAIN shown -> Row]
  <2>1. shown = [s \in DOMAIN shown |-> shown[s]]
    OBVIOUS
  <2>. HIDE DEF shown
  <2>. QED
    BY <1>4, <2>1
<1>. HIDE DEF shown
<1>. QED
  BY <1>1, <1>2, <1>3, <1>4, <1>5 DEF ViewFits

\* A history page adds rows of the log (applyHistoryPage, applyStream).
LEMMA WithFits ==
    ASSUME NEW v, ViewFits(v, log), log \in Seq(Texts),
           NEW rows \in SUBSET (1..Len(log))
    PROVE  /\ ViewFits(With(v, rows), log)
           /\ With(v, rows).epoch = v.epoch
           /\ With(v, rows).nextSeq >= v.nextSeq
<1>. DEFINE shown == [s \in DOMAIN v.entries \cup rows |->
                         IF s \in DOMAIN v.entries THEN v.entries[s]
                         ELSE [text |-> log[s], digest |-> "none"]]
            ends == {s + 1 : s \in rows}
            S == {v.nextSeq} \cup ends
            next == Greatest(S)
<1>1. /\ v = [epoch |-> v.epoch, entries |-> v.entries, nextSeq |-> v.nextSeq]
      /\ v.epoch \in Nat \ {0} /\ v.nextSeq \in 1..Len(log) + 1
      /\ DOMAIN v.entries \subseteq 1..v.nextSeq - 1
      /\ v.entries \in [DOMAIN v.entries -> Row]
      /\ \A s \in DOMAIN v.entries : v.entries[s].text = log[s]
      /\ Len(log) \in Nat
  BY DEF ViewFits
<1>2. next \in S /\ \A s \in S : s <= next
  <2>1. \A s \in rows : s + 1 \in Nat /\ s + 1 <= Len(log) + 1
    BY <1>1
  <2>2. S \in SUBSET Nat /\ S # {} /\ \A s \in S : s <= Len(log) + 1
    BY <1>1, <2>1
  <2>3. Len(log) + 1 \in Nat
    BY <1>1
  <2>. HIDE DEF S
  <2>. QED
    BY <2>2, <2>3, GreatestOf
<1>3. next \in 1..Len(log) + 1 /\ next >= v.nextSeq /\ \A s \in rows : s + 1 <= next
  <2>1. \A s \in rows : s + 1 \in 1..Len(log) + 1
    BY <1>1
  <2>2. S \subseteq 1..Len(log) + 1
    BY <1>1, <2>1
  <2>3. v.nextSeq \in S /\ \A s \in rows : s + 1 \in S
    OBVIOUS
  <2>. HIDE DEF S, next
  <2>. QED
    BY <1>1, <1>2, <2>2, <2>3
<1>4. With(v, rows) = [v EXCEPT !.entries = shown, !.nextSeq = next]
  BY DEF With
<1>5. DOMAIN shown = DOMAIN v.entries \cup rows
  OBVIOUS
<1>6. ASSUME NEW s \in DOMAIN shown
      PROVE  shown[s] \in Row /\ shown[s].text = log[s]
  <2>1. CASE s \in DOMAIN v.entries
    BY <1>1, <2>1
  <2>2. CASE s \in rows /\ s \notin DOMAIN v.entries
    <3>1. log[s] \in Texts
      BY <2>2
    <3>. QED
      BY <2>2, <3>1 DEF Row
  <2>. QED
    BY <1>5, <2>1, <2>2
<1>7. shown \in [DOMAIN shown -> Row]
  <2>1. shown = [s \in DOMAIN shown |-> shown[s]]
    OBVIOUS
  <2>. HIDE DEF shown
  <2>. QED
    BY <1>6, <2>1
<1>. HIDE DEF shown, next
<1>8. With(v, rows) = [epoch |-> v.epoch, entries |-> shown, nextSeq |-> next]
  BY <1>1, <1>4
<1>9. ASSUME NEW s \in DOMAIN shown PROVE s \in 1..next - 1
  BY <1>1, <1>3, <1>5
<1>. QED
  BY <1>1, <1>3, <1>6, <1>7, <1>8, <1>9 DEF ViewFits

-----------------------------------------------------------------------------
(* The actions.                                                            *)

\* What an action may make of the outbox without sending anything: what is gone stays
\* gone, and what is pending was so with the same cursor; only an acknowledgement
\* tells what was submitted.
Kept(bs) ==
    \A m \in Messages :
        /\ box[m].status = "gone" => bs[m].status = "gone"
        /\ Pending(bs[m]) =>
              /\ Pending(box[m])
              /\ bs[m].text = box[m].text /\ bs[m].epoch = box[m].epoch
              /\ bs[m].afterSeq = box[m].afterSeq /\ bs[m].consumed = box[m].consumed
              /\ bs[m].submitted = box[m].submitted \/ box[m].submitted = Unknown

\* Such an action keeps the invariant, if what it shows is of the same epoch.
LEMMA SameEpochKeeps ==
    ASSUME OutboxIInv, NEW v, NEW bs,
           ViewFits(v, log), v.epoch = view.epoch, v.nextSeq >= view.nextSeq,
           BoxFits(bs, waiting', ops), Kept(bs), Replace(v, bs),
           UNCHANGED <<log, ops, born>>, upsets' \in 0..MaxUpsets
    PROVE  OutboxIInv'
<1>1. /\ log \in Seq(Texts) /\ Len(log) \in Nat /\ OpsFit(ops)
      /\ ViewFits(view, log) /\ BoxFits(box, waiting, ops)
      /\ ClaimsFit(claims, box, born, view)
      /\ CursorsFit(box, born, claims, view, log)
  BY DEF OutboxIInv, Fits
<1>2. /\ v.nextSeq \in Nat /\ view.nextSeq \in Nat /\ view.nextSeq <= Len(log) + 1
  BY <1>1 DEF ViewFits
<1>3. \A cs, s : ClaimedIn(cs, v, s) <=> ClaimedIn(cs, view, s)
  BY DEF ClaimedIn
<1>4. \A b : Here(b, v) <=> Here(b, view)
  BY DEF Here
<1>5. ClaimsFit(claims, bs, born, v)
  <2>1. ASSUME NEW c \in claims
        PROVE  /\ c.epoch <= v.epoch
               /\ c.epoch = v.epoch => c.seq \in 1..v.nextSeq - 1
               /\ c.seq > born[c.message]
               /\ bs[c.message].status = "gone"
    <3>1. c \in Claims
      BY <1>1 DEF ClaimsFit
    <3>2. c.message \in Messages /\ c.seq \in Nat
      BY <3>1 DEF Claims
    <3>3. bs[c.message].status = "gone"
      BY <1>1, <3>2 DEF ClaimsFit, Kept
    <3>4. c.epoch = v.epoch => c.seq \in 1..v.nextSeq - 1
      BY <1>1, <1>2, <3>2 DEF ClaimsFit
    <3>. QED
      BY <1>1, <3>3, <3>4 DEF ClaimsFit
  <2>. QED
    BY <1>1, <2>1 DEF ClaimsFit
<1>6. ASSUME NEW m \in Messages, Pending(bs[m])
      PROVE  CursorFits(bs[m], born[m], claims, v, log)
  <2>1. /\ Pending(box[m])
        /\ bs[m].text = box[m].text /\ bs[m].epoch = box[m].epoch
        /\ bs[m].afterSeq = box[m].afterSeq /\ bs[m].consumed = box[m].consumed
        /\ bs[m].submitted = box[m].submitted \/ box[m].submitted = Unknown
    BY <1>6 DEF Kept
  <2>2. CursorFits(box[m], born[m], claims, view, log)
    BY <1>1, <2>1 DEF CursorsFit
  <2>3. Here(bs[m], v) <=> Here(box[m], view)
    BY <1>4, <1>6, <2>1 DEF Here
  <2>4. ASSUME Here(bs[m], v), bs[m].afterSeq > born[m]
        PROVE  /\ ClaimedIn(claims, v, bs[m].afterSeq)
               /\ log[bs[m].afterSeq] \in {bs[m].text, bs[m].submitted}
    <3>1. /\ ClaimedIn(claims, view, box[m].afterSeq)
          /\ log[box[m].afterSeq] \in {box[m].text, box[m].submitted}
      BY <2>1, <2>2, <2>3, <2>4 DEF CursorFits
    <3>2. box[m].afterSeq \in 1..view.nextSeq - 1
      BY <1>1, <3>1 DEF ClaimedIn, ClaimsFit
    <3>3. log[box[m].afterSeq] \in Texts
      BY <1>1, <1>2, <3>2
    <3>4. log[box[m].afterSeq] # Unknown
      BY <3>3, OutboxAssumption
    <3>. QED
      BY <1>3, <2>1, <3>1, <3>4
  <2>. QED
    BY <1>3, <2>1, <2>2, <2>3, <2>4 DEF CursorFits
<1>7. Fits(v, bs, waiting', claims, born, log, ops)
  BY <1>5, <1>6 DEF Fits, CursorsFit
<1>8. /\ Fits(view', box', waiting', claims', born, log, ops)
      /\ Scanned(box', view')
  BY <1>1, <1>7, ReplaceKeeps
<1>9. Fits(view', box', waiting', claims', born', log', ops') /\ log' \in Seq(Texts) /\ OpsFit(ops')
  BY <1>1, <1>8
<1>. QED
  BY <1>8, <1>9 DEF OutboxIInv

\* Leaving the outbox alone is such a change.
LEMMA BoxKept ==
    ASSUME OutboxIInv
    PROVE  Kept(box) /\ BoxFits(box, waiting, ops)
BY DEF Kept, OutboxIInv, Fits

\* What the Host and other users do reaches the page later only.
LEMMA WorldKeeps ==
    ASSUME OutboxIInv, log' \in Seq(Texts), OpsFit(ops'), upsets' \in 0..MaxUpsets,
           Len(log') >= Len(log), \A s \in 1..Len(log) : log'[s] = log[s],
           \A o \in Operations : ops[o].verdict = "prepared" =>
               ops'[o].verdict = "prepared" /\ ops'[o].text = ops[o].text,
           UNCHANGED <<view, box, waiting, claims, born>>
    PROVE  OutboxIInv'
<1>1. /\ log \in Seq(Texts) /\ Len(log) \in Nat /\ Len(log') \in Nat /\ Scanned(box, view)
      /\ ViewFits(view, log) /\ BoxFits(box, waiting, ops)
      /\ ClaimsFit(claims, box, born, view)
      /\ CursorsFit(box, born, claims, view, log)
  BY DEF OutboxIInv, Fits
<1>2. view.nextSeq \in 1..Len(log) + 1
  BY <1>1 DEF ViewFits
<1>3. 1..view.nextSeq - 1 \subseteq 1..Len(log)
  BY <1>1, <1>2
<1>4. ViewFits(view, log')
  <2>1. view.nextSeq \in 1..Len(log') + 1
    BY <1>1, <1>2
  <2>2. \A s \in DOMAIN view.entries : log'[s] = log[s]
    BY <1>1, <1>3 DEF ViewFits
  <2>. QED
    BY <1>1, <2>1, <2>2 DEF ViewFits
<1>5. BoxFits(box, waiting, ops')
  <2>1. ASSUME NEW m \in Messages, Live(box[m]), box[m].submitted # Unknown
        PROVE  /\ ops'[<<m, box[m].attempt>>].verdict = "prepared"
               /\ ops'[<<m, box[m].attempt>>].text = box[m].submitted
    <3>1. <<m, box[m].attempt>> \in Operations
      BY <1>1, <2>1 DEF BoxFits, Operations
    <3>. QED
      BY <1>1, <2>1, <3>1 DEF BoxFits
  <2>. QED
    BY <1>1, <2>1 DEF BoxFits
<1>6. CursorsFit(box, born, claims, view, log')
  <2>1. ASSUME NEW m \in Messages, Pending(box[m])
        PROVE  CursorFits(box[m], born[m], claims, view, log')
    <3>1. CursorFits(box[m], born[m], claims, view, log)
      BY <1>1, <2>1 DEF CursorsFit
    <3>2. ClaimedIn(claims, view, box[m].afterSeq) => log'[box[m].afterSeq] = log[box[m].afterSeq]
      BY <1>1, <1>3 DEF ClaimedIn, ClaimsFit
    <3>. QED
      BY <3>1, <3>2 DEF CursorFits
  <2>. QED
    BY <2>1 DEF CursorsFit
<1>7. Fits(view', box', waiting', claims', born', log', ops') /\ Scanned(box', view')
  BY <1>1, <1>4, <1>5, <1>6 DEF Fits
<1>. QED
  BY <1>7 DEF OutboxIInv

\* A message's operation is carried out.
LEMMA CarryOutKeeps ==
    ASSUME OutboxIInv, NEW m \in Messages, NEW k \in Attempts, CarryOut(m, k)
    PROVE  OutboxIInv'
<1>. DEFINE text == ops[<<m, k>>].text
<1>1. OpsFit(ops) /\ <<m, k>> \in Operations /\ ops[<<m, k>>].verdict = "sent"
  BY DEF OutboxIInv, CarryOut, Operations
<1>2. text \in Texts /\ Prepared[text] \in Texts
  BY <1>1, OutboxAssumption DEF OpsFit
<1>3. PICK verdict \in {"accepted", "prepared", "handled", "refused", "unknown"},
           echo \in {"none", "due"}, input \in Texts :
         ops' = [ops EXCEPT ![<<m, k>>] = [verdict |-> verdict, echo |-> echo, text |-> input]]
  BY <1>2 DEF CarryOut, Operated
<1>4. OpsFit(ops')
  <2>1. [verdict |-> verdict, echo |-> echo, text |-> input] \in Operation
    BY DEF Operation
  <2>. QED
    BY <1>1, <1>3, <2>1 DEF OpsFit
<1>5. \A o \in Operations : ops[o].verdict = "prepared" =>
          ops'[o].verdict = "prepared" /\ ops'[o].text = ops[o].text
  BY <1>1, <1>3 DEF OpsFit
<1>6. upsets' \in 0..MaxUpsets
  <2>1. upsets \in 0..MaxUpsets /\ MaxUpsets \in Nat
    BY OutboxAssumption DEF OutboxIInv
  <2>. QED
    BY <2>1 DEF CarryOut, Upset
<1>7. log' \in Seq(Texts) /\ Len(log') >= Len(log) /\ \A s \in 1..Len(log) : log'[s] = log[s]
  BY DEF CarryOut, OutboxIInv
<1>8. UNCHANGED <<view, box, waiting, claims, born>>
  BY DEF CarryOut
<1>. QED
  BY <1>4, <1>5, <1>6, <1>7, <1>8, WorldKeeps

\* An echo or the input of another user joins the log.
LEMMA InputKeeps ==
    ASSUME OutboxIInv,
           OthersInput \/ \E m \in Messages, k \in Attempts : Echo(m, k)
    PROVE  OutboxIInv'
<1>1. log \in Seq(Texts) /\ OpsFit(ops) /\ upsets \in 0..MaxUpsets /\ MaxUpsets \in Nat
  BY OutboxAssumption DEF OutboxIInv
<1>2. CASE OthersInput
  <2>1. PICK text \in Texts : log' = Append(log, text)
    BY <1>2 DEF OthersInput
  <2>2. log' \in Seq(Texts) /\ Len(log') >= Len(log) /\ \A s \in 1..Len(log) : log'[s] = log[s]
    BY <1>1, <2>1
  <2>3. upsets' \in 0..MaxUpsets /\ ops' = ops /\ UNCHANGED <<view, box, waiting, claims, born>>
    BY <1>1, <1>2 DEF OthersInput, Upset
  <2>. QED
    BY <1>1, <2>2, <2>3, WorldKeeps
<1>3. ASSUME NEW m \in Messages, NEW k \in Attempts, Echo(m, k)
      PROVE  OutboxIInv'
  <2>1. <<m, k>> \in Operations /\ ops[<<m, k>>].text \in Texts
    BY <1>1, <1>3 DEF Echo, OpsFit, Operations
  <2>2. log' \in Seq(Texts) /\ Len(log') >= Len(log) /\ \A s \in 1..Len(log) : log'[s] = log[s]
    BY <1>1, <1>3, <2>1 DEF Echo
  <2>3. /\ ops' = [ops EXCEPT ![<<m, k>>].echo = "logged"]
        /\ upsets' \in 0..MaxUpsets /\ UNCHANGED <<view, box, waiting, claims, born>>
    BY <1>1, <1>3 DEF Echo
  <2>4. OpsFit(ops')
    <3>1. ops[<<m, k>>] \in Operation
      BY <1>1, <2>1 DEF OpsFit
    <3>2. /\ [ops[<<m, k>>] EXCEPT !.echo = "logged"] \in Operation
          /\ [ops[<<m, k>>] EXCEPT !.echo = "logged"].text = ops[<<m, k>>].text
          /\ [ops[<<m, k>>] EXCEPT !.echo = "logged"].echo = "logged"
      BY <3>1 DEF Operation
    <3>. QED
      BY <1>1, <2>1, <2>3, <3>2 DEF OpsFit
  <2>5. \A o \in Operations : ops[o].verdict = "prepared" =>
            ops'[o].verdict = "prepared" /\ ops'[o].text = ops[o].text
    BY <1>1, <2>3 DEF OpsFit, Operation
  <2>. QED
    BY <2>2, <2>3, <2>4, <2>5, WorldKeeps
<1>. QED
  BY <1>2, <1>3

\* Rows arrive: live, with older history or by the echo scan.
LEMMA RowsKeep ==
    ASSUME OutboxIInv, ShowNext \/ ShowOlder \/ ScanPage
    PROVE  OutboxIInv'
<1>1. /\ UNCHANGED <<log, ops, waiting, born, upsets>>
      /\ \E rows \in SUBSET NotShown : Shows(rows)
  <2>1. CASE ShowNext
    BY <2>1 DEF ShowNext
  <2>2. CASE ShowOlder
    BY <2>2 DEF ShowOlder
  <2>3. CASE ScanPage
    BY <2>3 DEF ScanPage
  <2>. QED
    BY <2>1, <2>2, <2>3
<1>2. PICK rows \in SUBSET NotShown : Replace(With(view, rows), box)
  BY <1>1 DEF Shows
<1>3. rows \in SUBSET (1..Len(log))
  BY <1>2 DEF NotShown
<1>4. log \in Seq(Texts) /\ ViewFits(view, log) /\ upsets' \in 0..MaxUpsets
  BY <1>1 DEF OutboxIInv, Fits
<1>5. /\ ViewFits(With(view, rows), log)
      /\ With(view, rows).epoch = view.epoch
      /\ With(view, rows).nextSeq >= view.nextSeq
  BY <1>3, <1>4, WithFits
<1>6. Kept(box) /\ BoxFits(box, waiting', ops)
  BY <1>1, BoxKept
<1>. QED
  BY <1>1, <1>2, <1>4, <1>5, <1>6, SameEpochKeeps

\* A digest is there, or cannot be computed.
LEMMA DigestKeeps ==
    ASSUME OutboxIInv, NEW s, DigestEnds(s)
    PROVE  OutboxIInv'
<1>1. PICK digest \in {"done", "failed"} :
         /\ digest = "failed" => upsets < MaxUpsets
         /\ upsets' = IF digest = "failed" THEN upsets + 1 ELSE upsets
         /\ Replace([view EXCEPT !.entries[s].digest = digest], box)
  BY DEF DigestEnds
<1>2. s \in DOMAIN view.entries /\ UNCHANGED <<log, ops, waiting, born>>
  BY DEF DigestEnds
<1>. DEFINE v == [view EXCEPT !.entries[s].digest = digest]
            shown == [view.entries EXCEPT ![s].digest = digest]
<1>3. ViewFits(view, log) /\ upsets' \in 0..MaxUpsets
  <2>1. upsets \in 0..MaxUpsets /\ MaxUpsets \in Nat /\ ViewFits(view, log)
    BY OutboxAssumption DEF OutboxIInv, Fits
  <2>. QED
    BY <1>1, <2>1
<1>4. view = [epoch |-> view.epoch, entries |-> view.entries, nextSeq |-> view.nextSeq]
  BY <1>3 DEF ViewFits
<1>5. v = [epoch |-> view.epoch, entries |-> shown, nextSeq |-> view.nextSeq]
  BY <1>4
<1>6. /\ DOMAIN shown = DOMAIN view.entries
      /\ \A r \in DOMAIN shown : shown[r] \in Row /\ shown[r].text = view.entries[r].text
  <2>1. view.entries \in [DOMAIN view.entries -> Row]
    BY <1>3 DEF ViewFits
  <2>2. /\ [view.entries[s] EXCEPT !.digest = digest] \in Row
        /\ [view.entries[s] EXCEPT !.digest = digest].text = view.entries[s].text
    BY <1>2, <2>1 DEF Row
  <2>. QED
    BY <1>2, <2>1, <2>2
<1>7. shown \in [DOMAIN shown -> Row]
  <2>1. shown = [r \in DOMAIN shown |-> shown[r]]
    BY <1>3 DEF ViewFits
  <2>. HIDE DEF shown
  <2>. QED
    BY <1>6, <2>1
<1>. HIDE DEF shown
<1>8. /\ ViewFits(v, log) /\ v.epoch = view.epoch /\ v.nextSeq >= view.nextSeq
  <2>1. v.epoch = view.epoch /\ v.nextSeq = view.nextSeq /\ v.entries = shown
    BY <1>5
  <2>2. view.nextSeq >= view.nextSeq
    BY <1>3 DEF ViewFits
  <2>. QED
    BY <1>3, <1>5, <1>6, <1>7, <2>1, <2>2 DEF ViewFits
<1>9. Kept(box) /\ BoxFits(box, waiting', ops)
  BY <1>2, BoxKept
<1>. QED
  BY <1>1, <1>2, <1>3, <1>8, <1>9, SameEpochKeeps

\* The Relay's timeline is replaced: no claim and no message is of the new epoch.
LEMMA NewEpochKeeps ==
    ASSUME OutboxIInv, NewEpoch
    PROVE  OutboxIInv'
<1>1. PICK rows \in {<<>>, log} : log' = rows /\ Replace(LatestPage(view.epoch + 1, rows), box)
  BY DEF NewEpoch
<1>. DEFINE v == LatestPage(view.epoch + 1, rows)
<1>2. /\ log \in Seq(Texts) /\ OpsFit(ops) /\ ViewFits(view, log) /\ BoxFits(box, waiting, ops)
      /\ ClaimsFit(claims, box, born, view)
      /\ CursorsFit(box, born, claims, view, log)
      /\ upsets \in 0..MaxUpsets /\ MaxUpsets \in Nat
  BY OutboxAssumption DEF OutboxIInv, Fits
<1>3. rows \in Seq(Texts) /\ Len(rows) \in Nat
  <2>1. CASE rows = <<>>
    BY <2>1
  <2>2. CASE rows = log
    BY <1>2, <2>2
  <2>. QED
    BY <2>1, <2>2
<1>4. view.epoch + 1 \in Nat \ {0} /\ view.epoch \in Nat
  BY <1>2 DEF ViewFits
<1>5. ViewFits(v, rows) /\ v.epoch = view.epoch + 1
  BY <1>3, <1>4, LatestPageFits
<1>. HIDE DEF v
<1>6. ClaimsFit(claims, box, born, v)
  <2>1. ASSUME NEW c \in claims PROVE c.epoch <= v.epoch /\ c.epoch # v.epoch
    <3>1. c.epoch \in Nat /\ c.epoch <= view.epoch
      BY <1>2 DEF ClaimsFit, Claims
    <3>. QED
      BY <1>4, <1>5, <3>1
  <2>. QED
    BY <1>2, <2>1 DEF ClaimsFit
<1>7. ASSUME NEW m \in Messages, Pending(box[m])
      PROVE  CursorFits(box[m], born[m], claims, v, rows)
  <2>1. /\ box[m].epoch \in Nat /\ box[m].epoch <= view.epoch
        /\ box[m].afterSeq >= born[m]
    BY <1>2, <1>7 DEF CursorsFit, CursorFits, BoxFits, Outgoing
  <2>2. box[m].epoch <= v.epoch /\ ~Here(box[m], v)
    BY <1>4, <1>5, <2>1 DEF Here
  <2>. QED
    BY <2>1, <2>2 DEF CursorFits
<1>8. Fits(v, box, waiting, claims, born, rows, ops)
  BY <1>2, <1>5, <1>6, <1>7 DEF Fits, CursorsFit
<1>9. Replace(v, box)
  BY <1>1 DEF v
<1>10. /\ Fits(view', box', waiting, claims', born, rows, ops)
       /\ Scanned(box', view')
  BY <1>3, <1>8, <1>9, ReplaceKeeps
<1>11. waiting' = waiting /\ born' = born /\ ops' = ops /\ upsets' \in 0..MaxUpsets
  BY <1>2 DEF NewEpoch, Upset
<1>. QED
  BY <1>1, <1>2, <1>3, <1>10, <1>11 DEF OutboxIInv

\* A message with an operation of its own begins where the page is now.
Begun(text, k) ==
    [NoMessage EXCEPT !.status = "sending", !.text = text, !.attempt = k,
                      !.epoch = view.epoch, !.afterSeq = Cursor]

\* It is behind every claim, and there is none of it (beginMessage).
LEMMA BegunKeeps ==
    ASSUME OutboxIInv, NEW m \in Messages, NEW text \in Texts, NEW k \in Attempts,
           box[m].status # "gone",
           Requested(m, k, text), waiting' = waiting \cup {m},
           ReplaceMessage(m, Begun(text, k)), UNCHANGED <<log, upsets>>
    PROVE  OutboxIInv'
<1>. DEFINE b == Begun(text, k)
            bs == [box EXCEPT ![m] = b]
<1>1. /\ log \in Seq(Texts) /\ Len(log) \in Nat /\ OpsFit(ops) /\ upsets \in 0..MaxUpsets
      /\ ViewFits(view, log) /\ BoxFits(box, waiting, ops)
      /\ ClaimsFit(claims, box, born, view)
      /\ CursorsFit(box, born, claims, view, log)
  BY DEF OutboxIInv, Fits
<1>2. view.epoch \in Nat /\ view.nextSeq \in Nat /\ Cursor \in Nat /\ Cursor = view.nextSeq - 1
  BY <1>1 DEF ViewFits, Cursor
<1>3. /\ b \in Outgoing
      /\ b.status = "sending" /\ b.text = text /\ b.attempt = k /\ b.submitted = Unknown
      /\ b.epoch = view.epoch /\ b.afterSeq = Cursor /\ b.consumed = {}
  <2>1. k \in 0..MaxAttempts
    BY DEF Attempts
  <2>2. NoMessage \in Outgoing /\ NoMessage.submitted = Unknown /\ NoMessage.consumed = {}
    BY BlankMessages DEF NoMessage
  <2>3. b = [NoMessage EXCEPT !.status = "sending", !.text = text, !.attempt = k,
                              !.epoch = view.epoch, !.afterSeq = Cursor]
    BY DEF Begun
  <2>. HIDE DEF b
  <2>4. b \in Outgoing
    BY <1>2, <2>1, <2>2, <2>3 DEF Outgoing, Statuses
  <2>. QED
    BY <2>2, <2>3, <2>4 DEF Outgoing
<1>. HIDE DEF b
<1>4. /\ bs \in [Messages -> Outgoing] /\ bs[m] = b
      /\ \A n \in Messages : n # m => bs[n] = box[n]
  BY <1>1, <1>3 DEF BoxFits
<1>5. /\ ops' = [ops EXCEPT ![<<m, k>>] = [verdict |-> "sent", echo |-> "none", text |-> text]]
      /\ born' = [born EXCEPT ![m] = Cursor]
  BY DEF Requested
<1>6. OpsFit(ops')
  <2>1. [verdict |-> "sent", echo |-> "none", text |-> text] \in Operation
    BY DEF Operation
  <2>. QED
    BY <1>1, <1>5, <2>1 DEF OpsFit
<1>7. BoxFits(bs, waiting', ops')
  <2>1. ASSUME NEW n \in Messages, Live(bs[n])
        PROVE  /\ bs[n].text \in Texts /\ bs[n].attempt \in Attempts
               /\ bs[n].submitted # Unknown =>
                     /\ ops'[<<n, bs[n].attempt>>].verdict = "prepared"
                     /\ ops'[<<n, bs[n].attempt>>].text = bs[n].submitted
    <3>1. CASE n = m
      BY <1>3, <1>4, <3>1
    <3>2. CASE n # m
      <4>1. bs[n] = box[n] /\ Live(box[n])
        BY <1>4, <2>1, <3>2
      <4>2. box[n].attempt \in Attempts
        BY <1>1, <4>1 DEF BoxFits
      <4>3. <<n, box[n].attempt>> \in Operations /\ <<n, box[n].attempt>> # <<m, k>>
        BY <3>2, <4>2 DEF Operations
      <4>4. ops'[<<n, box[n].attempt>>] = ops[<<n, box[n].attempt>>]
        BY <1>1, <1>5, <4>3 DEF OpsFit
      <4>. QED
        BY <1>1, <4>1, <4>4 DEF BoxFits
    <3>. QED
      BY <3>1, <3>2
  <2>2. ASSUME NEW n \in waiting' PROVE Pending(bs[n]) \/ bs[n].status = "gone"
    <3>1. CASE n = m
      BY <1>3, <1>4, <3>1 DEF Pending
    <3>2. CASE n # m
      BY <1>1, <1>4, <3>2 DEF BoxFits
    <3>. QED
      BY <3>1, <3>2
  <2>3. waiting' \subseteq Messages
    BY <1>1 DEF BoxFits
  <2>. QED
    BY <1>4, <2>1, <2>2, <2>3 DEF BoxFits
<1>8. born' \in [Messages -> Nat] /\ born'[m] = Cursor /\ \A n \in Messages : n # m => born'[n] = born[n]
  BY <1>1, <1>2, <1>5 DEF ClaimsFit
<1>9. ClaimsFit(claims, bs, born', view)
  <2>1. ASSUME NEW c \in claims
        PROVE  c.seq > born'[c.message] /\ bs[c.message].status = "gone"
    <3>1. c.message \in Messages /\ c.message # m
      BY <1>1 DEF ClaimsFit, Claims
    <3>. QED
      BY <1>1, <1>4, <1>8, <3>1 DEF ClaimsFit
  <2>. QED
    BY <1>1, <1>8, <2>1 DEF ClaimsFit
<1>10. ASSUME NEW n \in Messages, Pending(bs[n])
       PROVE  CursorFits(bs[n], born'[n], claims, view, log)
  <2>1. CASE n = m
    <3>1. \A s : ClaimedIn(claims, view, s) => s <= Cursor
      BY <1>1, <1>2 DEF ClaimedIn, ClaimsFit
    <3>. QED
      BY <1>2, <1>3, <1>4, <1>8, <2>1, <3>1 DEF CursorFits
  <2>2. CASE n # m
    BY <1>1, <1>4, <1>8, <1>10, <2>2 DEF CursorsFit
  <2>. QED
    BY <2>1, <2>2
<1>11. Fits(view, bs, waiting', claims, born', log, ops')
  BY <1>1, <1>7, <1>9, <1>10 DEF Fits, CursorsFit
<1>12. Replace(view, bs)
  BY DEF ReplaceMessage, b
<1>. HIDE DEF bs
<1>13. /\ Fits(view', box', waiting', claims', born', log, ops')
       /\ Scanned(box', view')
  BY <1>1, <1>11, <1>12, ReplaceKeeps
<1>. QED
  BY <1>1, <1>6, <1>13 DEF OutboxIInv

\* sendMessage, and retryMessage with another operation.
LEMMA SendKeeps ==
    ASSUME OutboxIInv, NEW m \in Messages,
           RetryNew(m) \/ \E text \in Texts : SendMessage(m, text)
    PROVE  OutboxIInv'
<1>1. BoxFits(box, waiting, ops) /\ MaxAttempts \in Nat \ {0}
  BY OutboxAssumption DEF OutboxIInv, Fits
<1>2. ASSUME NEW text \in Texts, SendMessage(m, text) PROVE OutboxIInv'
  <2>1. 1 \in Attempts
    BY <1>1 DEF Attempts
  <2>. box[m].status # "gone"
    BY <1>2 DEF SendMessage
  <2>2. ReplaceMessage(m, Begun(text, 1))
    BY <1>2 DEF SendMessage, Begun
  <2>3. Requested(m, 1, text) /\ waiting' = waiting \cup {m} /\ UNCHANGED <<log, upsets>>
    BY <1>2 DEF SendMessage
  <2>. QED
    BY <2>1, <2>2, <2>3, BegunKeeps
<1>3. CASE RetryNew(m)
  <2>. DEFINE k == box[m].attempt + 1
  <2>1. box[m].status \in {"failed", "unconfirmed"} /\ box[m].attempt < MaxAttempts
    BY <1>3 DEF RetryNew
  <2>2. Live(box[m])
    BY <2>1 DEF Live
  <2>3. box[m].text \in Texts /\ box[m].attempt \in Attempts
    BY <1>1, <2>2 DEF BoxFits
  <2>4. k \in Attempts /\ box[m].status # "gone"
    BY <1>1, <2>1, <2>3 DEF Attempts
  <2>5. ReplaceMessage(m, Begun(box[m].text, k))
    BY <1>3 DEF RetryNew, Begun
  <2>6. Requested(m, k, box[m].text) /\ waiting' = waiting \cup {m} /\ UNCHANGED <<log, upsets>>
    BY <1>3 DEF RetryNew
  <2>. HIDE DEF k
  <2>. QED
    BY <2>3, <2>4, <2>5, <2>6, BegunKeeps
<1>. QED
  BY <1>2, <1>3

\* One message changes without being sent anew.
LEMMA ChangeKeeps ==
    ASSUME OutboxIInv, NEW m \in Messages, NEW b \in Outgoing,
           waiting' \subseteq waiting \cup {m},
           box[m].status = "gone" => b.status = "gone",
           m \in waiting' => Pending(b) \/ b.status = "gone",
           Pending(b) => Pending(box[m]),
           Live(b) =>
               /\ Live(box[m])
               /\ b.text = box[m].text /\ b.epoch = box[m].epoch /\ b.attempt = box[m].attempt
               /\ b.afterSeq = box[m].afterSeq /\ b.consumed = box[m].consumed
               /\ \/ b.submitted = box[m].submitted
                  \/ /\ box[m].submitted = Unknown
                     /\ ops[<<m, b.attempt>>].verdict = "prepared"
                     /\ ops[<<m, b.attempt>>].text = b.submitted,
           ReplaceMessage(m, b), UNCHANGED <<log, ops, born, upsets>>
    PROVE  OutboxIInv'
<1>. DEFINE bs == [box EXCEPT ![m] = b]
<1>1. BoxFits(box, waiting, ops) /\ ViewFits(view, log) /\ upsets' \in 0..MaxUpsets
  BY DEF OutboxIInv, Fits
<1>2. /\ bs \in [Messages -> Outgoing] /\ bs[m] = b
      /\ \A n \in Messages : n # m => bs[n] = box[n]
  BY <1>1 DEF BoxFits
<1>. HIDE DEF bs
<1>3. BoxFits(bs, waiting', ops)
  <2>1. ASSUME NEW n \in Messages, Live(bs[n])
        PROVE  /\ bs[n].text \in Texts /\ bs[n].attempt \in Attempts
               /\ bs[n].submitted # Unknown =>
                     /\ ops[<<n, bs[n].attempt>>].verdict = "prepared"
                     /\ ops[<<n, bs[n].attempt>>].text = bs[n].submitted
    <3>1. CASE n = m
      BY <1>1, <1>2, <2>1, <3>1 DEF BoxFits
    <3>2. CASE n # m
      BY <1>1, <1>2, <2>1, <3>2 DEF BoxFits
    <3>. QED
      BY <3>1, <3>2
  <2>2. ASSUME NEW n \in waiting' PROVE Pending(bs[n]) \/ bs[n].status = "gone"
    <3>1. CASE n = m
      BY <1>2, <3>1
    <3>2. CASE n # m
      BY <1>1, <1>2, <3>2 DEF BoxFits
    <3>. QED
      BY <3>1, <3>2
  <2>3. waiting' \subseteq Messages
    BY <1>1 DEF BoxFits
  <2>. QED
    BY <1>2, <2>1, <2>2, <2>3 DEF BoxFits
<1>4. Pending(b) => Live(b)
  BY DEF Pending, Live
<1>5. Kept(bs)
  BY <1>2, <1>4 DEF Kept
<1>6. Replace(view, bs) /\ view.nextSeq >= view.nextSeq
  BY <1>1 DEF ReplaceMessage, bs, ViewFits
<1>. QED
  BY <1>1, <1>3, <1>5, <1>6, SameEpochKeeps

\* The answer of the Host is acted on (sendOutgoingMessage, acknowledgeMessage).
LEMMA AnswerKeeps ==
    ASSUME OutboxIInv, NEW m \in Messages, Answer(m)
    PROVE  OutboxIInv'
<1>. DEFINE o == ops[<<m, box[m].attempt>>]
            b == box[m]
<1>1. PICK a : /\ a = IF o.verdict \in {"refused", "unknown"} THEN Refused(b, o)
                      ELSE Acknowledged(b, o)
               /\ ReplaceMessage(m, a)
  BY DEF Answer
<1>2. /\ OpsFit(ops) /\ b \in Outgoing
      /\ m \in waiting /\ b.status \notin {"none", "gone"} /\ Pending(b) /\ Live(b)
      /\ waiting' = waiting \ {m} /\ UNCHANGED <<log, ops, born, upsets>>
  BY DEF Answer, OutboxIInv, Fits, BoxFits, Live
<1>3. /\ b.attempt \in Attempts /\ o \in Operation
      /\ b.submitted # Unknown => o.verdict = "prepared" /\ o.text = b.submitted
  <2>1. /\ b.attempt \in Attempts
        /\ b.submitted # Unknown => o.verdict = "prepared" /\ o.text = b.submitted
    BY <1>2 DEF OutboxIInv, Fits, BoxFits
  <2>2. <<m, b.attempt>> \in Operations
    BY <2>1 DEF Operations
  <2>. QED
    BY <1>2, <2>1, <2>2 DEF OpsFit
<1>. HIDE DEF b, o
<1>4. /\ a \in Outgoing
      /\ Live(a) =>
           /\ a.text = b.text /\ a.epoch = b.epoch /\ a.attempt = b.attempt
           /\ a.afterSeq = b.afterSeq /\ a.consumed = b.consumed
           /\ \/ a.submitted = b.submitted
              \/ o.verdict = "prepared" /\ a.submitted = o.text
  <2>1. CASE o.verdict \in {"refused", "unknown"}
    BY <1>1, <1>2, <2>1 DEF Refused, Outgoing, Statuses
  <2>2. CASE o.verdict = "handled"
    <3>1. a = Gone
      BY <1>1, <2>2 DEF Acknowledged
    <3>. QED
      BY <3>1, BlankMessages DEF Live, Gone, NoMessage
  <2>3. CASE o.verdict \notin {"refused", "unknown", "handled"}
    <3>1. a = [b EXCEPT !.submitted = IF o.verdict = "prepared" THEN o.text ELSE @,
                        !.status = IF @ = "unconfirmed" THEN @ ELSE "awaiting_echo"]
      BY <1>1, <1>2, <2>3 DEF Acknowledged
    <3>2. o.text \in Texts \cup {Unknown}
      BY <1>3 DEF Operation
    <3>. QED
      BY <1>2, <3>1, <3>2 DEF Outgoing, Statuses
  <2>. QED
    BY <2>1, <2>2, <2>3
<1>5. a.submitted = b.submitted
        \/ (b.submitted = Unknown /\ o.verdict = "prepared" /\ o.text = a.submitted)
        \/ ~Live(a)
  BY <1>3, <1>4
<1>6. Live(a) => o = ops[<<m, a.attempt>>]
  BY <1>4 DEF o, b
<1>7. b.status # "gone" /\ m \notin waiting' /\ waiting' \subseteq waiting \cup {m}
  BY <1>2
<1>. QED
  BY <1>1, <1>2, <1>4, <1>5, <1>6, <1>7, ChangeKeeps DEF b

\* The user retries with the same operation, or deletes a message.
LEMMA UserKeeps ==
    ASSUME OutboxIInv, NEW m \in Messages, RetrySame(m) \/ DeleteMessage(m)
    PROVE  OutboxIInv'
<1>1. box[m] \in Outgoing /\ waiting \subseteq Messages
  BY DEF OutboxIInv, Fits, BoxFits
<1>2. CASE RetrySame(m)
  <2>. DEFINE b == [box[m] EXCEPT !.status = "sending"]
  <2>1. box[m].status = "unconfirmed" /\ ReplaceMessage(m, b)
    BY <1>2 DEF RetrySame, SameOperation
  <2>2. /\ b \in Outgoing /\ b.status = "sending"
        /\ b.text = box[m].text /\ b.epoch = box[m].epoch /\ b.attempt = box[m].attempt
        /\ b.afterSeq = box[m].afterSeq /\ b.consumed = box[m].consumed
        /\ b.submitted = box[m].submitted
    BY <1>1 DEF Outgoing, Statuses
  <2>. HIDE DEF b
  <2>3. Pending(b) /\ Pending(box[m]) /\ Live(box[m])
    BY <2>1, <2>2 DEF Pending, Live
  <2>4. waiting' = waiting \cup {m} /\ UNCHANGED <<log, ops, born, upsets>>
    BY <1>2 DEF RetrySame
  <2>. QED
    BY <2>1, <2>2, <2>3, <2>4, ChangeKeeps
<1>3. CASE DeleteMessage(m)
  <2>1. Gone \in Outgoing /\ ~Live(Gone) /\ ~Pending(Gone) /\ Gone.status = "gone"
    BY BlankMessages DEF Live, Pending, Gone, NoMessage
  <2>2. /\ ReplaceMessage(m, Gone) /\ waiting' = waiting \ {m}
        /\ UNCHANGED <<log, ops, born, upsets>>
    BY <1>3 DEF DeleteMessage
  <2>. QED
    BY <2>1, <2>2, ChangeKeeps
<1>. QED
  BY <1>2, <1>3

\* Pending messages become unconfirmed: the connection was lost, or the page is loaded
\* again.
LEMMA UnconfirmedKept ==
    ASSUME OutboxIInv, NEW S \in SUBSET Messages, waiting' = {},
           \A m \in S : Pending(box[m])
    PROVE  LET bs == [m \in Messages |-> IF m \in S THEN [box[m] EXCEPT !.status = "unconfirmed"]
                                         ELSE box[m]]
           IN  Kept(bs) /\ BoxFits(bs, waiting', ops)
<1>. DEFINE bs == [m \in Messages |-> IF m \in S THEN [box[m] EXCEPT !.status = "unconfirmed"]
                                      ELSE box[m]]
<1>1. BoxFits(box, waiting, ops)
  BY DEF OutboxIInv, Fits
<1>2. ASSUME NEW m \in Messages
      PROVE  /\ bs[m] \in Outgoing
             /\ bs[m].text = box[m].text /\ bs[m].epoch = box[m].epoch /\ bs[m].attempt = box[m].attempt
             /\ bs[m].afterSeq = box[m].afterSeq /\ bs[m].consumed = box[m].consumed
             /\ bs[m].submitted = box[m].submitted
             /\ Pending(bs[m]) <=> Pending(box[m])
             /\ Live(bs[m]) <=> Live(box[m])
             /\ box[m].status = "gone" => bs[m].status = "gone"
  <2>1. box[m] \in Outgoing
    BY <1>1 DEF BoxFits
  <2>2. CASE m \in S
    <3>. DEFINE b == [box[m] EXCEPT !.status = "unconfirmed"]
    <3>1. bs[m] = b /\ Pending(box[m])
      BY <2>2
    <3>2. /\ b \in Outgoing /\ b.status = "unconfirmed"
          /\ b.text = box[m].text /\ b.epoch = box[m].epoch /\ b.attempt = box[m].attempt
          /\ b.afterSeq = box[m].afterSeq /\ b.consumed = box[m].consumed
          /\ b.submitted = box[m].submitted
      BY <2>1 DEF Outgoing, Statuses
    <3>. HIDE DEF b, bs
    <3>3. Pending(b) /\ Live(b) /\ Live(box[m]) /\ box[m].status # "gone"
      BY <3>1, <3>2 DEF Pending, Live
    <3>. QED
      BY <3>1, <3>2, <3>3
  <2>3. CASE m \notin S
    BY <2>1, <2>3
  <2>. QED
    BY <2>2, <2>3
<1>3. bs \in [Messages -> Outgoing]
  <2>1. bs = [m \in Messages |-> bs[m]]
    OBVIOUS
  <2>. HIDE DEF bs
  <2>. QED
    BY <1>2, <2>1
<1>. HIDE DEF bs
<1>4. BoxFits(bs, waiting', ops)
  BY <1>1, <1>2, <1>3 DEF BoxFits
<1>5. Kept(bs)
  BY <1>2 DEF Kept
<1>. QED
  BY <1>4, <1>5 DEF bs

\* rejectPendingOperations and restoreMessages.
LEMMA LossKeeps ==
    ASSUME OutboxIInv, LoseConnection \/ Reload
    PROVE  OutboxIInv'
<1>1. /\ log \in Seq(Texts) /\ Len(log) \in Nat /\ ViewFits(view, log)
      /\ BoxFits(box, waiting, ops) /\ upsets \in 0..MaxUpsets /\ MaxUpsets \in Nat
  BY OutboxAssumption DEF OutboxIInv, Fits
<1>2. view.epoch \in Nat \ {0} /\ view.nextSeq \in 1..Len(log) + 1
  BY <1>1 DEF ViewFits
<1>3. waiting' = {} /\ UNCHANGED <<log, ops, born>> /\ upsets' \in 0..MaxUpsets
  BY <1>1 DEF LoseConnection, Reload, Upset
<1>4. CASE LoseConnection
  <2>. DEFINE S == {m \in waiting : box[m].status # "gone"}
              bs == [m \in Messages |-> IF m \in S THEN [box[m] EXCEPT !.status = "unconfirmed"]
                                        ELSE box[m]]
  <2>1. S \in SUBSET Messages /\ \A m \in S : Pending(box[m])
    BY <1>1 DEF BoxFits
  <2>2. Kept(bs) /\ BoxFits(bs, waiting', ops)
    <3>. HIDE DEF S
    <3>. QED
      BY <1>3, <2>1, UnconfirmedKept
  <2>3. Replace(view, bs)
    <3>1. bs = [m \in Messages |-> IF m \in waiting /\ box[m].status # "gone"
                                   THEN [box[m] EXCEPT !.status = "unconfirmed"] ELSE box[m]]
      OBVIOUS
    <3>. QED
      BY <1>4, <3>1 DEF LoseConnection
  <2>4. view.nextSeq >= view.nextSeq
    BY <1>2
  <2>. HIDE DEF bs
  <2>. QED
    BY <1>1, <1>3, <2>2, <2>3, <2>4, SameEpochKeeps
<1>5. CASE Reload
  <2>. DEFINE S == {m \in Messages : Pending(box[m])}
              bs == [m \in Messages |-> IF m \in S THEN [box[m] EXCEPT !.status = "unconfirmed"]
                                        ELSE box[m]]
              v == LatestPage(view.epoch, log)
  <2>1. S \in SUBSET Messages /\ \A m \in S : Pending(box[m])
    OBVIOUS
  <2>2. Kept(bs) /\ BoxFits(bs, waiting', ops)
    <3>. HIDE DEF S
    <3>. QED
      BY <1>3, <2>1, UnconfirmedKept
  <2>3. Replace(v, bs)
    <3>1. bs = [m \in Messages |-> IF Pending(box[m]) THEN [box[m] EXCEPT !.status = "unconfirmed"]
                                   ELSE box[m]]
      OBVIOUS
    <3>. QED
      BY <1>5, <3>1 DEF Reload
  <2>4. /\ ViewFits(v, log) /\ v.epoch = view.epoch /\ v.nextSeq = Len(log) + 1
    BY <1>1, <1>2, LatestPageFits
  <2>5. v.nextSeq >= view.nextSeq
    BY <1>1, <1>2, <2>4
  <2>. HIDE DEF bs, v
  <2>. QED
    BY <1>3, <2>2, <2>3, <2>4, <2>5, SameEpochKeeps
<1>. QED
  BY <1>4, <1>5

-----------------------------------------------------------------------------
(* The theorems.                                                           *)

\* The invariant holds at first.
LEMMA OutboxStarts == OutboxInit => OutboxIInv
<1>. SUFFICES ASSUME OutboxInit PROVE OutboxIInv
  OBVIOUS
<1>. USE DEF OutboxInit
<1>1. log \in Seq(Texts) /\ Len(log) = 0 /\ upsets \in 0..MaxUpsets
  BY OutboxAssumption
<1>2. OpsFit(ops)
  <2>1. NoOperation \in Operation /\ NoOperation.verdict = "none" /\ NoOperation.echo = "none"
    BY DEF NoOperation, Operation
  <2>. QED
    BY <2>1 DEF OpsFit
<1>3. ViewFits(view, log)
  <2>1. view.entries = <<>> /\ view.epoch = 1 /\ view.nextSeq = 1
    OBVIOUS
  <2>2. DOMAIN view.entries = {} /\ view.entries \in [DOMAIN view.entries -> Row]
    BY <2>1
  <2>. QED
    BY <1>1, <2>1, <2>2 DEF ViewFits
<1>4. /\ ~Live(NoMessage) /\ ~Pending(NoMessage) /\ NoMessage \in Outgoing
  BY BlankMessages DEF Live, Pending, NoMessage
<1>5. BoxFits(box, waiting, ops)
  BY <1>4 DEF BoxFits
<1>6. ClaimsFit(claims, box, born, view)
  BY DEF ClaimsFit
<1>7. CursorsFit(box, born, claims, view, log)
  BY <1>4 DEF CursorsFit
<1>8. Scanned(box, view)
  BY <1>4 DEF Scanned, Echoes, Here
<1>. QED
  BY <1>1, <1>2, <1>3, <1>5, <1>6, <1>7, <1>8 DEF OutboxIInv, Fits

\* Every step keeps it.
LEMMA OutboxStep == OutboxIInv /\ [OutboxNext]_outboxVars => OutboxIInv'
<1>. SUFFICES ASSUME OutboxIInv, [OutboxNext]_outboxVars PROVE OutboxIInv'
  OBVIOUS
<1>1. CASE UNCHANGED outboxVars
  BY <1>1 DEF outboxVars, OutboxIInv, Fits, OpsFit, ViewFits, BoxFits, ClaimsFit, CursorsFit,
              CursorFits, ClaimedIn, Here, Pending, Live, Scanned, Echoes, Unclaimed, Matches
<1>2. ASSUME NEW m \in Messages, NEW k \in Attempts, CarryOut(m, k) PROVE OutboxIInv'
  BY <1>2, CarryOutKeeps
<1>3. ASSUME NEW m \in Messages, NEW k \in Attempts, Echo(m, k) PROVE OutboxIInv'
  BY <1>3, InputKeeps
<1>4. CASE OthersInput
  BY <1>4, InputKeeps
<1>5. CASE ShowNext \/ ShowOlder \/ ScanPage
  BY <1>5, RowsKeep
<1>6. CASE NewEpoch
  BY <1>6, NewEpochKeeps
<1>7. CASE LoseConnection \/ Reload
  BY <1>7, LossKeeps
<1>8. ASSUME NEW s \in 1..MaxInputs, DigestEnds(s) PROVE OutboxIInv'
  BY <1>8, DigestKeeps
<1>9. ASSUME NEW m \in Messages, RetryNew(m) \/ \E text \in Texts : SendMessage(m, text)
      PROVE  OutboxIInv'
  BY <1>9, SendKeeps
<1>10. ASSUME NEW m \in Messages, Answer(m) PROVE OutboxIInv'
  BY <1>10, AnswerKeeps
<1>11. ASSUME NEW m \in Messages, RetrySame(m) \/ DeleteMessage(m) PROVE OutboxIInv'
  BY <1>11, UserKeeps
<1>. QED
  BY <1>1, <1>2, <1>3, <1>4, <1>5, <1>6, <1>7, <1>8, <1>9, <1>10, <1>11 DEF OutboxNext

\* What the invariant says of an echo that is on display: a message that has not got it
\* left it behind a claimed row of its text, or has yet to look.
LEMMA MissedOnlyBehindClaims == OutboxIInv => MissedBehindClaim
<1>. SUFFICES ASSUME OutboxIInv,
                     NEW m \in Messages, NEW s \in DOMAIN view.entries,
                     Missed(box[m], born[m], s)
              PROVE  \E r \in (s + 1)..Len(log) :
                        Claimed(r) /\ log[r] \in {box[m].text, box[m].submitted}
  BY DEF MissedBehindClaim
<1>1. /\ ViewFits(view, log) /\ BoxFits(box, waiting, ops)
      /\ ClaimsFit(claims, box, born, view)
      /\ CursorsFit(box, born, claims, view, log)
      /\ Scanned(box, view) /\ Len(log) \in Nat
  BY DEF OutboxIInv, Fits
<1>2. /\ \A r \in DOMAIN view.entries : view.entries[r].digest # "pending"
      /\ s > born[m] /\ Here(box[m], view) /\ Matches(box[m], view.entries[s])
      /\ ~ClaimedIn(claims, view, s)
  BY DEF Missed, Claimed, ClaimedIn
<1>3. Echoes(view, box[m]) = {}
  BY <1>1, <1>2 DEF Scanned
<1>4. ~Unclaimed(box[m], s)
  BY <1>2, <1>3 DEF Echoes
<1>5. CursorFits(box[m], born[m], claims, view, log)
  BY <1>1, <1>2 DEF CursorsFit, Here
<1>6. s \in Nat /\ box[m].afterSeq \in Nat /\ born[m] \in Nat /\ view.nextSeq \in 1..Len(log) + 1
  BY <1>1 DEF ViewFits, BoxFits, Outgoing, ClaimsFit
<1>7. s \notin box[m].consumed
  BY <1>2, <1>5 DEF CursorFits
<1>8. s <= box[m].afterSeq
  BY <1>4, <1>6, <1>7 DEF Unclaimed
<1>9. /\ ClaimedIn(claims, view, box[m].afterSeq)
      /\ log[box[m].afterSeq] \in {box[m].text, box[m].submitted}
  BY <1>2, <1>5, <1>6, <1>8 DEF CursorFits
<1>10. box[m].afterSeq # s
  BY <1>2, <1>9
<1>11. box[m].afterSeq \in 1..view.nextSeq - 1
  BY <1>1, <1>9 DEF ClaimedIn, ClaimsFit
<1>12. box[m].afterSeq \in (s + 1)..Len(log)
  BY <1>1, <1>6, <1>8, <1>10, <1>11
<1>13. Claimed(box[m].afterSeq)
  BY <1>9 DEF Claimed, ClaimedIn
<1>. QED
  BY <1>9, <1>12, <1>13

\* The invariant has the types in it.
LEMMA OutboxTyped == OutboxIInv => OutboxTypeOK
<1>. SUFFICES ASSUME OutboxIInv PROVE OutboxTypeOK
  OBVIOUS
<1>1. /\ log \in Seq(Texts) /\ OpsFit(ops) /\ upsets \in 0..MaxUpsets
      /\ ViewFits(view, log) /\ BoxFits(box, waiting, ops)
      /\ ClaimsFit(claims, box, born, view)
  BY DEF OutboxIInv, Fits
<1>2. /\ view = [epoch |-> view.epoch, entries |-> view.entries, nextSeq |-> view.nextSeq]
      /\ view.epoch \in Nat \ {0} /\ view.nextSeq \in 1..Len(log) + 1
      /\ DOMAIN view.entries \subseteq 1..view.nextSeq - 1
      /\ view.entries \in [DOMAIN view.entries -> Row]
  BY <1>1 DEF ViewFits
<1>3. Len(log) \in Nat
  BY <1>1
<1>4. DOMAIN view.entries \in SUBSET (1..Len(log)) /\ view.nextSeq \in Nat \ {0}
  BY <1>2, <1>3
<1>. DEFINE Shown == UNION {[rows -> Row] : rows \in SUBSET (1..Len(log))}
<1>5. view.entries \in Shown
  BY <1>2, <1>4
<1>. HIDE DEF Shown
<1>6. view \in [epoch : Nat \ {0}, nextSeq : Nat \ {0}, entries : Shown]
  BY <1>2, <1>4, <1>5
<1>7. /\ ops \in [Operations -> Operation] /\ box \in [Messages -> Outgoing]
      /\ claims \subseteq Claims /\ born \in [Messages -> Nat] /\ waiting \subseteq Messages
  BY <1>1 DEF OpsFit, BoxFits, ClaimsFit
<1>. QED
  BY <1>1, <1>6, <1>7 DEF OutboxTypeOK, Operation, Outgoing, Statuses, Claims, Row, Shown

\* Safety, for any texts, windows and bounds: an echo settles one message, no message is
\* settled by what the page showed before it was sent, and one passes an echo on display
\* over only behind a row of its text that settled another (reconcile, prepareDigests,
\* retryMessage, restoreMessages).
THEOREM OutboxSettles == OutboxSpec => []OutboxInv
<1>1. OutboxIInv => OneEchoOneMessage /\ FreshEcho
  BY DEF OutboxIInv, Fits, ClaimsFit, OneEchoOneMessage, FreshEcho
<1>2. OutboxIInv => OutboxInv
  BY <1>1, OutboxTyped, MissedOnlyBehindClaims DEF OutboxInv
<1>. QED
  BY <1>2, OutboxStarts, OutboxStep, PTL DEF OutboxSpec
=============================================================================
