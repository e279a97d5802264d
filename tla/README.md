# A TLA+ verification of agent-remote-control

Agent Remote Control lets a browser operate coding agents (Codex, Claude, Copilot, DSH, OpenCode) that run on a
developer's machine. This directory models the parts of it whose correctness depends on the order of concurrent
events, checks the models with TLC on small instances and proves central results of nine of them with TLAPS. Paths
below are relative to the repository.

## The system

A **provider adapter** (`packages/agent-provider-*`) turns a native runtime into a stream of *observations* and a set of
calls. The **Controller** (`packages/agent-host`) runs one **AgentManager** per session (`packages/agent-remote-relay`),
which keeps the session's *timeline* and state, and one **session wire** per attached browser stream. Wires reach the
browser directly or through an **uplink** and a **hosted broker** (`packages/agent-remote-hosted`,
`packages/agent-remote-cloudflare`). The browser (`packages/agent-remote-web`) runs a **session client** per
conversation over a **replica** of the session.

| Component | State | Operations | Interacts by |
|---|---|---|---|
| Operation cache (`operation-cache.ts`) | records by identity, evidence handles, enabled targets, byte total | `execute`, `settle`, `retain`, `settled`/`unresolved`, `reserve`/`start`/`release`, `enableMutationTarget`, `close` | called by every wire and by the handoff; promises and subscriber callbacks |
| Timeline store/projector (`timeline-*.ts`) | epoch, rows | append, prepend, project a page | called by AgentManager |
| AgentManager (`agent-manager.ts`) | timeline, snapshot, interactions, busy command | observations in, commands out, `loadTimeline` | emits to wires, awaits the adapter |
| Session wire (`session-wire.ts`) | negotiated, subscribed, handoff and acknowledgement buffers | one handler per client message | ordered messages to one client |
| Session client (`remote-session-client.ts`) | generation, status, recovery, older request, pending operations | connect/restart, catch-up, `loadOlder`, commands | wire messages, HTTP reads, timers |
| Echo scan (`message-echo-sync.ts`) | scan cursor, timer, request | scan after 10 s, 30 s, 60 s | HTTP reads into the replica |
| Replica (`replica/*.ts`) | entries, cursor, buffered rows, retired epochs, outbox | pure reducers | called by the client |
| Setting changes (`session-setting-changes.ts`) | one intent per setting, the native call under way, readback and its timer | accept, observe, read back, expire, close | called by AgentManager; calls and observations of the adapter |
| Session attachments (`host.ts`, `idle-sessions.ts`, `session-bindings.ts`, `relay.ts`) | binding and attachment job per native session, leases, users per idle entry, uncertain agents, the one reconciliation | attach, acquire/release a lease, sweep, reconcile, hand off, shut down | streams, requests and coordinators hold leases; opens and closes native sessions |
| Session control (`session-control.ts`) | native owner and grants per connection | attach, request, assert, revoke | called by wires and the Host |
| Native session owner (`native-session-owner.ts`) | on disk: the owner's record, reservations, the gate; per process: leases and transfers | acquire, take over, transfer, release | processes of one machine share a directory and call each other's loopback endpoints |
| Session succession (`agent-host/src/session-succession-*.ts`) | durable mutation marks, reservations, contexts | mutate, reserve, commit, restart settlement | wraps manager operations, reads the operation cache, files |
| Teams (`teams.ts`, `team-delivery.ts`, `agent-host/src/team.ts`) | Relay: mailbox, receipts; Controller: receipts in memory and on disk, the tick | send, claim, settle, acknowledge, resolve, archive; poll, dispatch, report | requests over the uplink with timeouts; callbacks of native input |
| Hosted broker, credentials (`broker.ts`, `remote-host-uplink-client.ts`) | credentials and commit queue; per connection its credential and offer; the Controller's saved credential | register, offer, save, acknowledge, rotate, recover, revoke | one socket per connection, a store behind the queue |
| Hosted broker, traffic (`broker.ts`, `gateway.ts`) | streams, hosts, leases | admit, preempt, forward | sockets to both sides |

The rest (schemas, UI, CLI, packaging, platform adapters) holds no protocol state of its own; `PROJECT.json` lists it.

### What is hard here

* One mutation has many callers: the browser retries after a lost answer or connection, and receipts expire.
* Native calls fail with an unknown outcome, and native work outlives the call that started it.
* Four kinds of timeline reads race each other and the live stream into one replica; a page is computed before it
  is delivered and merged by replacement.
* A timeline is replaced under its readers; a connection drops under a catch-up.
* A handoff of a session must exclude mutations, also across a crash of the Controller.
* Processes compete for one native session through files, and stop anywhere, inside the locked section too.
* A credential is offered, saved, acknowledged and retired in four places, and any connection or process may fail
  between two of them; the wrong order locks a Controller out for good.
* A message is claimed at the Relay, made durable at the Controller, held by the native session and settled at the
  Relay again; the user, an archive and a handoff decide about it meanwhile.
* Leases keep sessions attached against a sweep that detaches them, over awaits on both sides, and a child session
  lives on its parent's connection.
* A native setting call may hang, answer late, or take effect and say nothing.
* Limits (records, bytes, pages) refuse or evict, and must give back what they took.

`PROJECT.json` lists the hazards with their lines and the properties that answer them.

## Modules

| Module | Models | |
|---|---|---|
| `OperationCache` | `operation-cache.ts`, `operation-settlement.ts` | whole component |
| `IdempotentOperations` | what the cache promises its callers | abstract specification |
| `OperationCacheProofs` | theorems about `OperationCache`, and that it implements `IdempotentOperations` | TLAPS |
| `Timeline` | rows, projection, pages (`timeline-store.ts`, `timeline-projector.ts`) | operators |
| `Replica` | the timeline part of `replica/reducer.ts` | operators |
| `TimelineSync` | manager, wire, client and scan around `Timeline` and `Replica` | composition |
| `TimelineProofs` | lemmas about the operators of `Timeline`, `Replica` and `TimelineSync` | TLAPS |
| `TimelineSyncProofs` | theorems about `TimelineSync` | TLAPS |
| `MessageOutbox` | `replica/message-outbox.ts` with its use by `replica/store.ts`, `remote-session-client.ts`, `message-echo-sync.ts`, `message-recovery.ts` | composition of page, Host and agent |
| `MessageOutboxProofs` | theorems about `MessageOutbox` | TLAPS |
| `SuccessionBoundary` | handoffs against mutations (`session-succession-*.ts`, parts of `host.ts`) | composition of boundary, context store, coordinator |
| `SuccessionBoundaryProofs` | theorems about `SuccessionBoundary` | TLAPS |
| `SettingChanges` | `session-setting-changes.ts` and what `agent-manager.ts` gives it | whole component |
| `SessionAttachments` | `host.ts` (attachment, leases, watch, handoff, shutdown), `idle-sessions.ts`, `session-bindings.ts`, `relay.ts` | composition |
| `AgentProofs` | theorems about `SettingChanges` and `SessionAttachments` | TLAPS |
| `NativeOwnership` | `native-session-owner.ts` and its use by `stdio-directory.ts`, `stdio-command.ts` | whole component |
| `DeviceCredentials` | `broker.ts` (registration, credentials, commits), `remote-host-uplink-client.ts` | composition of Relay, Controllers and their connections |
| `DeviceCredentialsProofs` | theorems about `DeviceCredentials` | TLAPS |
| `TeamDelivery` | `teams.ts`, `team-delivery.ts`, `agent-host/src/team.ts`, the uplink | composition of Relay, uplink, Controller and native session |
| `ControllersProofs` | theorems about `NativeOwnership` and `TeamDelivery` | TLAPS |
| `MC*` | instances for TLC | |

### OperationCache

`entries` holds the record of each remembered identity in the state the code keeps it in: validating, dispatching,
settled or unsettled with evidence. `handles` is the evidence of native work beyond its call. `native` and `calls`
stand for the runtime: how often an identity was called and what became of it. `quiet` says which records are past
the receipt lifetime (`Tick`), `answers` what callers were told, `busy` what a settlement subscriber believes.
One action per operation; an operation with awaits is split where the code yields: `ExecuteFresh` registers,
`RejectBeforeDispatch` or `Dispatch` ends validation, the runtime acts, and `DispatchReturns`, `DispatchRejected` or
`DispatchFails` settle. Every action runs the cleanup its function runs. The model gives one verdict per call; a wrapper
passed to `work.run` that throws after the call settled is not modelled.

`IdempotentOperations` promises less: an identity is carried out at most once while it is remembered, all its callers
hear one verdict, and after close nothing starts.

### Timeline, Replica, TimelineSync

A row is its kind of item. "text" joins the entry before it, "tool" joins its one earlier entry wherever it stands (a
tool call or a todo list), a completed compaction joins the loading one, "note" stands alone. Text content is the list
of row identities on display, so that a lost, repeated or reordered row shows. The reducer and the projector join by
the same rule (`findProjection`, `coalesceEntry`), and both use `Joined`.

`TimelineSync` has the Relay's `epoch` and `rows`; `down`, what is queued for the client; and the client's `status`,
`recovery`, `older`, `scan` and `replica`. A request carries its page once computed. Asking, computing, queueing and
applying are separate steps, because the code awaits between them. With `Recovery = "websocket"` a page is queued on
the wire; with "http", and for earlier pages and scans always, it overtakes freely. A connection loss
(`Disconnect`) covers closing, time-out and a failed read: `restartDisconnected` in each case.

### MessageOutbox

`box` holds the outgoing messages of a page with the fields of `OutgoingMessage` that decide something; `view` is what
reconciliation reads of the timeline, each entry with the state of its digest; `log` is the user input in the Relay's
timeline; `ops` is each operation at the Host, what it answers and whether an echo is to follow; `waiting` says whose
operation is unanswered. A text stands for a class of texts that normalize to one another, a digest for its text.
`Replace` is `AgentReplica.replace`, which reconciles: every action that changes the replica ends in it. Sending,
retrying under the same and under another operation, deleting, the answer, the lost connection and the reload are
actions of their own. Rows reach the page live, by `loadOlder` or by the echo scan, whole pages at a time. `claims`
and `born` are history variables for the properties.

Taken from the interface: a page sends and retries with its timeline initialized (`session-state.ts:24`). The client
itself asks only for an open connection (`remote-session-client.ts:479`). The storage holds the latest outbox when the
page is loaded again, and one page shows a session. A digest that was computed is not computed again.

### SuccessionBoundary

A mutation is admitted for its targets (`Admit`), marks each of them in the context file (`Mark`), calls the native
runtime at one of them (`Call`) and ends when its evidence settles. What `OperationCache` models in detail is here
one `stage` per mutation: in flight, "open" with unsettled evidence, "forgotten" once the cache is emptied at shutdown
(`Forget`), over, or "lost" with its process. A prepared first input has a durable delivery record as well, and a step
between its last validation and its call, where the code awaits the prepared mark. Its evidence may settle
(`EvidenceSettles`) before its delivery is resolved (`DeliverySettles`). `native` is the runtime: a call is in transit, running, where the attached agent shows it, or done;
each may outlive the process that made it.

`coverage` and `lost` are the marks and which of them the previous process left; `window` is the restart window of five
minutes with its timer. `Clear` is `reconcileCoverage`, queued by the settlement listener and the timer, and possible at
any time because every readiness check runs it. `Inspect` is such a check.

A handoff goes "idle", "checked", "reserved", "begun", "creating", "known" (or "busy"), "ready", "committed"; each step
ends at an await of the code. The candidate exists for everybody from `Create` on, and for the coordinator from
`Candidate` on. `Restart` covers crashes and orderly ends: memory is gone, unfinished records become "unknown" or, in
the middle of a creation, "uncertain". An orderly end goes through `Close`, `Retire` and `Forget`: marks that are still
being cleared must not take the empty cache's word that nothing is unsettled, which is the second half of `Covered`.

Abstractions: the length of the window is taken to be what the code intends, longer than anything sent stays in
transit (`RestartSettles`). Running work is visible to `assertHandoffState` once the session is attached. A creation
makes a session nobody had before, and once recorded the candidate is the one that was created.

### SettingChanges

`history` is the native session's values over time, `seen` the version the Relay knows. `order` gives the place of an
intent in the Map of the code, 0 where there is none; `Drain` takes the queued intent of the least place. An intent is accepted
(`Accept`), submitted by the one native call at a time (`Drain`, inside every action whose function drains), and ends
when an observation or a readback confirms it (`Confirms`), when its call fails, or after its 30 s (`Expire`). Native
code may apply a change at once, accept it for later, defer it, fail, hang, or change a value silently; the user of the
native terminal changes values too. A readback is asked on a timer, one at a time, and its answer is as old as the
moment native code gave it.

### SessionAttachments

`binding` is the public identity of a native session, `job` the attachment under way that everybody joins, `lease`
what a client, or a child's job on its parent, has acquired so far: `kept` is what it retains, `left` what it has yet to
have attached. `users`, `releasing`, `uncertain` and `check` are the idle entries. Each action ends where the code
awaits: a lease retains its session and all ancestors at once (`AcquireSession`), then per session waits for a
detachment (`AcquireProjects`) and for the job (`JobEnds`). `SweepReleases` is the idle detachment, `CheckStarts` to
`CheckConfirms` the reconciliation of an unknown outcome, `CommandReleases` the session command, `Handoff` a native
client taking the family over, `BeginShutdown` and `Shut` the end. `severed` holds children whose parent's connection
was closed under them, `doubt` is a history variable for `DoubtProtected`.

Grace period and back-off are left out: either may have passed at any sweep. A native session may be quiet at any look;
operations of clients are modelled, one at a time, because they retain their session and leave doubts.

### NativeOwnership

Each call of `acquireNativeSession` is an attempt. `record`, `reserved` and `gate` are the files; `phase` is how far an
attempt is, as acquirer and then as owner; `transfer` is the owner's side of a takeover. Locked sections are two actions,
so that a process may stop inside. A handoff that holds the session (`native-owner-admission.ts`) appears as a request
refused at any time. Native children end with their process, and process numbers are not reused.

### DeviceCredentials

`keys` is what the Relay has stored and published; changes wait in `queue`, are `staged`, stored and published as
`commit` does it. `server` and `client` are the two ends of a connection and `up`, `down` what is between them. A
Controller keeps `file`, the credential it saved, and `saving`, the offer it is writing. Connections are abandoned, the
store fails, and the Relay and Controllers stop at any step, `MaxFaults` times. After a store failure nothing is served
until a restart, which finds the draft stored or not. Only the account-backed branch is modelled; deadlines and
invitation expiry appear as `Abandon` and `RelayNotices`; the capacity of the broker is `MaxKeys`.

### TeamDelivery

One member, its mailbox at the Relay (`inbox`, `mail`), its Controller's receipts (`receipts`, `disk`, `writes`) and the
tick that works through what it polled (`stage`, `todo`). A queue is stated by its places: `inbox` gives each message
its place, 0 outside, `sends` the last place given away, and `todo` is the set of entries the poll copied, of which
`Next1` is the first. The native session takes, holds, runs or drops an input and
tells the process that gave it (`hooked`). Answers are lost, requests time out and are served afterwards, saves fail,
the Controller stops. Meanwhile the agent reads and acknowledges messages, the user resolves them or archives the Team,
and a handoff moves the role. Receipts live for a day at the Relay and are never dropped here.

## Runs

| Run | Shows | Bounds |
|---|---|---|
| `operations` | at most once, one true verdict per identity, refinement of `IdempotentOperations`; byte accounting, pinned evidence, informed subscribers, no hidden native work | 2 places; 3 identities and 2 intents, or 2 identities, 1 intent and 2 handles |
| `agent`, part cache | a full cache admits again; close ends (`CacheDrains`) | 2 records, 2 handles of one kind, fair |
| `agent`, part settings | intents are confirmed by evidence only, submitted once, polled; late answers are silent; all end | 2 settings of 2 values, 2 requests or reads, 2 native versions, fair |
| `agent`, part attachments | leases are served, a child keeps its parent's connection, one identity and one generation; unknown outcomes protect; whoever asks is answered; what nobody needs is detached | a parent and its child, 1 client, mischances of weight 2, fair |
| `controllers`, part ownership | one writer; no record of an endpoint that is gone; every acquisition ends | 3 attempts of 2 processes, which may stop, fair |
| `controllers`, part credentials | old credentials are retired, promised ones kept, one invitation enrolls once, refusals are right; all settle | 2 Controllers with 1 invitation or a recovery, 3 connections, 2 credentials, 1 fault, 1 revocable, fair |
| `controllers`, part delivery | consumed at most once, true denials, standing verdicts, moves find settled messages; messages move | 1 message, 1 mishap, 1 move, 1 archive, fair |
| `browser`, part timeline | no row twice; the cursor skips nothing; scans and earlier pages take nothing away | 4 rows of 3 kinds, page size 2, 1 lost connection, HTTP recovery |
| `browser`, part outbox | an echo settles one message, one that is newer than the operation; echoes are passed over only behind one that settled another message (`OutboxInv`) | 2 messages of 2 attempts, 2 texts, one of them prepared, 2 rows, 2 upsets |
| `outbox_reload` | a disagreement, see below | 2 messages, 2 rows, 1 reload |
| `sync_epochs` | one epoch at a time; convergence; the client becomes ready | 3 rows, 2 epochs, 1 lost connection, page size 1, fair |
| `sync_reconnect_race`, `sync_older_race`, `sync_reach_back` | disagreements between documentation and code, see below | the smallest that show them |
| `handoffs`, part crash | nothing unsettled is reserved; calls are marked, also over a shutdown; the fence holds; commits find quiet sessions | 2 mutations, one a first input, 1 handoff, 2 sessions, 1 restart |
| `handoffs`, part chain | superseded sessions stay quiet; over several crashes no work is left behind | 1 mutation of several targets, 2 handoffs, 3 sessions, 2 restarts |
| `handoff_marks` | marks and fences end (`MarksEnd`) | 2 mutations of 2 sessions, no handoff, 2 restarts, fair |
| `handoff_fence` | a disagreement, see below | as part crash, 2 restarts |

`MCAgent`, `MCControllers` and `MCBrowser` are sums of instances that share no state: `part` says which of them a behavior runs,
the others keep their initial state, and the fairness of a part is required where it runs. Nothing is lost by this, and
a property of one part holds in the sum just when it holds of that part. Properties that end in `Inv`, `CacheDrains`,
`LateAnswersSilent`, `EvidenceAccounted` and `MarksEnd` are conjunctions of named parts, each with its own comment.
The run `handoffs` checks one instance of `SuccessionBoundary` within two smaller ones (the constraint `MCHandoffs`): in
"crash" the second handoff and the third session are unused, in "chain" the first mutation. `operations` is made of two
parts in the same way (`OperationsNext`): with evidence there is one intent and an identity nobody has used. Its handles
are native effects and reservations; asynchronous work, which does less than a native effect, is in `agent`.

The bounds are enough for the cases that matter: two identities compete for one place and a third waits; an entry of
two rows is split by a page boundary and by a gap; a page is behind, level with and ahead of the live rows; a
replacement arrives in every state of the client; two mutations share a mark or each other's targets, and a handoff
meets each of their steps; a second handoff starts from the first one's candidate. One setting's call blocks another
setting's intent, and an intent is replaced while its call runs. A lease on the child goes through its parent, joins the
child's own job, which holds the parent itself, and fails at each of these. Of three attempts one owns, one is asking
and one of the owner's process competes. Two Controllers race for one invitation, and one of them has an old and a new
connection at once. A message meets one failure at each of its steps. Two pending messages
of equal text, or one prepared and one plain, meet their echoes before and after their acknowledgements.

An *upset* of `MessageOutbox` is a refusal, a lost answer or connection, a failed digest, a reload, a replaced timeline
or another user's input. `OutboxInv` was also checked once with three rows, with three messages of one attempt, and with
three texts.

A *mischance* of `SessionAttachments` is what goes wrong or is commanded; unknown outcomes, failed checks, lost
connections and shutdown weigh 1, failures, commands and handoffs 2, so that a behavior has one of the latter or two of
the former. Sequence numbers, epochs, records, faults and lost connections are bounded in the guards (`Max...`).
`CHECK_DEADLOCK FALSE` is set where the system may rest: a bounded timeline that is in sync, a closed cache, mutations
and handoffs that are all over, settled intents, attempts that have ended.

**Fairness.** The cache's cleanup timer runs and native calls return (`CacheDrains`); the adapter contract requires the
second, and the code has no time-out for it: a native call that hangs keeps `close` waiting. Of settings only the 30 s
timers are assumed (`Expire`); native calls and readbacks may hang. For attachments the Host's own steps are taken, the
sweep runs, and native opens, disposals and checks answer. `CheckStarts` has strong fairness for the child (weak
fairness suffices for the parent): there is one check at a time, and the growing `retryAt` of a session whose check
failed lets the others have their turn (`idle-sessions.ts:48-53`). Failures that repeat for ever are excluded by the
bound. For ownership an acquirer goes on and its 12 s pass, and a locked section that was entered is left; owners,
native sessions and the network owe nothing. For credentials the Relay serves its queue, a Controller finishes a save
and reconnects, and what stands on an open connection arrives. For delivery the Controller ticks, the Relay, the disk
and native operations answer, and the recipient is ready again and again (strong fairness of `ClaimNext`, as readiness
comes and goes). In `sync_epochs` the
client reconnects on its timer, the wire answers and messages are processed. Rows, replacements, lost connections and
user reads are never assumed. In `handoff_marks` queued writes are carried out, the restart window and its timer
run, and native work ends; nobody is assumed to open or hand off a session. `MarkersEnd` needs no more for sessions
nobody inspects. A check that fails in the second between the end of the window and the timer lifts the fence
without clearing the mark, which then waits for the next check or mutation.

## What the runs found

1. `sync_reconnect_race`. The page of a pipelined catch-up is computed, then awaited, then queued. A row appended in
   between reaches a reconnecting (initialized) replica first, joins the entry the page covers and is replaced by it;
   `nextSeq` goes back below a row that is no longer buffered. The row is missing until a later row shows the gap.
2. `sync_older_race`. An earlier page replaces a live entry by the older version it holds. Reads with `preserveLive` are
   guarded against this, `loadOlder` is not, and the cursor does not move, so nothing repairs it.
3. `handoff_fence`. A marker has room for one operation. While it is lost it keeps naming the operation of the dead
   process, also when another one (a cancellation, a setting) marks the session. If that operation was a prepared first
   input and has resolved, and the Controller stops again while the second one's call is on its way, the next process
   clears the marker at once, and the session may be handed off within the window that should fence it.

4. `outbox_reload`. After a reload the page shows the latest rows only. Of two messages of equal text the first takes the
   later echo, which is what is on display, and reconciliation moves the second one's cursor to it
   (`message-outbox.ts:44-49`). The earlier echo, once older history brings it, is behind that cursor and settles nothing:
   the second message stays unconfirmed although both were delivered. `OutboxInv` says that there is no other way to
   miss an echo that is on display.

5. `sync_reach_back`. Catch-up pages and scans carry whole entries, also a tool call that began before the oldest entry
   the client has loaded. It becomes the first entry on display, and `loadOlder` asks for what lies before its first row
   (`remote-session-client.ts:365-370`). What lies between it and the history that was loaded is asked for by nobody, and
   `loadSearchMatch` answers that a result in the hole is no longer available.

In cases 1 to 3 passing runs or theorems show the same property where the trigger is absent, and so does
`HistoryUnbroken` in case 5. With tool calls `CursorSkipsNothing` says what remains of case 5: the cursor passes over
nothing, so no hole opens at the end that grows.

**Observed while modelling**, from reading and from larger or other instances; no run of this project claims them.

* *Credentials.* A registration sent on a connection the Controller abandoned may be committed after a newer connection
  was offered a rotated credential (`broker.ts:884`). The commit drops the promised credential; the Controller saves
  it and is then refused for good. `retainOverlap` protects recovered installations only. `SavedCredentialStays` says
  that there is no other way to lose a promised credential. An offer that is lost before the first save costs another
  invitation (`security.md:14` says so).
* *Delivery.* Input that a native session accepted without a disposition (a `steerMessage` that returns nothing) and
  drops before it runs is rejected by the Controller, while the Relay admits a rejection only after "queued"
  (`teams.ts:39`, `team.ts:456`). The settlement is refused on every tick, which handles no other message, until the
  user resolves it. `MessagesMove` excludes this state by name (`Stuck`). A failed save followed by a crash leads there too.
* *Attachments.* The session command `release` (`host.ts:1450`) looks neither at children nor at uncertain outcomes:
  an attached child that nobody uses loses its parent's connection and stays attached without one (`severed`), against
  `codex-shared-runtime.md:230`, and is never detached as idle. Nor does an attachment wait for the disposal that a
  command or a handoff has under way, as it does for an idle detachment. During a handoff a child may be attached
  again while its family is being closed.
* *Settings.* A native-queued change to the value of a newer intent may confirm that intent. A hung call blocks the
  intents of every setting, which then time out.
* *Outbox.* The scan for the echo of a message retried after a reload starts at the message's old cursor and stops at the
  echo; rows between that page and the latest one stay off the display, and `loadOlder` starts above them. A refused
  message of a text another user also sends may be settled by that user's input before the refusal arrives. A message
  whose echo's digest cannot be computed is never settled.
* *Timeline.* `MCTimelineSync` has two more counterexamples with other constants. With HTTP recovery the first tail page
  may overtake queued rows of the epoch before (`OneEpoch`: `Recovery = "http"`, items {"note"}, no reads, page size 1, 2
  rows, 2 epochs, no drops). Such a row counts as a change of epoch and retires the new one (`reducer.ts:269`); the
  replacement then makes the new epoch current although it is retired (`reducer.ts:176`), and its live rows are refused as
  stale, against `web.md:68`. And a tail page ends at the end of its last entry, which need not be the newest row
  (`timeline-projector.ts:131`). The buffered newest row is then applied again, and a completed compaction becomes two
  entries, against `web.md:66` (`ShownOnce`: items {"loading", "completed", "note"}, websocket, no reads, page size 3, 3
  rows, 1 epoch, no drops). For this reason no passing run has compactions.
* *Ownership.* A gate found busy by a release or by the cleanup of an attempt leaves a living process's record in place
  until that process exits ("stuck", "stranded"); a process that stops inside the gate blocks everybody.

## Proofs

`OperationCacheProofs` proves, for every set of keys, intents, targets and handles and every limit, that `TypeOK`,
`Coherent`, `AtMostOnce`, `OneVerdict` and `TruthfulVerdict` are invariants of `Spec`. The argument is one inductive
invariant (`CacheInvariant`): types; `Coherent`, which ties the state of a record to the number of native calls, the
fate of the call and the answers given; and that an identity without a record is either new or past its lifetime. None
of the three verdict properties is inductive alone: that a retry does not call again follows only from what the
record says about the calls. There is one lemma per action; `Expired` and `Cleanup` have lemmas of their own because
every execution runs them. On top of it:

* `KeepsPromise`: each action maps to a step of `IdempotentOperations` or a stutter (`StepRefines`, one lemma per
  action); the action properties of the abstract specification come with it.
* `SubscriberInformed` and `NoHiddenNativeWork`. They rest on `EvidenceHeld`, which ties a retained handle to a record
  that still has its target: what a subscriber believes unsettled is then decided by records and handles alone. A
  cleanup drops a record only with all its handles, and the proof follows handles through their records.
* `EvidenceAccounted`: the running total is the sum of the sizes, within the limit. Sums over finite sets come from
  the library's fold, which is a recursion; that a sum splits off any member is proved without an induction theorem, by a
  counterexample of least cardinality (`SumSplits`). `SizesFit` says that a call in flight holds its whole reservation,
  so that settling never exceeds the limit, and evicting lemmas say what a cleanup gives back.

The assumptions are those of the module: the limits are natural numbers, the kinds of evidence are among the three the
code has, and identities and handles are finitely many, without which there is no sum.

`AgentProofs` proves of setting changes, for any settings and values and any number of requests and native writes `SettingInv`,
`ConfirmedByEvidence` and `LateAnswersSilent`. A handler observes, settles and drains in turn, so the invariant
(`KeptInv`) is stated of the values a step finds or leaves and there is one lemma per step. `Identified` says whose
intent the running call is; `HeldOnce`, that what native code holds is neither running nor queued, so that nothing is
submitted twice; `Witnessed`, that what counts as applied or as observed different has a version of the native history
to show for it, which is what confirmation by evidence needs; `ReadFresh`, that a readback that counts is not older than
what the Relay knows.

`SuccessionBoundaryProofs` proves for every set of mutations, handoffs and sessions and any number of restarts:
`TypeOK`; `Covered`; `ReservedQuiet`; `SupersededQuiet`. If no mutation is a prepared first input, `FenceHolds`,
`NoWorkLeftBehind` and `CommitFindsQuiet` follow too; with one, `handoff_fence` refutes the first. The argument is in layers:

* `Ends` makes the types inductive: a handoff under way has its two ends.
* `Dispatched` (calls go to a target with all marks written) and `MarksKept` (a mark stays while what it covers is
  unsettled) give `Covered`. Clearing needs a settled session, so no layer about handoffs is needed, and is refused
  once evidence may be forgotten (`RetiredFirst`).
* `Lineage` says where handoffs start: at a session that existed or a committed candidate, and candidates are new. So a
  superseded session is never current again and stays blocked. `SourceHeld` carries quiet from the reservation to the
  commit. With `OnlyAdmissionUnsettles`, the lemma that no step but admission makes a session unsettled,
  `ReservedQuiet` and `SupersededQuiet` are inductive.
* `CandidateHeld` carries quiet to the candidate: from its verification to its commit it is reserved, and a step that
  would make it unsettled is refused, so `CommitFindsQuiet` needs no look at the step that verified.
* `NoPrepared`, `Afoot` and `Feared` describe work of dead processes: it is marked and lost while the window runs, and
  without prepared markers nothing but the window clears that.

The assumptions are that the first session exists and the "none" value is not a session, and, for the last layer,
`FirstInputs = {}` and the length of the window as above.

`ControllersProofs` proves of ownership, for any attempts and processes: types, `OneWriter`, `NoStrandedRecord` and
`ConfirmedHolds`. `OneWriter` is not inductive: that a runtime runs says nothing of the files. `OwnershipInv` adds what
ties them together. Who believes to own is the recorded owner, and who has handed over or lost the record is not
(`OwnerRecorded`); a lease in transfer is fenced and its native session over before the record moves
(`TransferPhase`); a record or a reservation belongs to an attempt that is where it can have one (`FilesHeld`); nobody
answers who has not asked (`NotAsked`); attempts end with their process (`PhaseAlive`). Every step is one attempt's or a
crash, and there is one lemma per step for the types and per part for the rest. The assumptions are that each attempt
has a process and that `NoOne` is not an attempt.

Of delivery it proves for any messages and any number of mishaps, moves and archives `DeliveryInv`, `VerdictsStand`
and `MoveFindsSettled`. `DeliveryInv` speaks of the mailbox, the Controller and the native session at one moment, and
requests, saves and receipts carry what was true earlier from one to the other. `Evidence` therefore says of a denial
or of a start, wherever it is written, what it means for the native session: `Denied` and `InputOver`. Both are stable once
the message is claimed (`LetterSteps`, `InputSteps` say what a step may do to one message), so a late, repeated or
reordered request does no harm. `Shape` fits requests and saves to the stage of the tick that awaits them; `Fates` says
that nothing happens to a message before its claim and that its input is given once; `Live`, that what may still reach
the native session is unresolved at the Relay. That the first entry of the tick exists is a lemma on least places.

Of attachments, `AgentProofs` proves for any clients and any finite family of sessions `AttachmentInv`, `DoubtProtected`
and `UsersCounted`. The heart is the last: the users of an idle entry are the leases that keep the session and its
operation. From it follows that what a sweep or a command detaches is in no lease, which `LeaseServed` needs. Three parts
tie the rest together: `LeaseShape` (what a lease keeps is published, and it waits for something until it holds all),
`JobShape` (a child's job holds its parent before it opens anything, so that the new agent has its parent or knows it was
severed) and `DoubtCovered` (a check that an unknown outcome has overtaken is not current). `StepKinds` sorts the actions
into ten kinds by what they do to leases, jobs and agents, and `LeaseStep`, `JobStep` and `IdentityStep` say what a step
may do to one of them; there is then one lemma per part of the invariant. Assumed are finite sets of clients and
sessions, parents older than their children (`FamilyAssumption`), clients that are not sessions, and "none" values that
are neither sessions nor identities.

`MessageOutboxProofs` proves `OutboxInv` for any texts, messages, window and bounds. Nearly every action ends in
`Replace`, which reconciles what the action made of the timeline and the outbox, so the invariant (`Fits`) is stated of
a timeline and an outbox that may be handed to it, and `ReconcileKeeps` carries it through. `OutboxInv` is not inductive:
it says what an echo settled and not what may still settle. `ViewFits` says that the page shows rows as they are;
`ClaimsFit`, that claims are of different rows, newer than their operation, and end the message; `CursorsFit`, that the
cursor of a message and the rows it has consumed account for every claim of the epoch, and that a cursor moved on only to a
claimed row of the message's text; `Scanned`, that while no digest is pending no pending message still looks at an echo
of its own. The assignment of echoes is a choice of the least echo that the earlier messages left (`AssignedEchoes`), and passing
over takes the greatest echo taken (`PassedOver`); least and greatest members exist by well-founded induction. The
assumptions are those of the module.

`DeviceCredentialsProofs` proves `CredentialInv` and `SavedCredentialStays` for any installations, connections,
credentials and number of faults. A commit is decided when it is staged and takes effect when it is stored; meanwhile
its connection may close, its Controller may leave and another connection may open. `CommitFits` says what the
connection of a waiting commit still has to be, `DraftFits` that the staged draft is still what the commit makes of the
published credentials, and `HostFits` that the offer, the frames, the save and the acknowledgement of the Host's
connection are all of one credential, which is why the acknowledgement retires the right one. `KeysFit` and
`KeysKnown` say that credentials are given out in order and nobody knows one before it is published; `EnrollmentFits`,
that one installation at most shows any sign of enrollment, from the first commit on; `RefusalFits`, that what a refused
Controller presents and is still offered is of no use. Steps that only take something away share one lemma
(`QuietKeeps`), as do steps that add a commit (`EnqueueKeeps`) and those that publish one (`PublishKeeps`): a draft only
takes credentials from its installation or gives it one it may register with (`Evolves`). `SavedCredentialStays`
follows: of all drafts only a registration's takes a promised credential, and a Controller that did not leave its
connection has been promised none but the one it registers with. The assumptions are those of the module: connections
belong to installations, and the special values are nothing else.

`TimelineSyncProofs` proves, from the lemmas of `TimelineProofs` and for any items, page size, numbers of rows, epochs
and lost connections, in four layers:

* `TypesHold`, of every instance: types of the state, the wire, the pages and the replica (`TypeInv`).
* `OneEpochHolds`: `OneEpoch`, where `Ordered` holds, that is, with recovery on the session wire, or without
  replacements. `OneEpoch` is not inductive, since it says nothing of what is on its way. `EpochInv` adds that the replica
  never runs ahead of the Relay and has retired only epochs before its own; that the wire carries epochs in order, none
  older than the replica's (`WireEpochs`); where a catch-up page stands among them, or will (`PageOrder`, `Announced`); and
  that every page shows the epoch it names. Without `Ordered` the statement is false (see *Timeline* above).
* `DisplayHolds`, `CursorSkips`, `ScanKeepsDisplay` and `OlderKeepsAdjoining`: `DisplayInv`, `CursorSkipsNothing`,
  `ScanPreserves` and `OlderPreservesAdjoining`, where `Ordered` holds and items are notes, text and tools. With
  compactions the first is false (see there), without `Ordered` the others have no meaning: they compare the
  display with the epoch it is of. The invariant (`Content`) says what may be on display at any moment, given the rows `T`
  of every epoch there has been. An entry fits its epoch (`Fits`): it starts at a *leader*, a row that joins nothing
  before it, and holds rows of that leader only, in order. Entries are apart; the cursor and the rows that may still be
  applied (`Coming`) lie behind what an entry holds, unless it is a tool (`Fresh`), so that no row is applied twice;
  every leader below the cursor that was ever on display still is (`LeadersHeld`); and below the point from which a
  catch-up was asked (`LowOf`) the display is complete. `PageHolds` says the same of a page in flight, of whatever moment
  it was computed, and `RequestContent`, `RecoveryPlaced` and `OlderPlaced` which requests there are. Each step maps a
  display and a page of this kind to a display of this kind, which passes over no leader (`Passes`).
* `DisplayConverges` and `HistoryUnbroken`: `Converged` and `HistoryContiguous`, where `Ordered` holds and every item
  stands alone (notes). More is not true: one text that grows by joining refutes the first (finding 1,
  `sync_reconnect_race`), a tool call the second (finding 5, `sync_reach_back`). Neither is inductive: `Converged` says
  nothing of a client that is not settled. `Steady` adds to `Content` that every row is accounted for. A row from the cursor
  on is on display, buffered, on the wire, or a read in flight will bring it or ask again (`Lossless`: `Comes`, `Seeks`,
  `Awaited`); rows after a page from the end are on their way while it is (`TailLossless`); the display and every page have
  no hole (`Unbroken`, `WholePage`), and a read starts next to what is on display, or within it (`AfterReaches`,
  `BeforeReaches`), so that joining a page leaves none. `Waits` says what a client that is not done waits for: a ready
  client of an older epoch has the replacement coming, one that catches up has a request or an acknowledgement coming.
  A settled client has none of these, so all rows from its first are on display, and sorted lists of the same entries
  are equal (`SameSorted`).

The projection, the pages and the reducer are recursive functions of rows. What they compute is proved without an
induction theorem over operators (`TimelineProofs`): each has a lemma that the function exists and obeys its equations (`Recursion`
and its uses), and its result is characterised by a set that contains the first index and with each index the next
(`IntervalInduction`). So `Projection` is shown to have one full entry per leader (`ProjectionWhole`), `Only` to keep
order (`OnlyIs`), `Inserted` and `Merged` to keep entries sorted and to hold what they should, `Drained` to apply the
longest run there is.

`TypeOK`, `Coherent`, `OneVerdict`, `ConfirmedHolds` and `UsersCounted` are proved and not listed with a run.

Model-checked only: handoffs with prepared first inputs. Timelines with compactions are in no passing run and under no
theorem but the types and epochs. Liveness (`BecomesReady`, `AcquireEnds`, `ControllersSettle`, `MessagesMove`,
`CacheDrains`, `MarksEnd`, `EveryIntentEnds`, `AcquiresEnd`, `UnneededDetached`) and what needs ENABLED are outside the
prover's reach.

## Not modelled

Contents of messages and resources, authentication, provider protocols, the UI, deployment. In the modelled parts:

* timeline: prepended native history, background outcomes, resource bindings, the snapshot handoff buffer, session
  control readiness, page suspension and permanent refusal;
* outbox: images and resources in a message, a storage that is full or used by two pages, drafts;
* handoffs: enrollment of associations and its release, native prefixes, the captured boundary and context,
  reservations of setting intents, capacity, write failures and unknown publication of the files;
* settings: the lifecycle callbacks and the published snapshot;
* attachments: roles, extensions and creation of sessions, takeovers, failing closed on a mismatched native identity.
  `discard` of a binding cannot be reached, as the Relay closes in the same turn as the bindings. A child whose parent
  is not bound: Claude and Codex refuse it, OpenCode opens it on its own (`agent-provider-opencode/src/provider.ts:103`), without a lease;
* ownership: the claim of a session that its process has just created, which nobody else knows of yet;
* credentials: accounts, sharing and the branch without accounts. The Relay ends a connection that does not register
  within ten seconds with code 1008 (`broker.ts:809`), which a Controller would take for a refusal; its own deadline
  of five seconds (the default) ends the connection first;
* delivery: a second message, which the first may hold up, several members, creation of seats, support groups and TPM, receipts dropped by age and size.

Among the components not modelled at all, the large ones (`App.tsx`, the provider adapters' `session.ts`,
`useSessionSuccession.ts`) render or translate. The broker's streams and sharing hold protocol state and are next in
the plan.

## Plan

1. *Done:* `OperationCache` with its abstract specification and proofs; `Timeline`, `Replica`, `TimelineSync`;
   their proofs; `SuccessionBoundary` with its proofs; `SessionAttachments` and `NativeOwnership` with their proofs;
   `DeviceCredentials`, `MessageOutbox`, `TeamDelivery` and `SettingChanges` with their proofs; the refinement, the
   evidence and the accounting of the cache.
2. `SuccessionContext`: the first input of a successor is delivered at most once across crashes and reconciliation.
   `HandoffPreparation`: coordinator and store with write failures, enrollment and native prefixes, as an
   implementation of an abstract handoff (one linear chain of sessions, one native creation).
3. `SessionControl`: no grant while a native client owns the session, composed with `SessionAttachments`.
4. `AgentCommands`: serialization of commands, interaction claims.
5. `MessageOutbox` with the reads of `TimelineSync` instead of its own page.
6. Hosted broker: stream admission and preemption; uplink multiplexing.
7. Proofs: what remains of `DisplayInv` with compactions.
