# Verification of uxnan

Formal models of [uxnan](../src/README.md): a *bridge* that runs coding agents on a PC,
*phones* that follow and steer them through an encrypted session (directly or through a
*relay*), and a *desktop* application. The modules here are TLA+, checked with TLC on small
instances and, where a theorem is stated, proved with TLAPS for every value of the constants.

Six parts are modelled, the ones where the program's own promises lie and where several
actors meet:

* a client which was away, missed a notification, or outlived a bridge restart ends up with the
  same list of conversations and projects as the bridge (the revision ledger, the two stores
  that share it, the `sync/changes` handler and the phone's replica);
* the session beneath, which carries messages over connections that come and go and replays
  what was missed;
* the turns of a conversation: one at a time, none lost, none given to the agent twice;
* the relay's room, where a phone waits for the channel the bridge opens for it;
* the agent sessions a desktop's terminals hold, and how one is handed over;
* what people decide about a conversation on phones that are out of reach, and how the last of
  it wins.

## 1. Inventory

Paths are relative to `src/`. "Hard" names the behaviour a test would hardly reach; the full
list, line by line, is under `hazards` in `PROJECT.json`.

| Component | State | Operations | Talks to | Hard | Correct when |
|---|---|---|---|---|---|
| Revision ledger, `bridge/src/sync/sync-ledger.ts` | `storeId`, `rev`, tombstones, `horizon`, marks; `sync.json` | `next`, `tombstone`, `revive`, `observe`, `deletedSince`, `flush`, `load` | called by every store of the bridge | two stores interleave on one ledger; crash between files; tombstone limit | `{ since }` returns everything newer or says "reset"; no revision twice |
| Thread store, `bridge/src/conversation/thread-store.ts` | summaries, bodies, journals; one file per thread | start, change, delete, turns; `#transact` → `#commit` → `flush` → `#announce` | ledger, `bridge.ts` listeners, agent manager | several files per change; errors midway; reads during a transaction | memory, disk and what was announced never contradict each other after a crash |
| Project registry, `bridge/src/projects/project-registry.ts` | projects by id; `projects.json` | add, rename, remove, persist | ledger, listeners | ids come back | as above |
| `sync/changes`, `bridge/src/handlers/sync-handler.ts` | none | one request, two awaits | stores, ledger, trust store | state read before and after an await | the answer stands at the revision it names |
| Bridge settings, `bridge/src/settings/bridge-settings.ts` | one revisioned value | set | ledger (marks) | as the stores | as the stores |
| Phone replica, `uxnanmobile/lib/application/managers/bridge_replica.dart` | cursor, `_syncing`, `_syncAgain`; drift database | `sync`, `_admit`, `_apply`, `_onEvent`, `_onPhase` | session coordinator, conversation manager, outbox, database | live events beside a running sync; a killed app | whatever the cursor covers, the phone has |
| Conversation manager (phone), `.../thread_manager.dart` | list and open conversations | replica writes, local optimistic writes | replica, database | two writers of one row | the list follows the bridge |
| Action outbox (phone), `.../action_outbox.dart` | decisions not delivered yet, with their age | `deliver`, `keep`, `flush` | conversation manager, replica, session, thread store | late and repeated delivery; timeouts; a newer decision elsewhere | the last decision wins, nobody deletes what they had not seen, all that is kept goes out |
| Outbound log and session registry, `bridge/src/transport/outbound-log.ts`, `session-registry.ts` | per phone: next seq, window of messages, current sink | `record`, `entriesAfter`, `register`, `unregister`, `notify` | session handler | old connection beside the new one; eviction; restart | each message once, in order, or a gap the phone can see |
| Session handler, `bridge/src/transport/session-handler.ts`, `server-handshake.ts`, `secure-channel.ts` | per connection: channel, sequence numbers, idle timer | handshake, replay, dispatch, teardown | registry, router | superseded connections; idle close | one current connection per phone |
| Phone session, `.../session_coordinator.dart`, `secure_transport_layer.dart`, `request_correlator.dart`, `outbound_message_buffer.dart` | phase, `lastAppliedBridgeOutboundSeq`, pending requests, buffered requests | connect, reconnect, switch route, resume | transport, bridge | retries, timeouts racing late answers, kill | a request is answered or fails; the resume point is never ahead of what was applied |
| Trust store and pairing, `bridge/src/transport/trust-store.ts`, `bridge/src/pairing/pairing-code-service.ts` | trusted phones, pairing window, one-time codes | arm, confirm, revoke | handshake, relay | code used twice, window closing while in use | a phone is trusted only after an armed window and a fresh code |
| Agent manager, `bridge/src/agents/agent-manager.ts` | per thread: running turn, queue, paused reason, open inputs, steps | send, steer, stop, hand off, adapter events | adapters, thread store | stop racing a turn's end; a held session; queue pauses | one turn per thread; nothing queued is lost or run twice |
| Session holds, `bridge/src/agents/session-holds.ts`, `uxnandesktop/src/lib/state/terminalSessions.svelte.ts` | bridge: holds, pending hand-offs; window: what it last told | hold, release, list, request, answer, timeout, disconnect; report, converge, let go | desktop, agent manager, local control server | reports that overlap; answer racing disconnect, timeout and a new hold; reload and superseded connections | the bridge keeps exactly what the tabs run; "released" only when free |
| Agent adapters, `bridge/src/adapters/*` | one external CLI each | protocol translation | agent CLIs | the CLI's | theirs |
| Relay room and host, `relay/src/room.ts`, `bridge/src/relay/relay-host.ts` | sockets' attachments, allow list, tickets, alarm | auth, dial, pair, forward, drop, alarm | phone, bridge | hibernation; deadlines; a peer leaving during an await | a phone is paired with exactly one channel, and nobody waits forever |
| Push, metrics, local control server, discovery, lock file | small, local | | | external services | |
| Workspace, checkpoints, git, usage, views, account, self update | that of other programs | calls to them | | | |
| Desktop, `uxnandesktop/` | terminals, ssh, automations, editor; a replica of its own | | bridge | as the phone replica | |
| Shared contracts, web site, release scripts | none | | | | |

`PROJECT.json` lists each with its status; everything not modelled says why.

## 2. Plan

In the order of how much of the system rests on each part:

1. **Done** `BridgeStore`, `StoreClient`, `ReplicaSync`: ledger, stores, `sync/changes`, replica.
   Proof of what the bridge keeps true of its own state (`BridgeStoreProofs`), and on top of it of the
   two promises every client relies on (`StoreClientProofs`) and of every safety property of the phone's
   replica (`ReplicaSyncProofs`).
2. **Done** `SessionCatchUp`: outbound log, registry, replay, superseded connections, the phone's
   resume point; it implements the abstract `Delivery` (checked and proved); types and all safety
   properties proved.
3. **Done** `TurnQueue`: the agent manager's queue; it implements the abstract `Conversation`
   (checked and proved), and every safety property is proved.
4. **Done** `RelayRoom`: sockets, deadlines, the alarm; all its safety properties proved.
5. **Done** `SessionHolds`: terminals' sessions and their hand-over; types and all safety
   properties proved, `Told` among them, whose invariant follows every report under way.
6. **Done** `ActionOutbox`: decisions made offline, dated and flushed late; both of its safety
   promises proved.
7. Open: `TurnJournal` (append, fold, replay after a crash), `Pairing` (window, code, trust);
   `TurnQueue` composed with `SessionHolds` (a turn is refused in a session a terminal holds).

## 3. The modules

| Module | Models |
|---|---|
| `BridgeStore` | ledger, thread store, project registry, their files, crashes and failed writes |
| `StoreClient` | `BridgeStore` and one client reduced to a copy: what the store promises anyone |
| `BridgeStoreInv` | what the bridge keeps true of its own state, and the words its clients' invariants are put in |
| `BridgeStoreProofs` | what each of its steps does to that, for both of the modules below |
| `StoreClientInv` | the inductive invariant of `StoreClient` |
| `StoreClientProofs` | the theorems |
| `ReplicaSync` | `BridgeStore`, the handler with its awaits, the link, the phone's replica and database |
| `ReplicaSyncInv` | the inductive invariant behind the phone's cursor |
| `ReplicaSyncProofs` | the theorems |
| `MCStoreClient`, `MCReplicaSync` | the same with symmetry for TLC |
| `Delivery` | abstract: what the catch-up promises |
| `SessionCatchUp` | outbound log, registry and session handler; the phone's session and channels |
| `SessionCatchUpProofs` | the theorems, and that it implements `Delivery` |
| `Conversation` | abstract: what the bridge promises of one conversation |
| `TurnQueue` | the agent manager's handling of one conversation's turns |
| `TurnQueueInv` | its inductive invariant |
| `TurnQueueProofs` | the theorems on its safety, and that it implements `Conversation` |
| `RelayRoom` | one room of the relay, with its phones and the bridge's side of it |
| `RelayRoomProofs` | the theorems |
| `SessionHolds` | the bridge's registry of holds, the desktops' windows and their connections |
| `MCSessionHolds` | the same with symmetry for TLC |
| `SessionHoldsInv` | what `Told` and `ReleasedIsFree` rest on |
| `SessionHoldsProofs` | the theorems |
| `ActionOutbox` | decisions on one conversation: phones with their outboxes, requests, and the bridge's dates |
| `ActionOutboxProofs` | the theorems |

### BridgeStore

One change of one store is one transaction. `Begin` is the synchronous part of the code: the
change is made in memory under a fresh revision (`#bump`, `tombstone`, `revive`), and the store's
promise chain (`#mutate`, `#serialize`) keeps the next one out until this one ends. Then each
file is written by a step of its own (`WriteThread`, deletions before indices as `#commit` does;
`WriteProjects`), `Flush` writes `sync.json` — *as the shared ledger stands, the other store's
open change included* — and `Announced` hands the change to the listeners. A step of the other
store, a request or a crash may come between any two of these.

* `led`, `ents` are memory; `savedLed`, `savedEnts` the disk. An entity's content is
  abstracted to the revision its last change took (`Absent` when there is none).
* `tx[s].todo` is what is still to be written, `tx[s].news` what will be announced; `due[s]` is
  flushed and not yet announced.
* `Restart` is a crash and the next start: memory becomes the disk, and `observe` lifts the
  counter past every entity read back. `Recreate` is a start without `~/.uxnan`.
* `FailWrite` is a write that throws: the transaction ends, nothing is announced, memory keeps
  the change (the `finally` of `#transact` undoes nothing).
* Two variables are bookkeeping, not state of the code: `openRead` (a client was answered over
  this store's open transaction) and `ahead` (a write failed and memory has been ahead of the
  disk since). Only the guards of the schedules below read them.

### Schedules left out, and what each one shows

The code keeps its promises on most schedules and not on all. Each exception is a named member
of `Windows`, described at the guard that leaves it out; with every window open the model is
the code. The passing runs leave all of them out; a run that names one finds the trace.

| Schedule | Breaks | What happens |
|---|---|---|
| `unflushed_answer` | `NextRevIsNew` | `sync/changes` reads memory while a change is open; a crash hands its revision out again |
| `records_await` | `CursorSound` | a thread changes between the handler's two reads; the answer's revision covers it, its content does not |
| `late_response` (run) | `NothingSkipped` | a request is answered after the phone's next connection registered: the answer takes a number after the replay and goes to the old connection |
| `queued_frame` (run) | `AppliedInOrder` | frames wait to be decrypted when the resume point is read for the next connection, and are applied again from its replay |
| `late_ledger` | `IncrementalIsExact` | crash after the entity's file is gone and before `sync.json` has the tombstone |
| `early_ledger` | `IncrementalIsExact` | the other store flushed a tombstone whose entity is still on disk, then a crash |
| `failed_write` | `IncrementalIsExact` | a change kept in memory after a failed write, read by a client, flushed with the next one, lost in a crash |
| `cursor_first` | `SavedCursorSound` | the app is killed after a notification's revision was saved and before its change was |
| `late_answer` | `Converges` | an answer built before an announcement and sent after it puts the cursor back |
| `overtaken` | `CursorSound` | an answer applied while an older notification still waits for the database |
| `overwritten` | `SavedCursorSound`, `CursorSound` | a notification newer than an answer is taken while the answer is still being written: its cursor and its change are on disk before the answer writes the entity's older state over it. It takes an answer of three writes before the one it undoes (two threads and a project, `MaxRev` 4, `MaxPending` 2), so it lies beyond the bounds of the runs; working out the invariant of the cursor's proof showed it |
| `lazy_cursor` | nothing alone | after a kill the first caller of `_cursorFor` (`bridge_replica.dart:318-325`) waits for the database, and whoever asks meanwhile finds no cursor: its notification is applied without being compared, its sync asks for everything. TLC, run to the end with this schedule open on the constants of `replica_crashes` and of `replica_converges`, finds no violation (some six and two million states, longer than a run may take). It takes a notification the log sends a second time after the kill, which is not modelled (section 6), to write a row older than the loaded cursor over a newer one |
| `stale_compare` | `Converges` | news of a recreated bridge compared with the cursor of the old one |
| `switched_pc` | `AppliedInOrder` | the phone connects to another PC: `_commitSession` takes no checkpoint of the session it replaces, and coming back replays what was applied since the last heartbeat |
| `behind_ready` | `NothingSkipped` | replayed frames that arrive together with `ready` sit in the handshake's `StreamQueue`, which is then cancelled. That queue is a library's: the model assumes that, once it has the frame it waits for, it pauses its subscription, which then holds what follows |
| `overlap` (run) | `OneTurn` | a second message is sent, or the queue drained, while the first one's turn is being written: the thread still looks idle, and both turns are started |
| `stop_race` | `StopHolds` | the thread is free as soon as the agent was stopped, the pause is set when that is written: a message queued in between starts what the person stopped |
| `late_pause` | `PausedMeansWaiting` | the pause of a turn's end comes when a later turn runs and takes the last queued message: a pause is left over an empty queue |
| `clear_race` | `NobodyStranded`, `NeverTwice` | the queue is cleared while the agent is taking its first message, which is withdrawn and answered |
| `failed_end` | `OneTurn`, `Shown` | the write of a turn's end fails after another turn was started: that one is no longer the active one, and a third may start beside it |
| `late_hold` | `HoldsAreLive`, `Told` | `agent/hold` waits for `threadForSession` while its desktop disconnects: the hold is taken for a client that is gone and keeps the session from everyone until that client comes back, though `session-holds.ts:12-13` says a hold ends with its connection; or it goes on when its desktop has let the session go. Left out, no other call of that desktop is handled while its hold waits |
| `stale_report` | `Told` | a report that waits for one tab's call goes on, when later reports have begun, by what was wanted when it began: it holds a session whose agent exited meanwhile, or lets go one that started |
| `answer_drops` | `ReleasedIsFree`, `Told` | the session starts again in the tab that is letting it go; the answer `released` deletes the new hold (`session-holds.ts:173-181`) |
| `two_writers` | `Told`, `ReleasedIsFree` | two desktops run one session: the later hold takes the earlier one's place, and its end leaves the other unprotected |
| `behind_lost` (run) | `LatestWins` | a conversation is renamed, the link is lost, and it is renamed again: the second name is kept at once, the first when its request times out, which removes the second (`enqueueAction` does not compare dates) |
| `killed` | `LatestWins` | the app is killed while a decision sent at once has no answer: it was on its way and nowhere else |
| `same_title` | `LatestWins` | a conversation is given the title it has: the bridge changes nothing, its date included, and a rename decided in between and flushed later wins |
| `late_arrival` | `DeletesWhatWasSeen`, `LatestWins` | a decision sent at once has no date and counts as made when it arrives: one made elsewhere while it was on its way comes before it, or is deleted by it |

Those marked with a run have one, and a finding in `PROJECT.json`. The others are reached by
putting their name in `Windows` of a run of the module that names them.

### StoreClient

A client is a `copy`: the whole state as one answer gave it, at the revision it gave it, kept
as long as it likes. This is the weakest client there is, and `IncrementalIsExact` (the next
incremental answer makes the copy exactly the present state) and `NextRevIsNew` (the counter
never falls below what the copy knows) are what `sync-ledger.ts:4-17` promises any of them.

### ReplicaSync

`ListThreads`, `ReadRest` and `SendAnswer` are the three synchronous pieces of the handler, cut
at its two awaits (`threadsChangedSince`, `trustStore.list`). The link carries notifications
and answers in order; a disconnect drops the answers and keeps the notifications (the outbound
log replays them), `Evict` loses the oldest, a bridge restart loses all.

On the phone `DropStale`, `TakeNext` and `TakeAhead` are the three outcomes of `_admit`;
`ReceiveAnswer` starts `_apply`. The database executes one statement at a time, and a caller
asks for its next one only when the last is done (`jobs`): this is where a notification and an
answer interleave. `_saveCursor` changes the cursor in memory when it *asks* for the statement
(`CursorOf`). After `Kill` the cursor is read back when somebody first asks (`loading`, `LoadCursor`,
`_cursorFor`). `WantSync` is the single-flight of `sync()` with its one folded pass.

### SessionCatchUp

One phone, one run of the bridge, and the connections between them in the order they are
dialled. A message is its number. `Record` is `OutboundLog.record`; since message sizes are
abstract, the byte cap is a choice of how much more than the count cap is cut.

`Accept` is the stretch of `handleSecureConnection` from `ready` to `register`, which has no await
that lets anything else in: replay, new sink, old connection closed. A connection can be
accepted after the phone gave it up. `Notify` sends where the registry says; `Respond` sends on the
connection that asked. `up` is whether what is sent on a connection arrives; `Break` ends it with
any part of what is on the way lost, and `Teardown` is the handler noticing, any time later.

On the phone, `Dial` is a reconnect, or a direct host tried beside a live relay connection (that
only a relay connection is left this way is not kept: more switches are possible than in the
code). `Commit` replaces the live connection, with `SkipThrough` taking over its position;
`Receive` queues a frame with its channel, `Decrypt` applies it or refuses it as a replay. The
resume point exists three times: on the channel (`last`), in memory (`resume`), in the
database (`saved`, written asynchronously). `Kill` falls back to the last.

`applied` and `got` are history: what the app was ever handed, and the sequence of what it was
handed since it started. After a kill the app is handed again what the database had not counted;
within one life of the app the sequence ascends strictly, so nothing comes twice
(`AppliedInOrder`; a replay check off by one breaks it). `NothingSkipped` is the other half: nothing counted that
was not handed over, as long as the bridge keeps it. Together with the order of first
deliveries this is `Delivery`, checked as a refinement; to `Delivery` a repeat is a stutter.

### TurnQueue

One conversation of `AgentManager`. A message is its turn. `at` is the position of each turn in
the manager and the store together; a handler of the code is a sequence of steps cut at its
awaits: `sendTurn` is `Send`, `Store`, `Hand` (or `Send`, `Park` when it queues), `#drainQueue` is
`Drain` (inside the step that calls it), `Begin`, `Hand`, with `StartFails` and `StartFailed` its
catch. `active`, `queue`, `paused`, `nextUp`, `shows`, `missed` are the maps of the class;
`end[r]` is the handler of a run's terminal event, in the order of its awaits: it waits for an
offer in flight, names its turn, asks `#hasEnded`, writes, forgets the run, goes on.

A queued message may be *offered* to the working run at a pause (`StepEnds`, `#deliverAtPause`).
`AgentReads` is the moment the agent has it and `OfferTaken` the moment the manager knows: the
run may end, be stopped, or the queue be changed in between. `HandOff` gives the run to that turn.

The agent is the environment: it starts and ends steps, reads what it is offered or not, ends when
it likes, and may report an end a second time (`AgentEndsAgain`). `given` and `held` are history:
how often each message reached the agent, and what waited when it was stopped or broke.

`StartThrows` is a turn that `sendTurn` started itself and whose way to the agent throws
(`agent-manager.ts:674`): it stays the active one with no run behind it. `Served` excuses it,
because the code keeps the thread for good.

### RelayRoom

`conn`, `step`, `deadline` are what the relay's runtime and a socket's attachment know of it, and
`alarm` the one alarm of the room: since everything is in attachments, the object's eviction and
return change nothing, and hibernation is a stutter. A frame to be verified (`Auth`) is answered some
time later (`HostReady`, `PhoneReady`, `Pair`, `Refused`), with closes, frames and the alarm in
between. `Revoke` closes the phones of keys that are not allowed any more. A socket sends one auth
frame, as the bridge and the app do: they answer a challenge once (`relay-host.ts:265-282`,
`relay_client.dart:98-135`) and the room sends one (`room.ts:107`).

Of the bridge: it holds one control socket, attaches its listener some time after `ready`
(`Listens`; a dial that comes before is lost, `relay-host.ts:168`), may lose its connection without
the relay noticing (`HalfOpen`), and opens a channel for each dial it hears, which may fail.

### SessionHolds

The bridge's side is `holds`, `pending` and which desktops have a registered connection; each
request handler is one step, except `agent/hold`, which waits for `threadForSession`. `asks` is a
hand-off request on its way to a desktop, kept for it when it cannot be reached.

A window's side is what its tabs run, `sent` (what it last told) and the three asynchronous
procedures of `TerminalSessions`, each of which may be under way beside the others: `report`
(several at once: the effect starts a new one at every change and none waits for another), `conv`
and `letgo`. `GoOn` is one stretch of `#report` between two of its awaits. `up` is the calls
on the way, with who waits for each answer.

`Drop`, `Quit`, `Reload`, `Connect` and `BridgeRestart` are what breaks and comes back. A
connection that supersedes another ends no holds (`unregister` finds a newer sink), so a window that
says what it runs (`SaysAll`) must also ask what the bridge still keeps for it (`#converge`); the mutant
without that leaves a hold for ever.

### ActionOutbox

Everything people decide about one conversation, in the order they do, is `taken`; a decision is
its place in it, and time is counted in decisions, so that "later" is "greater" and `ageMs` is the
number of decisions since. A turn that starts or ends on another client takes a place of its own,
because a deletion is compared with it.

`Act` is a handler of `ThreadManager` with `_deliver` and `ActionOutbox.deliver`: in reach (`link`,
what `_reaches` asks) the request goes without a date and somebody waits for its answer
(`waits`); out of reach it becomes a row (`Enqueue`, which removes what it supersedes).
`Answered` and `TimedOut` are the two ends of the wait; the second keeps the decision. A pass of the
replica reads the rows once (`pass.list`) and sends them one by one with their age
(`Flush`, `Heard`); `FlushFails` is its `return` over what was folded into it (`bridge_replica.dart:246-248`). `Drop` loses any part of
what is on the way and, or not, the answers; `Kill` ends the app, and the rows stay. `has` is only
what `Learns` needs: a conversation that was deleted here comes back with the next change.

At the bridge `title`, `status` and `active` are what `decidedAt` and the turns say, each with the decision it
came from; `Handle` is a request's handler, with `DecidedAt` the date it goes by.

`action_outbox.dart:10-14` says that what is kept is sent when the PC is reachable again. A pass of the
replica starts when the phone connects, resumes or notices a gap; only the first is sure to happen.
`KeptIsSent` says that these passes are enough for what is kept out of reach, with one exception
(`Folded`): the phone connects before the requests of the last connection have timed out. The pass
this connection asks for is then folded into the old one, though `sync()` promises one more pass
(`bridge_replica.dart:226-227`), and dropped with it when its flush fails: the row stays until something
else asks. Nothing is claimed of a decision that a timeout keeps on a phone that stays connected.

## 4. Runs

| Run | Bounds | Shows |
|---|---|---|
| `store_crashes` | 2 threads, 1 project, 4 revisions, 1 tombstone, 2 stores | `IInv` (so it is an invariant before it is proved), `IncrementalIsExact`, `NextRevIsNew` with crashes, failed writes, restarts, recreation |
| `replica_crashes` | 2 threads, 4 revisions, 1 tombstone, 2 pending frames and callers | `CursorSound`, `SavedCursorSound`, `CursorRevTaken` with either side killed, writes failing, and a phone below the horizon that is reset |
| `replica_converges` | 1 thread, 1 project, 2 revisions, 2 stores | `Converges` under `FairSpec`, and `CursorSound` over a recreated bridge |
| `catchup` | 3 messages, window of 2, 3 connections | `NothingSkipped`, `AppliedInOrder`, `SinkServes`, the refinement of `Delivery`, and `Delivered` under `FairSpec` |
| `turn_queue` | 3 messages | `IInv`, the safety properties of `TurnQueue`, the refinement of `Conversation`, and `Served` under `FairSpec` |
| `relay` | 2 phones, one at a time, 2 control sockets, room for 3 sockets, timeouts of one tick | `OneHost`, `AlarmCovers`, `HasDeadline`, `BothHalves`, and `NobodyWaits` under `FairSpec` |
| `holds` | 2 desktops, 2 sessions, 1 request, 2 reports at once, 3 changes, 1 break | `HoldsAreLive`, `AskedAreThere`, `Told`, `ReleasedIsFree` |
| `outbox` | 2 phones, 3 decisions (rename, archive, delete, turns among them), 1 break | `LatestWins`, `DeletesWhatWasSeen`, and `KeptIsSent` under `Fairness` |
| `late_response`, `queued_frame`, `two_turns`, `behind_lost` | the smallest that suffice | the counterexamples of section 3 |

Why the bounds are enough: four revisions are create, create, delete, delete, the shortest way
past a limit of one tombstone, so the horizon moves while a client holds something it forgot.
Two stores are both chains that share the ledger, each open at once. Two frames and two
callers are a notification and an answer on the way, and both writing. `MaxStore` 2 is one recreation.
Three connections are a live one, its replacement, and one given up that the bridge accepts
late; three messages over a window of two make the log lose one the phone never had.
Three messages are one that runs, one being handed over, and one that waits behind both or is
sent now. In the relay two phones, one after another, and room for three sockets are a control
socket, a phone and no place for its channel while a second control socket is there; the second
phone meets what the first left. The two timeouts are equal in the code (10 s each). Two sessions
are what it takes for a report to wait for one while another changes; three changes start a
session, make it work and end it, or run two with one exiting; one break is any of the
five, each of which already replaces a connection or forgets a window's state.
Three decisions are one, another that outdates it and a third beside or between them; with one
break each phone has been out of reach at the start and one of them again with requests on their
way. The safety properties also hold with two breaks (3.4 million states), which is not kept as a run.
`unarchiveThread` differs from `archiveThread` in its value only, so one of the two is enough for TLC.
`MaxRev`, `MaxStore`, `MaxPending`, `MaxSeq`, `MaxConn`, `MaxTurn`, `MaxReports`, `MaxChanges`, `MaxDecisions`
and `MaxBreaks` only cut behaviours off; nothing in the code depends on them.
One thread name can start again once every trace of it is gone, and then stands for a new id.

Fairness. `FairSpec` asks only that the phone goes on while it has something to do
(`WF_vars(Phone)`: an event loop) and that the bridge does (`WF_vars(Bridge)`: promise chains and
a request handler). Nobody is obliged to change anything, to connect, to come back to the
foreground or to stop crashing; `Converges` therefore assumes `<>[](connected /\ Still)`.
In `SessionCatchUp` fairness is only the phone's event loop (`Receive`, `Decrypt`), and `Delivered`
assumes one connection that stays: the bridge has put the replay on it before it serves it, so
nothing more is asked of the bridge.
In `TurnQueue` the promises of the manager go on (`TurnStep`, `EndStep`, `OfferStep`), and a run ends
some time, if only because somebody stops it; nobody has to send, resume or withdraw anything, so
`Served` excuses a queue held for the person. In `RelayRoom` only time passes, the alarm
goes off, and a close that was started ends: `NobodyWaits` asks nothing of the bridge or the phone.
In `ActionOutbox` a phone that is not told otherwise connects, a link that stays carries what is on it,
the bridge answers and timers fire (`Goes`): as long as something of this kind can happen, something does.
Within the bounds each of them happens finitely often, so one condition over all suffices and says
less than one for each. Nothing is sure to ask for a pass but a new connection (`Asked` has no fairness).
`SessionHolds` has no fairness; `Told` is about a desktop with nothing under way instead.
Failed writes are left out of `replica_converges`: such a change is never announced, and
nothing tells a connected phone of it before the next one.

Deadlock is not checked in these runs: at a bound, once a phone has everything, when every
message is answered or every socket gone, nothing has to happen.

## 5. Proofs

`BridgeStoreProofs` says what every step of the bridge does, for any sets of threads and projects,
any tombstone limit, any number of revisions, crashes, failed writes and recreations, and is used by
the two modules that compose `BridgeStore` with a client. It keeps `BridgeInv`: `TxInv` ties an
open transaction to the memory it left and to a ledger the other store may have flushed already;
`OnDisk` says everything else is written; `CounterOnDisk` that `observe` recovers the counter. After a
failed write what is said of the disk is suspended until memory and disk meet again (`ahead`). Every
kind of change is first reduced to its effect (a set of deletions and updates under fresh
revisions, horizon moved or not), so that preservation is proved once and not per handler.

A crash replaces memory by the disk, so a client's invariant must hold of *both*. `Truths` lets it be
said once: a truth is an entity as memory has it, or as the disk has it where a crash may bring it
back, with the revisions its last change may have had (a tombstone below the horizon is gone, and its
date may be any up to there). What a step leaves or makes true is then either an earlier truth or newer
than anything a client was told. `Taken(c, S)` is the other half: a revision told stays told, except
while a transaction read for it is open.

`StoreClientProofs` proves, on every schedule that `SafeSchedules` admits (it leaves out
`unflushed_answer`, `late_ledger`, `early_ledger` and `failed_write`):

* `Invariance`: `Spec => []IInv`; `TypeCorrect`;
* `AnswersAreExact`: `Spec => []IncrementalIsExact`;
* `RevisionsAreNew`: `Spec => []NextRevIsNew`.

Its invariant adds to `BridgeInv` that each truth is either in the copy or newer than it.

`ReplicaSyncProofs` proves, for any number of frames on the link, statements and callers waiting and
kills of either side besides, on every schedule but those `CursorSchedules` leaves out (of all windows
only `stale_compare` may be open, which the model puts into `Converges` alone):

* `Invariance`: `Spec => []IInv`; `TypeCorrect`;
* `CursorIsSound`, `SavedCursorIsSound`, `CursorRevsAreTaken`.

`CursorSound` names two states far apart, the bridge's entity and the phone's row, and what lies between
them is in six places: an open transaction, a change due to be announced, a frame, an answer that is
being put together, one on the link, and statements that wait. The invariant says what each of them
owes the cursor:

* `NewsInv`: news is announced once, in the order of its store's changes, flushed first (`Settled`), and
  what is due is what the bridge has.
* `JobsInv`, `OneAnswer`, `SavesInv`: each caller of the database writes one notification or the one
  answer, and saves no cursor the phone does not have by then.
* `CursorInv`: of each truth, either its change is newer than the cursor (`After`), or the phone is at it
  once all the *news* that waits is written (`Kept`: of two callers, the one that has still to save its
  cursor writes its entity later, then the one further back).
* `ApplyInv`: while an answer is applied, no statement that waits contradicts what it covers, and no news
  behind it will (`Right`, `Behind`). This is what `overtaken` and `overwritten` break.
* `LinkInv`, `ReadyInv`, `AskedInv`: an answer on its way stands at the revision it names. It brings what
  changed since the cursor it was asked with, and of what it leaves out no news is to come (`Brings`).
  This is what `records_await` and `late_answer` break.

TLC agrees with this invariant on the instance of `replica_converges` (876 053 states) and on random
behaviours of larger ones; no run keeps it, since it is slow to evaluate.

`cursor_first` breaks `SavedCursorSound` as the table says, and the bridge's four schedules break
`BridgeInv` or `Taken`. There is one lemma per action and conjunct it disturbs; the phone's two ways of
taking a notification share one (`Admits`), and so do the steps that only drop frames.

Assumptions of all three: `BridgeAssumption` (threads and projects are disjoint finite sets, the
limit is positive), and the guards of the schedules.

`SessionCatchUpProofs` proves, for any number of messages and connections:

* `SinkAlwaysServes` and `TypeCorrect`, whatever `Windows` is. `SinkServes` is inductive with the types
  of what it reads (`RegistryInv`): `register` closes whom it replaces, so nobody else is both served
  and up; the identity check of `unregister` keeps an old connection's end from clearing its
  successor; and every other step can only take connections down (`FewerUp`). `TInv` has the
  types of everything, with the two bounds of the log.
* `NothingIsSkipped` and `KeepsThePromise`, without `late_response` and `behind_ready`
  (`KeptSchedules`). Nothing is lost in between because a connection *bridges* (`SkipInv`, `Bridges`):
  what is on the way on it, queued or in its mail, is consecutive, from a number the phone had
  reached when the connection was made to the last one the bridge gave out. An answer that takes a
  number after the replay, or frames lost with a cancelled queue, leave a gap there, and these are the
  two schedules left out. The refinement needs nothing else: `Decrypt` of a new message is a
  delivery, and every other step leaves the delivery as it is.
* `HandedInOrder` (the invariant `AppliedInOrder`), without `queued_frame` and `switched_pc`
  (`OrderedSchedules`): whatever
  may still be decrypted on a connection is above what the resume point of its dial covered, and
  at most one connection has anything to decrypt (`OrderInv`).

`TurnQueueProofs` proves, for any number of messages and on the schedules without `overlap`,
`failed_end` and `clear_race` (`SafeSchedules`; `stop_race` and `late_pause` may be open except where
said):

* `Invariance`: `Spec => []IInv`; `TurnTypes`, `NobodyIsStranded`, `NeverGivenTwice`, `OneTurnAtATime`,
  `AlwaysShown`;
* `PausesMeanWaiting`, without `late_pause`; `StopsHold`, without `stop_race`.

The properties say what the manager promises; the invariant says why it can keep it. `StartInv`: at
most one turn is on its way to the agent, over an idle thread, and once it has been stored it is the active one.
`ShowInv`: a run answers at most one turn and a turn is answered by at most one run, which works or
whose end is being dealt with, and it is active until that end is booked. `EndInv`: the turn named by
each end's handler, at every one of its awaits, a repeated end included. `OfferInv`: a run that
read a message goes on, or its end waits for the hand-over, so that the message is still queued
when it is placed. `GivenInv`: nothing that may still be started was given. `RunningInv`: whatever
shows as running has somebody to end it. There is one lemma per action and conjunct it disturbs.

It also proves `KeepsThePromise`: on the same schedules, `TurnQueue` implements
`Conversation` with `Phase` as the refinement mapping. `Park` is a `Wait`, `Store` and `Begin` are an
`Answer`, `HandOff` is a `Join`, the end of a run a `Finish`, `Clear` and `CancelQueued` a `Withdraw`; that
nothing else is being answered when an `Answer` begins follows from `StartInv` and `ShowInv`.

`RelayRoomProofs` proves every safety property the run checks (`RoomTypes`, `OneControlSocket`,
`DeadlinesAreKept`, `NobodyWaitsUntimed`, `HalvesStayTogether`) for any sets of phones and control
sockets, any timeouts and any limits, from `RelayAssumption` alone. They are inductive together with
two facts: an attachment says nothing of a socket never opened (`NewInv`), and a
channel comes after its phone (`PhoneFirst`).

`SessionHoldsProofs` proves, for any desktops, sessions, requests, reports and breaks, from
`HoldsAssumption` (a session is one of finitely many tabs, numbered from 1 since 0 is "none"):

* `TypeCorrect`, whatever `Windows` is. `TypesInv` adds what the types themselves rest on: a hand-off, a
  report and a `#converge` under way are about tabs of their own desktop.
* `Invariance`, `HoldsEndWithTheirDesktop`, `NobodyAsksTheGone`, with every schedule open but `late_hold`: a
  desktop the bridge does not serve has no connection and no call on its way or waiting
  (`GoneIsGone`).
* `SaysItAll` and `ReleasedFrees`, with `Closed`: the four schedules `late_hold`, `stale_report`,
  `answer_drops` and `two_writers` left out, as in the run.

`Told` speaks of a moment with nothing under way, and is reached through moments when much is. `SayInv`
says for every one of them that what is under way *will* bring the bridge to what the tabs run.
`WantedBy` and `ToldBy`: what reports may yet say, on top of what was last told, is what the tabs run
now. `SaidBy`: the calls on their way, taken in their order, turn what the bridge keeps into what
was said, unless `#converge` has yet to let a session go (`ConvBy`); `AnswersBy` the same for the answers a
hand-off still owes. `StoppedInv` says the terminal that gives a session up runs it no more or has a
report to say so, and `WriterInv` that one desktop writes a session, and nobody else while its
holder is asked. Each schedule left out breaks one of them: a late hold `SaidBy`, a stale report
`ToldBy`, the answer that drops a new hold `AnswersBy`, two writers `WriterInv`.

`ActionOutboxProofs` proves `LatestActionWins` and `DeletesOnlyWhatWasSeen` for any phones, kinds,
decisions and losses, with `Safe` (all four schedules left out) as assumption. `LatestWins` says that the
*last* decision is at the bridge or still carried, which no step preserves by itself: a later one may
be deleted, superseded, or answered. `IInv` says it of *every* decision: the bridge heard it or one that
outdates it (`Settled`), or a later one makes it moot (`Overtaken`), or it is kept or waited for
(`NothingLost`). What makes that inductive: a row is removed only when its decision is `Settled` or `Overtaken`
(`AnsInv`, `ListInv` and `KeptInv`: what a timeout will keep is younger than the rows it supersedes), and
the bridge's dates are true (`Dated`, `NetInv`: a late request's age counts from its decision, and one without
an age is handled before anything else is decided). `Settled` and `Overtaken` only ever become true
(`Lasting`), so a step is proved by what it does to one phone (`PhoneStep`, `StayingPhone`).
`TypeCorrect` adds what these do not need: a row's number is its own, each decision has one row, and a
flush that waits has something to wait for (`RowsInv`, `PassInv`).

Only model-checked: liveness (`Converges`, `Delivered`, `Served`, `NobodyWaits`, `KeptIsSent`), which is out of
the prover's reach with `ENABLED`. Every invariant and every other property of the passing runs is a
theorem.

## 6. Not modelled

* What an entity contains, beyond the revision of its last change; turn bodies and journals.
* Settings, presence, devices, live state and running turns, which ride in the same answer.
* The phone's own optimistic writes. In `ReplicaSync` its outbox, with whose flush `sync()` starts.
* In `ReplicaSync`, redelivery after a phone kill of notifications the log still holds: its link
  keeps what was not received. The resume point is `SessionCatchUp`'s. With it `lazy_cursor` would be
  harmful.
* In `SessionCatchUp`, a restart of the bridge (its numbers start again, which
  `architecture/02a-system-architecture.md` accepts: the phone asks for its lists, as in
  `ReplicaSync`), a phone whose trust is revoked, and the await between `decrypt` and the
  decoding of a message.
* The per-thread read before a save in `ThreadManager.applyReplicaThreads`: no other writer of
  the row is modelled.
* In `TurnQueue`: the queue's limit, which is checked before an await (`agent-manager.ts:819`) and may
  so be exceeded; closing a conversation while a message is being queued; approvals and questions the
  agent asks; the check that no terminal holds the session; a second write that fails in the catch
  of a turn's end, and one that fails in a cancellation; two completions of one run read before either is
  written.
* In `RelayRoom`: a second auth frame on one socket, which the room takes while the first is being
  verified (`room.ts:129-137`) and whose answer overwrites the attachment from what it was before
  (`room.ts:239-245`): neither the bridge nor the app sends one; keys, tickets and the contents of the allow list (whether a signature is accepted
  is a choice), forwarded frames, the bridge's backoff, setting up a relay.
* In `SessionHolds`: calls that fail on a connection that goes on (the catch of `#report` deletes
  what a newer report noted); frames of a superseded connection read after the newer one's hello; the
  conversation attached to a hold and the process kept for it. A request whose asker was told
  `unreachable` is still replayed to its desktop and closes the agent there: this is modelled, and no
  property forbids it, since the code promises nothing of it.
* In `ActionOutbox`: the session's buffer of requests and its probe after a resume, which may send a
  request without a date some time after it was decided; other PCs (out of reach, like a lost link); the
  PC's name and its relay switch (the latter is dated only when it is kept, after its timeout,
  `relay_manager.dart:160-166`); generated titles; an answer that comes after 30 s on a link that works; a
  decision on a conversation the bridge has deleted already, which is refused and dropped.
* The parts listed as `not_modelled` in `PROJECT.json`.
