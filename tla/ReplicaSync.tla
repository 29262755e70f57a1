------------------------------ MODULE ReplicaSync ------------------------------
(* One phone's replica of the bridge: bridge_replica.dart on top of the link,   *)
(* the sync/changes handler and BridgeStore.                                   *)
(*                                                                             *)
(* The phone keeps a copy of the bridge's threads and projects and a cursor,   *)
(* the revision it has applied everything up to.  It moves by two roads that   *)
(* run beside each other: live notifications, taken when they carry the next   *)
(* revision, and sync/changes answers.  Both write through one database that   *)
(* executes statements in the order they were asked for; whoever asked goes on *)
(* only when its statement is done.                                            *)
EXTENDS BridgeStore, SequencesExt

CONSTANT MaxPending  \* bound: frames on their way, and callers waiting for the database

ASSUME ReplicaAssumption == MaxPending \in Nat \ {0, 1}

VARIABLES
  connected,    \* the session is up
  link,         \* frames on their way to the phone; notifications outlive a disconnect
  syncPc,       \* where the one running sync is
  again,        \* _syncAgain
  asked,        \* the cursor the request carried
  listed,       \* what the handler read before its first await: [reset, put]
  answer,       \* the answer it is about to send
  cursor,       \* _cursor, or what its reading will give
  loading,      \* _cursorFor waits for that reading; who else asks sees none
  replica,      \* the phone's database: revision of each copy, Absent when none
  savedCursor,  \* the phone's database: the cursor
  jobs          \* statements waiting: for each caller, its current one and those to follow

phoneVars == <<connected, link, syncPc, again, asked, listed, answer,
               cursor, loading, replica, savedCursor, jobs>>
vars == <<bridgeVars, phoneVars>>

\* store 0 is the cursor a phone has before its first sync.
Cursor == [store : Nat, rev : Nat]
NoCursor == [store |-> 0, rev |-> 0]
\* The entities a list holds, each with its revision; Absent is "not in it".
Put == [Entity -> Nat]
Nothing == [e \in Entity |-> Absent]
Only(E, f) == [e \in Entity |-> IF e \in E THEN f[e] ELSE Absent]
NoList == [reset |-> FALSE, put |-> Nothing]
Answer == [store : Nat, rev : Nat, reset : BOOLEAN, put : Put, drop : SUBSET Entity]
NoAnswer == [store |-> 0, rev |-> 0, reset |-> FALSE, put |-> Nothing, drop |-> {}]
SyncPc == {"idle", "start", "requested", "listed", "answered", "returning", "applying"}

Save(c) == [kind |-> "save", cur |-> c]
Write(put, drop) == [kind |-> "write", put |-> put, drop |-> drop]

Init ==
  /\ BridgeInit
  /\ connected = FALSE
  /\ link = <<>>
  /\ syncPc = "idle" /\ again = FALSE
  /\ asked = NoCursor /\ listed = NoList /\ answer = NoAnswer
  /\ cursor = NoCursor /\ loading = FALSE
  /\ replica = NothingStored
  /\ savedCursor = NoCursor
  /\ jobs = <<>>
--------------------------------------------------------------------------------
(* The bridge moving on its own *)

\* records_await: a change made between the handler's reading of the threads
\* and its reading of the revision.
BridgeChange ==
  /\ "records_await" \in Windows \/ syncPc # "listed"
  /\ Change
  /\ UNCHANGED phoneVars

BridgeWrite ==
  /\ (\E t \in Thread : WriteThread(t)) \/ WriteProjects \/ (\E s \in Store : Flush(s))
  /\ UNCHANGED phoneVars

\* The announcement goes out to the phone, or waits in its outbound log.
\* late_answer: an announcement made between the reading and the sending of an
\* answer, which is then older than what the phone heard before it.
Announce(s) ==
  /\ \/ "late_answer" \in Windows
     \/ syncPc = "answered" => \A i \in DOMAIN due[s] : due[s][i].rev <= answer.rev
  /\ Len(link) + Len(due[s]) <= MaxPending
  /\ Announced(s)
  /\ link' = link \o due[s]
  /\ UNCHANGED <<connected, syncPc, again, asked, listed, answer,
                 cursor, loading, replica, savedCursor, jobs>>

BridgeFail ==
  /\ \E s \in Store : FailWrite(s)
  /\ UNCHANGED phoneVars
--------------------------------------------------------------------------------
(* sync/changes on the bridge: two awaits *)

\* Which threads changed: computed before the await of threadsChangedSince.
ListThreads ==
  /\ syncPc = "requested"
  /\ LET reset == NeedsReset(asked.store, asked.rev)
         from == IF reset THEN 0 ELSE asked.rev
     IN listed' = [reset |-> reset, put |-> Only(ChangedSince(Thread, from), ents)]
  /\ syncPc' = "listed"
  /\ UNCHANGED <<bridgeVars, connected, link, again, asked, answer,
                 cursor, loading, replica, savedCursor, jobs>>

\* Everything else, the revision the answer stands at included.
ReadRest ==
  /\ syncPc = "listed"
  /\ LET from == IF listed.reset THEN 0 ELSE asked.rev
         projects == ChangedSince(Project, from)
     IN answer' = [store |-> led.store, rev |-> led.rev, reset |-> listed.reset,
                   put |-> [e \in Entity |-> IF e \in projects THEN ents[e] ELSE listed.put[e]],
                   drop |-> IF listed.reset THEN {} ELSE DeletedSince(Entity, from)]
  /\ syncPc' = "answered"
  /\ listed' = NoList
  /\ UNCHANGED <<bridgeVars, connected, link, again, asked,
                 cursor, loading, replica, savedCursor, jobs>>

\* The answer leaves once the paired devices were read from disk.
SendAnswer ==
  /\ syncPc = "answered" /\ Len(link) < MaxPending
  /\ link' = Append(link, answer)
  /\ openRead' = openRead \cup ReadOver(answer.rev)
  /\ answer' = NoAnswer
  /\ syncPc' = "returning"
  /\ UNCHANGED <<led, ents, savedLed, savedEnts, tx, due, ahead, connected, again, asked, listed,
                 cursor, loading, replica, savedCursor, jobs>>
--------------------------------------------------------------------------------
(* The phone *)

\* A broken variant: a call while one runs is dropped.
WantSyncOnce ==
  /\ syncPc' = IF syncPc = "idle" THEN "start" ELSE syncPc
  /\ UNCHANGED again
\* sync(): a call while one runs is folded into one more pass.
WantSync ==
  /\ syncPc' = IF syncPc = "idle" THEN "start" ELSE syncPc
  /\ again' = (again \/ syncPc # "idle")

\* A caller with a statement left waits at the back of the database's queue.
Requeue(queue, job) == IF job = <<>> THEN queue ELSE Append(queue, job)
\* _saveCursor changes the cursor in memory as it asks for its statement.
CursorOf(job, c) == IF job # <<>> /\ Head(job).kind = "save" THEN Head(job).cur ELSE c

\* _cursorFor: what a caller has to compare with.
Loaded == IF loading THEN NoCursor ELSE cursor

\* lazy_cursor: somebody asks for the cursor while it is being read back.
CursorRead == "lazy_cursor" \in Windows \/ ~loading

\* The database gives the cursor that whoever asked first waits for.
LoadCursor ==
  /\ loading
  /\ loading' = FALSE
  /\ UNCHANGED <<bridgeVars, connected, link, syncPc, again, asked, listed, answer,
                 cursor, replica, savedCursor, jobs>>

RequestSync ==
  /\ syncPc = "start" /\ connected
  /\ CursorRead
  /\ asked' = Loaded
  /\ syncPc' = "requested"
  /\ UNCHANGED <<bridgeVars, connected, link, again, listed, answer,
                 cursor, loading, replica, savedCursor, jobs>>

\* What a notification writes.
Applied(n) == IF n.gone THEN Write(Nothing, {n.id})
              ELSE Write([Nothing EXCEPT ![n.id] = n.rev], {})

\* A broken variant: what is not admitted queues up as well.
ReceiveUnadmitted(job) ==
  /\ connected /\ link # <<>> /\ Len(jobs) < MaxPending
  /\ link' = Tail(link)
  /\ jobs' = Append(jobs, job)
  /\ cursor' = CursorOf(job, cursor)
  /\ UNCHANGED <<bridgeVars, connected, asked, listed, answer, loading, replica, savedCursor>>
Receive(job) ==
  /\ connected /\ link # <<>> /\ Len(jobs) < MaxPending
  /\ link' = Tail(link)
  /\ jobs' = Requeue(jobs, job)
  /\ cursor' = CursorOf(job, cursor)
  /\ UNCHANGED <<bridgeVars, connected, asked, listed, answer, loading, replica, savedCursor>>

\* stale_compare: news of a bridge whose first answer is still being applied,
\* and so compared with the cursor of the store there was before.
IsNews ==
  /\ link # <<>> /\ Head(link) \in News
  /\ CursorRead
  /\ "stale_compare" \in Windows \/ syncPc # "applying" \/ cursor.store = led.store
KnownRev == Loaded # NoCursor /\ Head(link).rev <= Loaded.rev
\* A broken variant: whatever is newer counts as the next one.
AnyLaterRev == Loaded # NoCursor /\ Head(link).rev > Loaded.rev
NextRevOf == Loaded # NoCursor /\ Head(link).rev = Loaded.rev + 1

\* _admit: stale, next, or one further ahead (or nothing to compare it with).
DropStale ==
  /\ IsNews /\ KnownRev
  /\ Receive(<<>>)
  /\ UNCHANGED <<syncPc, again>>

\* overwritten: what is newer than an answer that still has something to write;
\* the answer may be written over it, with its cursor already on disk.
InTurn == \A i \in DOMAIN jobs :
  LET last == jobs[i][Len(jobs[i])]
  IN last.kind = "save" /\ Len(jobs[i]) > 1 => Head(link).rev <= last.cur.rev

TakeNext ==
  /\ IsNews /\ NextRevOf
  /\ "overwritten" \in Windows \/ InTurn
  /\ Receive(<<Save([cursor EXCEPT !.rev = Head(link).rev]), Applied(Head(link))>>)
  /\ UNCHANGED <<syncPc, again>>

TakeAhead ==
  /\ IsNews /\ ~KnownRev /\ ~NextRevOf
  /\ Receive(<<Applied(Head(link))>>)
  /\ WantSync

\* _apply: the threads the answer holds, in the order p of its list, then each
\* that is gone, in the order d, then the projects (one batch; the two lists
\* never share one), then the cursor.
ApplyInOrder(a, gone, p, d) ==
  [i \in DOMAIN p |-> Write(Only({p[i]}, a.put), {})]
    \o [i \in DOMAIN d |-> Write(Nothing, {d[i]})]
    \o <<Write(Only(Project, a.put), gone \cap Project), Save([store |-> a.store, rev |-> a.rev])>>
\* One such job for each order an answer may come in.
ApplyJobs(a, gone) ==
  {ApplyInOrder(a, gone, p, d) :
     p \in SetToSeqs({t \in Thread : a.put[t] # Absent}), d \in SetToSeqs(gone \cap Thread)}

\* A reset also forgets what the answer does not hold.
\* A broken variant of it comes first: a reset forgets nothing.
ApplyOver(a) == ApplyJobs(a, a.drop)
ApplyOf(a) == ApplyJobs(a, IF a.reset THEN {e \in Entity : a.put[e] = Absent} ELSE a.drop)

\* overtaken: an answer that comes while a notification is still being written;
\* the older of the two may be written last.
ReceiveAnswer ==
  /\ link # <<>> /\ Head(link) \notin News
  /\ "overtaken" \in Windows \/ jobs = <<>>
  /\ \E job \in ApplyOf(Head(link)) : Receive(job)
  /\ syncPc' = "applying"
  /\ UNCHANGED again

Done(op, db) ==
  [e \in Entity |-> IF op.kind = "save" THEN db[e]
                    ELSE IF e \in op.drop THEN Absent
                    ELSE IF op.put[e] # Absent THEN op.put[e] ELSE db[e]]

\* The database executes the statement at the head; its caller asks for its next.
Execute ==
  /\ jobs # <<>>
  /\ LET job == Head(jobs)
         op == Head(job)
         rest == Tail(job)
         synced == op.kind = "save" /\ rest = <<>>
     IN /\ replica' = Done(op, replica)
        /\ savedCursor' = IF op.kind = "save" THEN op.cur ELSE savedCursor
        /\ jobs' = Requeue(Tail(jobs), rest)
        /\ cursor' = CursorOf(rest, cursor)
        /\ syncPc' = IF ~synced THEN syncPc ELSE IF again THEN "start" ELSE "idle"
        /\ again' = (again /\ ~synced)
  /\ UNCHANGED <<bridgeVars, connected, link, asked, listed, answer, loading>>

\* The app comes back to the foreground.
Resume ==
  /\ connected
  /\ WantSync
  /\ UNCHANGED <<bridgeVars, connected, link, asked, listed, answer,
                 cursor, loading, replica, savedCursor, jobs>>
--------------------------------------------------------------------------------
(* The connection, and the ends of either process *)

\* A request that was out fails, and so does the next pass; one that is being
\* applied goes on.
DropRequest ==
  /\ syncPc' = IF syncPc = "applying" THEN "applying" ELSE "idle"
  /\ again' = FALSE
  /\ asked' = NoCursor /\ listed' = NoList /\ answer' = NoAnswer

\* The link without the answer that may be on it: its notifications, in order.
OnlyNews ==
  LET orders == SetToSeqs({i \in DOMAIN link : link[i] \in News})
  IN {[k \in DOMAIN p |-> link[p[k]]] :
        p \in {q \in orders : \A i, j \in DOMAIN q : i < j => q[i] < q[j]}}

Disconnect ==
  /\ connected
  /\ connected' = FALSE
  /\ link' \in OnlyNews
  /\ DropRequest
  /\ UNCHANGED <<bridgeVars, cursor, loading, replica, savedCursor, jobs>>

\* The outbound log is bounded: the oldest notification may not be there any more.
Evict ==
  /\ ~connected /\ link # <<>>
  /\ link' = Tail(link)
  /\ UNCHANGED <<bridgeVars, connected, syncPc, again, asked, listed, answer,
                 cursor, loading, replica, savedCursor, jobs>>

\* What the log still holds is replayed before anything new; the phone syncs.
Connect ==
  /\ ~connected
  /\ connected' = TRUE
  /\ WantSync
  /\ UNCHANGED <<bridgeVars, link, asked, listed, answer,
                 cursor, loading, replica, savedCursor, jobs>>

BridgeRestart ==
  /\ Restart \/ Recreate
  /\ connected' = FALSE
  /\ link' = <<>>
  /\ DropRequest
  /\ UNCHANGED <<cursor, loading, replica, savedCursor, jobs>>

\* A notification's change still to be written after its cursor is on disk.
CursorAhead == \E i \in DOMAIN jobs : jobs[i][Len(jobs[i])].kind = "write"

\* The app is killed: what the database did not execute never happens, and the
\* cursor is read back when it is first asked for.
\* cursor_first: between the cursor of a notification and what it announced.
Kill ==
  /\ "cursor_first" \in Windows \/ ~CursorAhead
  /\ connected' = FALSE
  /\ link' \in OnlyNews
  /\ syncPc' = "idle" /\ again' = FALSE
  /\ asked' = NoCursor /\ listed' = NoList /\ answer' = NoAnswer
  /\ jobs' = <<>>
  /\ cursor' = savedCursor /\ loading' = (savedCursor # NoCursor)
  /\ UNCHANGED <<bridgeVars, replica, savedCursor>>
--------------------------------------------------------------------------------
Phone == LoadCursor \/ RequestSync \/ DropStale \/ TakeNext \/ TakeAhead \/ ReceiveAnswer \/ Execute
Bridge == BridgeWrite \/ (\E s \in Store : Announce(s)) \/ ListThreads \/ ReadRest \/ SendAnswer
Environment == BridgeChange \/ BridgeFail \/ BridgeRestart \/ Resume
               \/ Disconnect \/ Evict \/ Connect \/ Kill

Next == Phone \/ Bridge \/ Environment

Spec == Init /\ [][Next]_vars

\* Both programs go on while they have something to do.  Nothing obliges anyone
\* to change anything, to connect or to come back to the app.
FairSpec == Spec /\ WF_vars(Phone) /\ WF_vars(Bridge)
--------------------------------------------------------------------------------
Op == [kind : {"save"}, cur : Cursor] \cup [kind : {"write"}, put : Put, drop : SUBSET Entity]

TypeOK ==
  /\ BridgeTypeOK
  /\ connected \in BOOLEAN
  /\ link \in Seq(News \cup Answer)
  /\ syncPc \in SyncPc /\ again \in BOOLEAN
  /\ asked \in Cursor
  /\ listed \in [reset : BOOLEAN, put : Put]
  /\ answer \in Answer
  /\ cursor \in Cursor /\ savedCursor \in Cursor /\ loading \in BOOLEAN
  /\ replica \in [Entity -> Nat]
  /\ jobs \in Seq(Seq(Op) \ {<<>>})

\* e's copy is at r, or a statement that brings it there is waiting.
Sets(op, e, r) == /\ op.kind = "write"
                  /\ IF r = Absent THEN e \in op.drop
                     ELSE e \notin op.drop /\ op.put[e] = r
Reaches(e, r) == \/ replica[e] = r
                 \/ \E i \in DOMAIN jobs : \E k \in DOMAIN jobs[i] : Sets(jobs[i][k], e, r)

\* The last change of e has a revision that c covers.
Covered(e, c) == IF ents[e] # Absent THEN ents[e] <= c.rev ELSE led.tomb[e] <= c.rev

\* A cursor the bridge will answer incrementally.
Answerable(c) == ~NeedsReset(c.store, c.rev)

(* Nothing is left behind: whatever the cursor covers, the phone has.  The     *)
(* bridge never sends those changes again, so a copy that is wrong under the   *)
(* cursor stays wrong (sync-ledger.ts:6-10, bridge_replica.dart:333-336).      *)
CursorSound ==
  Answerable(cursor) => \A e \in Entity : Covered(e, cursor) => Reaches(e, ents[e])

(* The same of the cursor on the phone's disk, which is the one a killed app   *)
(* starts again from.                                                          *)
SavedCursorSound ==
  Answerable(savedCursor) =>
    \A e \in Entity : Covered(e, savedCursor) => Reaches(e, ents[e])

(* A client never holds a revision the bridge might hand out again             *)
(* (thread-store.ts:1889-1890).                                                *)
CursorRevTaken == cursor.store = led.store => cursor.rev <= led.rev

(* Once the phone stays connected and the bridge stays still, the phone ends   *)
(* up with the bridge's list (sync-ledger.ts:8-10).                            *)
Still == \A s \in Store : ~Open(s) /\ due[s] = <<>>
Converges == <>[](connected /\ Still) => <>[](replica = ents)
================================================================================
