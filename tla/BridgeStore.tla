------------------------------ MODULE BridgeStore ------------------------------
(* The bridge's shared state and the revision counter behind replica sync.     *)
(*                                                                             *)
(* Two stores share one ledger: the thread store and the project registry.     *)
(* Each runs its changes one at a time (a promise chain), and each change has  *)
(* the same life: it is made in memory under a fresh revision, written to      *)
(* disk one file at a time, the ledger is flushed, and only then is it         *)
(* announced; then the next one starts.  Between those steps the other store,  *)
(* a sync/changes request or a crash may come in.                              *)
(*                                                                             *)
(* What an entity holds (title, status, model, name) is abstracted to the      *)
(* revision its last change took.  A tombstone list that keeps one entry per   *)
(* entity is a function from the entity to the revision of its deletion.       *)
EXTENDS Integers, Sequences, FiniteSets

CONSTANTS
  Thread,         \* conversations: a random id each, never used twice
  Project,        \* projects: the hash of a folder, may come back
  MaxTombstones,  \* MAX_TOMBSTONES, sync-ledger.ts:45
  MaxRev,         \* bound: revisions handed out by one store
  MaxStore,       \* bound: times ~/.uxnan is created
  Crashes,        \* whether the bridge may crash
  Failures,       \* whether its writes may fail
  Windows         \* the schedules a run includes, see AllWindows

(* Schedules on which the code is known to break what the properties say.      *)
(* A run that leaves one out explores every other schedule; a run that names   *)
(* one shows what it breaks.  With Windows = AllWindows the model is the code. *)
(* The bridge crashes ...                                                      *)
(*  unflushed_answer  after answering a sync/changes and before the end of a   *)
(*                    transaction whose change was in the answer               *)
(*  late_ledger       when a deletion, or the return of something deleted, is  *)
(*                    in its own file and not yet in sync.json                 *)
(*  early_ledger      when it is in sync.json, flushed by the other store, and *)
(*                    not yet in its own file                                  *)
(*  failed_write      after a write failed, while memory is ahead of the disk  *)
(* The other seven are in ReplicaSync, each described at the guard that leaves *)
(* it out: records_await, late_answer, cursor_first, overtaken, overwritten,   *)
(* stale_compare, lazy_cursor.                                                 *)
AllWindows == {"unflushed_answer", "late_ledger", "early_ledger", "failed_write",
               "records_await", "late_answer", "cursor_first", "overtaken",
               "overwritten", "stale_compare", "lazy_cursor"}

Absent == 0
Entity == Thread \cup Project
Store == {"threads", "projects"}
StoreOf(e) == IF e \in Thread THEN "threads" ELSE "projects"

ASSUME BridgeAssumption ==
  /\ Thread \cap Project = {}
  /\ IsFiniteSet(Thread) /\ IsFiniteSet(Project)
  /\ MaxTombstones \in Nat \ {0}
  /\ MaxRev \in Nat
  /\ MaxStore \in Nat \ {0}
  /\ Crashes \in BOOLEAN /\ Failures \in BOOLEAN
  /\ Windows \subseteq AllWindows

VARIABLES
  led,        \* SyncLedger in memory: [store, rev, horizon, tomb]
  ents,       \* revision of each live thread and project, Absent when there is none
  savedLed,   \* sync.json
  savedEnts,  \* threads/<id>/thread.json and projects.json
  tx,         \* the change each store is writing: [news, todo]
  due,        \* the news of it once it is on disk, still to be announced
  openRead,   \* stores whose open transaction a client was answered over
  ahead       \* a write failed, and memory has been ahead of the disk since

bridgeVars == <<led, ents, savedLed, savedEnts, tx, due, openRead, ahead>>

Ledger == [store : Nat \ {0}, rev : Nat, horizon : Nat, tomb : [Entity -> Nat]]
News == [id : Entity, rev : Nat, gone : BOOLEAN]
NoTx == [news |-> <<>>, todo |-> {}]

EmptyLedger(s) == [store |-> s, rev |-> 0, horizon |-> 0, tomb |-> [e \in Entity |-> Absent]]
NothingStored == [e \in Entity |-> Absent]

Open(s) == tx[s].news # <<>>
NewsOf(s) == {tx[s].news[i] : i \in DOMAIN tx[s].news}

BridgeInit ==
  /\ led = EmptyLedger(1)
  /\ ents = NothingStored
  /\ savedLed = EmptyLedger(1)
  /\ savedEnts = NothingStored
  /\ tx = [s \in Store |-> NoTx]
  /\ due = [s \in Store |-> <<>>]
  /\ openRead = {}
  /\ ahead = FALSE
--------------------------------------------------------------------------------
(* SyncLedger *)

NextRev(l) == [l EXCEPT !.rev = l.rev + 1]
SetTomb(l, e, r) == [l EXCEPT !.tomb = [l.tomb EXCEPT ![e] = r]]
Revive(l, e) == SetTomb(l, e, Absent)
\* A broken variant (see PROJECT.json, mutants): the horizon stays behind.
ForgetOnly(l, d) == Revive(l, d)
Forget(l, d) ==
  Revive([l EXCEPT !.horizon = IF l.tomb[d] > l.horizon THEN l.tomb[d] ELSE l.horizon], d)

\* The deletions a ledger remembers, and the oldest of them.
Remembered(l) == {e \in Entity : l.tomb[e] # Absent}
Oldest(l) == {e \in Remembered(l) : \A d \in Remembered(l) : l.tomb[e] <= l.tomb[d]}

\* The deletion of e takes the next revision.  Past the limit the oldest
\* deletion is forgotten and the horizon moves up to it.  (A set, of one ledger:
\* no two deletions have the same revision.)
Tombstone(l, e) ==
  LET marked == SetTomb(NextRev(l), e, l.rev + 1)
  IN IF Cardinality(Remembered(marked)) <= MaxTombstones THEN {marked}
     ELSE {Forget(marked, d) : d \in Oldest(marked)}

\* observe, for every entity read back from disk: the counter ends up past all.
\* A broken variant: only sync.json counts.
ObservedNothing(r, revs) == {r}
Observed(r, revs) == {m \in {r} \cup revs : m >= r /\ \A v \in revs : m >= v}

DeletedSince(E, since) == {e \in E : led.tomb[e] > since}
ChangedSince(E, since) == {e \in E : ents[e] # Absent /\ ents[e] > since}
--------------------------------------------------------------------------------
(* A change: made in memory under its revision, everything it touches still    *)
(* to be written.                                                              *)

Updated(e, r) == [id |-> e, rev |-> r, gone |-> FALSE]
Deleted(e, r) == [id |-> e, rev |-> r, gone |-> TRUE]

Begin(s, news, todo) ==
  /\ ~Open(s) /\ due[s] = <<>>
  /\ led.rev + Len(news) <= MaxRev
  /\ tx' = [tx EXCEPT ![s] = [news |-> news, todo |-> todo]]
  /\ UNCHANGED <<savedLed, savedEnts, due, openRead, ahead>>

Bumped(s, e) ==
  /\ Begin(s, <<Updated(e, led.rev + 1)>>, {e})
  /\ ents' = [ents EXCEPT ![e] = led.rev + 1]

\* A thread id is random, so no trace of it is left anywhere.  (The model has
\* few names: one whose deletion was forgotten stands for a new conversation.)
StartThread(t) ==
  /\ ents[t] = Absent /\ savedEnts[t] = Absent /\ led.tomb[t] = Absent
  /\ Bumped("threads", t)
  /\ led' = Revive(NextRev(led), t)

\* Rename, archive, model, status, a turn created or ended: #bump.
ChangeThread(t) ==
  /\ ents[t] # Absent
  /\ Bumped("threads", t)
  /\ led' = NextRev(led)

DeleteThread(t) ==
  /\ ents[t] # Absent
  /\ Begin("threads", <<Deleted(t, led.rev + 1)>>, {t})
  /\ ents' = [ents EXCEPT ![t] = Absent]
  /\ led' \in Tombstone(led, t)

\* Deleting a continuation also changes the thread it continues, first.
DeleteContinuation(t, source) ==
  /\ ents[t] # Absent /\ ents[source] # Absent /\ t # source
  /\ Begin("threads", <<Updated(source, led.rev + 1), Deleted(t, led.rev + 2)>>, {t, source})
  /\ ents' = [ents EXCEPT ![t] = Absent, ![source] = led.rev + 1]
  /\ led' \in Tombstone(NextRev(led), t)

\* A broken variant: a project that comes back keeps its tombstone.
AddUnrevived(p) ==
  /\ ents[p] = Absent
  /\ Bumped("projects", p)
  /\ led' = NextRev(led)
AddProject(p) ==
  /\ ents[p] = Absent
  /\ Bumped("projects", p)
  /\ led' = Revive(NextRev(led), p)

RenameProject(p) ==
  /\ ents[p] # Absent
  /\ Bumped("projects", p)
  /\ led' = NextRev(led)

RemoveProject(p) ==
  /\ ents[p] # Absent
  /\ Begin("projects", <<Deleted(p, led.rev + 1)>>, {p})
  /\ ents' = [ents EXCEPT ![p] = Absent]
  /\ led' \in Tombstone(led, p)

Change ==
  \/ \E t \in Thread : StartThread(t) \/ ChangeThread(t) \/ DeleteThread(t)
  \/ \E t, source \in Thread : DeleteContinuation(t, source)
  \/ \E p \in Project : AddProject(p) \/ RenameProject(p) \/ RemoveProject(p)
--------------------------------------------------------------------------------
(* Its way to disk *)

\* #commit: deleted threads go first, then each index that changed.
WriteThread(t) ==
  /\ t \in tx["threads"].todo
  /\ ents[t] # Absent => \A d \in tx["threads"].todo : ents[d] # Absent
  /\ savedEnts' = [savedEnts EXCEPT ![t] = ents[t]]
  /\ tx' = [tx EXCEPT !["threads"].todo = @ \ {t}]
  /\ UNCHANGED <<led, ents, savedLed, due, openRead, ahead>>

\* #persist: one file holds every project.
WriteProjects ==
  /\ tx["projects"].todo # {}
  /\ savedEnts' = [e \in Entity |-> IF e \in Project THEN ents[e] ELSE savedEnts[e]]
  /\ tx' = [tx EXCEPT !["projects"].todo = {}]
  /\ UNCHANGED <<led, ents, savedLed, due, openRead, ahead>>

\* A broken variant: it is announced without the ledger being written.
FlushNothing(s) ==
  /\ Open(s) /\ tx[s].todo = {}
  /\ tx' = [tx EXCEPT ![s] = NoTx]
  /\ due' = [due EXCEPT ![s] = tx[s].news]
  /\ openRead' = openRead \ {s}
  /\ UNCHANGED <<led, ents, savedLed, savedEnts, ahead>>
\* ledger.flush: sync.json gets the ledger as it stands, the other store's
\* changes included.  Memory is no longer ahead once no other change is open and
\* every entity is as its file has it.
Flush(s) ==
  /\ Open(s) /\ tx[s].todo = {}
  /\ savedLed' = led
  /\ tx' = [tx EXCEPT ![s] = NoTx]
  /\ due' = [due EXCEPT ![s] = tx[s].news]
  /\ openRead' = openRead \ {s}
  /\ ahead' = (ahead /\ ((\E o \in Store \ {s} : Open(o)) \/ savedEnts # ents))
  /\ UNCHANGED <<led, ents, savedEnts>>

\* The change is announced, and the store is free for the next one.
Announced(s) ==
  /\ due[s] # <<>>
  /\ due' = [due EXCEPT ![s] = <<>>]
  /\ UNCHANGED <<led, ents, savedLed, savedEnts, tx, openRead, ahead>>

\* A broken variant: the counter is rolled back with the failed write.
FailRolledBack(s) ==
  /\ Failures
  /\ Open(s)
  /\ tx' = [tx EXCEPT ![s] = NoTx]
  /\ led' = savedLed
  /\ openRead' = openRead \ {s}
  /\ ahead' = TRUE
  /\ UNCHANGED <<ents, savedLed, savedEnts, due>>
\* A write failed, of a file or of the ledger: nothing is announced, and the
\* change stays in memory.
FailWrite(s) ==
  /\ Failures
  /\ Open(s)
  /\ tx' = [tx EXCEPT ![s] = NoTx]
  /\ openRead' = openRead \ {s}
  /\ ahead' = TRUE
  /\ UNCHANGED <<led, ents, savedLed, savedEnts, due>>
--------------------------------------------------------------------------------
(* Crash and restart, and a state directory created anew *)

\* One half of a deletion, or of the return of something deleted, is on disk.
LateLedger(s, n) == /\ n.gone \/ savedLed.tomb[n.id] # Absent
                    /\ n.id \notin tx[s].todo /\ savedLed.rev < n.rev
EarlyLedger(s, n) == /\ n.gone \/ savedEnts[n.id] = Absent
                     /\ n.id \in tx[s].todo /\ n.rev <= savedLed.rev

\* The process ends at any point; what comes back is what was on disk.
Restart ==
  /\ Crashes
  /\ "unflushed_answer" \in Windows \/ openRead = {}
  /\ "failed_write" \in Windows \/ ~ahead
  /\ "late_ledger" \in Windows \/ \A s \in Store : \A n \in NewsOf(s) : ~LateLedger(s, n)
  /\ "early_ledger" \in Windows \/ \A s \in Store : \A n \in NewsOf(s) : ~EarlyLedger(s, n)
  /\ \E r \in Observed(savedLed.rev, {savedEnts[e] : e \in Entity}) :
       led' = [savedLed EXCEPT !.rev = r]
  /\ ents' = savedEnts
  /\ tx' = [s \in Store |-> NoTx]
  /\ due' = [s \in Store |-> <<>>]
  /\ openRead' = {}
  /\ ahead' = FALSE
  /\ UNCHANGED <<savedLed, savedEnts>>

\* ~/.uxnan is gone when the bridge starts: a new storeId, nothing in it.
Recreate ==
  /\ led.store < MaxStore
  /\ led' = EmptyLedger(led.store + 1)
  /\ savedLed' = EmptyLedger(led.store + 1)
  /\ ents' = NothingStored
  /\ savedEnts' = NothingStored
  /\ tx' = [s \in Store |-> NoTx]
  /\ due' = [s \in Store |-> <<>>]
  /\ openRead' = {}
  /\ ahead' = FALSE
--------------------------------------------------------------------------------
(* What a sync/changes answer that stands at revision r reads of an open       *)
(* transaction: a crash before its end takes back what the client was told.    *)
ReadOver(r) == {s \in Store : \E n \in NewsOf(s) : n.rev <= r}

\* since is below the horizon, above the counter or of another store.
NeedsReset(store, since) == store # led.store \/ since < led.horizon \/ since > led.rev

BridgeTypeOK ==
  /\ led \in Ledger /\ savedLed \in Ledger
  /\ ents \in [Entity -> Nat] /\ savedEnts \in [Entity -> Nat]
  /\ tx \in [Store -> [news : Seq(News), todo : SUBSET Entity]]
  /\ due \in [Store -> Seq(News)]
  /\ openRead \in SUBSET Store
  /\ ahead \in BOOLEAN
================================================================================
