------------------------------ MODULE StoreClient ------------------------------
(* What the bridge's store promises any client of sync/changes.                *)
(*                                                                             *)
(* A client is reduced to one copy: the whole state as an answer gave it at    *)
(* some revision, kept for as long as it likes.  The promise is the one of     *)
(* the ledger's header: whatever happens to the bridge afterwards, asking for  *)
(* what changed since that revision brings the copy to the present state, and  *)
(* the counter never hands out again a revision the copy knows.                *)
EXTENDS BridgeStore

VARIABLE copy  \* [store, rev, ents]: a client's copy and the revision it stands at

vars == <<bridgeVars, copy>>

Copy == [store : Nat \ {0}, rev : Nat, ents : [Entity -> Nat]]

Init ==
  /\ BridgeInit
  /\ copy = [store |-> 1, rev |-> 0, ents |-> NothingStored]

\* A full answer, in one piece: memory as it stands, open transactions included.
TakeCopy ==
  /\ copy' = [store |-> led.store, rev |-> led.rev, ents |-> ents]
  /\ openRead' = openRead \cup ReadOver(led.rev)
  /\ UNCHANGED <<led, ents, savedLed, savedEnts, tx, due, ahead>>

BridgeStep ==
  \/ Change
  \/ \E t \in Thread : WriteThread(t)
  \/ WriteProjects
  \/ \E s \in Store : Flush(s) \/ Announced(s) \/ FailWrite(s)
  \/ Restart
  \/ Recreate

Next ==
  \/ BridgeStep /\ UNCHANGED copy
  \/ TakeCopy

Spec == Init /\ [][Next]_vars
--------------------------------------------------------------------------------
TypeOK == BridgeTypeOK /\ copy \in Copy

\* The copy after the incremental answer to { since: copy.rev }: what changed is
\* taken over, then what was removed is dropped.
Patched == [e \in Entity |->
  IF e \in DeletedSince(Entity, copy.rev) THEN Absent
  ELSE IF e \in ChangedSince(Entity, copy.rev) THEN ents[e]
  ELSE copy.ents[e]]

(* An answer that is not a reset brings a copy taken at any earlier moment to  *)
(* exactly the bridge's state: nothing changed, created or deleted since is    *)
(* left out, whatever was forgotten, crashed or restarted in between           *)
(* (sync-ledger.ts:4-17, sync-handler.ts:36-56).                               *)
IncrementalIsExact == ~NeedsReset(copy.store, copy.rev) => Patched = ents

(* The next revision is one no client holds: the counter never goes back over  *)
(* a revision it told someone (sync-ledger.ts:12-14, thread-store.ts:1889).    *)
NextRevIsNew == copy.store = led.store => copy.rev <= led.rev

================================================================================
