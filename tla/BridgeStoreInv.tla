----------------------------- MODULE BridgeStoreInv -----------------------------
(* What the bridge keeps true of its own state, on the schedules where it keeps *)
(* its promises, and the words in which its clients' invariants are put.       *)
(*                                                                             *)
(* A crash replaces memory by the disk, so whatever has to hold of memory for  *)
(* a client must already hold of the disk, entity by entity, whenever a crash  *)
(* may come.  Both are therefore described alike: a truth is an entity as the  *)
(* memory or the disk has it, with the revisions its last change may have had. *)
EXTENDS BridgeStore

\* The schedules of a run or a theorem leave out what breaks the promises.
SafeSchedules ==
  Windows \cap {"unflushed_answer", "late_ledger", "early_ledger", "failed_write"} = {}

\* e is in a state a run that leaves those schedules out does not crash in.
Torn(e) == \E n \in NewsOf(StoreOf(e)) :
  n.id = e /\ (LateLedger(StoreOf(e), n) \/ EarlyLedger(StoreOf(e), n))

\* The counter read back from disk is at least r.
Durable(r) == r <= savedLed.rev \/ \E e \in Entity : r <= savedEnts[e]

(* sync.json is an earlier state of the ledger, and no revision is beyond it.  *)
LedgerInv ==
  /\ savedLed.store = led.store
  /\ savedLed.rev <= led.rev
  /\ savedLed.horizon <= led.horizon /\ led.horizon <= led.rev
  /\ savedLed.horizon <= savedLed.rev
  /\ \A e \in Entity : /\ ents[e] <= led.rev /\ savedEnts[e] <= led.rev
                       /\ led.tomb[e] <= led.rev /\ savedLed.tomb[e] <= savedLed.rev

(* What lives has no tombstone.                                                *)
OneTrace == \A e \in Entity : ents[e] # Absent => led.tomb[e] = Absent

\* What a ledger says of a change it contains.
Holds(l, n) == IF n.gone THEN l.tomb[n.id] = n.rev \/ n.rev <= l.horizon
               ELSE l.tomb[n.id] = Absent
Value(n) == IF n.gone THEN Absent ELSE n.rev

(* An open transaction describes the memory it left, and sync.json once the    *)
(* other store flushed it.                                                     *)
TxInv == \A s \in Store :
  /\ tx[s].todo \subseteq {n.id : n \in NewsOf(s)}
  /\ \A n \in NewsOf(s) :
       /\ StoreOf(n.id) = s
       /\ n.rev > 0 /\ n.rev <= led.rev
       /\ ents[n.id] = Value(n)
       /\ Holds(led, n)
       /\ n.rev <= savedLed.rev => Holds(savedLed, n)

(* Unless a write failed, what no transaction has still to write is on disk,   *)
(* and what lives there has no tombstone there.                                *)
OnDisk == ~ahead => \A e \in Entity :
  /\ e \notin tx[StoreOf(e)].todo => savedEnts[e] = ents[e]
  /\ ~Torn(e) /\ savedEnts[e] # Absent => savedLed.tomb[e] = Absent

(* Between transactions a crash does not set the counter back.                 *)
CounterOnDisk == ~ahead /\ (\A s \in Store : ~Open(s)) => Durable(led.rev)

OpenReadInv == openRead \subseteq {s \in Store : Open(s)}

(* A store starts its next change when the last one is announced.              *)
DueInv == \A s \in Store : due[s] # <<>> => ~Open(s)

BridgeInv ==
  /\ BridgeTypeOK
  /\ LedgerInv
  /\ OneTrace
  /\ TxInv
  /\ OnDisk
  /\ CounterOnDisk
  /\ OpenReadInv
  /\ DueInv
--------------------------------------------------------------------------------
\* The revisions the last change of e may have had, where a ledger l and a value
\* v are all that is left of it: below the horizon it may have been any.
Dates(l, v, e) == IF v # Absent THEN {v} ELSE {l.tomb[e]} \cup 0 .. l.horizon

Memory(e) == [on |-> e, is |-> ents[e], dates |-> Dates(led, ents[e], e)]
Disk(e) == [on |-> e, is |-> savedEnts[e], dates |-> Dates(savedLed, savedEnts[e], e)]

\* The entities whose state on disk a crash may bring back, and all of them.
Sound == {e \in Entity : ~ahead /\ ~Torn(e)}
Calm == ~ahead /\ \A e \in Entity : ~Torn(e)

\* What is so, or may be after a crash; no crash comes while one of the open
\* transactions of the stores in S was read.
Truths(S) == {Memory(e) : e \in Entity} \cup {Disk(e) : e \in {d \in Sound : StoreOf(d) \notin S}}

\* What a client is told at revision c stays told: the counter does not fall
\* below c, and an open transaction at or below c is one of S, which no crash
\* takes back.
Taken(c, S) ==
  /\ c <= led.rev
  /\ ReadOver(c) \subseteq S
  /\ S = {} /\ Calm => Durable(c)
================================================================================
