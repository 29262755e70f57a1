---------------------------- MODULE StoreClientProofs ---------------------------
(* StoreClient's promises, proved for any number of threads, projects,         *)
(* tombstones, revisions and restarts.  What the steps of the bridge do is in  *)
(* BridgeStoreProofs; here is what they do to a client's copy.                 *)
EXTENDS StoreClientInv, BridgeStoreProofs

(* A step in which the bridge lives on: what is not as the copy has it was so  *)
(* before, or changed after it.                                                *)
LEMMA MovesStep ==
  ASSUME IInv, BridgeInv', Moves, copy' = copy
  PROVE  IInv'
  <1> USE Types DEF IInv
  <1>0. copy \in Copy /\ copy.rev \in Nat
    BY DEF TypeOK, Copy
  <1>1. TypeOK'
    BY <1>0 DEF TypeOK, BridgeInv
  <1>2. led'.store = led.store
    BY DEF Moves, Moved
  <1>3. copy'.store <= led'.store
    BY <1>2 DEF CopyInv
  <1>4. ASSUME SameStore'
        PROVE  /\ Taken(copy.rev, openRead)'
               /\ \A w \in Truths(openRead)' : Newer(w, copy.rev)' \/ copy.ents[w.on] = w.is
    <2>1. /\ Taken(copy.rev, openRead)
          /\ \A w \in Truths(openRead) : Newer(w, copy.rev) \/ copy.ents[w.on] = w.is
      BY <1>2, <1>4 DEF SameStore, CopyInv
    <2>2. PICK R : R = Left(openRead)
      OBVIOUS
    <2>3. openRead' = R
      BY <2>2 DEF Moves, Moved
    <2>4. openRead \in SUBSET {s \in Store : Open(s)} /\ R \in SUBSET openRead
      BY <2>2 DEF BridgeInv, OpenReadInv, Left
    <2>5. TruthsMove(openRead, R) /\ TakenMoves(openRead, R)
      BY <2>2, <2>4 DEF Moves
    <2>6. Taken(copy.rev, R)'
      BY <1>0, <2>1, <2>5 DEF TakenMoves
    <2>7. ASSUME NEW w \in Truths(R)'
          PROVE  Newer(w, copy.rev)' \/ copy.ents[w.on] = w.is
      <3>1. CASE Same(w, Truths(openRead))
        BY <2>1, <3>1 DEF Same, Newer
      <3>2. CASE Anew(w, openRead)
        <4>1. copy.rev <= led.rev /\ ReadOver(copy.rev) \subseteq openRead
          BY <2>1 DEF Taken
        <4>2. \E n \in NewsOf(StoreOf(w.on))' : n.rev \in w.dates /\ n.rev > copy.rev
          BY <1>0, <3>2, <4>1, AnewLemma
        <4> QED
          BY <4>2 DEF Newer
      <3> QED
        BY <2>5, <2>7, <3>1, <3>2 DEF TruthsMove
    <2> QED
      BY <2>3, <2>6, <2>7
  <1>5. CopyInv'
    BY <1>3, <1>4 DEF CopyInv
  <1> QED
    BY <1>1, <1>5

LEMMA UntouchedCopy ==
  ASSUME IInv, Untouched, BridgeInv', openRead' = openRead, copy' = copy
  PROVE  IInv'
  <1> USE DEF IInv
  <1>1. copy.rev \in Nat /\ TypeOK'
    BY DEF TypeOK, Copy, BridgeInv
  <1>2. led' = led
    BY DEF Untouched
  <1>3. CopyInv'
    BY <1>1, <1>2, UntouchedStep DEF CopyInv, SameStore, Newer
  <1> QED
    BY <1>1, <1>3

LEMMA RestartCopy ==
  ASSUME IInv, SafeSchedules, Restart, copy' = copy
  PROVE  IInv'
  <1> USE DEF IInv
  <1>1. BridgeInv' /\ RestartEffect
    BY RestartStep
  <1>2. copy.rev \in Nat /\ TypeOK'
    BY <1>1 DEF TypeOK, Copy, BridgeInv
  <1>3. CopyInv'
    BY <1>1, <1>2 DEF CopyInv, SameStore, Newer, RestartEffect
  <1> QED
    BY <1>1, <1>2, <1>3

LEMMA RecreateCopy ==
  ASSUME IInv, Recreate, copy' = copy
  PROVE  IInv'
  <1> USE DEF IInv
  <1>1. BridgeInv' /\ led'.store = led.store + 1
    BY RecreateStep
  <1>2. copy.store \in Nat /\ led.store \in Nat /\ copy.store <= led.store /\ TypeOK'
    BY <1>1, Types DEF TypeOK, Copy, BridgeInv, CopyInv
  <1>3. ~SameStore' /\ copy'.store <= led'.store
    BY <1>1, <1>2 DEF SameStore
  <1>4. CopyInv'
    BY <1>3 DEF CopyInv
  <1> QED
    BY <1>1, <1>2, <1>4

(* The copy is the memory, and what a crash may bring back was not read.       *)
LEMMA TakeCopyStep ==
  ASSUME IInv, TakeCopy
  PROVE  IInv'
  <1> USE Types DEF IInv
  <1>1. /\ copy' = [store |-> led.store, rev |-> led.rev, ents |-> ents]
        /\ openRead' = openRead \cup ReadOver(led.rev)
        /\ Untouched /\ led' = led /\ due' = due
    BY DEF TakeCopy, Untouched
  <1>2. copy'.store = led.store /\ copy'.rev = led.rev /\ copy'.ents = ents
    BY <1>1
  <1>3. BridgeInv'
    BY <1>1, AnsweredStep
  <1>4. TypeOK'
    BY <1>1, <1>3 DEF TypeOK, BridgeInv, BridgeTypeOK, Ledger, Copy
  <1>5. \A s \in Store \ openRead' : ~Open(s)
    <2> SUFFICES ASSUME NEW s \in Store, s \notin ReadOver(led.rev)
                 PROVE  NewsOf(s) = {}
      BY <1>1
    <2>1. \A n \in NewsOf(s) : n.rev <= led.rev
      BY DEF BridgeInv, TxInv
    <2> QED
      BY <2>1 DEF ReadOver
  <1>6. PICK R : R = openRead'
    OBVIOUS
  <1>7. Taken(led.rev, R)
    <2>1. R = {} => \A s \in Store : ~Open(s)
      BY <1>5, <1>6
    <2>2. R = {} /\ Calm => Durable(led.rev)
      BY <2>1 DEF BridgeInv, CounterOnDisk, Calm
    <2> QED
      BY <1>1, <1>6, <2>2 DEF Taken
  <1>8. ASSUME NEW w \in Truths(R) PROVE ents[w.on] = w.is
    <2>1. CASE \E e \in Entity : w = Memory(e)
      BY <2>1, TruthFields
    <2>2. CASE \E e \in Sound : StoreOf(e) \notin R /\ w = Disk(e)
      <3>1. PICK e \in Sound : StoreOf(e) \notin R /\ w = Disk(e)
        BY <2>2
      <3>2. e \in Entity /\ ~ahead /\ ~Open(StoreOf(e))
        BY <1>5, <1>6, <3>1 DEF Sound
      <3>3. savedEnts[e] = ents[e]
        BY <3>2, ClosedStore
      <3> QED
        BY <3>1, <3>3, TruthFields
    <2> QED
      BY <1>8, <2>1, <2>2, TruthIs
  <1>9. Taken(led.rev, R)' /\ \A w \in Truths(R)' : ents[w.on] = w.is
    <2>1. led.rev \in Nat /\ Truths(R)' = Truths(R) /\ (Taken(led.rev, R)' <=> Taken(led.rev, R))
      <3>1. PICK c \in Nat : c = led.rev
        OBVIOUS
      <3>2. Truths(R)' = Truths(R) /\ (Taken(c, R)' <=> Taken(c, R))
        BY <1>1, UntouchedStep
      <3> QED
        BY <1>1, <3>1, <3>2
    <2> QED
      BY <1>1, <1>7, <1>8, <2>1
  <1>10. CopyInv'
    <2>1. copy'.store <= led'.store
      BY <1>1, <1>2
    <2>2. openRead' = R /\ copy'.rev = led'.rev /\ copy'.ents = ents
      BY <1>1, <1>2, <1>6
    <2>3. Taken(copy.rev, openRead)'
      BY <1>9, <2>2
    <2>4. \A w \in Truths(openRead)' : copy'.ents[w.on] = w.is
      BY <1>9, <2>2
    <2> QED
      BY <2>1, <2>3, <2>4 DEF CopyInv
  <1> QED
    BY <1>3, <1>4, <1>10
--------------------------------------------------------------------------------
LEMMA InitInv == Init => IInv
  <1> SUFFICES ASSUME Init PROVE IInv
    OBVIOUS
  <1>1. Empty(1) /\ copy = [store |-> 1, rev |-> 0, ents |-> NothingStored]
    BY DEF Init, BridgeInit, Empty
  <1>2. /\ BridgeInv /\ led.store = 1 /\ led.rev = 0
        /\ ReadOver(0) = {} /\ Durable(0)
        /\ \A w \in Truths({}) : w.on \in Entity /\ w.is = Absent
    BY <1>1, EmptyInv
  <1>3. NothingStored \in [Entity -> Nat] /\ \A e \in Entity : NothingStored[e] = Absent
    BY DEF NothingStored, Absent
  <1>4. copy \in Copy /\ copy.store = 1 /\ copy.rev = 0 /\ copy.ents = NothingStored
    BY <1>1, <1>3 DEF Copy
  <1>5. openRead = {}
    BY <1>1 DEF Empty
  <1>6. CopyInv
    BY <1>2, <1>3, <1>4, <1>5 DEF CopyInv, Taken
  <1> QED
    BY <1>2, <1>4, <1>6 DEF IInv, TypeOK, BridgeInv

LEMMA NextInv ==
  ASSUME SafeSchedules, IInv, [Next]_vars
  PROVE  IInv'
  <1>0. BridgeInv
    BY DEF IInv
  <1>1. ASSUME Change, copy' = copy PROVE IInv'
    BY <1>0, <1>1, ChangeLemma, ChangeStep, MovesStep
  <1>2. ASSUME NEW t \in Thread, WriteThread(t), copy' = copy PROVE IInv'
    <2>1. "threads" \in Store
      BY DEF Store
    <2> QED
      BY <1>0, <1>2, <2>1, WriteThreadEffect, WriteStep, MovesStep
  <1>3. ASSUME WriteProjects, copy' = copy PROVE IInv'
    <2>1. "projects" \in Store
      BY DEF Store
    <2> QED
      BY <1>0, <1>3, <2>1, WriteProjectsEffect, WriteStep, MovesStep
  <1>4. ASSUME NEW s \in Store, Flush(s), copy' = copy PROVE IInv'
    BY <1>0, <1>4, FlushStep, MovesStep
  <1>5. ASSUME NEW s \in Store, FailWrite(s), copy' = copy PROVE IInv'
    BY <1>0, <1>5, FailStep, MovesStep
  <1>6. ASSUME Restart, copy' = copy PROVE IInv'
    BY <1>6, RestartCopy
  <1>7. ASSUME Recreate, copy' = copy PROVE IInv'
    BY <1>7, RecreateCopy
  <1>8. ASSUME TakeCopy PROVE IInv'
    BY <1>8, TakeCopyStep
  <1>9. ASSUME NEW s \in Store, Announced(s), copy' = copy PROVE IInv'
    BY <1>0, <1>9, AnnouncedStep, UntouchedCopy
  <1>10. ASSUME UNCHANGED vars PROVE IInv'
    <2>1. Untouched /\ due' = due /\ openRead' = openRead /\ copy' = copy
      BY <1>10 DEF vars, bridgeVars, Untouched
    <2> QED
      BY <1>0, <2>1, StillStep, UntouchedCopy
  <1> QED
    BY <1>1, <1>2, <1>3, <1>4, <1>5, <1>6, <1>7, <1>8, <1>9, <1>10 DEF Next, BridgeStep

(* The inductive invariant holds of every schedule but the four SafeSchedules  *)
(* names.                                                                      *)
THEOREM Invariance ==
  ASSUME SafeSchedules
  PROVE  Spec => []IInv
  <1>1. IInv /\ [Next]_vars => IInv'
    BY NextInv
  <1> QED
    BY <1>1, InitInv, PTL DEF Spec

(* The state stays in its types (thread-store.ts, sync-ledger.ts,              *)
(* project-registry.ts).                                                       *)
THEOREM TypeCorrect ==
  ASSUME SafeSchedules
  PROVE  Spec => []TypeOK
  <1>1. IInv => TypeOK
    BY DEF IInv
  <1> QED
    BY <1>1, Invariance, PTL

(* The bridge never hands out a revision a client already holds, whatever      *)
(* crashes and restarts come in between (sync-ledger.ts:12-14).                *)
THEOREM RevisionsAreNew ==
  ASSUME SafeSchedules
  PROVE  Spec => []NextRevIsNew
  <1>1. IInv => NextRevIsNew
    BY DEF IInv, CopyInv, SameStore, NextRevIsNew, Taken
  <1> QED
    BY <1>1, Invariance, PTL

(* Whatever a client holds, an incremental answer brings it to the bridge's    *)
(* state: no change and no deletion is ever left out (sync-ledger.ts:4-17,     *)
(* sync-handler.ts:36-56).                                                     *)
THEOREM AnswersAreExact ==
  ASSUME SafeSchedules
  PROVE  Spec => []IncrementalIsExact
  <1>1. IInv => IncrementalIsExact
    <2> SUFFICES ASSUME IInv, ~NeedsReset(copy.store, copy.rev)
                 PROVE  Patched = ents
      BY DEF IncrementalIsExact
    <2>0. /\ BridgeInv /\ CopyInv /\ copy.rev \in Nat /\ led.horizon \in Nat
          /\ \A e \in Entity : led.tomb[e] \in Nat /\ ents[e] \in Nat
      BY Types DEF IInv, TypeOK, Copy
    <2>1. SameStore /\ copy.rev >= led.horizon
      BY <2>0 DEF NeedsReset, SameStore
    <2>2. ASSUME NEW e \in Entity
          PROVE  Patched[e] = ents[e]
      <3>1. CASE led.tomb[e] > copy.rev
        BY <2>0, <3>1 DEF Patched, DeletedSince, BridgeInv, OneTrace, Absent
      <3>2. CASE ~(led.tomb[e] > copy.rev) /\ ents[e] > copy.rev
        BY <2>0, <3>2 DEF Patched, DeletedSince, ChangedSince, Absent
      <3>3. CASE ~(led.tomb[e] > copy.rev) /\ ~(ents[e] > copy.rev)
        <4>1. Memory(e) \in Truths(openRead)
          BY TruthIs
        <4>2. ~Newer(Memory(e), copy.rev)
          <5>1. ASSUME NEW r \in Dates(led, ents[e], e) PROVE ~(r > copy.rev)
            BY <2>0, <2>1, <3>3, <5>1 DEF Dates
          <5> QED
            BY <5>1, TruthFields DEF Newer
        <4>3. copy.ents[e] = ents[e]
          BY <2>0, <2>1, <4>1, <4>2, TruthFields DEF CopyInv
        <4> QED
          BY <3>3, <4>3 DEF Patched, DeletedSince, ChangedSince
      <3> QED
        BY <3>1, <3>2, <3>3
    <2>3. ents \in [Entity -> Nat]
      BY DEF IInv, TypeOK, BridgeTypeOK
    <2> QED
      BY <2>2, <2>3 DEF Patched
  <1> QED
    BY <1>1, Invariance, PTL
================================================================================
