---------------------------- MODULE BridgeStoreProofs ---------------------------
(* What every step of the bridge does to its state, for any number of threads, *)
(* projects, tombstones, revisions and restarts: it keeps BridgeInv, it takes  *)
(* back nothing a client was told, and what a client could know of an entity   *)
(* stays so, or the entity changed after all the client was told.              *)
EXTENDS BridgeStoreInv, TLAPS

(* The ledger's two ways of changing one field.                                *)
LEMMA NextRevLemma ==
  ASSUME NEW l \in Ledger
  PROVE  /\ NextRev(l) \in Ledger
         /\ NextRev(l).store = l.store /\ NextRev(l).rev = l.rev + 1
         /\ NextRev(l).horizon = l.horizon /\ NextRev(l).tomb = l.tomb
  BY DEF NextRev, Ledger

LEMMA SetTombLemma ==
  ASSUME NEW l \in Ledger, NEW e \in Entity, NEW r \in Nat
  PROVE  /\ SetTomb(l, e, r) \in Ledger
         /\ SetTomb(l, e, r).store = l.store /\ SetTomb(l, e, r).rev = l.rev
         /\ SetTomb(l, e, r).horizon = l.horizon
         /\ SetTomb(l, e, r).tomb[e] = r
         /\ \A d \in Entity \ {e} : SetTomb(l, e, r).tomb[d] = l.tomb[d]
  BY DEF SetTomb, Ledger

LEMMA ReviveLemma ==
  ASSUME NEW l \in Ledger, NEW e \in Entity
  PROVE  /\ Revive(l, e) \in Ledger
         /\ Revive(l, e).store = l.store /\ Revive(l, e).rev = l.rev
         /\ Revive(l, e).horizon = l.horizon
         /\ Revive(l, e).tomb[e] = Absent
         /\ \A d \in Entity \ {e} : Revive(l, e).tomb[d] = l.tomb[d]
  BY SetTombLemma DEF Revive, Absent

LEMMA ForgetLemma ==
  ASSUME NEW l \in Ledger, NEW d \in Entity
  PROVE  /\ Forget(l, d) \in Ledger
         /\ Forget(l, d).store = l.store /\ Forget(l, d).rev = l.rev
         /\ Forget(l, d).horizon >= l.horizon /\ Forget(l, d).horizon >= l.tomb[d]
         /\ Forget(l, d).horizon \in {l.horizon, l.tomb[d]}
         /\ Forget(l, d).tomb[d] = Absent
         /\ \A e \in Entity \ {d} : Forget(l, d).tomb[e] = l.tomb[e]
  <1> DEFINE h == IF l.tomb[d] > l.horizon THEN l.tomb[d] ELSE l.horizon
             m == [l EXCEPT !.horizon = h]
  <1>1. h \in Nat /\ h >= l.horizon /\ h >= l.tomb[d] /\ h \in {l.horizon, l.tomb[d]}
    BY DEF Ledger
  <1> HIDE DEF h
  <1>2. m \in Ledger /\ m.store = l.store /\ m.rev = l.rev /\ m.horizon = h /\ m.tomb = l.tomb
    BY <1>1 DEF Ledger
  <1>3. Forget(l, d) = Revive(m, d)
    BY DEF Forget, h
  <1> HIDE DEF m
  <1> QED
    BY <1>1, <1>2, <1>3, ReviveLemma

(* A ledger that buries e: e's deletion is in it under the next revision or    *)
(* below the horizon, and any other deletion is kept or below the horizon      *)
(* (sync-ledger.ts:122-131).                                                   *)
LEMMA TombstoneLemma ==
  ASSUME NEW l \in Ledger, NEW e \in Entity, NEW m \in Tombstone(l, e)
  PROVE  /\ m \in Ledger
         /\ m.store = l.store /\ m.rev = l.rev + 1 /\ m.horizon >= l.horizon
         /\ m.horizon \in {l.horizon, m.rev} \cup {l.tomb[d] : d \in Entity}
         /\ m.tomb[e] \in {Absent, m.rev}
         /\ m.tomb[e] = m.rev \/ m.rev <= m.horizon
         /\ \A d \in Entity \ {e} : \/ m.tomb[d] = l.tomb[d]
                                    \/ m.tomb[d] = Absent /\ l.tomb[d] <= m.horizon
  <1> DEFINE next == NextRev(l)
             r == l.rev + 1
             marked == SetTomb(next, e, r)
  <1>1. /\ marked \in Ledger
        /\ marked.store = l.store /\ marked.rev = r /\ marked.horizon = l.horizon
        /\ marked.tomb[e] = r
        /\ \A d \in Entity \ {e} : marked.tomb[d] = l.tomb[d]
    <2>1. r \in Nat
      BY DEF Ledger
    <2>2. /\ next \in Ledger
          /\ next.store = l.store /\ next.rev = r
          /\ next.horizon = l.horizon /\ next.tomb = l.tomb
      BY NextRevLemma
    <2> HIDE DEF next, r
    <2> QED
      BY <2>1, <2>2, SetTombLemma
  <1>2. m = marked \/ \E d \in Entity : m = Forget(marked, d)
    BY DEF Tombstone, Oldest, Remembered
  <1> HIDE DEF marked
  <1>3. CASE m = marked
    BY <1>1, <1>3 DEF Ledger
  <1>4. CASE \E d \in Entity : m = Forget(marked, d)
    <2>1. PICK d \in Entity : m = Forget(marked, d)
      BY <1>4
    <2>2. /\ m \in Ledger
          /\ m.store = marked.store /\ m.rev = marked.rev
          /\ m.horizon >= marked.horizon /\ m.horizon >= marked.tomb[d]
          /\ m.horizon \in {marked.horizon, marked.tomb[d]}
          /\ m.tomb[d] = Absent
          /\ \A x \in Entity \ {d} : m.tomb[x] = marked.tomb[x]
      BY <1>1, <2>1, ForgetLemma
    <2> QED
      BY <1>1, <2>2 DEF Ledger, Absent
  <1> QED
    BY <1>2, <1>3, <1>4
--------------------------------------------------------------------------------
(* What every change does, whichever it is.                                    *)

Buried(d) == \/ led'.tomb[d] = led.tomb[d]
             \/ led'.tomb[d] = Absent /\ led.tomb[d] <= led'.horizon

NewsEffect(s, n) ==
  /\ StoreOf(n.id) = s
  /\ led.rev < n.rev /\ n.rev <= led'.rev
  /\ ents'[n.id] = IF n.gone THEN Absent ELSE n.rev
  /\ Holds(led', n)

EntityEffect(e) ==
  /\ ents'[e] <= led'.rev /\ led'.tomb[e] <= led'.rev
  /\ ents'[e] # Absent => led'.tomb[e] = Absent

ChangeEffect(s) ==
  /\ ~Open(s) /\ Open(s)' /\ due[s] = <<>>
  /\ \A o \in Store \ {s} : tx'[o] = tx[o]
  /\ UNCHANGED <<savedLed, savedEnts, due, openRead, ahead>>
  /\ BridgeTypeOK'
  /\ led'.store = led.store /\ led'.rev > led.rev
  /\ led'.horizon >= led.horizon /\ led'.horizon <= led'.rev
  /\ tx'[s].todo = {n.id : n \in NewsOf(s)'}
  /\ \A n \in NewsOf(s)' : NewsEffect(s, n)
  /\ \A n, m \in NewsOf(s)' : n.rev = m.rev => n = m
  /\ \A e \in Entity \ tx'[s].todo : ents'[e] = ents[e] /\ Buried(e)
  /\ \A e \in Entity : EntityEffect(e)

(* The news of the transaction a change opens.                                 *)
LEMMA OneNews ==
  ASSUME BridgeTypeOK, NEW s \in Store, NEW n \in News, NEW todo \in SUBSET Entity,
         tx' = [tx EXCEPT ![s] = [news |-> <<n>>, todo |-> todo]]
  PROVE  /\ tx' \in [Store -> [news : Seq(News), todo : SUBSET Entity]]
         /\ Open(s)' /\ NewsOf(s)' = {n} /\ tx'[s].todo = todo
         /\ \A o \in Store \ {s} : tx'[o] = tx[o]
  BY DEF BridgeTypeOK, Open, NewsOf

LEMMA TwoNews ==
  ASSUME BridgeTypeOK, NEW s \in Store, NEW n \in News, NEW m \in News,
         NEW todo \in SUBSET Entity,
         tx' = [tx EXCEPT ![s] = [news |-> <<n, m>>, todo |-> todo]]
  PROVE  /\ tx' \in [Store -> [news : Seq(News), todo : SUBSET Entity]]
         /\ Open(s)' /\ NewsOf(s)' = {n, m} /\ tx'[s].todo = todo
         /\ \A o \in Store \ {s} : tx'[o] = tx[o]
  <1> DEFINE new == [news |-> <<n, m>>, todo |-> todo]
  <1>1. new \in [news : Seq(News), todo : SUBSET Entity] /\ new.news = <<n, m>> /\ new.todo = todo
    OBVIOUS
  <1>2. <<n, m>> # <<>> /\ {<<n, m>>[i] : i \in DOMAIN <<n, m>>} = {n, m}
    OBVIOUS
  <1> HIDE DEF new
  <1>3. /\ tx' \in [Store -> [news : Seq(News), todo : SUBSET Entity]] /\ tx'[s] = new
        /\ \A o \in Store \ {s} : tx'[o] = tx[o]
    BY <1>1 DEF BridgeTypeOK, new
  <1> QED
    BY <1>1, <1>2, <1>3 DEF Open, NewsOf

(* A change that gives e the next revision and leaves no deletion of it.       *)
LEMMA BumpedEffect ==
  ASSUME BridgeInv, NEW s \in Store, NEW e \in Entity, StoreOf(e) = s, Bumped(s, e),
         \/ led' = NextRev(led) /\ ents[e] # Absent
         \/ led' = Revive(NextRev(led), e)
  PROVE  ChangeEffect(s)
  <1> DEFINE r == led.rev + 1
             n == Updated(e, r)
  <1> USE DEF BridgeInv
  <1>1. r \in Nat /\ n \in News /\ n.id = e /\ n.rev = r /\ n.gone = FALSE
    BY DEF Updated, News, BridgeTypeOK, Ledger
  <1>2. tx' = [tx EXCEPT ![s] = [news |-> <<n>>, todo |-> {e}]] /\ ~Open(s) /\ due[s] = <<>>
        /\ ents' = [ents EXCEPT ![e] = r] /\ UNCHANGED <<savedLed, savedEnts, due, openRead, ahead>>
    BY DEF Bumped, Begin
  <1> HIDE DEF n
  <1>3. /\ tx' \in [Store -> [news : Seq(News), todo : SUBSET Entity]]
        /\ Open(s)' /\ NewsOf(s)' = {n} /\ tx'[s].todo = {e}
        /\ \A o \in Store \ {s} : tx'[o] = tx[o]
    <2>1. BridgeTypeOK /\ {e} \in SUBSET Entity
      OBVIOUS
    <2> HIDE DEF BridgeInv
    <2> QED
      BY <1>1, <1>2, <2>1, OneNews
  <1>4. /\ led' \in Ledger
        /\ led'.store = led.store /\ led'.rev = r /\ led'.horizon = led.horizon
        /\ led'.tomb[e] = Absent
        /\ \A d \in Entity \ {e} : led'.tomb[d] = led.tomb[d]
    <2>1. led \in Ledger
      BY DEF BridgeTypeOK
    <2>2. CASE led' = NextRev(led) /\ ents[e] # Absent
      BY <2>1, <2>2, NextRevLemma DEF OneTrace
    <2>3. CASE led' = Revive(NextRev(led), e)
      BY <2>1, <2>3, NextRevLemma, ReviveLemma
    <2> QED
      BY <2>2, <2>3
  <1>5. /\ ents' \in [Entity -> Nat] /\ ents'[e] = r
        /\ \A d \in Entity \ {e} : ents'[d] = ents[d]
    BY <1>1, <1>2 DEF BridgeTypeOK
  <1>6. BridgeTypeOK'
    BY <1>2, <1>3, <1>4, <1>5 DEF BridgeTypeOK
  <1>7. \A d \in Entity : EntityEffect(d)
    <2> TAKE d \in Entity
    <2>1. /\ led.rev \in Nat /\ ents[d] \in Nat /\ led.tomb[d] \in Nat
          /\ ents[d] <= led.rev /\ led.tomb[d] <= led.rev
          /\ ents[d] # Absent => led.tomb[d] = Absent
      BY DEF LedgerInv, OneTrace, BridgeTypeOK, Ledger
    <2>2. CASE d = e
      BY <1>4, <1>5, <2>1, <2>2 DEF EntityEffect, Absent
    <2>3. CASE d # e
      BY <1>4, <1>5, <2>1, <2>3 DEF EntityEffect
    <2> QED
      BY <2>2, <2>3
  <1>8. /\ led.rev < n.rev /\ n.rev <= led'.rev /\ Holds(led', n)
        /\ led'.store = led.store /\ led'.rev > led.rev
        /\ led'.horizon >= led.horizon /\ led'.horizon <= led'.rev
        /\ ents'[n.id] = (IF n.gone THEN Absent ELSE n.rev)
    BY SMTT(30), <1>1, <1>4, <1>5 DEF BridgeTypeOK, Ledger, Holds, LedgerInv
  <1>9. tx'[s].todo = {x.id : x \in NewsOf(s)'}
    BY <1>1, <1>3
  <1>10. \A d \in Entity \ tx'[s].todo : ents'[d] = ents[d] /\ Buried(d)
    BY <1>3, <1>4, <1>5 DEF Buried
  <1>11. StoreOf(n.id) = s
    BY <1>1
  <1>12. \A x \in NewsOf(s)' : NewsEffect(s, x)
    <2>1. NewsEffect(s, n)
      BY <1>8, <1>11 DEF NewsEffect
    <2> QED
      BY <1>3, <2>1
  <1>13. \A x, y \in NewsOf(s)' : x = y
    BY <1>3
  <1> HIDE DEF BridgeInv
  <1> QED
    BY <1>2, <1>3, <1>6, <1>7, <1>8, <1>9, <1>10, <1>12, <1>13 DEF ChangeEffect

(* A change that deletes e.                                                    *)
LEMMA DeletedEffect ==
  ASSUME BridgeInv, NEW s \in Store, NEW e \in Entity, StoreOf(e) = s,
         Begin(s, <<Deleted(e, led.rev + 1)>>, {e}),
         ents' = [ents EXCEPT ![e] = Absent],
         led' \in Tombstone(led, e)
  PROVE  ChangeEffect(s)
  <1> DEFINE r == led.rev + 1
             n == Deleted(e, r)
  <1> USE DEF BridgeInv
  <1>1. r \in Nat /\ n \in News /\ n.id = e /\ n.rev = r /\ n.gone = TRUE
    BY DEF Deleted, News, BridgeTypeOK, Ledger
  <1>2. tx' = [tx EXCEPT ![s] = [news |-> <<n>>, todo |-> {e}]] /\ ~Open(s) /\ due[s] = <<>>
        /\ UNCHANGED <<savedLed, savedEnts, due, openRead, ahead>>
    BY DEF Begin
  <1> HIDE DEF n
  <1>3. /\ tx' \in [Store -> [news : Seq(News), todo : SUBSET Entity]]
        /\ Open(s)' /\ NewsOf(s)' = {n} /\ tx'[s].todo = {e}
        /\ \A o \in Store \ {s} : tx'[o] = tx[o]
    <2>1. BridgeTypeOK /\ {e} \in SUBSET Entity
      OBVIOUS
    <2> HIDE DEF BridgeInv
    <2> QED
      BY <1>1, <1>2, <2>1, OneNews
  <1>4. /\ led' \in Ledger
        /\ led'.store = led.store /\ led'.rev = r
        /\ led'.horizon >= led.horizon /\ led'.horizon <= r
        /\ led'.tomb[e] \in {Absent, r}
        /\ led'.tomb[e] = r \/ r <= led'.horizon
        /\ \A d \in Entity \ {e} : Buried(d)
    <2>1. led \in Ledger
      BY DEF BridgeTypeOK
    <2>2. led.horizon <= led.rev /\ \A d \in Entity : led.tomb[d] <= led.rev
      BY DEF LedgerInv
    <2> HIDE DEF BridgeInv
    <2>3. /\ led' \in Ledger
          /\ led'.store = led.store /\ led'.rev = r /\ led'.horizon >= led.horizon
          /\ led'.horizon \in {led.horizon, r} \cup {led.tomb[d] : d \in Entity}
          /\ led'.tomb[e] \in {Absent, r}
          /\ led'.tomb[e] = r \/ r <= led'.horizon
          /\ \A d \in Entity \ {e} : Buried(d)
      BY <2>1, TombstoneLemma DEF Buried
    <2>4. led'.horizon <= r
      BY <1>1, <2>1, <2>2, <2>3 DEF Ledger
    <2> QED
      BY <2>3, <2>4
  <1>5. /\ ents' \in [Entity -> Nat] /\ ents'[e] = Absent
        /\ \A d \in Entity \ {e} : ents'[d] = ents[d]
    BY <1>1 DEF BridgeTypeOK, Absent
  <1>6. BridgeTypeOK'
    BY <1>2, <1>3, <1>4, <1>5 DEF BridgeTypeOK
  <1>7. \A d \in Entity : EntityEffect(d)
    <2> TAKE d \in Entity
    <2>1. /\ led.rev \in Nat /\ ents[d] \in Nat /\ led.tomb[d] \in Nat
          /\ ents[d] <= led.rev /\ led.tomb[d] <= led.rev
          /\ ents[d] # Absent => led.tomb[d] = Absent
      BY DEF LedgerInv, OneTrace, BridgeTypeOK, Ledger
    <2>2. CASE d = e
      BY <1>4, <1>5, <2>1, <2>2 DEF EntityEffect, Absent
    <2>3. CASE d # e
      BY <1>4, <1>5, <2>1, <2>3 DEF EntityEffect, Buried, Absent
    <2> QED
      BY <2>2, <2>3
  <1>8. /\ led'.store = led.store /\ led'.rev > led.rev
        /\ led'.horizon >= led.horizon /\ led'.horizon <= led'.rev
    BY <1>1, <1>4 DEF BridgeTypeOK, Ledger
  <1>9. NewsEffect(s, n)
    BY <1>1, <1>4, <1>5, <1>8 DEF NewsEffect, Holds, BridgeTypeOK, Ledger
  <1>10. tx'[s].todo = {x.id : x \in NewsOf(s)'}
    BY <1>1, <1>3
  <1>11. \A d \in Entity \ tx'[s].todo : ents'[d] = ents[d] /\ Buried(d)
    BY <1>3, <1>4, <1>5
  <1>12. \A x \in NewsOf(s)' : NewsEffect(s, x)
    BY <1>3, <1>9
  <1>13. \A x, y \in NewsOf(s)' : x = y
    BY <1>3
  <1> HIDE DEF BridgeInv
  <1> QED
    BY <1>2, <1>3, <1>6, <1>7, <1>8, <1>10, <1>11, <1>12, <1>13 DEF ChangeEffect

(* A change that updates source and deletes the thread that continued it.      *)
LEMMA ContinuationEffect ==
  ASSUME BridgeInv, NEW t \in Thread, NEW source \in Thread, DeleteContinuation(t, source)
  PROVE  ChangeEffect("threads")
  <1> DEFINE s == "threads"
             r == led.rev + 1
             q == led.rev + 2
             n == Updated(source, r)
             m == Deleted(t, q)
             l == NextRev(led)
  <1> USE DEF BridgeInv
  <1>1. /\ r \in Nat /\ q \in Nat /\ r > led.rev /\ q = r + 1
        /\ n \in News /\ n.id = source /\ n.rev = r /\ n.gone = FALSE
        /\ m \in News /\ m.id = t /\ m.rev = q /\ m.gone = TRUE
        /\ t # source /\ t \in Entity /\ source \in Entity /\ s \in Store
        /\ StoreOf(t) = s /\ StoreOf(source) = s
    <2>1. led.rev \in Nat /\ t # source
      BY DEF BridgeTypeOK, Ledger, DeleteContinuation
    <2>2. /\ t \in Entity /\ source \in Entity /\ s \in Store
          /\ StoreOf(t) = s /\ StoreOf(source) = s
      BY DEF Entity, Store, StoreOf
    <2>3. r \in Nat /\ q \in Nat /\ r > led.rev /\ q = r + 1
      BY <2>1
    <2> HIDE DEF r, q, s
    <2>4. /\ n \in News /\ n.id = source /\ n.rev = r /\ n.gone = FALSE
          /\ m \in News /\ m.id = t /\ m.rev = q /\ m.gone = TRUE
      BY <2>2, <2>3 DEF Updated, Deleted, News
    <2> QED
      BY <2>1, <2>2, <2>3, <2>4
  <1>2. tx' = [tx EXCEPT ![s] = [news |-> <<n, m>>, todo |-> {t, source}]]
        /\ ~Open(s) /\ due[s] = <<>>
        /\ UNCHANGED <<savedLed, savedEnts, due, openRead, ahead>>
    BY DEF DeleteContinuation, Begin
  <1>3. ents[source] # Absent /\ ents' = [ents EXCEPT ![t] = Absent, ![source] = r]
        /\ led' \in Tombstone(l, t)
    BY DEF DeleteContinuation
  <1> HIDE DEF n, m
  <1>4. /\ tx' \in [Store -> [news : Seq(News), todo : SUBSET Entity]]
        /\ Open(s)' /\ NewsOf(s)' = {n, m} /\ tx'[s].todo = {t, source}
        /\ \A o \in Store \ {s} : tx'[o] = tx[o]
    <2>1. BridgeTypeOK /\ {t, source} \in SUBSET Entity
      BY <1>1
    <2> HIDE DEF BridgeInv
    <2> QED
      BY <1>1, <1>2, <2>1, TwoNews
  <1>5. /\ led' \in Ledger
        /\ led'.store = led.store /\ led'.rev = q
        /\ led'.horizon >= led.horizon /\ led'.horizon <= q
        /\ led'.tomb[t] \in {Absent, q}
        /\ led'.tomb[t] = q \/ q <= led'.horizon
        /\ \A d \in Entity \ {t} : Buried(d)
    <2>1. led \in Ledger
      BY DEF BridgeTypeOK
    <2>2. /\ l \in Ledger
          /\ l.store = led.store /\ l.rev = r /\ l.horizon = led.horizon /\ l.tomb = led.tomb
      BY <2>1, NextRevLemma
    <2>3. led.horizon <= led.rev /\ \A d \in Entity : led.tomb[d] <= led.rev
      BY DEF LedgerInv
    <2> HIDE DEF BridgeInv, l
    <2>4. /\ led' \in Ledger
          /\ led'.store = led.store /\ led'.rev = q /\ led'.horizon >= led.horizon
          /\ led'.horizon \in {led.horizon, q} \cup {led.tomb[d] : d \in Entity}
          /\ led'.tomb[t] \in {Absent, q}
          /\ led'.tomb[t] = q \/ q <= led'.horizon
          /\ \A d \in Entity \ {t} : Buried(d)
      BY <1>1, <1>3, <2>2, TombstoneLemma DEF Buried
    <2>5. led'.horizon <= q
      BY <1>1, <2>1, <2>3, <2>4 DEF Ledger
    <2> QED
      BY <2>4, <2>5
  <1>6. /\ ents' \in [Entity -> Nat] /\ ents'[t] = Absent /\ ents'[source] = r
        /\ \A d \in Entity \ {t, source} : ents'[d] = ents[d]
    BY <1>1, <1>3 DEF BridgeTypeOK, Absent
  <1>7. BridgeTypeOK'
    BY <1>2, <1>4, <1>5, <1>6 DEF BridgeTypeOK
  <1>8. \A d \in Entity : EntityEffect(d)
    <2> TAKE d \in Entity
    <2>1. /\ led.rev \in Nat /\ ents[d] \in Nat /\ led.tomb[d] \in Nat
          /\ ents[d] <= led.rev /\ led.tomb[d] <= led.rev
          /\ ents[d] # Absent => led.tomb[d] = Absent
      BY DEF LedgerInv, OneTrace, BridgeTypeOK, Ledger
    <2>2. CASE d = t
      BY <1>1, <1>5, <1>6, <2>1, <2>2 DEF EntityEffect, Absent
    <2>3. CASE d = source
      BY <1>1, <1>3, <1>5, <1>6, <2>1, <2>3 DEF EntityEffect, Buried, Absent
    <2>4. CASE d \notin {t, source}
      BY <1>1, <1>5, <1>6, <2>1, <2>4 DEF EntityEffect, Buried, Absent
    <2> QED
      BY <2>2, <2>3, <2>4
  <1>9. /\ led'.store = led.store /\ led'.rev > led.rev
        /\ led'.horizon >= led.horizon /\ led'.horizon <= led'.rev
    BY <1>1, <1>5 DEF BridgeTypeOK, Ledger
  <1>10. NewsEffect(s, n)
    <2>1. led'.tomb[source] = Absent
      BY <1>1, <1>6, <1>8 DEF EntityEffect, Absent, BridgeTypeOK, Ledger
    <2>2. led.rev \in Nat
      BY DEF BridgeTypeOK, Ledger
    <2> HIDE DEF BridgeInv, r, q, s
    <2> QED
      BY <1>1, <1>5, <1>6, <2>1, <2>2 DEF NewsEffect, Holds
  <1>11. NewsEffect(s, m)
    <2>1. led.rev \in Nat
      BY DEF BridgeTypeOK, Ledger
    <2> HIDE DEF BridgeInv, r, q, s
    <2> QED
      BY <1>1, <1>5, <1>6, <2>1 DEF NewsEffect, Holds
  <1>12. tx'[s].todo = {x.id : x \in NewsOf(s)'}
    BY <1>1, <1>4
  <1>13. \A d \in Entity \ tx'[s].todo : ents'[d] = ents[d] /\ Buried(d)
    BY <1>1, <1>4, <1>5, <1>6
  <1>14. \A x \in NewsOf(s)' : NewsEffect(s, x)
    BY <1>4, <1>10, <1>11
  <1>15. \A x, y \in NewsOf(s)' : x.rev = y.rev => x = y
    <2>1. r # q
      BY <1>1
    <2> HIDE DEF r, q
    <2> QED
      BY <1>1, <1>4, <2>1
  <1> HIDE DEF BridgeInv
  <1> QED
    BY <1>2, <1>4, <1>7, <1>8, <1>9, <1>12, <1>13, <1>14, <1>15 DEF ChangeEffect

(* Every change, of a thread or of a project.                                  *)
LEMMA ChangeLemma ==
  ASSUME BridgeInv, Change
  PROVE  \E s \in Store : ChangeEffect(s)
  <1>1. /\ \A t \in Thread : t \in Entity /\ StoreOf(t) = "threads"
        /\ \A p \in Project : p \in Entity /\ StoreOf(p) = "projects"
        /\ "threads" \in Store /\ "projects" \in Store
    BY BridgeAssumption DEF Entity, StoreOf, Store
  <1>2. ASSUME NEW t \in Thread, StartThread(t) \/ ChangeThread(t)
        PROVE  ChangeEffect("threads")
    BY <1>1, <1>2, BumpedEffect DEF StartThread, ChangeThread
  <1>3. ASSUME NEW t \in Thread, DeleteThread(t)
        PROVE  ChangeEffect("threads")
    BY <1>1, <1>3, DeletedEffect DEF DeleteThread
  <1>4. ASSUME NEW t \in Thread, NEW source \in Thread, DeleteContinuation(t, source)
        PROVE  ChangeEffect("threads")
    BY <1>4, ContinuationEffect
  <1>5. ASSUME NEW p \in Project, AddProject(p) \/ RenameProject(p)
        PROVE  ChangeEffect("projects")
    BY <1>1, <1>5, BumpedEffect DEF AddProject, RenameProject
  <1>6. ASSUME NEW p \in Project, RemoveProject(p)
        PROVE  ChangeEffect("projects")
    BY <1>1, <1>6, DeletedEffect DEF RemoveProject
  <1> QED
    BY <1>1, <1>2, <1>3, <1>4, <1>5, <1>6 DEF Change
--------------------------------------------------------------------------------
(* The invariant, one action after the other.                                  *)

(* The types of the parts, in a form the steps below use.                      *)
LEMMA Types ==
  ASSUME BridgeInv
  PROVE  /\ led.store \in Nat /\ led.rev \in Nat /\ led.horizon \in Nat
         /\ savedLed.rev \in Nat /\ savedLed.horizon \in Nat
         /\ \A e \in Entity : /\ led.tomb[e] \in Nat /\ savedLed.tomb[e] \in Nat
                              /\ ents[e] \in Nat /\ savedEnts[e] \in Nat
                              /\ StoreOf(e) \in Store
         /\ \A s \in Store : /\ tx[s].todo \subseteq Entity
                             /\ NewsOf(s) \subseteq News
                             /\ Open(s) <=> NewsOf(s) # {}
  <1> USE DEF BridgeInv, BridgeTypeOK
  <1>1. /\ led.store \in Nat /\ led.rev \in Nat /\ led.horizon \in Nat
        /\ savedLed.rev \in Nat /\ savedLed.horizon \in Nat
    BY DEF Ledger
  <1>2. ASSUME NEW e \in Entity
        PROVE  /\ led.tomb[e] \in Nat /\ savedLed.tomb[e] \in Nat
               /\ ents[e] \in Nat /\ savedEnts[e] \in Nat
               /\ StoreOf(e) \in Store
    BY DEF Ledger, StoreOf, Store
  <1>3. ASSUME NEW s \in Store
        PROVE  /\ tx[s].todo \subseteq Entity
               /\ NewsOf(s) \subseteq News
               /\ Open(s) <=> NewsOf(s) # {}
    <2>1. tx[s] \in [news : Seq(News), todo : SUBSET Entity]
      OBVIOUS
    <2>2. PICK q \in Seq(News) : q = tx[s].news
      BY <2>1
    <2>3. {q[i] : i \in DOMAIN q} \subseteq News /\ ((q # <<>>) <=> {q[i] : i \in DOMAIN q} # {})
      <3> HIDE DEF BridgeInv, BridgeTypeOK
      <3>1. \A i \in DOMAIN q : q[i] \in News
        OBVIOUS
      <3>2. q = <<>> => DOMAIN q = {}
        OBVIOUS
      <3>3. q # <<>> => 1 \in DOMAIN q
        OBVIOUS
      <3>4. (q # <<>>) <=> {q[i] : i \in DOMAIN q} # {}
        BY <3>2, <3>3, Zenon
      <3> QED
        BY <3>1, <3>4
    <2> QED
      BY <2>1, <2>2, <2>3 DEF NewsOf, Open
  <1> QED
    BY <1>1, <1>2, <1>3

(* A store that is in no transaction has nothing to write and tears nothing.   *)
LEMMA ClosedStore ==
  ASSUME BridgeInv, NEW s \in Store, ~Open(s)
  PROVE  /\ tx[s].todo = {} /\ s \notin openRead
         /\ \A e \in Entity :
              StoreOf(e) = s => ~Torn(e) /\ (~ahead => savedEnts[e] = ents[e])
  <1>1. NewsOf(s) = {}
    BY Types
  <1>2. tx[s].todo = {} /\ s \notin openRead
    BY <1>1 DEF BridgeInv, TxInv, OpenReadInv
  <1> QED
    BY <1>1, <1>2 DEF BridgeInv, OnDisk, Torn

(* What writing D, a part of what a transaction has still to write, does.      *)
(* Once a write failed it may write more: all that its file holds.             *)
WriteEffect(s, D) ==
  /\ D \subseteq tx[s].todo /\ D # {}
  /\ \A e \in D : savedEnts'[e] = ents[e]
  /\ \A e \in Entity \ D : savedEnts'[e] = savedEnts[e] \/ (ahead /\ savedEnts'[e] = ents[e])
  /\ tx'[s].news = tx[s].news /\ tx'[s].todo = tx[s].todo \ D
  /\ \A o \in Store \ {s} : tx'[o] = tx[o]
  /\ BridgeTypeOK'
  /\ UNCHANGED <<led, ents, savedLed, due, openRead, ahead>>

LEMMA TodoLemma ==
  ASSUME NEW x \in [news : Seq(News), todo : SUBSET Entity], NEW d \in SUBSET Entity
  PROVE  /\ [x EXCEPT !.todo = d] \in [news : Seq(News), todo : SUBSET Entity]
         /\ [x EXCEPT !.todo = d].news = x.news /\ [x EXCEPT !.todo = d].todo = d
  OBVIOUS

LEMMA WriteThreadEffect ==
  ASSUME BridgeInv, NEW t \in Thread, WriteThread(t)
  PROVE  WriteEffect("threads", {t})
  <1> USE DEF BridgeInv, BridgeTypeOK, WriteThread
  <1>1. t \in Entity /\ "threads" \in Store
    BY DEF Entity, Store
  <1>2. tx["threads"] \in [news : Seq(News), todo : SUBSET Entity]
    BY <1>1
  <1>3. /\ tx' = [tx EXCEPT !["threads"] = [tx["threads"] EXCEPT !.todo = tx["threads"].todo \ {t}]]
    BY <1>1
  <1> DEFINE new == [tx["threads"] EXCEPT !.todo = tx["threads"].todo \ {t}]
  <1>4. /\ new \in [news : Seq(News), todo : SUBSET Entity]
        /\ new.news = tx["threads"].news /\ new.todo = tx["threads"].todo \ {t}
    <2> DEFINE x == tx["threads"]
               d == tx["threads"].todo \ {t}
    <2>1. x \in [news : Seq(News), todo : SUBSET Entity] /\ d \in SUBSET Entity
      BY <1>2
    <2> HIDE DEF BridgeInv, BridgeTypeOK, x, d
    <2>2. /\ [x EXCEPT !.todo = d] \in [news : Seq(News), todo : SUBSET Entity]
          /\ [x EXCEPT !.todo = d].news = x.news /\ [x EXCEPT !.todo = d].todo = d
      BY <2>1, TodoLemma
    <2> QED
      BY <2>2 DEF x, d
  <1> HIDE DEF new
  <1>5. /\ tx' \in [Store -> [news : Seq(News), todo : SUBSET Entity]]
        /\ tx'["threads"] = new /\ \A o \in Store \ {"threads"} : tx'[o] = tx[o]
    BY <1>1, <1>3, <1>4 DEF new
  <1>6. /\ savedEnts' \in [Entity -> Nat]
        /\ \A e \in {t} : savedEnts'[e] = ents[e]
        /\ \A e \in Entity \ {t} : savedEnts'[e] = savedEnts[e]
    BY <1>1
  <1> QED
    BY <1>4, <1>5, <1>6 DEF WriteEffect

LEMMA WriteProjectsEffect ==
  ASSUME BridgeInv, WriteProjects
  PROVE  WriteEffect("projects", tx["projects"].todo)
  <1> DEFINE D == tx["projects"].todo
  <1> USE DEF BridgeInv, BridgeTypeOK, WriteProjects
  <1>1. "projects" \in Store
    BY DEF Store
  <1>2. tx["projects"] \in [news : Seq(News), todo : SUBSET Entity]
    BY <1>1
  <1>3. tx' = [tx EXCEPT !["projects"] = [tx["projects"] EXCEPT !.todo = {}]]
    BY <1>1
  <1> DEFINE new == [tx["projects"] EXCEPT !.todo = {}]
  <1>4. /\ new \in [news : Seq(News), todo : SUBSET Entity]
        /\ new.news = tx["projects"].news /\ new.todo = {}
    <2> DEFINE x == tx["projects"]
               d == {}
    <2>1. x \in [news : Seq(News), todo : SUBSET Entity] /\ d \in SUBSET Entity
      BY <1>2
    <2> HIDE DEF BridgeInv, BridgeTypeOK, x, d
    <2>2. /\ [x EXCEPT !.todo = d] \in [news : Seq(News), todo : SUBSET Entity]
          /\ [x EXCEPT !.todo = d].news = x.news /\ [x EXCEPT !.todo = d].todo = d
      BY <2>1, TodoLemma
    <2> QED
      BY <2>2 DEF x, d
  <1> HIDE DEF new
  <1>5. /\ tx' \in [Store -> [news : Seq(News), todo : SUBSET Entity]]
        /\ tx'["projects"] = new /\ \A o \in Store \ {"projects"} : tx'[o] = tx[o]
    BY <1>1, <1>3, <1>4 DEF new
  <1>6. savedEnts' \in [Entity -> Nat]
    OBVIOUS
  <1>7. ASSUME NEW e \in Entity
        PROVE  /\ e \in D => savedEnts'[e] = ents[e]
               /\ e \notin D =>
                    savedEnts'[e] = savedEnts[e] \/ (ahead /\ savedEnts'[e] = ents[e])
    <2>1. savedEnts'[e] = IF e \in Project THEN ents[e] ELSE savedEnts[e]
      OBVIOUS
    <2>2. e \in D => e \in Project
      <3> SUFFICES ASSUME e \in D PROVE e \in Project
        OBVIOUS
      <3>0. tx["projects"].todo \subseteq {n.id : n \in NewsOf("projects")}
        BY <1>1 DEF TxInv
      <3>1. PICK n \in NewsOf("projects") : n.id = e
        BY <3>0
      <3>2. StoreOf(e) = "projects"
        BY <1>1, <3>1 DEF TxInv
      <3>3. e \notin Thread
        BY <3>2 DEF StoreOf
      <3> QED
        BY <3>3 DEF Entity
    <2>3. e \in Project => StoreOf(e) = "projects"
      BY BridgeAssumption DEF StoreOf
    <2>4. e \in Project /\ e \notin D => ahead \/ savedEnts[e] = ents[e]
      BY <2>3 DEF OnDisk
    <2> QED
      BY <2>1, <2>2, <2>4
  <1> QED
    BY <1>4, <1>5, <1>6, <1>7 DEF WriteEffect

--------------------------------------------------------------------------------
(* The steps.  S is a set of open transactions a client was answered over.     *)

\* What is left of S after the step.
Left(S) == {s \in S : Open(s)'}

\* The one store whose news is new, all of it.
Fresh(s) ==
  /\ NewsOf(s) = {} /\ \A o \in Store \ {s} : NewsOf(o)' = NewsOf(o)
  /\ \A n \in NewsOf(s)' : n.rev > led.rev
  /\ \A n, m \in NewsOf(s)' : n.rev = m.rev => n = m

\* A step in which the bridge lives on.
Moved ==
  /\ led'.store = led.store /\ led'.rev >= led.rev /\ savedLed'.rev >= savedLed.rev
  /\ openRead' = Left(openRead)
  /\ \A s \in Store : NewsOf(s)' \in {NewsOf(s), {}} \/ Fresh(s)

\* Truth w is one there was, a truth of W; or the entity changed, after all that
\* a client was told without having read the transactions of S.
Same(w, W) == \E v \in W : v.on = w.on /\ v.is = w.is /\ v.dates \subseteq w.dates
Anew(w, S) == \E n \in NewsOf(StoreOf(w.on))' :
  /\ n.id = w.on /\ Value(n) = w.is /\ n.rev \in w.dates
  /\ n.rev > led.rev \/ (n \in NewsOf(StoreOf(w.on)) /\ StoreOf(w.on) \notin S)

TruthsMove(S, R) == \A w \in Truths(R)' : Same(w, Truths(S)) \/ Anew(w, S)
TakenMoves(S, R) == \A c \in Nat : Taken(c, S) => Taken(c, R)'

Moves ==
  /\ Moved
  /\ \A S \in SUBSET {s \in Store : Open(s)} : \A R \in SUBSET S :
       R = Left(S) => TruthsMove(S, R) /\ TakenMoves(S, R)

(* The types of the parts, after a step.                                       *)
Typed ==
  /\ led.store \in Nat /\ led.rev \in Nat /\ led.horizon \in Nat
  /\ savedLed.rev \in Nat /\ savedLed.horizon \in Nat
  /\ \A s \in Store : NewsOf(s) \subseteq News /\ (Open(s) <=> NewsOf(s) # {})

LEMMA TypesBecome == BridgeInv' => Typed'
  <1>1. BridgeInv => Typed
    BY Types DEF Typed
  <1> QED
    BY <1>1, PTL

(* Where a truth changed, it changed after c, if what was open at or below c   *)
(* was read.                                                                   *)
LEMMA AnewLemma ==
  ASSUME BridgeInv, BridgeInv', NEW S, NEW w, Anew(w, S), NEW c \in Nat, c <= led.rev,
         StoreOf(w.on) \in ReadOver(c) => StoreOf(w.on) \in S
  PROVE  \E n \in NewsOf(StoreOf(w.on))' :
           /\ n \in News /\ n.id = w.on /\ Value(n) = w.is /\ n.rev \in w.dates
           /\ n.rev > c
  <1>1. PICK n \in NewsOf(StoreOf(w.on))' :
          /\ n.id = w.on /\ Value(n) = w.is /\ n.rev \in w.dates
          /\ \/ n.rev > led.rev
             \/ n \in NewsOf(StoreOf(w.on)) /\ StoreOf(w.on) \notin S
    BY DEF Anew
  <1>2. StoreOf(w.on) \in Store
    BY DEF StoreOf, Store
  <1>3. n \in News /\ n.rev \in Nat
    BY <1>1, <1>2, TypesBecome DEF Typed, News
  <1>4. n.rev > c
    BY <1>1, <1>2, <1>3, Types DEF ReadOver
  <1> QED
    BY <1>1, <1>3, <1>4

(* The two forms of a truth.                                                   *)
LEMMA TruthIs ==
  ASSUME NEW S, NEW w
  PROVE  w \in Truths(S) <=>
           \/ \E e \in Entity : w = Memory(e)
           \/ \E e \in Sound : StoreOf(e) \notin S /\ w = Disk(e)
BY DEF Truths

LEMMA TruthFields ==
  ASSUME NEW e
  PROVE  /\ Memory(e).on = e /\ Memory(e).is = ents[e]
         /\ Memory(e).dates = Dates(led, ents[e], e)
         /\ Disk(e).on = e /\ Disk(e).is = savedEnts[e]
         /\ Disk(e).dates = Dates(savedLed, savedEnts[e], e)
BY DEF Memory, Disk

\* The same after a step.
LEMMA TruthBecomes ==
  ASSUME NEW S, NEW w
  PROVE  w \in Truths(S)' <=>
           \/ \E e \in Entity : w = Memory(e)'
           \/ \E e \in Sound' : StoreOf(e) \notin S /\ w = Disk(e)'
BY DEF Truths

LEMMA FieldsBecome ==
  ASSUME NEW e
  PROVE  /\ Memory(e)'.on = e /\ Memory(e)'.is = ents'[e]
         /\ Memory(e)'.dates = Dates(led', ents'[e], e)
         /\ Disk(e)'.on = e /\ Disk(e)'.is = savedEnts'[e]
         /\ Disk(e)'.dates = Dates(savedLed', savedEnts'[e], e)
BY DEF Memory, Disk

(* A change.                                                                   *)
LEMMA ChangeStep ==
  ASSUME BridgeInv, NEW s \in Store, ChangeEffect(s)
  PROVE  BridgeInv' /\ Moves
  <1> USE Types
  <1>0. /\ ~Open(s) /\ Open(s)' /\ due[s] = <<>> /\ due' = due
        /\ \A o \in Store \ {s} : tx'[o] = tx[o]
        /\ savedLed' = savedLed /\ savedEnts' = savedEnts /\ openRead' = openRead
        /\ ahead' = ahead
        /\ BridgeTypeOK'
        /\ led'.store = led.store /\ led'.rev > led.rev
        /\ led'.horizon >= led.horizon /\ led'.horizon <= led'.rev
        /\ tx'[s].todo = {n.id : n \in NewsOf(s)'}
        /\ \A n \in NewsOf(s)' : NewsEffect(s, n)
        /\ \A e \in Entity \ tx'[s].todo : ents'[e] = ents[e] /\ Buried(e)
        /\ \A e \in Entity : EntityEffect(e)
    BY DEF ChangeEffect
  <1>2. led'.rev \in Nat /\ led'.horizon \in Nat /\ NewsOf(s)' \subseteq News
        /\ \A e \in Entity : led'.tomb[e] \in Nat /\ ents'[e] \in Nat
    <2>1. tx'[s].news \in Seq(News)
      BY <1>0 DEF BridgeTypeOK
    <2> QED
      BY <1>0, <2>1 DEF BridgeTypeOK, Ledger, NewsOf
  <1>3. \A o \in Store \ {s} : NewsOf(o)' = NewsOf(o) /\ (Open(o)' <=> Open(o))
    BY <1>0 DEF NewsOf, Open
  <1>4. \A e \in Entity : StoreOf(e) # s => e \notin tx'[s].todo
    BY <1>0 DEF NewsEffect
  <1>5. \A e \in Entity : ~Torn(e)' => ~Torn(e)
    <2> SUFFICES ASSUME NEW e \in Entity, ~Torn(e)' PROVE ~Torn(e)
      OBVIOUS
    <2>1. CASE StoreOf(e) = s
      BY <1>0, <2>1, ClosedStore
    <2>2. CASE StoreOf(e) # s
      BY <1>0, <1>3, <2>2 DEF Torn, LateLedger, EarlyLedger
    <2> QED
      BY <2>1, <2>2
  <1>7. LedgerInv'
    BY <1>0, <1>2 DEF BridgeInv, LedgerInv, EntityEffect
  <1>8. OneTrace'
    BY <1>0 DEF OneTrace, EntityEffect
  <1>9. TxInv'
    <2> SUFFICES ASSUME NEW o \in Store
                 PROVE  /\ tx'[o].todo \subseteq {n.id : n \in NewsOf(o)'}
                        /\ \A n \in NewsOf(o)' :
                             /\ StoreOf(n.id) = o
                             /\ n.rev > 0 /\ n.rev <= led'.rev
                             /\ ents'[n.id] = Value(n)
                             /\ Holds(led', n)
                             /\ n.rev <= savedLed'.rev => Holds(savedLed', n)
      BY DEF TxInv
    <2>1. CASE o = s
      <3>1. \A n \in NewsOf(s)' : n.rev > savedLed.rev
        BY <1>0, <1>2 DEF NewsEffect, BridgeInv, LedgerInv, News
      <3> QED
        BY <1>0, <1>2, <2>1, <3>1 DEF NewsEffect, News, Value
    <2>2. CASE o # s
      <3>1. tx'[o].todo \subseteq {n.id : n \in NewsOf(o)'}
        BY <1>0, <1>3, <2>2 DEF BridgeInv, TxInv
      <3>2. ASSUME NEW n \in NewsOf(o)'
            PROVE  /\ StoreOf(n.id) = o
                   /\ n.rev > 0 /\ n.rev <= led'.rev
                   /\ ents'[n.id] = Value(n)
                   /\ Holds(led', n)
                   /\ n.rev <= savedLed'.rev => Holds(savedLed', n)
        <4>1. n \in NewsOf(o) /\ n \in News
          BY <1>3, <2>2
        <4>2. /\ StoreOf(n.id) = o /\ n.rev > 0 /\ n.rev <= led.rev
              /\ ents[n.id] = Value(n)
              /\ Holds(led, n)
              /\ n.rev <= savedLed.rev => Holds(savedLed, n)
          BY <4>1 DEF BridgeInv, TxInv
        <4>3. n.id \in Entity /\ n.rev \in Nat /\ n.id \notin tx'[s].todo
          BY <1>4, <2>2, <4>1, <4>2 DEF News
        <4>4. ents'[n.id] = ents[n.id] /\ Buried(n.id) /\ EntityEffect(n.id)
          BY <1>0, <4>3
        <4>5. Holds(led', n)
          BY <1>0, <1>2, <4>2, <4>3, <4>4 DEF Holds, Buried, EntityEffect, Absent
        <4> QED
          BY <1>0, <1>2, <4>2, <4>3, <4>4, <4>5
      <3> QED
        BY <3>1, <3>2
    <2> QED
      BY <2>1, <2>2
  <1>10. OnDisk'
    <2> SUFFICES ASSUME ~ahead, NEW e \in Entity
                 PROVE  /\ e \notin tx'[StoreOf(e)].todo => savedEnts'[e] = ents'[e]
                        /\ ~Torn(e)' /\ savedEnts'[e] # Absent => savedLed'.tomb[e] = Absent
      BY <1>0 DEF OnDisk
    <2>1. CASE StoreOf(e) = s
      BY <1>0, <1>5, <2>1, ClosedStore DEF BridgeInv, OnDisk
    <2>2. CASE StoreOf(e) # s
      BY <1>0, <1>4, <1>5, <2>2 DEF BridgeInv, OnDisk
    <2> QED
      BY <2>1, <2>2
  <1>11. CounterOnDisk'
    BY <1>0 DEF CounterOnDisk
  <1>12. OpenReadInv'
    BY <1>0, <1>3 DEF BridgeInv, OpenReadInv
  <1>13. DueInv'
    BY <1>0, <1>3 DEF BridgeInv, DueInv
  <1>14. BridgeInv'
    BY <1>0, <1>7, <1>8, <1>9, <1>10, <1>11, <1>12, <1>13 DEF BridgeInv
  <1>15. Moved
    <2>1. \A o \in Store : Open(o) => Open(o)'
      BY <1>0, <1>3
    <2>2. openRead' = Left(openRead)
      BY <1>0, <2>1 DEF Left, BridgeInv, OpenReadInv
    <2>3. \A n \in NewsOf(s)' : n.rev > led.rev
      BY <1>0, <1>2 DEF NewsEffect, News
    <2>4. Fresh(s)
      <3>1. NewsOf(s) = {}
        BY <1>0
      <3>2. \A n, m \in NewsOf(s)' : n.rev = m.rev => n = m
        BY DEF ChangeEffect
      <3> QED
        BY <1>3, <2>3, <3>1, <3>2, Zenon DEF Fresh
    <2>6. \A o \in Store : NewsOf(o)' \in {NewsOf(o), {}} \/ Fresh(o)
      BY <1>3, <2>4, Zenon
    <2>5. led'.rev >= led.rev /\ savedLed'.rev >= savedLed.rev
      BY <1>0, <1>2
    <2> QED
      BY <1>0, <2>2, <2>5, <2>6, Zenon DEF Moved
  <1>16. ASSUME NEW S \in SUBSET {o \in Store : Open(o)}, NEW w \in Truths(S)'
         PROVE  Same(w, Truths(S)) \/ Anew(w, S)
    <2>1. ASSUME NEW e \in Entity, w = Memory(e)', e \in tx'[s].todo
          PROVE  Anew(w, S)
      <3>1. PICK n \in NewsOf(s)' : n.id = e
        BY <1>0, <2>1
      <3>2. /\ n \in News /\ StoreOf(e) = s /\ n.rev > led.rev
            /\ ents'[e] = Value(n) /\ Holds(led', n)
        BY <1>0, <1>2, <3>1 DEF NewsEffect, News, Value
      <3>3. w.on = e /\ w.is = ents'[e] /\ w.dates = Dates(led', ents'[e], e)
        BY <2>1, FieldsBecome
      <3>4. n.rev \in Dates(led', ents'[e], e)
        BY <1>2, <3>1, <3>2 DEF Dates, Value, Holds, News, Absent
      <3> QED
        BY <3>1, <3>2, <3>3, <3>4 DEF Anew
    <2>2. ASSUME NEW e \in Entity, w = Memory(e)', e \notin tx'[s].todo
          PROVE  Same(w, Truths(S))
      <3>1. ents'[e] = ents[e] /\ Buried(e)
        BY <1>0, <2>2
      <3>2. w.on = e /\ w.is = ents'[e] /\ w.dates = Dates(led', ents'[e], e)
        BY <2>2, FieldsBecome
      <3>3. Dates(led, ents[e], e) \subseteq Dates(led', ents'[e], e)
        BY <1>0, <1>2, <3>1 DEF Dates, Buried
      <3>4. Memory(e) \in Truths(S)
        BY TruthIs
      <3> QED
        BY <3>1, <3>2, <3>3, <3>4, TruthFields DEF Same
    <2>3. ASSUME NEW e \in Sound', StoreOf(e) \notin S, w = Disk(e)'
          PROVE  Same(w, Truths(S))
      <3>1. e \in Sound
        BY <1>0, <1>5, <2>3 DEF Sound
      <3>2. Disk(e)' = Disk(e)
        BY <1>0 DEF Disk, Dates
      <3>3. Disk(e) \in Truths(S)
        BY <2>3, <3>1, TruthIs
      <3> QED
        BY <2>3, <3>2, <3>3 DEF Same
    <2> QED
      BY <1>16, <2>1, <2>2, <2>3, TruthBecomes
  <1>17. ASSUME NEW S \in SUBSET {o \in Store : Open(o)}, NEW c \in Nat, Taken(c, S)
         PROVE  Taken(c, S)'
    <2>1. c <= led.rev /\ ReadOver(c) \subseteq S /\ (S = {} /\ Calm => Durable(c))
      BY <1>17 DEF Taken
    <2>2. c <= led'.rev
      BY <1>0, <1>2, <2>1
    <2>3. ReadOver(c)' \subseteq ReadOver(c)
      <3> SUFFICES ASSUME NEW o \in Store, NEW n \in NewsOf(o)', n.rev <= c
                   PROVE  \E m \in NewsOf(o) : m.rev <= c
        BY DEF ReadOver
      <3>1. o # s
        BY <1>0, <1>2, <2>1 DEF NewsEffect, News
      <3> QED
        BY <1>3, <3>1
    <2>4. Calm' => Calm
      BY <1>0, <1>5 DEF Calm
    <2>5. Durable(c) => Durable(c)'
      BY <1>0 DEF Durable
    <2> QED
      BY <2>1, <2>2, <2>3, <2>4, <2>5 DEF Taken
  <1>18. ASSUME NEW S \in SUBSET {o \in Store : Open(o)}, NEW R \in SUBSET S, R = Left(S)
         PROVE  TruthsMove(S, R) /\ TakenMoves(S, R)
    <2>1. R = S
      BY <1>0, <1>3, <1>18 DEF Left
    <2> QED
      BY <1>16, <1>17, <2>1 DEF TruthsMove, TakenMoves
  <1> QED
    BY <1>14, <1>15, <1>18 DEF Moves

(* A write: what is written becomes true of the disk, if nothing of it is torn. *)
LEMMA WriteStep ==
  ASSUME BridgeInv, NEW s \in Store, NEW D, WriteEffect(s, D)
  PROVE  BridgeInv' /\ Moves
  <1> USE Types
  <1>0. /\ D \subseteq tx[s].todo /\ D # {}
        /\ \A e \in Entity : savedEnts'[e] \in {savedEnts[e], ents[e]}
        /\ ~ahead => \A e \in Entity : savedEnts'[e] = IF e \in D THEN ents[e] ELSE savedEnts[e]
        /\ tx'[s].news = tx[s].news /\ tx'[s].todo = tx[s].todo \ D
        /\ \A o \in Store \ {s} : tx'[o] = tx[o]
        /\ led' = led /\ ents' = ents /\ savedLed' = savedLed /\ openRead' = openRead
        /\ ahead' = ahead /\ due' = due
    BY DEF WriteEffect
  <1>1. \A o \in Store : /\ NewsOf(o)' = NewsOf(o) /\ (Open(o)' <=> Open(o))
                        /\ tx'[o].todo \subseteq tx[o].todo
    BY <1>0 DEF NewsOf, Open
  <1>2. \A e \in D : e \in Entity /\ StoreOf(e) = s /\ \E n \in NewsOf(s) : n.id = e
    <2>1. tx[s].todo \subseteq {n.id : n \in NewsOf(s)} /\ \A n \in NewsOf(s) : StoreOf(n.id) = s
      BY DEF BridgeInv, TxInv
    <2> QED
      BY <1>0, <2>1
  <1>3. NewsOf(s) # {} /\ Open(s)
    BY <1>0, <1>2
  <1>4. ASSUME ~ahead, NEW e \in Entity \ D
        PROVE  Torn(e)' <=> Torn(e)
    <2>1. savedEnts'[e] = savedEnts[e]
          /\ (e \in tx'[StoreOf(e)].todo <=> e \in tx[StoreOf(e)].todo)
      BY <1>0, <1>4
    <2> QED
      BY <1>0, <1>1, <2>1 DEF Torn, LateLedger, EarlyLedger
  (* What is known of an entity that was just written.                         *)
  <1>5. ASSUME ~ahead, NEW e \in D, ~Torn(e)'
        PROVE  \E n \in NewsOf(s) :
                 /\ n.id = e /\ n.rev \in Nat /\ n.rev > 0
                 /\ savedEnts'[e] = Value(n)
                 /\ n.gone => n.rev <= savedLed.rev
                 /\ Holds(savedLed, n)
    <2>1. PICK n \in NewsOf(s) : n.id = e
      BY <1>2
    <2>2. /\ e \in Entity /\ StoreOf(e) = s /\ n \in News /\ n.rev \in Nat
          /\ e \notin tx'[s].todo
      BY <1>0, <1>2 DEF News
    <2>3. /\ ents[e] = Value(n) /\ n.rev > 0
          /\ n.rev <= savedLed.rev => Holds(savedLed, n)
      BY <2>1 DEF BridgeInv, TxInv
    <2>4. ~LateLedger(s, n)'
      BY <1>1, <1>5, <2>1, <2>2 DEF Torn
    <2>5. ~(n.gone \/ savedLed.tomb[e] # Absent) \/ n.rev <= savedLed.rev
      BY <1>0, <2>1, <2>2, <2>4 DEF LateLedger
    <2>6. n.gone => n.rev <= savedLed.rev
      BY <2>5
    <2>7. Holds(savedLed, n)
      BY <2>1, <2>3, <2>5 DEF Holds
    <2> QED
      BY <1>0, <1>5, <2>1, <2>2, <2>3, <2>6, <2>7
  <1>6. LedgerInv' /\ OneTrace'
    BY <1>0 DEF BridgeInv, LedgerInv, OneTrace
  <1>7. TxInv'
    <2>1. \A o \in Store : tx'[o].todo \subseteq {n.id : n \in NewsOf(o)'}
      BY <1>1 DEF BridgeInv, TxInv
    <2> QED
      BY <1>0, <1>1, <2>1 DEF BridgeInv, TxInv, Holds
  <1>8. OnDisk'
    <2> SUFFICES ASSUME ~ahead, NEW e \in Entity
                 PROVE  /\ e \notin tx'[StoreOf(e)].todo => savedEnts'[e] = ents'[e]
                        /\ ~Torn(e)' /\ savedEnts'[e] # Absent => savedLed'.tomb[e] = Absent
      BY <1>0 DEF OnDisk
    <2>1. CASE e \in D
      <3>1. ~Torn(e)' /\ savedEnts'[e] # Absent => savedLed.tomb[e] = Absent
        BY <1>5, <2>1 DEF Value, Holds
      <3> QED
        BY <1>0, <2>1, <3>1
    <2>2. CASE e \notin D
      <3>1. savedEnts'[e] = savedEnts[e] /\ (Torn(e)' <=> Torn(e))
        BY <1>0, <1>4, <2>2
      <3>2. e \notin tx'[StoreOf(e)].todo => e \notin tx[StoreOf(e)].todo
        BY <1>0, <2>2
      <3> QED
        BY <1>0, <3>1, <3>2 DEF BridgeInv, OnDisk
    <2> QED
      BY <2>1, <2>2
  <1>9. CounterOnDisk'
    BY <1>0, <1>1, <1>3 DEF BridgeInv, CounterOnDisk
  <1>10. OpenReadInv' /\ DueInv'
    BY <1>0, <1>1 DEF BridgeInv, OpenReadInv, DueInv
  <1>11. BridgeInv'
    BY <1>6, <1>7, <1>8, <1>9, <1>10 DEF BridgeInv, WriteEffect
  <1>12. Moved
    <2>1. openRead' = Left(openRead)
      BY <1>0, <1>1 DEF Left, BridgeInv, OpenReadInv
    <2>2. led'.store = led.store /\ led'.rev >= led.rev /\ savedLed'.rev >= savedLed.rev
      BY <1>0
    <2>3. \A o \in Store : NewsOf(o)' \in {NewsOf(o), {}}
      BY <1>1, Zenon
    <2> QED
      BY <2>1, <2>2, <2>3, Zenon DEF Moved
  <1>13. ASSUME NEW S \in SUBSET {o \in Store : Open(o)}, NEW w \in Truths(S)'
         PROVE  Same(w, Truths(S)) \/ Anew(w, S)
    <2>1. ASSUME NEW e \in Entity, w = Memory(e)' PROVE Same(w, Truths(S))
      <3>1. Memory(e)' = Memory(e)
        BY <1>0 DEF Memory, Dates
      <3>2. Memory(e) \in Truths(S)
        BY TruthIs
      <3> QED
        BY <2>1, <3>1, <3>2 DEF Same
    <2>2. ASSUME NEW e \in Sound', StoreOf(e) \notin S, w = Disk(e)', e \notin D
          PROVE  Same(w, Truths(S))
      <3>1. e \in Entity /\ ~ahead /\ ~Torn(e)'
        BY <1>0, <2>2 DEF Sound
      <3>2. e \in Sound /\ savedEnts'[e] = savedEnts[e]
        BY <1>0, <1>4, <2>2, <3>1 DEF Sound
      <3>3. Disk(e)' = Disk(e)
        BY <1>0, <3>2 DEF Disk, Dates
      <3>4. Disk(e) \in Truths(S)
        BY <2>2, <3>2, TruthIs
      <3> QED
        BY <2>2, <3>3, <3>4 DEF Same
    <2>3. ASSUME NEW e \in Sound', StoreOf(e) \notin S, w = Disk(e)', e \in D
          PROVE  Anew(w, S)
      <3>1. e \in Entity /\ ~ahead /\ ~Torn(e)' /\ StoreOf(e) = s
        BY <1>0, <1>2, <2>3 DEF Sound
      <3>2. PICK n \in NewsOf(s) :
              /\ n.id = e /\ n.rev \in Nat /\ n.rev > 0
              /\ savedEnts'[e] = Value(n)
              /\ n.gone => n.rev <= savedLed.rev
              /\ Holds(savedLed, n)
        BY <1>5, <2>3, <3>1
      <3>3. w.on = e /\ w.is = savedEnts'[e] /\ w.dates = Dates(savedLed, savedEnts'[e], e)
        BY <1>0, <2>3, FieldsBecome
      <3>4. n.rev \in Dates(savedLed, savedEnts'[e], e)
        BY <3>1, <3>2 DEF Dates, Value, Holds, Absent
      <3> QED
        BY <1>1, <2>3, <3>1, <3>2, <3>3, <3>4 DEF Anew
    <2> QED
      BY <1>13, <2>1, <2>2, <2>3, TruthBecomes
  <1>14. ASSUME NEW S \in SUBSET {o \in Store : Open(o)}, NEW c \in Nat, Taken(c, S)
         PROVE  Taken(c, S)'
    <2>1. c <= led.rev /\ ReadOver(c) \subseteq S
      BY <1>14 DEF Taken
    <2>2. ReadOver(c)' = ReadOver(c)
      BY <1>1 DEF ReadOver
    <2>3. ASSUME S = {}, Calm' PROVE Durable(c)'
      <3>1. PICK e \in D : e \in Entity /\ ~Torn(e)'
        BY <1>0, <1>2, <2>3 DEF Calm
      <3>2. ~ahead
        BY <1>0, <2>3 DEF Calm
      <3>3. PICK n \in NewsOf(s) :
              /\ n.id = e /\ n.rev \in Nat /\ n.rev > 0
              /\ savedEnts'[e] = Value(n)
              /\ n.gone => n.rev <= savedLed.rev
        BY <1>5, <3>1, <3>2
      <3>4. c < n.rev
        BY <2>1, <2>3, <3>3 DEF ReadOver
      <3> QED
        BY <1>0, <3>1, <3>3, <3>4 DEF Durable, Value
    <2> QED
      BY <1>0, <2>1, <2>2, <2>3 DEF Taken
  <1>15. ASSUME NEW S \in SUBSET {o \in Store : Open(o)}, NEW R \in SUBSET S, R = Left(S)
         PROVE  TruthsMove(S, R) /\ TakenMoves(S, R)
    <2>1. R = S
      BY <1>1, <1>15 DEF Left
    <2> QED
      BY <1>13, <1>14, <2>1 DEF TruthsMove, TakenMoves
  <1> QED
    BY <1>11, <1>12, <1>15 DEF Moves

(* A transaction ends: on disk, or with a write that failed.                   *)
LEMMA EndsEffect ==
  ASSUME BridgeInv, NEW s \in Store, Flush(s) \/ FailWrite(s)
  PROVE  /\ BridgeTypeOK'
         /\ NewsOf(s)' = {} /\ ~Open(s)' /\ tx'[s].todo = {}
         /\ \A o \in Store \ {s} : /\ NewsOf(o)' = NewsOf(o) /\ tx'[o] = tx[o]
                                   /\ (Open(o)' <=> Open(o))
         /\ openRead' = openRead \ {s} /\ openRead' = Left(openRead)
         /\ \A S \in SUBSET {o \in Store : Open(o)} : Left(S) = S \ {s}
         /\ \A c \in Nat : ReadOver(c)' = ReadOver(c) \ {s}
  <1> USE Types
  <1>0. /\ tx'[s] = NoTx /\ \A o \in Store \ {s} : tx'[o] = tx[o]
        /\ openRead' = openRead \ {s}
    BY DEF Flush, FailWrite, BridgeInv, BridgeTypeOK
  <1>1. BridgeTypeOK'
    <2>1. NoTx \in [news : Seq(News), todo : SUBSET Entity]
      BY DEF NoTx
    <2>2. tx[s].news \in Seq(News)
      BY DEF BridgeInv, BridgeTypeOK
    <2>3. due' \in [Store -> Seq(News)]
      BY <2>2 DEF Flush, FailWrite, BridgeInv, BridgeTypeOK
    <2> QED
      BY <1>0, <2>1, <2>3 DEF Flush, FailWrite, BridgeInv, BridgeTypeOK
  <1>2. NewsOf(s)' = {} /\ ~Open(s)' /\ tx'[s].todo = {}
    BY <1>0 DEF NewsOf, Open, NoTx
  <1>3. \A o \in Store \ {s} : NewsOf(o)' = NewsOf(o) /\ (Open(o)' <=> Open(o))
    BY <1>0 DEF NewsOf, Open
  <1>4. \A S \in SUBSET {o \in Store : Open(o)} : Left(S) = S \ {s}
    BY <1>2, <1>3 DEF Left
  <1>5. openRead' = Left(openRead)
    BY <1>0, <1>4 DEF BridgeInv, OpenReadInv
  <1>6. \A c \in Nat : ReadOver(c)' = ReadOver(c) \ {s}
    BY <1>2, <1>3 DEF ReadOver
  <1> QED
    BY <1>0, <1>1, <1>2, <1>3, <1>4, <1>5, <1>6

LEMMA EndsMoved ==
  ASSUME BridgeInv, NEW s \in Store, Flush(s) \/ FailWrite(s)
  PROVE  Moved
  <1> USE Types
  <1>1. led'.store = led.store /\ led'.rev >= led.rev /\ savedLed'.rev >= savedLed.rev
    BY DEF Flush, FailWrite, BridgeInv, LedgerInv
  <1>2. \A o \in Store : NewsOf(o)' \in {NewsOf(o), {}}
    BY EndsEffect, Zenon
  <1>3. openRead' = Left(openRead)
    BY EndsEffect
  <1> QED
    BY <1>1, <1>2, <1>3, Zenon DEF Moved

(* An entity the flush of another store finds still to be written is not torn  *)
(* by it only if it is updated and was on disk.                                *)
LEMMA FlushedUnder ==
  ASSUME BridgeInv, NEW s \in Store, Flush(s), ~ahead', NEW e \in Entity, ~Torn(e)',
         savedEnts[e] # ents[e]
  PROVE  /\ StoreOf(e) # s /\ ~ahead /\ ~Torn(e)
         /\ savedEnts[e] # Absent /\ ents[e] # Absent
  <1> USE Types
  <1> DEFINE o == StoreOf(e)
  <1>0. /\ savedLed' = led /\ savedEnts' = savedEnts
        /\ ahead' = (ahead /\ ((\E x \in Store \ {s} : Open(x)) \/ savedEnts # ents))
        /\ tx[s].todo = {}
    BY DEF Flush
  <1>1. ~ahead
    BY <1>0
  <1>2. e \in tx[o].todo /\ o \in Store \ {s}
    BY <1>0, <1>1 DEF BridgeInv, OnDisk
  <1>3. NewsOf(o)' = NewsOf(o) /\ tx'[o] = tx[o]
    BY <1>2, EndsEffect
  <1>4. \A n \in NewsOf(o) : n.id = e => ~n.gone /\ savedEnts[e] # Absent
    <2> SUFFICES ASSUME NEW n \in NewsOf(o), n.id = e
                 PROVE  ~n.gone /\ savedEnts[e] # Absent
      OBVIOUS
    <2>1. ~EarlyLedger(o, n)'
      BY <1>3 DEF Torn
    <2>2. n.rev <= led.rev
      BY <1>2 DEF BridgeInv, TxInv
    <2> QED
      BY <1>0, <1>2, <1>3, <2>1, <2>2 DEF EarlyLedger
  <1>5. PICK n \in NewsOf(o) : n.id = e
    <2>1. tx[o].todo \subseteq {n.id : n \in NewsOf(o)}
      BY <1>2 DEF BridgeInv, TxInv
    <2> QED
      BY <1>2, <2>1
  <1>6. ents[e] = n.rev /\ n.rev > 0 /\ n \in News
    BY <1>2, <1>4, <1>5 DEF BridgeInv, TxInv, Value
  <1>7. ~Torn(e)
    BY <1>2, <1>4 DEF Torn, LateLedger, EarlyLedger
  <1> QED
    BY <1>1, <1>2, <1>4, <1>5, <1>6, <1>7 DEF Absent, News

LEMMA FlushStep ==
  ASSUME BridgeInv, NEW s \in Store, Flush(s)
  PROVE  BridgeInv' /\ Moves
  <1> USE Types
  <1>0. /\ savedLed' = led /\ led' = led /\ ents' = ents /\ savedEnts' = savedEnts
        /\ ahead' = (ahead /\ ((\E x \in Store \ {s} : Open(x)) \/ savedEnts # ents))
        /\ tx[s].todo = {} /\ due' = [due EXCEPT ![s] = tx[s].news]
    BY DEF Flush
  <1>1. /\ BridgeTypeOK'
        /\ NewsOf(s)' = {} /\ ~Open(s)' /\ tx'[s].todo = {}
        /\ \A o \in Store \ {s} : /\ NewsOf(o)' = NewsOf(o) /\ tx'[o] = tx[o]
                                  /\ (Open(o)' <=> Open(o))
        /\ openRead' = openRead \ {s} /\ openRead' = Left(openRead)
        /\ \A S \in SUBSET {o \in Store : Open(o)} : Left(S) = S \ {s}
        /\ \A c \in Nat : ReadOver(c)' = ReadOver(c) \ {s}
    BY EndsEffect
  <1>2. LedgerInv' /\ OneTrace'
    BY <1>0 DEF BridgeInv, LedgerInv, OneTrace
  <1>3. TxInv'
    BY <1>0, <1>1 DEF BridgeInv, TxInv, Holds
  <1>4. OnDisk'
    <2> SUFFICES ASSUME ~ahead', NEW e \in Entity
                 PROVE  /\ e \notin tx'[StoreOf(e)].todo => savedEnts[e] = ents[e]
                        /\ ~Torn(e)' /\ savedEnts[e] # Absent => led.tomb[e] = Absent
      BY <1>0 DEF OnDisk
    <2>1. e \notin tx'[StoreOf(e)].todo => savedEnts[e] = ents[e]
      <3>1. CASE ~ahead
        BY <1>0, <1>1, <3>1 DEF BridgeInv, OnDisk
      <3> QED
        BY <1>0, <3>1
    <2>2. ASSUME ~Torn(e)', savedEnts[e] # Absent PROVE ents[e] # Absent
      BY <2>2, FlushedUnder
    <2> QED
      BY <2>1, <2>2 DEF BridgeInv, OneTrace
  <1>5. CounterOnDisk'
    BY <1>0 DEF CounterOnDisk, Durable
  <1>6. OpenReadInv'
    BY <1>1 DEF BridgeInv, OpenReadInv
  <1>7. DueInv'
    <2> SUFFICES ASSUME NEW o \in Store, due'[o] # <<>> PROVE ~Open(o)'
      BY DEF DueInv
    <2>1. o # s => due'[o] = due[o]
      BY <1>0 DEF BridgeInv, BridgeTypeOK
    <2> QED
      BY <1>1, <2>1 DEF BridgeInv, DueInv
  <1>8. BridgeInv'
    BY <1>1, <1>2, <1>3, <1>4, <1>5, <1>6, <1>7 DEF BridgeInv
  <1>9. ASSUME NEW S \in SUBSET {o \in Store : Open(o)}, NEW R, R = S \ {s},
               NEW w \in Truths(R)'
        PROVE  Same(w, Truths(S))
    <2>1. ASSUME NEW e \in Entity,
                 w.on = e, w.is = ents[e], w.dates = Dates(led, ents[e], e)
          PROVE  Same(w, Truths(S))
      <3>1. Memory(e) \in Truths(S)
        BY TruthIs
      <3> QED
        BY <2>1, <3>1, TruthFields DEF Same
    <2>2. ASSUME NEW e \in Entity, w = Memory(e)' PROVE Same(w, Truths(S))
      BY <1>0, <2>1, <2>2, FieldsBecome
    <2>3. ASSUME NEW e \in Sound', StoreOf(e) \notin R, w = Disk(e)'
          PROVE  Same(w, Truths(S))
      <3>1. e \in Entity /\ ~ahead' /\ ~Torn(e)'
        BY <2>3 DEF Sound
      <3>2. w.on = e /\ w.is = savedEnts[e] /\ w.dates = Dates(led, savedEnts[e], e)
        BY <1>0, <2>3, FieldsBecome
      <3>3. CASE savedEnts[e] = ents[e]
        BY <2>1, <3>1, <3>2, <3>3
      <3>4. CASE savedEnts[e] # ents[e]
        <4>1. StoreOf(e) # s /\ ~ahead /\ ~Torn(e) /\ savedEnts[e] # Absent
          BY <3>1, <3>4, FlushedUnder
        <4>2. StoreOf(e) \notin S /\ e \in Sound
          BY <1>9, <2>3, <3>1, <4>1 DEF Sound
        <4>3. Disk(e) \in Truths(S)
          BY <4>2, TruthIs
        <4>4. Dates(led, savedEnts[e], e) = Dates(savedLed, savedEnts[e], e)
          BY <4>1 DEF Dates
        <4> QED
          BY <3>2, <4>3, <4>4, TruthFields DEF Same
      <3> QED
        BY <3>3, <3>4
    <2> QED
      BY <1>9, <2>2, <2>3, TruthBecomes
  <1>10. ASSUME NEW S \in SUBSET {o \in Store : Open(o)}, NEW R, R = S \ {s},
                NEW c \in Nat, Taken(c, S)
         PROVE  Taken(c, R)'
    <2>1. c <= led.rev /\ ReadOver(c) \subseteq S
      BY <1>10 DEF Taken
    <2>2. Durable(c)'
      BY <1>0, <2>1 DEF Durable
    <2>3. ReadOver(c)' \subseteq R
      BY <1>1, <1>10, <2>1
    <2> QED
      BY <1>0, <2>1, <2>2, <2>3 DEF Taken
  <1>11. ASSUME NEW S \in SUBSET {o \in Store : Open(o)}, NEW R \in SUBSET S, R = Left(S)
         PROVE  TruthsMove(S, R) /\ TakenMoves(S, R)
    <2>1. R = S \ {s}
      BY <1>1, <1>11
    <2> QED
      BY <1>9, <1>10, <2>1 DEF TruthsMove, TakenMoves
  <1> QED
    BY <1>8, <1>11, EndsMoved DEF Moves

LEMMA FailStep ==
  ASSUME BridgeInv, NEW s \in Store, FailWrite(s)
  PROVE  BridgeInv' /\ Moves
  <1> USE Types
  <1>0. /\ savedLed' = savedLed /\ led' = led /\ ents' = ents /\ savedEnts' = savedEnts
        /\ ahead' = TRUE /\ due' = due
    BY DEF FailWrite
  <1>1. /\ BridgeTypeOK'
        /\ NewsOf(s)' = {} /\ ~Open(s)' /\ tx'[s].todo = {}
        /\ \A o \in Store \ {s} : /\ NewsOf(o)' = NewsOf(o) /\ tx'[o] = tx[o]
                                  /\ (Open(o)' <=> Open(o))
        /\ openRead' = openRead \ {s} /\ openRead' = Left(openRead)
        /\ \A S \in SUBSET {o \in Store : Open(o)} : Left(S) = S \ {s}
        /\ \A c \in Nat : ReadOver(c)' = ReadOver(c) \ {s}
    BY EndsEffect
  <1>2. LedgerInv' /\ OneTrace'
    BY <1>0 DEF BridgeInv, LedgerInv, OneTrace
  <1>3. TxInv'
    BY <1>0, <1>1 DEF BridgeInv, TxInv, Holds
  <1>4. OnDisk' /\ CounterOnDisk'
    BY <1>0 DEF OnDisk, CounterOnDisk
  <1>5. OpenReadInv' /\ DueInv'
    BY <1>0, <1>1 DEF BridgeInv, OpenReadInv, DueInv
  <1>6. BridgeInv'
    BY <1>1, <1>2, <1>3, <1>4, <1>5 DEF BridgeInv
  <1>7. ASSUME NEW S \in SUBSET {o \in Store : Open(o)}, NEW R, NEW w \in Truths(R)'
        PROVE  Same(w, Truths(S))
    <2>1. Sound' = {}
      BY <1>0 DEF Sound
    <2>2. PICK e \in Entity : w = Memory(e)'
      BY <1>7, <2>1, TruthBecomes
    <2>3. Memory(e)' = Memory(e)
      BY <1>0 DEF Memory, Dates
    <2>4. Memory(e) \in Truths(S)
      BY TruthIs
    <2> QED
      BY <2>2, <2>3, <2>4 DEF Same
  <1>8. ASSUME NEW S \in SUBSET {o \in Store : Open(o)}, NEW R, R = S \ {s},
               NEW c \in Nat, Taken(c, S)
        PROVE  Taken(c, R)'
    <2>1. c <= led.rev /\ ReadOver(c) \subseteq S /\ ~Calm'
      BY <1>0, <1>8 DEF Taken, Calm
    <2>2. ReadOver(c)' \subseteq R
      BY <1>1, <1>8, <2>1
    <2> QED
      BY <1>0, <2>1, <2>2 DEF Taken
  <1>9. ASSUME NEW S \in SUBSET {o \in Store : Open(o)}, NEW R \in SUBSET S, R = Left(S)
        PROVE  TruthsMove(S, R) /\ TakenMoves(S, R)
    <2>1. R = S \ {s}
      BY <1>1, <1>9
    <2> QED
      BY <1>7, <1>8, <2>1 DEF TruthsMove, TakenMoves
  <1> QED
    BY <1>6, <1>9, EndsMoved DEF Moves

(* What is kept of all but due and openRead depends on nothing else.           *)
Untouched == UNCHANGED <<led, ents, savedLed, savedEnts, tx, ahead>>

LEMMA UntouchedStep ==
  ASSUME BridgeInv, Untouched
  PROVE  /\ \A s \in Store : NewsOf(s)' = NewsOf(s) /\ (Open(s)' <=> Open(s))
         /\ LedgerInv' /\ OneTrace' /\ TxInv' /\ OnDisk' /\ CounterOnDisk'
         /\ \A S : Truths(S)' = Truths(S)
         /\ \A S : \A c \in Nat : Taken(c, S)' <=> Taken(c, S)
         /\ \A c \in Nat : ReadOver(c)' = ReadOver(c)
  <1> USE Types
  <1>1. /\ led' = led /\ ents' = ents /\ savedLed' = savedLed /\ savedEnts' = savedEnts
        /\ tx' = tx /\ ahead' = ahead
    BY DEF Untouched
  <1>2. \A s \in Store : NewsOf(s)' = NewsOf(s) /\ (Open(s)' <=> Open(s))
    BY <1>1 DEF NewsOf, Open
  <1>3. \A e \in Entity : Torn(e)' <=> Torn(e)
    BY <1>1, <1>2 DEF Torn, LateLedger, EarlyLedger
  <1>4. LedgerInv' /\ OneTrace' /\ OnDisk'
    BY <1>1, <1>3 DEF BridgeInv, LedgerInv, OneTrace, OnDisk
  <1>5. TxInv' /\ CounterOnDisk'
    BY <1>1, <1>2 DEF BridgeInv, TxInv, Holds, CounterOnDisk, Durable
  <1>6. \A e \in Entity : Memory(e)' = Memory(e) /\ Disk(e)' = Disk(e)
    BY <1>1 DEF Memory, Disk, Dates
  <1>7. Sound' = Sound /\ (Calm' <=> Calm)
    BY <1>1, <1>3 DEF Sound, Calm
  <1>8. ASSUME NEW S PROVE Truths(S)' = Truths(S)
    <2>1. \A e \in Sound : e \in Entity
      BY DEF Sound
    <2>2. \A w : w \in Truths(S)' <=> w \in Truths(S)
      BY <1>6, <1>7, <2>1, TruthIs, TruthBecomes
    <2> QED
      BY <2>2
  <1>9. \A c \in Nat : ReadOver(c)' = ReadOver(c)
    BY <1>2 DEF ReadOver
  <1>10. \A c \in Nat : Durable(c)' <=> Durable(c)
    BY <1>1 DEF Durable
  <1>11. \A S : \A c \in Nat : Taken(c, S)' <=> Taken(c, S)
    BY <1>1, <1>7, <1>9, <1>10 DEF Taken
  <1> QED
    BY <1>2, <1>4, <1>5, <1>8, <1>9, <1>11

LEMMA AnnouncedStep ==
  ASSUME BridgeInv, NEW s \in Store, Announced(s)
  PROVE  BridgeInv' /\ Untouched /\ openRead' = openRead
  <1>1. Untouched /\ openRead' = openRead /\ due' = [due EXCEPT ![s] = <<>>]
    BY DEF Announced, Untouched
  <1>2. BridgeTypeOK'
    <2>1. <<>> \in Seq(News)
      OBVIOUS
    <2>2. due' \in [Store -> Seq(News)]
      BY <1>1, <2>1 DEF BridgeInv, BridgeTypeOK
    <2> QED
      BY <1>1, <2>2 DEF BridgeInv, BridgeTypeOK, Untouched
  <1>3. DueInv'
    <2> SUFFICES ASSUME NEW o \in Store, due'[o] # <<>> PROVE ~Open(o)'
      BY DEF DueInv
    <2>1. due'[o] = due[o]
      BY <1>1 DEF BridgeInv, BridgeTypeOK
    <2>2. ~Open(o)
      BY <2>1 DEF BridgeInv, DueInv
    <2> QED
      BY <1>1, <2>2, UntouchedStep
  <1>4. OpenReadInv'
    BY <1>1, UntouchedStep DEF BridgeInv, OpenReadInv
  <1> QED
    BY <1>1, <1>2, <1>3, <1>4, UntouchedStep DEF BridgeInv

(* A client is answered over open transactions.                                *)
LEMMA AnsweredStep ==
  ASSUME BridgeInv, NEW c \in Nat, Untouched, due' = due,
         openRead' = openRead \cup ReadOver(c)
  PROVE  BridgeInv'
  <1>1. ReadOver(c) \subseteq {s \in Store : Open(s)}
    BY Types DEF ReadOver
  <1>2. OpenReadInv' /\ DueInv'
    BY <1>1, UntouchedStep DEF BridgeInv, OpenReadInv, DueInv
  <1>3. openRead' \in SUBSET Store
    BY <1>1 DEF BridgeInv, BridgeTypeOK
  <1>4. BridgeTypeOK'
    BY <1>3 DEF BridgeInv, BridgeTypeOK, Untouched
  <1> QED
    BY <1>2, <1>4, UntouchedStep DEF BridgeInv

LEMMA StillStep ==
  ASSUME BridgeInv, Untouched, due' = due, openRead' = openRead
  PROVE  BridgeInv'
  <1>1. OpenReadInv' /\ DueInv'
    BY UntouchedStep DEF BridgeInv, OpenReadInv, DueInv
  <1>2. BridgeTypeOK'
    BY DEF BridgeInv, BridgeTypeOK, Untouched
  <1> QED
    BY <1>1, <1>2, UntouchedStep DEF BridgeInv

(* A restart: what was on disk is now in memory.                               *)
RestartEffect ==
  /\ openRead = {} /\ openRead' = {} /\ led'.store = led.store
  /\ \A s \in Store : NewsOf(s)' = {} /\ due'[s] = <<>>
  /\ \A w \in Truths({})' : w \in Truths({})
  /\ \A c \in Nat : Taken(c, {}) => Taken(c, {})'

LEMMA RestartStep ==
  ASSUME BridgeInv, SafeSchedules, Restart
  PROVE  BridgeInv' /\ RestartEffect
  <1> USE Types
  <1>1. ~ahead /\ openRead = {} /\ \A e \in Entity : ~Torn(e)
    BY DEF Restart, SafeSchedules, Torn
  <1>2. PICK r \in Observed(savedLed.rev, {savedEnts[e] : e \in Entity}) :
          led' = [savedLed EXCEPT !.rev = r]
    BY DEF Restart
  <1>3. /\ r \in Nat /\ r >= savedLed.rev /\ \A e \in Entity : r >= savedEnts[e]
        /\ r = savedLed.rev \/ \E e \in Entity : r = savedEnts[e]
    BY <1>2 DEF Observed
  <1>4. /\ led' \in Ledger /\ led'.rev = r
        /\ led'.store = savedLed.store /\ led'.horizon = savedLed.horizon
        /\ led'.tomb = savedLed.tomb
    BY <1>2, <1>3 DEF BridgeInv, BridgeTypeOK, Ledger
  <1>5. /\ ents' = savedEnts /\ savedEnts' = savedEnts /\ savedLed' = savedLed
        /\ tx' = [s \in Store |-> NoTx] /\ due' = [s \in Store |-> <<>>]
        /\ openRead' = {} /\ ahead' = FALSE
    BY DEF Restart
  <1>6. NoTx \in [news : Seq(News), todo : SUBSET Entity]
    BY DEF NoTx
  <1>7. BridgeTypeOK'
    <2>1. tx' \in [Store -> [news : Seq(News), todo : SUBSET Entity]]
      BY <1>5, <1>6
    <2>2. due' \in [Store -> Seq(News)]
      BY <1>5
    <2>3. ahead' \in BOOLEAN
      BY <1>5
    <2>4. led' \in Ledger /\ savedLed' \in Ledger /\ openRead' \in SUBSET Store
          /\ ents' \in [Entity -> Nat] /\ savedEnts' \in [Entity -> Nat]
      BY <1>4, <1>5 DEF BridgeInv, BridgeTypeOK
    <2> QED
      BY <2>1, <2>2, <2>3, <2>4 DEF BridgeTypeOK
  <1>8. \A s \in Store : NewsOf(s)' = {} /\ tx'[s].todo = {} /\ due'[s] = <<>>
    BY <1>5 DEF NewsOf, NoTx
  <1>9. LedgerInv'
    BY <1>3, <1>4, <1>5 DEF BridgeInv, LedgerInv
  <1>10. OneTrace'
    BY <1>1, <1>4, <1>5 DEF BridgeInv, OnDisk, OneTrace
  <1>11. TxInv' /\ OpenReadInv' /\ DueInv'
    BY <1>5, <1>8 DEF TxInv, OpenReadInv, DueInv
  <1>12. OnDisk'
    BY <1>1, <1>5 DEF BridgeInv, OnDisk
  <1>13. CounterOnDisk'
    BY <1>3, <1>4, <1>5 DEF CounterOnDisk, Durable
  <1>14. BridgeInv'
    BY <1>7, <1>9, <1>10, <1>11, <1>12, <1>13 DEF BridgeInv
  <1>15. led'.store = led.store
    BY <1>4 DEF BridgeInv, LedgerInv
  <1>16. Sound = Entity /\ Calm
    BY <1>1 DEF Sound, Calm
  <1>17. \A e \in Entity : Memory(e)' = Disk(e) /\ Disk(e)' = Disk(e)
    BY <1>4, <1>5 DEF Memory, Disk, Dates
  <1>18. ASSUME NEW w \in Truths({})' PROVE w \in Truths({})
    <2>1. Sound' \subseteq Entity
      BY DEF Sound
    <2>2. PICK e \in Entity : w = Disk(e)
      BY <1>17, <1>18, <2>1, TruthBecomes
    <2> QED
      BY <1>16, <2>2, TruthIs
  <1>19. ASSUME NEW c \in Nat, Taken(c, {}) PROVE Taken(c, {})'
    <2>1. Durable(c)
      BY <1>16, <1>19 DEF Taken
    <2>2. c <= r
      BY <1>3, <2>1 DEF Durable
    <2>3. Durable(c)'
      BY <1>5, <2>1 DEF Durable
    <2>4. ReadOver(c)' = {}
      BY <1>8 DEF ReadOver
    <2> QED
      BY <1>4, <2>2, <2>3, <2>4 DEF Taken
  <1> QED
    BY <1>1, <1>5, <1>8, <1>14, <1>15, <1>18, <1>19 DEF RestartEffect

(* The state of a bridge that starts from nothing.                             *)
Empty(n) ==
  /\ led = EmptyLedger(n) /\ savedLed = EmptyLedger(n)
  /\ ents = NothingStored /\ savedEnts = NothingStored
  /\ tx = [s \in Store |-> NoTx] /\ due = [s \in Store |-> <<>>]
  /\ openRead = {} /\ ahead = FALSE

LEMMA EmptyInv ==
  ASSUME NEW n \in Nat \ {0}, Empty(n)
  PROVE  /\ BridgeInv /\ led.store = n /\ led.rev = 0 /\ savedLed.rev = 0
         /\ \A s \in Store : NewsOf(s) = {} /\ due[s] = <<>>
         /\ ReadOver(0) = {} /\ Durable(0)
         /\ \A w \in Truths({}) : w.on \in Entity /\ w.is = Absent
  <1> USE DEF Empty
  <1>1. /\ EmptyLedger(n) \in Ledger
        /\ EmptyLedger(n).store = n /\ EmptyLedger(n).rev = 0 /\ EmptyLedger(n).horizon = 0
        /\ \A e \in Entity : EmptyLedger(n).tomb[e] = Absent
    BY DEF EmptyLedger, Ledger, Absent
  <1>2. NoTx \in [news : Seq(News), todo : SUBSET Entity]
    BY DEF NoTx
  <1>3. NothingStored \in [Entity -> Nat] /\ \A e \in Entity : NothingStored[e] = Absent
    BY DEF NothingStored, Absent
  <1>4. BridgeTypeOK
    <2>1. tx \in [Store -> [news : Seq(News), todo : SUBSET Entity]]
      BY <1>2
    <2>2. due \in [Store -> Seq(News)]
      OBVIOUS
    <2>3. ahead \in BOOLEAN
      OBVIOUS
    <2>4. led \in Ledger /\ savedLed \in Ledger /\ openRead \in SUBSET Store
          /\ ents \in [Entity -> Nat] /\ savedEnts \in [Entity -> Nat]
      BY <1>1, <1>3
    <2> QED
      BY <2>1, <2>2, <2>3, <2>4 DEF BridgeTypeOK
  <1>5. \A s \in Store : NewsOf(s) = {} /\ tx[s].todo = {} /\ due[s] = <<>>
    BY DEF NewsOf, NoTx
  <1>6. LedgerInv /\ OneTrace
    BY <1>1, <1>3 DEF LedgerInv, OneTrace, Absent
  <1>7. TxInv /\ OnDisk /\ OpenReadInv /\ DueInv
    BY <1>1, <1>3, <1>5 DEF TxInv, OnDisk, OpenReadInv, DueInv
  <1>8. Durable(0) /\ CounterOnDisk
    BY <1>1 DEF CounterOnDisk, Durable
  <1>9. ReadOver(0) = {}
    BY <1>5 DEF ReadOver
  <1>10. ASSUME NEW w \in Truths({}) PROVE w.on \in Entity /\ w.is = Absent
    <2>1. \/ \E e \in Entity : w = Memory(e)
          \/ \E e \in Sound : w = Disk(e)
      BY <1>10, TruthIs
    <2>2. Sound \subseteq Entity
      BY DEF Sound
    <2> QED
      BY <1>3, <2>1, <2>2, TruthFields
  <1> QED
    BY <1>1, <1>4, <1>5, <1>6, <1>7, <1>8, <1>9, <1>10 DEF BridgeInv

\* What EmptyInv says, of a state and of the next.
EmptyFacts(n) ==
  /\ BridgeInv /\ led.store = n
  /\ openRead = {}
  /\ \A s \in Store : NewsOf(s) = {} /\ due[s] = <<>>

LEMMA EmptyBecomes ==
  ASSUME NEW n \in Nat \ {0}
  PROVE  Empty(n)' => EmptyFacts(n)'
  <1>1. Empty(n) => EmptyFacts(n)
    BY EmptyInv DEF EmptyFacts, Empty
  <1> QED
    BY <1>1, PTL

LEMMA RecreateStep ==
  ASSUME BridgeInv, Recreate
  PROVE  /\ BridgeInv' /\ led'.store = led.store + 1
         /\ openRead' = {}
         /\ \A s \in Store : NewsOf(s)' = {} /\ due'[s] = <<>>
  <1>1. PICK n \in Nat \ {0} : n = led.store + 1
    BY Types
  <1>2. Empty(n)'
    BY <1>1 DEF Recreate, Empty
  <1> QED
    BY <1>1, <1>2, EmptyBecomes DEF EmptyFacts
================================================================================
